------------------------------ MODULE RagAnswers ------------------------------
(***************************************************************************)
(* Answers from documents that the chunker has cut: RagCompletion over the *)
(* collection that Chunker fills, so that what the chunker makes of a page *)
(* can be followed into the prompt.                                        *)
(***************************************************************************)
EXTENDS Chunker, RagCompletion

CONSTANTS
  Documents,
  Corpora,      \* the pages there may be of each document
  Questions     \* the bodies of the request

VARIABLES
  pages,        \* the pages of each document
  stored        \* the chunks of each, as they are in the collection

corpusVars == <<pages, stored>>
allVars == <<corpusVars, vars>>

(* So many chunks of the intended size fit into the context, as they do by *)
(* the settings: five of 500 characters into 8000.                         *)
ASSUME AnswersAssumption == TopK * (Label + ChunkSize + 3) <= MaxContext + 2

ASSUME CorporaAssumption ==
  \A corpus \in Corpora : \A d \in Documents :
    corpus[d] \in Seq(Seq(Texts)) /\ \A p \in DOMAIN corpus[d] : IsPage(corpus[d][p])

(* max_tokens has been converted by int().                                 *)
ASSUME QuestionsAssumption == \A body \in Questions : body.tokens \in Int

-----------------------------------------------------------------------------

(* search_chunks returns the texts with their document.                    *)
Indexed ==
  [id \in UNION {DOMAIN stored[d] : d \in Documents} |->
     [doc |-> id[1], size |-> Length(stored[id[1]][id].text)]]

Init ==
  /\ pages \in Corpora
  /\ stored = [d \in Documents |-> Stored(d, pages[d])]
  /\ \E body \in Questions : InitWith(Indexed, body)

Spec == Init /\ [][Next /\ UNCHANGED corpusVars]_allVars

FairSpec == Spec /\ WF_allVars(Progress /\ UNCHANGED corpusVars)

-----------------------------------------------------------------------------
(* Properties.                                                             *)

(* The texts of the collection that are of a page, in their order.  They   *)
(* do not change: the two properties of them look at the first state only. *)
TextsOf(d, p) ==
  LET ids == {i \in 1..Cardinality(DOMAIN stored[d]) : stored[d][<<d, i>>].page = p}
  IN  [k \in 1..Cardinality(ids) |-> stored[d][<<d, Min(ids) + k - 1>>].text]

(* The collection holds every sentence of every page, in order, and twice  *)
(* only what chunks overlap by: no flush of chunk_document loses its text, *)
(* no page's ids hide another's (chunker.py:41-130).                       *)
ChunksCoverThePages ==
  step = "posted" =>
    \A d \in Documents : \A p \in DOMAIN pages[d] :
      Covers(TextsOf(d, p), Len(FlattenSeq(pages[d][p])))

(* A chunk exceeds the configured size by the one character that the      *)
(* comparison forgets, and by more in two cases only.  It is one sentence, *)
(* which is never split, or it ends with a paragraph that met a chunk that *)
(* was open, which is not even split into its sentences: the fallbacks by  *)
(* sentences and by words that docs/rag-architecture.md:58,180-182         *)
(* describes do not reach them (chunker.py:61-79).                         *)
ChunksAreBounded ==
  step = "posted" =>
    \A d \in Documents : \A p \in DOMAIN pages[d] :
      LET texts == TextsOf(d, p)
      IN  \A k \in DOMAIN texts : Bounded(texts[k], pages[d][p])

(* The model is shown the best of the chunks whose sources the client has  *)
(* been told: a cut takes the worst of them, never all.  The first request *)
(* loses those only that stand behind a chunk of more than the intended    *)
(* size; the retry loses more if the prompt exceeds RetryChars, although   *)
(* the citations were sent before and it is the retry that answers         *)
(* (rag_completion.py:49-56,126-128,162-191).                              *)
BestSourcesAreShown ==
  \A i \in DOMAIN calls :
    \E k \in 1..Len(hits) :
      /\ calls[i].labels = {hits[j].doc : j \in 1..k}
      /\ k < Len(hits) =>
           \/ \E j \in 1..k : hits[j].size > ChunkSize + 1
           \/ i = 2 /\ calls[1].prompt > RetryChars

=============================================================================
