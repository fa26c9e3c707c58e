------------------------------- MODULE Chunker -------------------------------
(***************************************************************************)
(* apps/rag/services/chunker.py: a document's pages are cut into chunks,   *)
(* which overlap by whole sentences.                                       *)
(*                                                                         *)
(* A text is a sequence of sentences; of each only its number, its length, *)
(* whether it ends with a stop and the gap of white space in front of it   *)
(* are kept.                                                               *)
(***************************************************************************)
EXTENDS Integers, Sequences, FiniteSetsExt, SequencesExt

CONSTANTS
  ChunkSize,      \* RAG_CHUNK_SIZE
  ChunkOverlap    \* RAG_CHUNK_OVERLAP

ASSUME ChunkerAssumption ==
  /\ ChunkSize \in Nat
  /\ ChunkOverlap \in Nat

WithinParagraph == 1     \* a blank between two sentences
BetweenParagraphs == 2   \* an empty line between two paragraphs

-----------------------------------------------------------------------------

AnySentence == [id : Nat, len : Nat \ {0}, stop : BOOLEAN, gap : Nat]
Texts == Seq(AnySentence)

(* A page is a sequence of paragraphs, which are not empty.  All sentences *)
(* of a paragraph but the last end with a stop, which is what splits them. *)
(* The sentences of a page are numbered through.                           *)
IsPage(page) ==
  /\ page \in Seq(Texts \ {<<>>})
  /\ \A p \in DOMAIN page :
       /\ page[p][1].gap = 0
       /\ page[p][1].id = IF p = 1 THEN 1 ELSE page[p - 1][1].id + Len(page[p - 1])
       /\ \A i \in DOMAIN page[p] :
            /\ page[p][i].id = page[p][1].id + i - 1
            /\ i < Len(page[p]) => page[p][i].stop

(* The length of a text's first n sentences, for every n.                  *)
Lengths(text) ==
  LET length[n \in 0..Len(text)] ==
        IF n = 0 THEN 0 ELSE length[n - 1] + text[n].gap + text[n].len
  IN  length

Length(text) == Lengths(text)[Len(text)]

Opening(text, gap) == [text EXCEPT ![1].gap = gap]

Join(text, gap, more) ==
  IF text = <<>> THEN more ELSE text \o Opening(more, gap)

(* _split_sentences of a text splits it after its stops; an empty line     *)
(* after anything else stays inside the sentence.                          *)
SentenceStarts(text) == {i \in DOMAIN text : i = 1 \/ text[i - 1].stop}

(* The sentences from the i-th on, joined by single blanks.                *)
Respaced(text) ==
  [i \in DOMAIN text |->
     [text[i] EXCEPT !.gap = IF i = 1 THEN 0
                             ELSE IF text[i - 1].stop THEN WithinParagraph ELSE @]]

Ending(text, i) == Respaced(SubSeq(text, i, Len(text)))

\* Faulty variant of Overlap: the last sentence is taken even if it does not fit.
OverlapAtLeastOne(text) ==
  LET fitting == {i \in SentenceStarts(text) : Length(Ending(text, i)) <= ChunkOverlap}
  IN  IF text = <<>> THEN <<>>
      ELSE Ending(text, IF fitting = {} THEN Max(SentenceStarts(text)) ELSE Min(fitting))

(* _compute_overlap: the last sentences, as many as fit.                   *)
Overlap(text) ==
  LET fitting == {i \in SentenceStarts(text) : Length(Ending(text, i)) <= ChunkOverlap}
  IN  IF fitting = {} THEN <<>> ELSE Ending(text, Min(fitting))

(* The comparison allows for one character between the two, whatever they  *)
(* are joined with.                                                        *)
Fits(text, more) == Length(text) + Length(more) + 1 <= ChunkSize

-----------------------------------------------------------------------------
(* chunk_document: `done' are the chunks of a page so far, `current' is    *)
(* current_chunk.                                                          *)

Flushed(st) == IF st.current = <<>> THEN st.done ELSE Append(st.done, st.current)

AddSentence(st, sentence) ==
  IF Fits(st.current, sentence)
    THEN [st EXCEPT !.current = Join(@, WithinParagraph, sentence)]
    ELSE [done |-> Flushed(st), current |-> sentence]

Sentences(para) == [i \in DOMAIN para |-> Opening(<<para[i]>>, 0)]

(* What has become of st by the n-th sentence of a paragraph.              *)
AddSentences(st, para) ==
  LET after[n \in 0..Len(para)] ==
        IF n = 0 THEN st ELSE AddSentence(after[n - 1], Sentences(para)[n])
  IN  after

(* Only a paragraph that meets an empty chunk is split into sentences; any *)
(* other that does not fit is put behind the overlap as it is.             *)
AddParagraph(st, para) ==
  IF Fits(st.current, para) THEN
    [st EXCEPT !.current = Join(@, BetweenParagraphs, para)]
  ELSE IF st.current # <<>> THEN
    [done |-> Flushed(st),
     current |-> Join(Overlap(st.current), BetweenParagraphs, para)]
  ELSE AddSentences(st, para)[Len(para)]

Nothing == [done |-> <<>>, current |-> <<>>]

(* And by the p-th paragraph of a page.                                    *)
AddParagraphs(page) ==
  LET after[p \in 0..Len(page)] ==
        IF p = 0 THEN Nothing ELSE AddParagraph(after[p - 1], page[p])
  IN  after

ChunkDocument(page) == Flushed(AddParagraphs(page)[Len(page)])

(* chunk_pages: the chunks of all pages, in order.                         *)
ChunkPages(pages) ==
  LET OfPage(p) == LET texts == ChunkDocument(pages[p])
                   IN  [i \in DOMAIN texts |-> [page |-> p, index |-> i, text |-> texts[i]]]
  IN  FlattenSeq([p \in DOMAIN pages |-> OfPage(p)])

\* Faulty variant of Renumber: the chunks keep the numbers of their pages.
RenumberNothing(all) == all

(* Its last loop numbers them anew: a chunk's id is that of its document   *)
(* and its place among all of them, not within its page.                   *)
Renumber(all) == [i \in DOMAIN all |-> [all[i] EXCEPT !.index = i]]

(* What the collection holds afterwards of a document; to the collection   *)
(* an id it has already is no news.                                        *)
Stored(doc, pages) ==
  LET all == Renumber(ChunkPages(pages))
      First(k) == Min({i \in DOMAIN all : all[i].index = k})
  IN  [id \in {<<doc, all[i].index>> : i \in DOMAIN all} |-> all[First(id[2])]]

-----------------------------------------------------------------------------
(* What a page must be found to consist of.                                *)

(* In order, without a hole, and nothing is said twice but an overlap.     *)
Covers(texts, last) ==
  LET first(k) == texts[k][1].id
      end(k) == texts[k][Len(texts[k])].id
  IN  /\ \A k \in DOMAIN texts : \A i \in DOMAIN texts[k] :
           texts[k][i].id = first(k) + i - 1
      /\ last > 0 => texts # <<>> /\ first(1) = 1 /\ end(Len(texts)) = last
      /\ \A k \in 2..Len(texts) :
           /\ end(k) > end(k - 1)
           /\ first(k) \in first(k - 1)..end(k - 1) + 1
           /\ Length(SubSeq(texts[k], 1, end(k - 1) + 1 - first(k))) <= ChunkOverlap

(* The whole of a paragraph that a chunk ends with.                        *)
IsParagraph(text, page) ==
  \E p \in DOMAIN page : [i \in DOMAIN text |-> text[i].id] = [i \in DOMAIN page[p] |-> page[p][i].id]

(* A text is too long by one character at most, or it is a single          *)
(* sentence, or a whole paragraph behind at most an overlap.               *)
Bounded(text, page) ==
  \/ Length(text) <= ChunkSize + 1
  \/ Len(text) = 1
  \/ \E i \in DOMAIN text :
       /\ Length(SubSeq(text, 1, i - 1)) <= ChunkOverlap
       /\ IsParagraph(SubSeq(text, i, Len(text)), page)

=============================================================================
