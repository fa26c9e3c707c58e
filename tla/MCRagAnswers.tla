----------------------------- MODULE MCRagAnswers -----------------------------
(***************************************************************************)
(* A finite instance of RagAnswers for TLC.  The first page of the first   *)
(* document is any of a broad set of texts, with sentences that exceed a   *)
(* chunk, fill it or the half of it, or fit an overlap; a second page and  *)
(* a second document are fixed.                                            *)
(***************************************************************************)
EXTENDS RagAnswers

CONSTANTS d1, d2

TwoDocuments == {d1, d2}

Sentence(len, stop) == [id |-> 0, len |-> len, stop |-> stop, gap |-> 0]

(* Paragraphs of one or two sentences; only the last may lack its stop.    *)
Paragraphs ==
  {<<Sentence(n, s)>> : n \in {1, 3, 6, 7, 9}, s \in BOOLEAN}
    \cup {<<Sentence(m, TRUE), Sentence(n, s)>> : m, n \in {1, 3, 9}, s \in BOOLEAN}

Numbered(page) ==
  LET before(p) == Len(FlattenSeq(SubSeq(page, 1, p - 1)))
  IN  [p \in DOMAIN page |->
         [i \in DOMAIN page[p] |->
            [page[p][i] EXCEPT !.id = before(p) + i,
                               !.gap = IF i = 1 THEN 0 ELSE WithinParagraph]]]

Half == <<Sentence(3, TRUE)>>
Full == <<Sentence(6, FALSE)>>

FirstPages ==
  {Numbered(page) : page \in UNION {[1..n -> Paragraphs] : n \in 0..2}}
    \cup {Numbered(<<Half, para, Full>>) : para \in Paragraphs}

SomeCorpora ==
  {(d1 :> <<page, Numbered(<<Half>>)>>) @@ (d2 :> <<Numbered(<<Half, Full>>)>>) :
     page \in FirstPages}

Message(role, given) == [role |-> role, given |-> given]

SomeQuestions ==
  [messages : {<<Message("system", FALSE), Message("user", TRUE)>>,
               <<Message("user", TRUE), Message("assistant", FALSE)>>},
   documents : {{}}, tokens : {8}]
    \cup [messages : {<<>>, <<Message("user", FALSE)>>,
                     <<Message("user", TRUE), Message("missing", TRUE)>>},
         documents : {{d1}}, tokens : {3}]
    \cup [messages : {<<Message("user", TRUE)>>}, documents : {{d1}}, tokens : {0, 3}]

=============================================================================
