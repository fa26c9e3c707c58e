---------------------------- MODULE MCRagIngestion ----------------------------
(***************************************************************************)
(* A finite instance of RagIngestion for TLC: two documents and two        *)
(* deletions, which may be of the same document.                           *)
(***************************************************************************)
EXTENDS RagIngestion

CONSTANTS d1, d2, x1, x2

TwoDocuments == {d1, d2}
TwoDeletions == {x1, x2}

=============================================================================
