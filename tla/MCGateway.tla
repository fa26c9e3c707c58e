----------------------------- MODULE MCGateway -----------------------------
(***************************************************************************)
(* Finite instances of Gateway for TLC: two requests ask for a stream, the *)
(* others do not.                                                          *)
(***************************************************************************)
EXTENDS Gateway, TLC

CONSTANTS r1, r2, r3, r4

FourRequests == {r1, r2, r3, r4}
ThreeRequests == {r1, r2, r3}
TwoStreams == {r1, r2}

\* The requests of each kind are interchangeable; used by the safety run only.
Symmetry == Permutations({r1, r2}) \cup Permutations({r3, r4})

=============================================================================
