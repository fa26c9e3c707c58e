------------------------ MODULE MCConcurrencyLimiter ------------------------
(***************************************************************************)
(* Finite instances of ConcurrencyLimiter for TLC.                         *)
(***************************************************************************)
EXTENDS ConcurrencyLimiter

\* Requests are interchangeable; used by the safety runs only.
Symmetry == Permutations(Requests)

=============================================================================
