------------------------------ MODULE MCApiKeys ------------------------------
(***************************************************************************)
(* A finite instance of ApiKeys for TLC: one creation, one form, one       *)
(* operator, two requests and three minutes, at the end of which a counter *)
(* of the first has expired.                                               *)
(***************************************************************************)
EXTENDS ApiKeys, TLC

CONSTANTS c1, f1, o1, r1, r2

OneCreator == {c1}
OneForm == {f1}
OneOperator == {o1}
TwoRequests == {r1, r2}
TwoLimits == {0, 1}

Symmetry == Permutations(TwoRequests)

=============================================================================
