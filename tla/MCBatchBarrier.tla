--------------------------- MODULE MCBatchBarrier ---------------------------
(***************************************************************************)
(* A finite instance of BatchBarrier for TLC: five requests, for a full    *)
(* batch and the beginning of another.                                     *)
(***************************************************************************)
EXTENDS BatchBarrier

CONSTANTS r1, r2, r3, r4, r5

FiveRequests == {r1, r2, r3, r4, r5}

=============================================================================
