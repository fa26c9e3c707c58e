---------------------------- MODULE GroupBarrier ----------------------------
(***************************************************************************)
(* What gateway/batcher.py promises: whoever waits at the barrier is let   *)
(* through with everybody else who waits, at one moment.  When the gate    *)
(* opens is left to BatchBarrier.                                          *)
(***************************************************************************)
CONSTANT Requests

VARIABLES
  waiting,   \* the requests at the barrier
  passed     \* the requests that were let through

vars == <<waiting, passed>>

Init == waiting = {} /\ passed = {}

Arrive(r) ==
  /\ r \notin waiting \cup passed
  /\ waiting' = waiting \cup {r}
  /\ UNCHANGED passed

OpenGate ==
  /\ waiting # {}
  /\ waiting' = {}
  /\ passed' = passed \cup waiting

Next == OpenGate \/ \E r \in Requests : Arrive(r)

Spec == Init /\ [][Next]_vars

=============================================================================
