------------------------------ MODULE SlotPool ------------------------------
(***************************************************************************)
(* What gateway/concurrency.py promises its callers: at most               *)
(* MaxConcurrency requests use the upstream at once, at most QueueSize     *)
(* more are kept waiting for their turn, and a request that waits is       *)
(* either served or given up.  How waiting requests are woken, and what a  *)
(* timer can do to one that has just been woken, is left to                *)
(* ConcurrencyLimiter.                                                     *)
(***************************************************************************)
EXTENDS Integers, FiniteSets

CONSTANTS Requests, MaxConcurrency, QueueSize

VARIABLES
  using,   \* the requests that own a slot
  line     \* the requests that wait for one

vars == <<using, line>>

Init == using = {} /\ line = {}

\* A newcomer takes a slot only when nobody waits for one.
Enter(r) ==
  /\ r \notin using /\ line = {}
  /\ Cardinality(using) < MaxConcurrency
  /\ using' = using \cup {r}
  /\ UNCHANGED line

Join(r) ==
  /\ r \notin using \cup line
  /\ Cardinality(line) < QueueSize
  /\ line' = line \cup {r}
  /\ UNCHANGED using

GiveUp(r) ==
  /\ r \in line
  /\ line' = line \ {r}
  /\ UNCHANGED using

\* Requests `gone` give their slots back; requests `next` of the line get one.
Pass(gone, next) ==
  /\ gone \subseteq using
  /\ next \subseteq line
  /\ using' = (using \ gone) \cup next
  /\ line' = line \ next
  /\ Cardinality(using') <= MaxConcurrency

Next ==
  \/ \E r \in Requests : Enter(r) \/ Join(r) \/ GiveUp(r)
  \/ \E gone \in SUBSET Requests, next \in SUBSET Requests : Pass(gone, next)

Spec == Init /\ [][Next]_vars

=============================================================================
