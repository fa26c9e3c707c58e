-------------------------- MODULE AsyncioSemaphore --------------------------
(***************************************************************************)
(* asyncio.Semaphore as gateway/concurrency.py uses it: every acquire that *)
(* may wait is wrapped in asyncio.wait_for, so a waiter's timer can fire   *)
(* before or after its future is given a slot.                             *)
(*                                                                         *)
(* External to the repository: it is modelled from the calls the code      *)
(* makes (locked, acquire, release) on one event loop, where a task runs   *)
(* without interruption from one suspension to the next.  The tasks a      *)
(* wake-up makes ready may resume in any order.                            *)
(***************************************************************************)
EXTENDS Integers, SequencesExt

CONSTANTS
  Requests,         \* the requests that contend for the semaphore
  MaxConcurrency,   \* Semaphore(settings.inference_max_concurrency)
  WakesAll          \* TRUE: a resumed waiter wakes waiters while slots are
                    \* left (Python 3.13); FALSE: at most one (3.11, 3.12)

ASSUME SemaphoreAssumption ==
  /\ IsFiniteSet(Requests)
  /\ MaxConcurrency \in Nat \ {0}
  /\ WakesAll \in BOOLEAN

VARIABLES
  value,     \* Semaphore._value
  waiters,   \* Semaphore._waiters, in arrival order
  slot       \* what each request has to do with the semaphore

(***************************************************************************)
(* "pending"   its future is in the deque, not done                        *)
(* "woken"     its future has a result (a slot), its task has yet to resume*)
(* "expired"   its timer cancelled the future, its task has yet to resume  *)
(* "handback"  its timer fired after the wake-up: the task will resume with*)
(*             CancelledError and give the slot back                       *)
(* "held"      acquire() returned                                          *)
(***************************************************************************)
SlotStates == {"none", "pending", "woken", "expired", "handback", "held"}

In(states) == {r \in Requests : slot[r] \in states}

Pending == In({"pending"})

InDeque == {"pending", "woken", "expired", "handback"}

\* The states of a request that owns one of the MaxConcurrency slots.
Owning == {"woken", "handback", "held"}

SemaphoreInit ==
  /\ value = MaxConcurrency
  /\ waiters = <<>>
  /\ slot = [r \in Requests |-> "none"]

-----------------------------------------------------------------------------

\* Semaphore.locked(): no slot, or somebody whose future is not cancelled.
Locked == value = 0 \/ \E i \in DOMAIN waiters : slot[waiters[i]] # "expired"

Before(q, r) ==
  \E i, j \in DOMAIN waiters : i < j /\ waiters[i] = q /\ waiters[j] = r

Ahead(r) == {q \in Pending : Before(q, r)}

\* Faulty variant of FirstPending: the newest waiters are served first.
LastPending(k) ==
  {r \in Pending : Cardinality({q \in Pending : Before(r, q)}) < k}

\* The waiters that k calls of _wake_up_next() give a slot: the first k whose
\* future is not done.
FirstPending(k) == {r \in Pending : Cardinality(Ahead(r)) < k}

\* Request r goes to state `next`, leaving `free` slots; k wake-ups are tried.
MoveAndWake(r, next, free, k) ==
  /\ value' = free - Cardinality(FirstPending(k))
  /\ slot' = [q \in Requests |-> IF q = r THEN next
                                 ELSE IF q \in FirstPending(k) THEN "woken"
                                 ELSE slot[q]]

PositionOf(r) == CHOOSE i \in DOMAIN waiters : waiters[i] = r

AcquireNow(r) ==
  /\ slot[r] = "none"
  /\ ~Locked
  /\ value' = value - 1
  /\ slot' = [slot EXCEPT ![r] = "held"]
  /\ UNCHANGED waiters

AcquireWait(r) ==
  /\ slot[r] = "none"
  /\ Locked
  /\ waiters' = Append(waiters, r)
  /\ slot' = [slot EXCEPT ![r] = "pending"]
  /\ UNCHANGED value

\* wait_for's timer: it cancels the future, or the task if the future is done.
Expire(r) ==
  /\ \/ slot[r] = "pending" /\ slot' = [slot EXCEPT ![r] = "expired"]
     \/ slot[r] = "woken"   /\ slot' = [slot EXCEPT ![r] = "handback"]
  /\ UNCHANGED <<value, waiters>>

\* Faulty variant of WakeUps: a cancelled task that has a slot to give back
\* does not pass it on.
WakeUpsForgotten(r, free) ==
  IF slot[r] = "woken" /\ free > 0 THEN (IF WakesAll THEN free ELSE 1) ELSE 0

\* How many waiters the resumed task of r tries to wake.
WakeUps(r, free) ==
  IF WakesAll THEN free
  ELSE IF slot[r] = "expired" \/ free = 0 THEN 0 ELSE 1

\* The task of r resumes inside acquire(): it leaves the deque, gives back the
\* slot if it was cancelled with one, and wakes those it can.
ResumeAcquire(r) ==
  LET free == IF slot[r] = "handback" THEN value + 1 ELSE value
      next == IF slot[r] = "woken" THEN "held" ELSE "none"
  IN /\ slot[r] \in {"woken", "expired", "handback"}
     /\ waiters' = RemoveAt(waiters, PositionOf(r))
     /\ MoveAndWake(r, next, free, WakeUps(r, free))

Release(r) ==
  /\ slot[r] = "held"
  /\ MoveAndWake(r, "none", value + 1, 1)
  /\ UNCHANGED waiters

-----------------------------------------------------------------------------

SemaphoreTypeOK ==
  /\ value \in 0..MaxConcurrency
  /\ waiters \in Seq(Requests)
  /\ slot \in [Requests -> SlotStates]

\* No slot is lost or duplicated, whatever the order in which timers fire and
\* woken tasks resume: those in the semaphore and those owned by a request
\* (a woken one, or one that will give its slot back, included) make
\* MaxConcurrency (concurrency.py acquire_slot, release_slot).
SlotsConserved == value + Cardinality(In(Owning)) = MaxConcurrency

\* The deque holds each waiting task once.
DequeIsTheWaiting ==
  /\ \A r \in Requests : slot[r] \in InDeque <=> \E i \in DOMAIN waiters : waiters[i] = r
  /\ \A i, j \in DOMAIN waiters : waiters[i] = waiters[j] => i = j

\* A free slot next to a waiting request is never forgotten: a task that was
\* woken, and will wake others when it resumes, is still on its way.
NoLostWakeUp ==
  value > 0 /\ Pending # {} => In({"woken", "handback"}) # {}

=============================================================================
