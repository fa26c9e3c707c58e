----------------------------- MODULE ChatLimiter -----------------------------
(***************************************************************************)
(* apps/inference/services/concurrency.py: the limiter of the Django chat  *)
(* path.  It differs from the gateway's in two ways: the QUEUE_DEPTH gauge *)
(* is itself the count of waiting requests, and the task that waits can be *)
(* cancelled, because Django cancels a view whose client has left.         *)
(***************************************************************************)
EXTENDS AsyncioSemaphore

CONSTANT QueueSize   \* INFERENCE_QUEUE_SIZE, a positive number

VARIABLES
  depth,      \* the value of QUEUE_DEPTH
  cancelled   \* the requests whose task was cancelled while it waited

vars == <<value, waiters, slot, depth, cancelled>>

Init ==
  /\ SemaphoreInit
  /\ depth = 0
  /\ cancelled = {}

-----------------------------------------------------------------------------

\* acquire when the semaphore is not locked: the gauge is left alone.
Admit(r) ==
  /\ AcquireNow(r)
  /\ UNCHANGED <<depth, cancelled>>

\* Faulty variant of Enqueue: the place of the newcomer itself is forgotten.
EnqueueOneTooMany(r) ==
  /\ depth < QueueSize
  /\ AcquireWait(r)
  /\ depth' = depth + 1
  /\ UNCHANGED cancelled

Enqueue(r) ==
  /\ depth + 1 < QueueSize
  /\ AcquireWait(r)
  /\ depth' = depth + 1
  /\ UNCHANGED cancelled

\* The gauge goes up and down again with no await in between.
RejectOverload(r) ==
  /\ slot[r] = "none"
  /\ Locked
  /\ depth + 1 >= QueueSize
  /\ UNCHANGED vars

TimerFires(r) ==
  /\ Expire(r)
  /\ UNCHANGED <<depth, cancelled>>

\* The task of r is cancelled from outside.  It will leave with CancelledError,
\* also when its own timer has fired.
Cancel(r) ==
  /\ slot[r] \in InDeque /\ r \notin cancelled
  /\ slot' = [slot EXCEPT ![r] = CASE @ = "pending" -> "expired"
                                   [] @ = "woken"   -> "handback"
                                   [] OTHER         -> @]
  /\ cancelled' = cancelled \cup {r}
  /\ UNCHANGED <<value, waiters, depth>>

\* Faulty variant of Resume: a timeout leaves the gauge up.
ResumeStillCounted(r) ==
  /\ ResumeAcquire(r)
  /\ depth' = IF slot[r] = "woken" THEN depth - 1 ELSE depth
  /\ UNCHANGED cancelled

\* The waiting task runs again: the gauge goes down after a wait that ended with
\* a slot or with TimeoutError, and stays up after one that was cancelled.
Resume(r) ==
  /\ ResumeAcquire(r)
  /\ depth' = IF r \in cancelled THEN depth ELSE depth - 1
  /\ UNCHANGED cancelled

ReleaseSlot(r) ==
  /\ Release(r)
  /\ UNCHANGED <<depth, cancelled>>

Next ==
  \E r \in Requests :
    \/ Admit(r)
    \/ Enqueue(r)
    \/ RejectOverload(r)
    \/ TimerFires(r)
    \/ Cancel(r)
    \/ Resume(r)
    \/ ReleaseSlot(r)

Spec == Init /\ [][Next]_vars

TypeOK ==
  /\ SemaphoreTypeOK
  /\ depth \in 0..(QueueSize - 1)
  /\ cancelled \subseteq Requests

=============================================================================
