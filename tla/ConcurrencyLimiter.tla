------------------------- MODULE ConcurrencyLimiter -------------------------
(***************************************************************************)
(* gateway/concurrency.py: acquire_slot and release_slot around an asyncio *)
(* semaphore, with the plain integer _queue_count that bounds how many     *)
(* requests may wait and the QUEUE_DEPTH gauge that reports it.            *)
(*                                                                         *)
(* The gateway runs one event loop (one uvicorn worker), so the code       *)
(* between two awaits is one action.  Nothing cancels a handler that waits *)
(* here but its own timer: the server does not cancel a request whose      *)
(* client has left.                                                        *)
(***************************************************************************)
EXTENDS AsyncioSemaphore

CONSTANT QueueSize   \* settings.inference_queue_size

ASSUME QueueAssumption == QueueSize \in Nat

VARIABLES
  queueCount,   \* _queue_count
  depth         \* the value QUEUE_DEPTH was last set to

semaphoreVars == <<value, waiters, slot>>
vars == <<value, waiters, slot, queueCount, depth>>

Init ==
  /\ SemaphoreInit
  /\ queueCount = 0
  /\ depth = 0

-----------------------------------------------------------------------------

\* acquire_slot when the semaphore is not locked.
Admit(r) ==
  /\ AcquireNow(r)
  /\ depth' = 0
  /\ UNCHANGED queueCount

\* Faulty variant of Enqueue: the bound is compared before counting.
EnqueueOneTooMany(r) ==
  /\ queueCount <= QueueSize
  /\ AcquireWait(r)
  /\ queueCount' = queueCount + 1
  /\ depth' = queueCount + 1

\* acquire_slot when it is locked and there is room to wait.
Enqueue(r) ==
  /\ queueCount + 1 <= QueueSize
  /\ AcquireWait(r)
  /\ queueCount' = queueCount + 1
  /\ depth' = queueCount + 1

\* acquire_slot when there is none: counted and discounted without an await.
RejectOverload(r) ==
  /\ slot[r] = "none"
  /\ Locked
  /\ queueCount + 1 > QueueSize
  /\ depth' = queueCount
  /\ UNCHANGED <<value, waiters, slot, queueCount>>

\* The timer of asyncio.wait_for fires.
TimerFires(r) ==
  /\ Expire(r)
  /\ UNCHANGED <<queueCount, depth>>

\* Faulty variant of Resume: a timeout leaves the request counted.
ResumeStillCounted(r) ==
  /\ ResumeAcquire(r)
  /\ queueCount' = IF slot[r] = "woken" THEN queueCount - 1 ELSE queueCount
  /\ depth' = queueCount'

\* The waiting task runs again, with a slot or with TimeoutError.
Resume(r) ==
  /\ ResumeAcquire(r)
  /\ queueCount' = queueCount - 1
  /\ depth' = queueCount - 1

\* Faulty variant of ReleaseSlot: the handler goes on to release again.
ReleaseAgain(r) ==
  /\ slot[r] = "held"
  /\ value < MaxConcurrency
  /\ MoveAndWake(r, "held", value + 1, 1)
  /\ UNCHANGED <<waiters, queueCount, depth>>

ReleaseSlot(r) ==
  /\ Release(r)
  /\ UNCHANGED <<queueCount, depth>>

Next ==
  \E r \in Requests :
    \/ Admit(r)
    \/ Enqueue(r)
    \/ RejectOverload(r)
    \/ TimerFires(r)
    \/ Resume(r)
    \/ ReleaseSlot(r)

Spec == Init /\ [][Next]_vars

-----------------------------------------------------------------------------

TypeOK ==
  /\ SemaphoreTypeOK
  /\ queueCount \in 0..QueueSize
  /\ depth \in 0..QueueSize

\* _queue_count counts exactly the tasks that are suspended in acquire(), so
\* the bound it is compared with is a bound on waiting requests
\* (concurrency.py:27-53).
CountsTheWaiting == queueCount = Cardinality(In(InDeque))

\* The gauge reads _queue_count unless it was just zeroed by an admission, and
\* then every request still counted has timed out and is about to leave
\* (concurrency.py:41-43 against line 56).
GaugeIsTruthful ==
  depth = queueCount \/ (depth = 0 /\ In(InDeque) = In({"expired"}))

\* The count that refuses requests is that of the tasks suspended in acquire(),
\* and the gauge reads as much but while every one of them has timed out
\* (concurrency.py:27-56).
QueueIsTruthful == CountsTheWaiting /\ GaugeIsTruthful

\* First come, first served: no request gets a slot while another that was
\* waiting before it, and still is, gets none.
NoOvertaking ==
  [][\A q, r \in Requests :
       /\ slot[q] = "pending" /\ slot'[q] = "pending"
       /\ slot[r] \notin Owning /\ slot'[r] \in Owning
       => slot[r] = "pending" /\ ~Before(q, r)]_vars

\* The limiter implements the pool it promises to be.
Pool == INSTANCE SlotPool WITH using <- In(Owning), line <- Pending

ImplementsPool == Pool!Spec

=============================================================================
