---------------------------- MODULE BatchBarrier ----------------------------
(***************************************************************************)
(* gateway/batcher.py: the barrier that holds requests back for a short    *)
(* window so that they reach the upstream together.                        *)
(*                                                                         *)
(* A request waits once (main.py:384).  The batcher's lock is held only    *)
(* over code without an await, so on the gateway's single event loop it is *)
(* never contended and each method runs without interruption up to its one *)
(* suspension: event.wait() in wait, asyncio.sleep in _timer_flush.  The   *)
(* tasks made by create_task run later, in any order; timers, which all    *)
(* sleep for the same window, elapse in the order they were started.       *)
(***************************************************************************)
EXTENDS Integers, SequencesExt

CONSTANTS
  Requests,
  MaxBatch    \* max_batch_size

ASSUME BarrierAssumption ==
  /\ IsFiniteSet(Requests)
  /\ MaxBatch \in Nat \ {0}

VARIABLES
  pending,    \* _pending
  timerGen,   \* _timer_gen
  asleep,     \* the _timer_flush tasks in asyncio.sleep
  due,        \* those whose sleep is over and that have yet to run
  flushes,    \* how many _flush tasks of full batches have yet to run
  stage,      \* where each request is
  batches,    \* _BATCH_TOTAL_DISPATCHES
  batched     \* _BATCH_TOTAL_REQS

vars == <<pending, timerGen, asleep, due, flushes, stage, batches, batched>>

\* "released": its event is set and its task has yet to resume.
Stages == {"out", "waiting", "released", "through"}

\* A timer carries the generation it was started for; the request that opened
\* that window is recorded for the properties only.
Timers == [gen : Nat, opener : Requests]

Init ==
  /\ pending = <<>> /\ timerGen = 0
  /\ asleep = <<>> /\ due = <<>> /\ flushes = 0
  /\ stage = [r \in Requests |-> "out"]
  /\ batches = 0 /\ batched = 0

-----------------------------------------------------------------------------

\* Faulty variants of Enter: the generation moves with every request; the
\* generation does not move.
EnterAlwaysNewGen(r) ==
  /\ stage[r] = "out"
  /\ stage' = [stage EXCEPT ![r] = "waiting"]
  /\ pending' = Append(pending, r)
  /\ timerGen' = timerGen + 1
  /\ asleep' = IF pending = <<>> THEN Append(asleep, [gen |-> timerGen + 1, opener |-> r])
               ELSE asleep
  /\ flushes' = IF Len(pending) + 1 >= MaxBatch THEN flushes + 1 ELSE flushes
  /\ UNCHANGED <<due, batches, batched>>

EnterSameGen(r) ==
  /\ stage[r] = "out"
  /\ stage' = [stage EXCEPT ![r] = "waiting"]
  /\ pending' = Append(pending, r)
  /\ asleep' = IF pending = <<>> THEN Append(asleep, [gen |-> timerGen, opener |-> r])
               ELSE asleep
  /\ flushes' = IF Len(pending) + 1 >= MaxBatch THEN flushes + 1 ELSE flushes
  /\ UNCHANGED <<due, timerGen, batches, batched>>

\* wait() up to event.wait(): the first of a batch starts its timer, and each
\* request that finds the batch full creates a task to flush it.
Enter(r) ==
  /\ stage[r] = "out"
  /\ stage' = [stage EXCEPT ![r] = "waiting"]
  /\ pending' = Append(pending, r)
  /\ IF pending = <<>>
     THEN /\ timerGen' = timerGen + 1
          /\ asleep' = Append(asleep, [gen |-> timerGen + 1, opener |-> r])
     ELSE UNCHANGED <<timerGen, asleep>>
  /\ flushes' = IF Len(pending) + 1 >= MaxBatch THEN flushes + 1 ELSE flushes
  /\ UNCHANGED <<due, batches, batched>>

TimerElapses ==
  /\ asleep # <<>>
  /\ asleep' = Tail(asleep)
  /\ due' = Append(due, Head(asleep))
  /\ UNCHANGED <<pending, timerGen, flushes, stage, batches, batched>>

\* Faulty variant of Flush: only the first MaxBatch are let through.
FlushKeepsRest ==
  LET batch == {pending[i] : i \in DOMAIN pending \cap 1..MaxBatch}
  IN /\ pending' = SubSeq(pending, MaxBatch + 1, Len(pending))
     /\ stage' = [r \in Requests |-> IF r \in batch THEN "released" ELSE stage[r]]
     /\ batches' = IF batch = {} THEN batches ELSE batches + 1
     /\ batched' = batched + Cardinality(batch)

\* _flush, with the metrics of _on_batch_flush: it sets the events of all that
\* are pending, or returns when none is.
Flush ==
  IF pending = <<>> THEN UNCHANGED <<pending, stage, batches, batched>>
  ELSE /\ pending' = <<>>
       /\ stage' = [r \in Requests |->
                      IF \E i \in DOMAIN pending : pending[i] = r THEN "released"
                      ELSE stage[r]]
       /\ batches' = batches + 1
       /\ batched' = batched + Len(pending)

\* A timer task after its sleep: it flushes unless a later window has opened.
RunTimer ==
  /\ due # <<>>
  /\ due' = Tail(due)
  /\ IF Head(due).gen = timerGen THEN Flush
     ELSE UNCHANGED <<pending, stage, batches, batched>>
  /\ UNCHANGED <<timerGen, asleep, flushes>>

\* The task of a full batch.
RunFlush ==
  /\ flushes > 0
  /\ flushes' = flushes - 1
  /\ Flush
  /\ UNCHANGED <<timerGen, asleep, due>>

\* event.wait() returns in the task of r.
Resume(r) ==
  /\ stage[r] = "released"
  /\ stage' = [stage EXCEPT ![r] = "through"]
  /\ UNCHANGED <<pending, timerGen, asleep, due, flushes, batches, batched>>

\* The steps of the barrier's own tasks.
BarrierTask == TimerElapses \/ RunTimer \/ RunFlush

\* Every request is through and no task is left.
Finished ==
  /\ stage = [r \in Requests |-> "through"]
  /\ asleep = <<>> /\ due = <<>> /\ flushes = 0
  /\ UNCHANGED vars

Next ==
  \/ BarrierTask
  \/ \E r \in Requests : Enter(r) \/ Resume(r)
  \/ Finished

Spec == Init /\ [][Next]_vars

\* The loop runs every task that is ready and every timer elapses.  No further
\* request is assumed to arrive.
Fairness ==
  /\ WF_vars(TimerElapses) /\ WF_vars(RunTimer) /\ WF_vars(RunFlush)
  /\ \A r \in Requests : WF_vars(Resume(r))

FairSpec == Spec /\ Fairness

-----------------------------------------------------------------------------

Waiting == {r \in Requests : stage[r] = "waiting"}
Passed == {r \in Requests : stage[r] \in {"released", "through"}}

\* The timer tasks that have yet to run.
Windows == ToSet(asleep) \cup ToSet(due)

TypeOK ==
  /\ pending \in Seq(Requests)
  /\ timerGen \in Nat /\ flushes \in Nat
  /\ asleep \in Seq(Timers) /\ due \in Seq(Timers)
  /\ stage \in [Requests -> Stages]
  /\ batches \in Nat
  /\ batched \in 0..Cardinality(Requests)

\* The list holds exactly the requests whose event is not set, once each.
PendingIsWaiting ==
  /\ \A r \in Requests : stage[r] = "waiting" <=> \E i \in DOMAIN pending : pending[i] = r
  /\ \A i, j \in DOMAIN pending : pending[i] = pending[j] => i = j

\* Nobody is left at the barrier with nothing on its way to open it: a flush
\* task, or the timer of the current generation, whatever stale timers and
\* stale flushes came before (batcher.py:83-99).
NoStrandedWaiter ==
  pending # <<>> => flushes > 0 \/ \E t \in Windows : t.gen = timerGen

\* A timer that is not stale is the one the oldest waiting request started, so
\* it never cuts short the window of a batch that opened after it.
TimerOpensItsOwnWindow ==
  \A t \in Windows : t.gen = timerGen /\ pending # <<>> => t.opener = Head(pending)

\* The totals behind BATCH_EFFICIENCY: each request is counted in one batch,
\* and no batch is empty, so the ratio is between zero and one.
EfficiencyIsSound == batched = Cardinality(Passed) /\ batches <= batched

\* Every request that waits gets through (batcher.py:41-48).
EveryWaiterPasses == \A r \in Requests : stage[r] = "waiting" ~> stage[r] = "through"

\* The barrier lets through all that wait, together.
Group == INSTANCE GroupBarrier WITH waiting <- Waiting, passed <- Passed

ImplementsGroup == Group!Spec

=============================================================================
