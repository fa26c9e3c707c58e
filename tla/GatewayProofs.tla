--------------------------- MODULE GatewayProofs ---------------------------
(***************************************************************************)
(* Theorems about Gateway for any requests, limits, backends and payloads. *)
(***************************************************************************)
EXTENDS Gateway, SequenceTheorems, FiniteSetTheorems, TLAPS

\* Every step of the gateway is a step of the limiter, or leaves it alone.
LEMMA LimiterStep == [Next]_vars => [Limiter!Next]_(Limiter!vars)
<1> SUFFICES ASSUME [Next]_vars PROVE [Limiter!Next]_(Limiter!vars)
  OBVIOUS
<1>0. UNCHANGED limiterVars => UNCHANGED Limiter!vars
  BY DEF limiterVars, Limiter!vars
<1>1. CASE UNCHANGED vars
  BY <1>0, <1>1 DEF vars
<1>2. ASSUME NEW r \in Requests,
             Arrive(r) \/ Dispatch(r) \/ StreamStarts(r) \/ Yields(r) \/ ChunkSent(r)
             \/ LeavesWhileYielding(r) \/ RateLimited(r)
      PROVE  UNCHANGED Limiter!vars
  BY <1>0, <1>2 DEF Arrive, Dispatch, StreamStarts, Yields, ChunkSent,
                    LeavesWhileYielding, RateLimited
<1>3. ASSUME NEW r \in Requests,
             Admitted(r) \/ Queued(r) \/ Refused(r) \/ QueueTimer(r)
             \/ Served(r) \/ TimedOut(r)
      PROVE  Limiter!Next
  BY <1>3 DEF Admitted, Queued, Refused, QueueTimer, Served, TimedOut, Limiter!Next
<1>4. ASSUME NEW r \in Requests, NEW from, NEW s, Finish(r, from, s)
      PROVE  Limiter!Next
  BY <1>4 DEF Finish, Limiter!Next
<1>5. ASSUME NEW r \in Requests,
             PostEnds(r) \/ StreamEnds(r) \/ LeavesWhileReading(r) \/ Collected(r)
             \/ ErrorSent(r)
      PROVE  Limiter!Next
  BY <1>4, <1>5 DEF PostEnds, StreamEnds, LeavesWhileReading, Collected, ErrorSent
<1>6. ASSUME NEW r \in Requests, PostRaises(r)
      PROVE  Limiter!Next
  BY <1>6 DEF PostRaises, Limiter!Next
<1>7. CASE BarrierStep \/ Finished
  BY <1>0, <1>1, <1>7 DEF BarrierStep, Finished
<1> QED BY <1>1, <1>2, <1>3, <1>5, <1>6, <1>7 DEF Next, Enters, Leaves, Sends, Ends

\* And of the barrier.
LEMMA BarrierStepOrStutter == [Next]_vars => [Barrier!Next]_(Barrier!vars)
<1> SUFFICES ASSUME [Next]_vars PROVE [Barrier!Next]_(Barrier!vars)
  OBVIOUS
<1>0. UNCHANGED barrierVars => UNCHANGED Barrier!vars
  BY DEF barrierVars, Barrier!vars
<1>1. CASE UNCHANGED vars
  BY <1>0, <1>1 DEF vars
<1>2. ASSUME NEW r \in Requests,
             Arrive(r) \/ RateLimited(r) \/ Queued(r) \/ Refused(r) \/ QueueTimer(r)
             \/ TimedOut(r) \/ StreamStarts(r) \/ Yields(r) \/ ChunkSent(r)
             \/ LeavesWhileYielding(r) \/ PostRaises(r)
      PROVE  UNCHANGED Barrier!vars
  BY <1>0, <1>2 DEF Arrive, RateLimited, Queued, Refused, QueueTimer, TimedOut,
                    StreamStarts, Yields, ChunkSent, LeavesWhileYielding, PostRaises
<1>3. ASSUME NEW r \in Requests, Admitted(r) \/ Served(r) \/ Dispatch(r)
      PROVE  Barrier!Next
  BY <1>3 DEF Admitted, Served, Dispatch, Barrier!Next
<1>4. ASSUME NEW r \in Requests, NEW from, NEW s, Finish(r, from, s)
      PROVE  UNCHANGED Barrier!vars
  BY <1>0, <1>4 DEF Finish
<1>5. ASSUME NEW r \in Requests,
             PostEnds(r) \/ StreamEnds(r) \/ LeavesWhileReading(r) \/ Collected(r)
             \/ ErrorSent(r)
      PROVE  UNCHANGED Barrier!vars
  BY <1>4, <1>5 DEF PostEnds, StreamEnds, LeavesWhileReading, Collected, ErrorSent
<1>6. CASE BarrierStep
  BY <1>6 DEF BarrierStep, Barrier!Next
<1>7. CASE Finished
  BY <1>1, <1>7 DEF Finished
<1> QED BY <1>1, <1>2, <1>3, <1>5, <1>6, <1>7 DEF Next, Enters, Leaves, Sends, Ends

-----------------------------------------------------------------------------

\* Where handlers and slots are, and how the one follows the other.
SlotInv ==
  /\ handler \in [Requests -> HandlerStates]
  /\ slot \in [Requests -> Limiter!SlotStates]
  /\ SlotsFollowHandlers

\* What a step of a handler has to do: request r and its slot go on together,
\* and the others stay, but for those that are given a slot while they wait.
LEMMA SlotMove ==
  ASSUME SlotInv, NEW r \in Requests, NEW s \in HandlerStates, NEW t \in Limiter!SlotStates,
         handler' = [handler EXCEPT ![r] = s],
         slot' \in [Requests -> Limiter!SlotStates], slot'[r] = t,
         \A q \in Requests \ {r} :
            slot'[q] = slot[q] \/ (slot[q] = "pending" /\ slot'[q] = "woken"),
         t = "held" <=> s \in Holding,
         t \in Limiter!InDeque <=> s = "queued"
  PROVE  SlotInv'
<1>1. handler' \in [Requests -> HandlerStates] /\ handler'[r] = s
  BY DEF SlotInv
<1>2. ASSUME NEW q \in Requests
      PROVE  /\ slot'[q] = "held" <=> handler'[q] \in Holding
             /\ slot'[q] \in Limiter!InDeque <=> handler'[q] = "queued"
  <2>1. CASE q = r
    BY <1>1, <2>1
  <2>2. CASE q # r
    <3>1. handler'[q] = handler[q]
      BY <2>2 DEF SlotInv
    <3>2. slot'[q] = slot[q] \/ (slot[q] = "pending" /\ slot'[q] = "woken")
      BY <2>2
    <3> QED BY <3>1, <3>2 DEF SlotInv, SlotsFollowHandlers, Limiter!InDeque
  <2> QED BY <2>1, <2>2
<1> QED BY <1>1, <1>2 DEF SlotInv, SlotsFollowHandlers

\* What the semaphore does to the slots when it hands some on.
LEMMA SlotsMoved ==
  ASSUME SlotInv, NEW r \in Requests, NEW t \in Limiter!SlotStates, NEW free, NEW k,
         Limiter!MoveAndWake(r, t, free, k)
  PROVE  /\ slot' \in [Requests -> Limiter!SlotStates] /\ slot'[r] = t
         /\ \A q \in Requests \ {r} :
              slot'[q] = slot[q] \/ (slot[q] = "pending" /\ slot'[q] = "woken")
<1>1. \A q \in Limiter!FirstPending(k) : q \in Requests /\ slot[q] = "pending"
  BY DEF Limiter!FirstPending, Limiter!Pending, Limiter!In
<1>2. slot' = [q \in Requests |-> IF q = r THEN t
                                  ELSE IF q \in Limiter!FirstPending(k) THEN "woken"
                                  ELSE slot[q]]
  BY DEF Limiter!MoveAndWake
<1>3. slot \in [Requests -> Limiter!SlotStates] /\ "woken" \in Limiter!SlotStates
  BY DEF SlotInv, Limiter!SlotStates
<1> QED BY <1>1, <1>2, <1>3

LEMMA ReleaseSlots ==
  ASSUME SlotInv, NEW r \in Requests, handler' = [handler EXCEPT ![r] = "answered"],
         Limiter!ReleaseSlot(r)
  PROVE  SlotInv'
<1>1. handler' = [handler EXCEPT ![r] = "answered"]
  OBVIOUS
<1>2. Limiter!MoveAndWake(r, "none", value + 1, 1)
  BY DEF Limiter!ReleaseSlot, Limiter!Release
<1>3. "none" \in Limiter!SlotStates /\ "answered" \in HandlerStates
  BY DEF Limiter!SlotStates, HandlerStates
<1>4. "none" \notin Limiter!InDeque /\ "answered" \notin Holding
  BY DEF Limiter!InDeque, Holding, Dispatched
<1>5. /\ slot' \in [Requests -> Limiter!SlotStates] /\ slot'[r] = "none"
      /\ \A q \in Requests \ {r} :
           slot'[q] = slot[q] \/ (slot[q] = "pending" /\ slot'[q] = "woken")
  BY <1>2, <1>3, SlotsMoved
<1> QED BY <1>1, <1>3, <1>4, <1>5, SlotMove

LEMMA ResumeSlots ==
  ASSUME SlotInv, NEW r \in Requests, Served(r) \/ TimedOut(r)
  PROVE  SlotInv'
<1> DEFINE t == IF slot[r] = "woken" THEN "held" ELSE "none"
           s == IF slot[r] = "woken" THEN "batching" ELSE "answered"
<1>1. handler' = [handler EXCEPT ![r] = s]
  BY DEF Served, TimedOut, Goes
<1>2. PICK free, k : Limiter!MoveAndWake(r, t, free, k)
  BY DEF Served, TimedOut, Limiter!Resume, Limiter!ResumeAcquire
<1>3. t \in Limiter!SlotStates /\ s \in HandlerStates
  BY DEF Limiter!SlotStates, HandlerStates, Holding
<1>4. /\ t = "held" <=> s \in Holding
      /\ t \in Limiter!InDeque <=> s = "queued"
  BY DEF Limiter!InDeque, Holding, Dispatched
<1> HIDE DEF t, s
<1>5. /\ slot' \in [Requests -> Limiter!SlotStates] /\ slot'[r] = t
      /\ \A q \in Requests \ {r} :
           slot'[q] = slot[q] \/ (slot[q] = "pending" /\ slot'[q] = "woken")
  BY <1>2, <1>3, SlotsMoved
<1> QED BY <1>1, <1>3, <1>4, <1>5, SlotMove

LEMMA SlotInvStep == SlotInv /\ [Next]_vars => SlotInv'
<1> SUFFICES ASSUME SlotInv, [Next]_vars PROVE SlotInv'
  OBVIOUS
<1>0. handler \in [Requests -> HandlerStates] /\ slot \in [Requests -> Limiter!SlotStates]
  BY DEF SlotInv
<1>1. CASE UNCHANGED <<handler, slot>>
  BY <1>1 DEF SlotInv, SlotsFollowHandlers
<1>2. CASE UNCHANGED vars \/ BarrierStep \/ Finished
  BY <1>1, <1>2 DEF vars, limiterVars, BarrierStep, Finished
<1>3. ASSUME NEW r \in Requests, Arrive(r) \/ RateLimited(r)
      PROVE  SlotInv'
  <2> DEFINE s == IF Arrive(r) THEN "limiting" ELSE "answered"
  <2>1. /\ handler' = [handler EXCEPT ![r] = s] /\ handler[r] \in {"idle", "limiting"}
        /\ slot' = slot
    BY <1>3 DEF Arrive, RateLimited, Goes, limiterVars
  <2>2. slot[r] \in Limiter!SlotStates /\ s \in HandlerStates
    BY <1>0 DEF HandlerStates
  <2>3. slot[r] # "held" /\ s \notin Holding /\ slot[r] \notin Limiter!InDeque /\ s # "queued"
    BY <2>1 DEF SlotInv, SlotsFollowHandlers, Holding, Dispatched
  <2> HIDE DEF s
  <2> QED BY <2>1, <2>2, <2>3, <1>0, SlotMove
<1>4. ASSUME NEW r \in Requests, Admitted(r) \/ Queued(r)
      PROVE  SlotInv'
  <2> DEFINE s == IF Admitted(r) THEN "batching" ELSE "queued"
             t == IF Admitted(r) THEN "held" ELSE "pending"
  <2>1. /\ handler' = [handler EXCEPT ![r] = s] /\ slot' = [slot EXCEPT ![r] = t]
    <3>1. CASE Admitted(r)
      BY <3>1 DEF Admitted, Goes, Limiter!Admit, Limiter!AcquireNow
    <3>2. CASE ~Admitted(r)
      BY <3>2, <1>4 DEF Queued, Goes, Limiter!Enqueue, Limiter!AcquireWait
    <3> QED BY <3>1, <3>2
  <2>2. t \in Limiter!SlotStates /\ s \in HandlerStates
    BY DEF HandlerStates, Limiter!SlotStates, Holding
  <2>3. (t = "held" <=> s \in Holding) /\ (t \in Limiter!InDeque <=> s = "queued")
    BY DEF Holding, Dispatched, Limiter!InDeque
  <2> HIDE DEF s, t
  <2>4. slot' \in [Requests -> Limiter!SlotStates] /\ slot'[r] = t
        /\ \A q \in Requests \ {r} : slot'[q] = slot[q]
    BY <2>1, <2>2, <1>0
  <2> QED BY <2>1, <2>2, <2>3, <2>4, SlotMove
<1>5. ASSUME NEW r \in Requests, Refused(r)
      PROVE  SlotInv'
  <2>1. /\ handler' = [handler EXCEPT ![r] = "answered"] /\ handler[r] = "limiting"
        /\ slot' = slot
    BY <1>5 DEF Refused, Goes, Limiter!RejectOverload
  <2>2. slot[r] \in Limiter!SlotStates /\ "answered" \in HandlerStates
    BY <1>0 DEF HandlerStates
  <2>3. slot[r] # "held" /\ "answered" \notin Holding /\ slot[r] \notin Limiter!InDeque
    BY <2>1 DEF SlotInv, SlotsFollowHandlers, Holding, Dispatched
  <2> QED BY <2>1, <2>2, <2>3, <1>0, SlotMove
<1>6. ASSUME NEW r \in Requests, QueueTimer(r)
      PROVE  SlotInv'
  <2>1. /\ handler' = handler
        /\ \/ slot[r] = "pending" /\ slot' = [slot EXCEPT ![r] = "expired"]
           \/ slot[r] = "woken"   /\ slot' = [slot EXCEPT ![r] = "handback"]
    BY <1>6 DEF QueueTimer, Limiter!TimerFires, Limiter!Expire
  <2>2. handler' = [handler EXCEPT ![r] = handler[r]] /\ handler[r] = "queued"
    BY <2>1, <1>0 DEF SlotInv, SlotsFollowHandlers, Limiter!InDeque
  <2>3. slot' \in [Requests -> Limiter!SlotStates] /\ slot'[r] \in {"expired", "handback"}
        /\ \A q \in Requests \ {r} : slot'[q] = slot[q]
    BY <2>1, <1>0 DEF Limiter!SlotStates
  <2>4. slot'[r] \in Limiter!SlotStates /\ slot'[r] \in Limiter!InDeque /\ slot'[r] # "held"
    BY <2>3 DEF Limiter!SlotStates, Limiter!InDeque
  <2>5. handler[r] \in HandlerStates /\ handler[r] \notin Holding
    BY <2>2, <1>0 DEF Holding, Dispatched
  <2> QED BY <2>2, <2>3, <2>4, <2>5, SlotMove
<1>7. ASSUME NEW r \in Requests,
             Dispatch(r) \/ StreamStarts(r) \/ Yields(r) \/ ChunkSent(r)
             \/ LeavesWhileYielding(r)
      PROVE  SlotInv'
  <2>1. PICK s \in Holding :
          handler' = [handler EXCEPT ![r] = s] /\ handler[r] \in Holding /\ slot' = slot
    <3>1. {"batching", "opening", "reading", "posting", "yielding", "orphaned"} \subseteq Holding
      BY DEF Holding, Dispatched
    <3> QED BY <1>7, <3>1 DEF Dispatch, StreamStarts, Yields, ChunkSent,
                 LeavesWhileYielding, Goes, limiterVars
  <2>2. slot[r] \in Limiter!SlotStates /\ s \in HandlerStates /\ s # "queued"
    BY <1>0 DEF HandlerStates, Holding, Dispatched
  <2>3. slot[r] = "held" /\ "held" \notin Limiter!InDeque
    BY <2>1 DEF SlotInv, SlotsFollowHandlers, Limiter!InDeque
  <2> QED BY <2>1, <2>2, <2>3, <1>0, SlotMove
<1>8. ASSUME NEW r \in Requests,
             PostEnds(r) \/ StreamEnds(r) \/ LeavesWhileReading(r) \/ Collected(r)
             \/ ErrorSent(r) \/ PostRaises(r)
      PROVE  SlotInv'
  <2>1. handler' = [handler EXCEPT ![r] = "answered"] /\ Limiter!ReleaseSlot(r)
    BY <1>8 DEF PostEnds, StreamEnds, LeavesWhileReading, Collected, ErrorSent, PostRaises,
                Finish, Goes
  <2> QED BY <2>1, ReleaseSlots
<1> QED BY <1>2, <1>3, <1>4, <1>5, <1>6, <1>7, <1>8, ResumeSlots
        DEF Next, Enters, Leaves, Sends, Ends

\* Over every path through the handler (errors, disconnects, orphaned generators,
\* timeouts that race a wake-up) a slot is held exactly while the handler is
\* between acquire_slot and the end of its request, and nobody waits in the
\* limiter but a handler that is in acquire_slot (main.py:375-384, 513, 622).
THEOREM SlotsFollow == Spec => []SlotsFollowHandlers
<1>1. Init => SlotInv
  BY DEF Init, GatewayInit, Limiter!Init, Limiter!SemaphoreInit, SlotInv, HandlerStates,
         SlotsFollowHandlers, Limiter!SlotStates, Limiter!InDeque, Holding, Dispatched
<1>2. SlotInv => SlotsFollowHandlers
  BY DEF SlotInv
<1> QED BY <1>1, <1>2, SlotInvStep, PTL DEF Spec

-----------------------------------------------------------------------------

AtBarrier == {"waiting", "released"}

\* The same for the barrier: a handler that is in its list waits at the barrier.
StageInv ==
  /\ handler \in [Requests -> HandlerStates]
  /\ stage \in [Requests -> Barrier!Stages]
  /\ pending \in Seq(Requests)
  /\ \A i \in DOMAIN pending : stage[pending[i]] = "waiting"
  /\ StagesFollowHandlers

\* Request r goes to stage t while its handler goes to s, and the list stays.
LEMMA StageMove ==
  ASSUME StageInv, NEW r \in Requests, NEW s \in HandlerStates, NEW t \in Barrier!Stages,
         handler' = [handler EXCEPT ![r] = s], stage' = [stage EXCEPT ![r] = t],
         t \in AtBarrier <=> s = "batching",
         \/ pending' = pending /\ stage[r] # "waiting"
         \/ pending' = Append(pending, r) /\ t = "waiting"
  PROVE  StageInv'
<1>1. /\ handler \in [Requests -> HandlerStates] /\ stage \in [Requests -> Barrier!Stages]
      /\ pending \in Seq(Requests)
      /\ \A i \in DOMAIN pending : pending[i] \in Requests /\ stage[pending[i]] = "waiting"
  BY ElementOfSeq, LenProperties DEF StageInv
<1>2. /\ handler' \in [Requests -> HandlerStates] /\ stage' \in [Requests -> Barrier!Stages]
      /\ handler'[r] = s /\ stage'[r] = t
      /\ \A q \in Requests \ {r} : handler'[q] = handler[q] /\ stage'[q] = stage[q]
  BY <1>1
<1>3. StagesFollowHandlers'
  BY <1>2 DEF StageInv, StagesFollowHandlers, AtBarrier
<1>4. CASE pending' = pending
  <2>1. stage[r] # "waiting"
    BY <1>4, AppendProperties DEF StageInv
  <2>2. \A i \in DOMAIN pending : stage'[pending[i]] = "waiting"
    BY <2>1, <1>1, <1>2
  <2> QED BY <2>2, <1>1, <1>2, <1>3, <1>4 DEF StageInv
<1>5. CASE pending' = Append(pending, r) /\ t = "waiting"
  <2>1. /\ pending' \in Seq(Requests)
        /\ DOMAIN pending = 1..Len(pending) /\ DOMAIN pending' = 1..Len(pending) + 1
        /\ \A i \in 1..Len(pending) : pending'[i] = pending[i]
        /\ pending'[Len(pending) + 1] = r /\ Len(pending) \in Nat
    BY <1>1, <1>5, AppendProperties, LenProperties
  <2>2. ASSUME NEW i \in DOMAIN pending' PROVE stage'[pending'[i]] = "waiting"
    <3>1. CASE i = Len(pending) + 1
      BY <3>1, <2>1, <1>2, <1>5
    <3>2. CASE i # Len(pending) + 1
      BY <3>2, <2>1, <1>1, <1>2, <1>5
    <3> QED BY <3>1, <3>2
  <2> QED BY <2>1, <2>2, <1>2, <1>3 DEF StageInv
<1> QED BY <1>4, <1>5

\* A flush moves those in the list within the barrier.
LEMMA FlushStages ==
  ASSUME StageInv, UNCHANGED handler, Barrier!Flush
  PROVE  StageInv'
<1>1. CASE UNCHANGED <<pending, stage>>
  BY <1>1 DEF StageInv, StagesFollowHandlers
<1>2. CASE /\ pending' = <<>>
           /\ stage' = [r \in Requests |->
                          IF \E i \in DOMAIN pending : pending[i] = r THEN "released"
                          ELSE stage[r]]
  <2>1. stage' \in [Requests -> Barrier!Stages]
    BY <1>2 DEF StageInv, Barrier!Stages
  <2>2. \A r \in Requests : stage'[r] \in AtBarrier <=> stage[r] \in AtBarrier
    BY <1>2 DEF StageInv, AtBarrier
  <2>3. pending' \in Seq(Requests) /\ DOMAIN pending' = {}
    BY <1>2, EmptySeq
  <2> QED BY <2>1, <2>2, <2>3 DEF StageInv, StagesFollowHandlers, AtBarrier
<1> QED BY <1>1, <1>2 DEF Barrier!Flush

LEMMA StageInvStep == StageInv /\ [Next]_vars => StageInv'
<1> SUFFICES ASSUME StageInv, [Next]_vars PROVE StageInv'
  OBVIOUS
<1>0. handler \in [Requests -> HandlerStates] /\ stage \in [Requests -> Barrier!Stages]
  BY DEF StageInv
<1>1. CASE UNCHANGED <<handler, stage, pending>>
  BY <1>1 DEF StageInv, StagesFollowHandlers
<1>2. CASE UNCHANGED vars \/ Finished \/ \E r \in Requests : QueueTimer(r)
  BY <1>1, <1>2 DEF vars, barrierVars, Finished, QueueTimer
<1>3. CASE BarrierStep
  BY <1>1, <1>3, FlushStages
     DEF BarrierStep, Barrier!BarrierTask, Barrier!TimerElapses, Barrier!RunTimer,
         Barrier!RunFlush
<1>4. ASSUME NEW r \in Requests, Admitted(r) \/ Served(r)
      PROVE  StageInv'
  <2>1. /\ handler' = [handler EXCEPT ![r] = "batching"]
        /\ stage' = [stage EXCEPT ![r] = "waiting"] /\ pending' = Append(pending, r)
    BY <1>4 DEF Admitted, Served, Goes, Barrier!Enter
  <2>2. "batching" \in HandlerStates /\ "waiting" \in Barrier!Stages /\ "waiting" \in AtBarrier
    BY DEF HandlerStates, Holding, Barrier!Stages, AtBarrier
  <2> QED BY <2>1, <2>2, StageMove
<1>5. ASSUME NEW r \in Requests, Dispatch(r)
      PROVE  StageInv'
  <2>1. PICK s \in {"opening", "posting"} :
          /\ handler' = [handler EXCEPT ![r] = s] /\ stage[r] = "released"
          /\ stage' = [stage EXCEPT ![r] = "through"] /\ pending' = pending
    BY <1>5 DEF Dispatch, Goes, Barrier!Resume
  <2>2. s \in HandlerStates /\ s # "batching" /\ "through" \in Barrier!Stages
        /\ "through" \notin AtBarrier
    BY DEF HandlerStates, Holding, Dispatched, Barrier!Stages, AtBarrier
  <2> QED BY <2>1, <2>2, StageMove
<1>6. ASSUME NEW r \in Requests, NEW s \in HandlerStates \ {"batching"},
             handler[r] # "batching", handler' = [handler EXCEPT ![r] = s],
             UNCHANGED barrierVars
      PROVE  StageInv'
  <2>1. stage' = [stage EXCEPT ![r] = stage[r]] /\ pending' = pending
    BY <1>0, <1>6 DEF barrierVars
  <2>2. stage[r] \in Barrier!Stages /\ stage[r] \notin AtBarrier /\ stage[r] # "waiting"
    BY <1>0, <1>6 DEF StageInv, StagesFollowHandlers, AtBarrier
  <2> QED BY <2>1, <2>2, <1>6, StageMove
<1>7. ASSUME NEW r \in Requests,
             Arrive(r) \/ RateLimited(r) \/ Queued(r) \/ Refused(r) \/ TimedOut(r)
             \/ StreamStarts(r) \/ Yields(r) \/ ChunkSent(r) \/ LeavesWhileYielding(r)
             \/ PostRaises(r)
      PROVE  StageInv'
  <2>1. PICK s \in HandlerStates \ {"batching"} :
          handler[r] # "batching" /\ handler' = [handler EXCEPT ![r] = s]
    BY <1>7 DEF Arrive, RateLimited, Queued, Refused, TimedOut, StreamStarts, Yields,
                ChunkSent, LeavesWhileYielding, PostRaises, Goes, HandlerStates, Holding,
                Dispatched
  <2>2. UNCHANGED barrierVars
    BY <1>7 DEF Arrive, RateLimited, Queued, Refused, TimedOut, StreamStarts, Yields,
                ChunkSent, LeavesWhileYielding, PostRaises, barrierVars
  <2> QED BY <2>1, <2>2, <1>6
<1>8. ASSUME NEW r \in Requests, NEW from \in Dispatched, NEW s, Finish(r, from, s)
      PROVE  StageInv'
  <2>1. handler[r] = from /\ handler' = [handler EXCEPT ![r] = "answered"]
        /\ UNCHANGED barrierVars
    BY <1>8 DEF Finish, Goes
  <2>2. from # "batching" /\ "answered" \in HandlerStates \ {"batching"}
    BY DEF Dispatched, HandlerStates
  <2> QED BY <2>1, <2>2, <1>6
<1>9. ASSUME NEW r \in Requests,
             PostEnds(r) \/ StreamEnds(r) \/ LeavesWhileReading(r) \/ Collected(r)
             \/ ErrorSent(r)
      PROVE  StageInv'
  BY <1>8, <1>9 DEF PostEnds, StreamEnds, LeavesWhileReading, Collected, ErrorSent, Dispatched
<1> QED BY <1>2, <1>3, <1>4, <1>5, <1>7, <1>9 DEF Next, Enters, Leaves, Sends, Ends

\* A handler is at the barrier exactly while the barrier has it: none of them
\* waits there when its request is over, and none is dispatched behind its back
\* (main.py:384).
THEOREM StagesFollow == Spec => []StagesFollowHandlers
<1>1. Init => StageInv
  BY EmptySeq DEF Init, GatewayInit, Barrier!Init, StageInv, HandlerStates,
                  StagesFollowHandlers, Barrier!Stages, AtBarrier
<1>2. StageInv => StagesFollowHandlers
  BY DEF StageInv
<1> QED BY <1>1, <1>2, StageInvStep, PTL DEF Spec

-----------------------------------------------------------------------------

InStream == {"opening", "reading", "yielding", "orphaned"}

\* Only a stream is opened, and only a request without stream is posted.
Fits(r, s) == (s \in InStream => r \in Streaming) /\ (s = "posting" => r \notin Streaming)

\* What the gauges and the records rest on: only what is over has been refused or
\* has ended in an exception.
LogInv ==
  /\ TypeOK
  /\ GaugesAreRight
  /\ RecordsFollowHandlers
  /\ \A r \in Requests :
       /\ Fits(r, handler[r])
       /\ status[r] \in Unlogged => handler[r] = "answered"

One(p) == IF p THEN 1 ELSE 0

LEMMA RemoveCount ==
  ASSUME NEW S, IsFiniteSet(S), NEW x
  PROVE  Cardinality(S) \in Nat /\ Cardinality(S \ {x}) = Cardinality(S) - One(x \in S)
BY FS_RemoveElement, FS_CardinalityType DEF One

\* How a number of requests moves when one of them comes or goes.
LEMMA CountMove ==
  ASSUME NEW A \in SUBSET Requests, NEW B \in SUBSET Requests, NEW r, A \ {r} = B \ {r}
  PROVE  /\ Cardinality(A) \in Nat /\ Cardinality(B) \in Nat
         /\ Cardinality(B) = Cardinality(A) + One(r \in B) - One(r \in A)
<1>1. IsFiniteSet(A) /\ IsFiniteSet(B)
  BY GatewayAssumption, FS_Subset
<1>2. Cardinality(A) \in Nat /\ Cardinality(A \ {r}) = Cardinality(A) - One(r \in A)
  BY <1>1, RemoveCount
<1>3. Cardinality(B) \in Nat /\ Cardinality(B \ {r}) = Cardinality(B) - One(r \in B)
  BY <1>1, RemoveCount
<1>4. Cardinality(A \ {r}) = Cardinality(B \ {r})
  OBVIOUS
<1>5. One(r \in A) \in {0, 1} /\ One(r \in B) \in {0, 1}
  BY DEF One
<1> QED BY <1>2, <1>3, <1>4, <1>5

\* What a step of a handler has to do for the gauges and the log.
LEMMA LogMove ==
  ASSUME LogInv, NEW r \in Requests, NEW s \in HandlerStates, NEW v \in StatusValues,
         handler[r] # "answered",
         handler' = [handler EXCEPT ![r] = s], status' = [status EXCEPT ![r] = v],
         active' = active + One(s \in Dispatched \/ v = "raised")
                          - One(handler[r] \in Dispatched),
         inFlight' = inFlight + One(s \in Dispatched /\ r \in Streaming)
                              - One(handler[r] \in Dispatched /\ r \in Streaming),
         records' = [records EXCEPT ![r] = One(s = "answered" /\ v \notin Unlogged)],
         left' \in SUBSET Streaming, left \subseteq left',
         v = "client_disconnected" => s = "answered" /\ r \in left',
         v \in Unlogged => s = "answered", v = "raised" => r \notin Streaming,
         Fits(r, s)
  PROVE  LogInv'
<1>1. /\ handler \in [Requests -> HandlerStates] /\ status \in [Requests -> StatusValues]
      /\ records \in [Requests -> Nat] /\ active \in Nat /\ inFlight \in Nat
      /\ active = Cardinality(At(Dispatched) \cup Raised)
      /\ inFlight = Cardinality(At(Dispatched) \cap Streaming)
  BY DEF LogInv, TypeOK, GaugesAreRight
<1>2. One(s = "answered" /\ v \notin Unlogged) \in Nat
  BY DEF One
<1>3. /\ handler' \in [Requests -> HandlerStates] /\ status' \in [Requests -> StatusValues]
      /\ records' \in [Requests -> Nat]
      /\ handler'[r] = s /\ status'[r] = v
      /\ records'[r] = One(s = "answered" /\ v \notin Unlogged)
      /\ \A q \in Requests \ {r} :
           handler'[q] = handler[q] /\ status'[q] = status[q] /\ records'[q] = records[q]
  BY <1>1, <1>2
<1>4. active' = Cardinality(At(Dispatched) \cup Raised)' /\ active' \in Nat
  <2> DEFINE A == At(Dispatched) \cup Raised
             B == At(Dispatched)' \cup Raised'
  <2>1. A \in SUBSET Requests /\ B \in SUBSET Requests
    BY DEF At, Raised
  <2>2. A \ {r} = B \ {r}
    BY <1>3 DEF At, Raised
  <2>3. r \in A <=> handler[r] \in Dispatched
    BY DEF At, Raised, LogInv, Unlogged
  <2>4. r \in B <=> s \in Dispatched \/ v = "raised"
    BY <1>3 DEF At, Raised
  <2> HIDE DEF A, B
  <2>5. Cardinality(B) \in Nat /\ Cardinality(B) = Cardinality(A) + One(r \in B) - One(r \in A)
    BY <2>1, <2>2, CountMove
  <2>6. One(r \in A) = One(handler[r] \in Dispatched)
        /\ One(r \in B) = One(s \in Dispatched \/ v = "raised")
    BY <2>3, <2>4 DEF One
  <2>7. active = Cardinality(A)
    BY <1>1 DEF A
  <2>8. active' = Cardinality(B)
    BY <2>5, <2>6, <2>7
  <2> QED BY <2>5, <2>8 DEF B
<1>5. inFlight' = Cardinality(At(Dispatched) \cap Streaming)' /\ inFlight' \in Nat
  <2> DEFINE A == At(Dispatched) \cap Streaming
             B == At(Dispatched)' \cap Streaming
  <2>1. A \in SUBSET Requests /\ B \in SUBSET Requests
    BY DEF At
  <2>2. A \ {r} = B \ {r}
    BY <1>3 DEF At
  <2>3. r \in A <=> handler[r] \in Dispatched /\ r \in Streaming
    BY DEF At
  <2>4. r \in B <=> s \in Dispatched /\ r \in Streaming
    BY <1>3 DEF At
  <2> HIDE DEF A, B
  <2>5. Cardinality(B) \in Nat /\ Cardinality(B) = Cardinality(A) + One(r \in B) - One(r \in A)
    BY <2>1, <2>2, CountMove
  <2>6. One(r \in A) = One(handler[r] \in Dispatched /\ r \in Streaming)
        /\ One(r \in B) = One(s \in Dispatched /\ r \in Streaming)
    BY <2>3, <2>4 DEF One
  <2>7. inFlight = Cardinality(A)
    BY <1>1 DEF A
  <2>8. inFlight' = Cardinality(B)
    BY <2>5, <2>6, <2>7
  <2> QED BY <2>5, <2>8 DEF B
<1>6. TypeOK' /\ GaugesAreRight'
  BY <1>3, <1>4, <1>5 DEF TypeOK, GaugesAreRight
<1>7. RecordsFollowHandlers'
  BY <1>3 DEF LogInv, RecordsFollowHandlers, One, Unlogged
<1>8. \A q \in Requests : /\ Fits(q, handler'[q])
                         /\ status'[q] \in Unlogged => handler'[q] = "answered"
  BY <1>3 DEF LogInv
<1> QED BY <1>6, <1>7, <1>8 DEF LogInv, Fits

\* A handler that goes on with the gauges, the log and its status as they are.
LEMMA QuietMove ==
  ASSUME LogInv, NEW r \in Requests, NEW s \in HandlerStates \ {"answered"},
         handler[r] # "answered", handler' = [handler EXCEPT ![r] = s],
         s \in Dispatched <=> handler[r] \in Dispatched,
         Fits(r, s),
         left' \in SUBSET Streaming, left \subseteq left',
         NEW v \in {"ok", status[r]} \cup UpstreamErrors, status' = [status EXCEPT ![r] = v],
         UNCHANGED <<gaugeVars, records>>
  PROVE  LogInv'
<1>1. /\ status \in [Requests -> StatusValues] /\ records \in [Requests -> Nat]
      /\ active \in Nat /\ inFlight \in Nat
  BY DEF LogInv, TypeOK
<1>2. status[r] # "client_disconnected" /\ status[r] \notin Unlogged /\ records[r] = 0
  BY DEF LogInv, RecordsFollowHandlers
<1>3. v \in StatusValues /\ v # "client_disconnected" /\ v \notin Unlogged
  BY <1>1, <1>2 DEF StatusValues, UpstreamErrors, Unlogged, Refusals
<1>4. records' = [records EXCEPT ![r] = One(s = "answered" /\ v \notin Unlogged)]
  BY <1>1, <1>2 DEF One
<1>5. /\ active' = active + One(s \in Dispatched \/ v = "raised") - One(handler[r] \in Dispatched)
      /\ inFlight' = inFlight + One(s \in Dispatched /\ r \in Streaming)
                              - One(handler[r] \in Dispatched /\ r \in Streaming)
  BY <1>1, <1>3 DEF gaugeVars, One, Unlogged
<1>6. v # "raised"
  BY <1>3 DEF Unlogged
<1> QED BY <1>3, <1>4, <1>5, <1>6, LogMove

\* A handler that starts to work for its request.
LEMMA StartMove ==
  ASSUME LogInv, NEW r \in Requests, NEW s \in Dispatched,
         Fits(r, s),
         handler[r] \in {"batching", "opening"}, handler' = [handler EXCEPT ![r] = s],
         status' = [status EXCEPT ![r] = "ok"], active' = active + 1,
         inFlight' = IF r \in Streaming THEN inFlight + 1 ELSE inFlight,
         UNCHANGED <<records, left>>
  PROVE  LogInv'
<1>1. /\ records \in [Requests -> Nat] /\ left \in SUBSET Streaming
      /\ active \in Nat /\ inFlight \in Nat
  BY DEF LogInv, TypeOK
<1>2. s \in HandlerStates /\ s # "answered" /\ handler[r] \notin Dispatched
  BY DEF HandlerStates, Holding, Dispatched
<1>3. "ok" \in StatusValues /\ "ok" \notin Unlogged
  BY DEF StatusValues, Unlogged, Refusals
<1>4. records' = [records EXCEPT ![r] = One(s = "answered" /\ "ok" \notin Unlogged)]
  BY <1>1, <1>2 DEF One, LogInv, RecordsFollowHandlers
<1>5. /\ active' = active + One(s \in Dispatched \/ "ok" = "raised") - One(handler[r] \in Dispatched)
      /\ inFlight' = inFlight + One(s \in Dispatched /\ r \in Streaming)
                              - One(handler[r] \in Dispatched /\ r \in Streaming)
  BY <1>1, <1>2 DEF One
<1> QED BY <1>1, <1>2, <1>3, <1>4, <1>5, LogMove

\* A handler that refuses its request, for which nothing is counted.
LEMMA RefuseMove ==
  ASSUME LogInv, NEW r \in Requests, NEW v \in Refusals,
         handler[r] \in {"limiting", "queued"}, handler' = [handler EXCEPT ![r] = "answered"],
         status' = [status EXCEPT ![r] = v], UNCHANGED <<gaugeVars, records, left>>
  PROVE  LogInv'
<1>1. /\ records \in [Requests -> Nat] /\ left \in SUBSET Streaming
      /\ active \in Nat /\ inFlight \in Nat
  BY DEF LogInv, TypeOK
<1>2. /\ "answered" \in HandlerStates /\ "answered" \notin Dispatched \cup InStream
      /\ handler[r] \notin Dispatched /\ v \in StatusValues /\ v # "client_disconnected"
  BY DEF HandlerStates, Holding, Dispatched, InStream, StatusValues, Unlogged, Refusals
<1>3. v # "raised" /\ v \in Unlogged /\ Fits(r, "answered")
  BY DEF Unlogged, Refusals, Fits, InStream
<1>4. records' = [records EXCEPT ![r] = One("answered" = "answered" /\ v \notin Unlogged)]
  BY <1>1, <1>3 DEF One, LogInv, RecordsFollowHandlers
<1>5. /\ active' = active + One("answered" \in Dispatched \/ v = "raised")
                          - One(handler[r] \in Dispatched)
      /\ inFlight' = inFlight + One("answered" \in Dispatched /\ r \in Streaming)
                              - One(handler[r] \in Dispatched /\ r \in Streaming)
  BY <1>1, <1>2, <1>3 DEF gaugeVars, One
<1> QED BY <1>1, <1>2, <1>3, <1>4, <1>5, LogMove

LEMMA FinishMove ==
  ASSUME LogInv, NEW r \in Requests, NEW from \in Dispatched,
         NEW v \in StatusValues \ Unlogged, Finish(r, from, v),
         left' \in SUBSET Streaming, left \subseteq left',
         v = "client_disconnected" => r \in left'
  PROVE  LogInv'
<1>1. records \in [Requests -> Nat] /\ active \in Nat /\ inFlight \in Nat
  BY DEF LogInv, TypeOK
<1>2. /\ handler[r] = from /\ handler' = [handler EXCEPT ![r] = "answered"]
      /\ status' = [status EXCEPT ![r] = v] /\ active' = active - 1
      /\ inFlight' = IF r \in Streaming THEN inFlight - 1 ELSE inFlight
      /\ records' = [records EXCEPT ![r] = @ + 1]
  BY DEF Finish, Goes
<1>3. /\ "answered" \in HandlerStates /\ "answered" \notin Dispatched \cup InStream
      /\ from # "answered" /\ v # "raised" /\ Fits(r, "answered")
  BY DEF HandlerStates, Holding, Dispatched, InStream, Unlogged, Fits
<1>4. records' = [records EXCEPT ![r] = One("answered" = "answered" /\ v \notin Unlogged)]
  <2>1. records[r] = 0
    BY <1>2, <1>3 DEF LogInv, RecordsFollowHandlers
  <2>2. One("answered" = "answered" /\ v \notin Unlogged) = 1
    BY DEF One
  <2>3. records' = [records EXCEPT ![r] = 1]
    BY <1>2, <2>1
  <2> QED BY <2>2, <2>3
<1>5. /\ active' = active + One("answered" \in Dispatched \/ v = "raised")
                          - One(handler[r] \in Dispatched)
      /\ inFlight' = inFlight + One("answered" \in Dispatched /\ r \in Streaming)
                              - One(handler[r] \in Dispatched /\ r \in Streaming)
  BY <1>1, <1>2, <1>3 DEF One
<1> QED BY <1>2, <1>3, <1>4, <1>5, LogMove

\* An exception that ends a request without stream: the gauge stays as it is.
LEMMA RaiseMove ==
  ASSUME LogInv, NEW r \in Requests, PostRaises(r)
  PROVE  LogInv'
<1>1. /\ records \in [Requests -> Nat] /\ left \in SUBSET Streaming
      /\ active \in Nat /\ inFlight \in Nat
  BY DEF LogInv, TypeOK
<1>2. /\ handler[r] = "posting" /\ handler' = [handler EXCEPT ![r] = "answered"]
      /\ status' = [status EXCEPT ![r] = "raised"] /\ UNCHANGED <<gaugeVars, records, left>>
  BY DEF PostRaises, Goes
<1>3. /\ "answered" \in HandlerStates /\ "answered" \notin Dispatched
      /\ "posting" \in Dispatched /\ "raised" \in StatusValues /\ "raised" \in Unlogged
      /\ Fits(r, "answered")
  BY DEF HandlerStates, Holding, Dispatched, StatusValues, Unlogged, Fits, InStream
<1>4. r \notin Streaming
  BY <1>2 DEF LogInv, Fits
<1>5. records' = [records EXCEPT ![r] = One("answered" = "answered" /\ "raised" \notin Unlogged)]
  BY <1>1, <1>2, <1>3 DEF One, LogInv, RecordsFollowHandlers
<1>6. /\ active' = active + One("answered" \in Dispatched \/ "raised" = "raised")
                          - One(handler[r] \in Dispatched)
      /\ inFlight' = inFlight + One("answered" \in Dispatched /\ r \in Streaming)
                              - One(handler[r] \in Dispatched /\ r \in Streaming)
  BY <1>1, <1>2, <1>3, <1>4 DEF gaugeVars, One
<1> QED BY <1>1, <1>2, <1>3, <1>4, <1>5, <1>6, LogMove

LEMMA LogInvStep == LogInv /\ [Next]_vars => LogInv'
<1> SUFFICES ASSUME LogInv, [Next]_vars PROVE LogInv'
  OBVIOUS
<1>0. /\ handler \in [Requests -> HandlerStates] /\ status \in [Requests -> StatusValues]
      /\ left \in SUBSET Streaming
  BY DEF LogInv, TypeOK
<1>1. CASE UNCHANGED <<handler, status, gaugeVars, records, left>>
  BY <1>1 DEF LogInv, TypeOK, GaugesAreRight, RecordsFollowHandlers, At, Raised, gaugeVars
<1>2. CASE UNCHANGED vars \/ BarrierStep \/ Finished \/ \E r \in Requests : QueueTimer(r)
  BY <1>1, <1>2 DEF vars, BarrierStep, Finished, QueueTimer
<1>3. ASSUME NEW r \in Requests, Arrive(r) \/ Admitted(r) \/ Queued(r) \/ Served(r)
      PROVE  LogInv'
  <2>1. PICK s \in {"limiting", "batching", "queued"} :
          /\ handler' = [handler EXCEPT ![r] = s] /\ handler[r] \in {"idle", "limiting", "queued"}
          /\ UNCHANGED <<status, gaugeVars, records, left>>
    BY <1>3 DEF Arrive, Admitted, Queued, Served, Goes
  <2>2. /\ s \in HandlerStates \ {"answered"} /\ s \notin Dispatched \cup InStream
        /\ handler[r] \notin Dispatched /\ handler[r] # "answered" /\ Fits(r, s)
    BY <2>1 DEF HandlerStates, Holding, Dispatched, InStream, Fits
  <2>3. status' = [status EXCEPT ![r] = status[r]]
    BY <2>1, <1>0
  <2> QED BY <2>1, <2>2, <2>3, <1>0, QuietMove
<1>4. ASSUME NEW r \in Requests, Dispatch(r)
      PROVE  LogInv'
  <2>1. CASE r \in Streaming
    <3>1. /\ handler' = [handler EXCEPT ![r] = "opening"] /\ handler[r] = "batching"
          /\ UNCHANGED <<status, gaugeVars, records, left>>
      BY <1>4, <2>1 DEF Dispatch, Goes, gaugeVars
    <3>2. "opening" \in HandlerStates \ {"answered"} /\ "opening" \notin Dispatched
          /\ "batching" \notin Dispatched /\ Fits(r, "opening")
      BY <2>1 DEF HandlerStates, Holding, Dispatched, Fits
    <3>3. status' = [status EXCEPT ![r] = status[r]]
      BY <3>1, <1>0
    <3> QED BY <2>1, <3>1, <3>2, <3>3, <1>0, QuietMove
  <2>2. CASE r \notin Streaming
    <3>1. /\ handler' = [handler EXCEPT ![r] = "posting"] /\ handler[r] = "batching"
          /\ status' = [status EXCEPT ![r] = "ok"] /\ active' = active + 1
          /\ UNCHANGED <<inFlight, records, left>>
      BY <1>4, <2>2 DEF Dispatch, Goes
    <3>2. "posting" \in Dispatched /\ Fits(r, "posting")
      BY <2>2 DEF Dispatched, InStream, Fits
    <3> QED BY <2>2, <3>1, <3>2, StartMove
  <2> QED BY <2>1, <2>2
<1>5. ASSUME NEW r \in Requests, StreamStarts(r)
      PROVE  LogInv'
  <2>1. /\ handler' = [handler EXCEPT ![r] = "reading"] /\ handler[r] = "opening"
        /\ status' = [status EXCEPT ![r] = "ok"] /\ active' = active + 1
        /\ inFlight' = inFlight + 1 /\ UNCHANGED <<records, left>>
    BY <1>5 DEF StreamStarts, Goes
  <2>2. r \in Streaming /\ "reading" \in Dispatched /\ Fits(r, "reading")
    BY <2>1 DEF LogInv, InStream, Dispatched, Fits
  <2> QED BY <2>1, <2>2, StartMove
<1>6. ASSUME NEW r \in Requests, Yields(r) \/ ChunkSent(r) \/ LeavesWhileYielding(r)
      PROVE  LogInv'
  <2>1. PICK s \in Dispatched \ {"posting"} :
          /\ handler' = [handler EXCEPT ![r] = s] /\ handler[r] \in Dispatched
          /\ UNCHANGED <<gaugeVars, records>>
    BY <1>6 DEF Yields, ChunkSent, LeavesWhileYielding, Goes, Dispatched
  <2>2. PICK v \in {"ok", status[r]} \cup UpstreamErrors : status' = [status EXCEPT ![r] = v]
    BY <1>6, <1>0 DEF Yields, ChunkSent, LeavesWhileYielding
  <2>3. r \in Streaming
    BY <1>6 DEF Yields, ChunkSent, LeavesWhileYielding, Goes, LogInv, InStream,
                Fits
  <2>4. left \subseteq left' /\ left' \in SUBSET Streaming
    BY <1>6, <1>0, <2>3 DEF Yields, ChunkSent, LeavesWhileYielding
  <2>5. s \in HandlerStates \ {"answered"} /\ handler[r] # "answered" /\ Fits(r, s)
    BY <2>1, <2>3 DEF HandlerStates, Holding, Dispatched, Fits
  <2> QED BY <2>1, <2>2, <2>3, <2>4, <2>5, QuietMove
<1>7. ASSUME NEW r \in Requests, RateLimited(r) \/ Refused(r) \/ TimedOut(r)
      PROVE  LogInv'
  <2>1. PICK v \in Refusals :
          /\ handler' = [handler EXCEPT ![r] = "answered"] /\ handler[r] \in {"limiting", "queued"}
          /\ status' = [status EXCEPT ![r] = v] /\ UNCHANGED <<gaugeVars, records, left>>
    BY <1>7 DEF RateLimited, Refused, TimedOut, Goes, Refusals
  <2> QED BY <2>1, RefuseMove
<1>8. ASSUME NEW r \in Requests,
             PostEnds(r) \/ StreamEnds(r) \/ LeavesWhileReading(r) \/ Collected(r) \/ ErrorSent(r)
      PROVE  LogInv'
  <2>1. PICK from \in Dispatched, v \in StatusValues \ Unlogged :
          Finish(r, from, v) /\ (v = "client_disconnected" => r \in left')
    <3>1. UpstreamErrors \cup {"ok", "client_disconnected"} \subseteq StatusValues \ Unlogged
          /\ {"posting", "reading", "yielding", "orphaned"} \subseteq Dispatched
          /\ "client_disconnected" \notin {"ok"} \cup UpstreamErrors
      BY DEF StatusValues, Unlogged, Refusals, UpstreamErrors, Dispatched
    <3>2. CASE PostEnds(r) \/ StreamEnds(r)
      <4>1. PICK s \in {"ok"} \cup UpstreamErrors :
              Finish(r, "posting", s) \/ Finish(r, "reading", s)
        BY <3>2 DEF PostEnds, StreamEnds, UpstreamErrors
      <4> QED BY <3>1, <4>1
    <3>3. CASE LeavesWhileReading(r)
      BY <3>1, <3>3 DEF LeavesWhileReading
    <3>4. CASE ErrorSent(r)
      BY <3>1, <3>4 DEF ErrorSent
    <3>5. CASE Collected(r)
      <4>1. Finish(r, "orphaned", status[r]) /\ handler[r] = "orphaned"
        BY <3>5 DEF Collected, Finish, Goes
      <4>2. status[r] \in StatusValues \ Unlogged /\ status[r] # "client_disconnected"
        BY <4>1, <1>0 DEF LogInv, RecordsFollowHandlers
      <4> QED BY <3>1, <4>1, <4>2
    <3> QED BY <1>8, <3>2, <3>3, <3>4, <3>5
  <2>2. left \subseteq left' /\ left' \in SUBSET Streaming
    <3>1. CASE LeavesWhileReading(r)
      BY <3>1, <1>0 DEF LeavesWhileReading, Finish, Goes, LogInv, InStream, Fits
    <3>2. CASE ~LeavesWhileReading(r)
      BY <3>2, <1>0, <1>8 DEF PostEnds, StreamEnds, Collected, ErrorSent
    <3> QED BY <3>1, <3>2
  <2> QED BY <2>1, <2>2, FinishMove
<1> QED BY <1>2, <1>3, <1>4, <1>5, <1>6, <1>7, <1>8, RaiseMove
        DEF Next, Enters, Leaves, Sends, Ends

LEMMA LogInvariance == Spec => []LogInv
<1>1. Init => LogInv
  <2> SUFFICES ASSUME Init PROVE LogInv
    OBVIOUS
  <2>1. At(Dispatched) = {} /\ Raised = {}
    BY DEF Init, GatewayInit, At, Dispatched, Raised
  <2>2. /\ Cardinality(At(Dispatched) \cup Raised) = 0
        /\ Cardinality(At(Dispatched) \cap Streaming) = 0
    BY <2>1, FS_EmptySet
  <2> QED BY <2>2 DEF Init, GatewayInit, LogInv, TypeOK, GaugesAreRight, RecordsFollowHandlers,
                      HandlerStates, StatusValues, Unlogged, Refusals, InStream, Fits
<1> QED BY <1>1, LogInvStep, PTL DEF Spec

\* The handlers, their statuses, the gauges and the log keep their types: no
\* gauge goes below zero.
THEOREM TypeCorrect == Spec => []TypeOK
<1>1. LogInv => TypeOK
  BY DEF LogInv
<1> QED BY <1>1, LogInvariance, PTL

\* Whatever happens to requests, clients and the upstream, limiter, barrier,
\* gauges and log agree on where every handler is, but for the gauge of those
\* that ended in an exception nobody expects (main.py:342-623).
THEOREM HandlersFollowed == Spec => []HandlersAreFollowed
<1>1. LogInv => GaugesAreRight /\ RecordsFollowHandlers
  BY DEF LogInv
<1>2. SlotsFollowHandlers /\ StagesFollowHandlers /\ GaugesAreRight /\ RecordsFollowHandlers
        => HandlersAreFollowed
  BY DEF HandlersAreFollowed
<1> QED BY <1>1, <1>2, LogInvariance, SlotsFollow, StagesFollow, PTL


-----------------------------------------------------------------------------
(* What the gateway promises by way of its parts: it takes only steps of    *)
(* the limiter and of the barrier, so their theorems hold of it.            *)

Lim == INSTANCE ConcurrencyLimiterProofs
Bar == INSTANCE BatchBarrierProofs

LEMMA PartsAssumed ==
  Lim!SemaphoreAssumption /\ Lim!QueueAssumption /\ Bar!BarrierAssumption
BY GatewayAssumption DEF Lim!SemaphoreAssumption, Lim!QueueAssumption, Lim!IsFiniteSet,
   Bar!BarrierAssumption, Bar!IsFiniteSet, IsFiniteSet

\* The limiter that the theorems are about is the limiter of the gateway.
LEMMA SameSets ==
  /\ \A states : Limiter!In(states) = Lim!In(states)
  /\ Limiter!Locked <=> Lim!Locked
  /\ \A k : Limiter!FirstPending(k) = Lim!FirstPending(k)
<1>1. /\ \A states : Limiter!In(states) = Lim!In(states)
      /\ Limiter!Locked <=> Lim!Locked
  BY DEF Limiter!In, Lim!In, Limiter!Locked, Lim!Locked
<1>2. Limiter!Pending = Lim!Pending
  BY <1>1 DEF Limiter!Pending, Lim!Pending
<1>3. \A q, r : Limiter!Before(q, r) <=> Lim!Before(q, r)
  BY DEF Limiter!Before, Lim!Before
<1>4. \A r : Limiter!Ahead(r) = Lim!Ahead(r)
  BY <1>2, <1>3 DEF Limiter!Ahead, Lim!Ahead
<1>5. \A S : Limiter!Cardinality(S) = Lim!Cardinality(S)
  BY DEF Limiter!Cardinality, Lim!Cardinality
<1>6. ASSUME NEW k PROVE Limiter!FirstPending(k) = Lim!FirstPending(k)
  BY <1>2, <1>4, <1>5 DEF Limiter!FirstPending, Lim!FirstPending
<1> QED BY <1>1, <1>6

LEMMA SameSteps ==
  ASSUME NEW r \in Requests
  PROVE  /\ Limiter!Admit(r) => Lim!Admit(r)
         /\ Limiter!Enqueue(r) => Lim!Enqueue(r)
         /\ Limiter!RejectOverload(r) => Lim!RejectOverload(r)
         /\ Limiter!TimerFires(r) => Lim!TimerFires(r)
         /\ Limiter!Resume(r) => Lim!Resume(r)
         /\ Limiter!ReleaseSlot(r) => Lim!ReleaseSlot(r)
<1>1. Limiter!Admit(r) => Lim!Admit(r)
  BY SameSets DEF Limiter!Admit, Lim!Admit, Limiter!AcquireNow, Lim!AcquireNow
<1>2. Limiter!Enqueue(r) => Lim!Enqueue(r)
  BY SameSets DEF Limiter!Enqueue, Lim!Enqueue, Limiter!AcquireWait, Lim!AcquireWait
<1>3. Limiter!RejectOverload(r) => Lim!RejectOverload(r)
  BY SameSets DEF Limiter!RejectOverload, Lim!RejectOverload
<1>4. Limiter!TimerFires(r) => Lim!TimerFires(r)
  BY DEF Limiter!TimerFires, Lim!TimerFires, Limiter!Expire, Lim!Expire
<1>5. \A S : Limiter!Cardinality(S) = Lim!Cardinality(S)
  BY DEF Limiter!Cardinality, Lim!Cardinality
<1>6. ASSUME NEW next, NEW free, NEW k, Limiter!MoveAndWake(r, next, free, k)
      PROVE  Lim!MoveAndWake(r, next, free, k)
  BY <1>5, <1>6, SameSets DEF Limiter!MoveAndWake, Lim!MoveAndWake
<1>7. Limiter!ReleaseSlot(r) => Lim!ReleaseSlot(r)
  BY <1>6 DEF Limiter!ReleaseSlot, Lim!ReleaseSlot, Limiter!Release, Lim!Release
<1>8. /\ Limiter!PositionOf(r) = Lim!PositionOf(r)
      /\ \A free : Limiter!WakeUps(r, free) = Lim!WakeUps(r, free)
      /\ \A i : Limiter!RemoveAt(waiters, i) = Lim!RemoveAt(waiters, i)
  BY DEF Limiter!PositionOf, Lim!PositionOf, Limiter!WakeUps, Lim!WakeUps,
         Limiter!RemoveAt, Lim!RemoveAt
<1>9. Limiter!ResumeAcquire(r) => Lim!ResumeAcquire(r)
  BY <1>6, <1>8 DEF Limiter!ResumeAcquire, Lim!ResumeAcquire
<1>10. Limiter!Resume(r) => Lim!Resume(r)
  BY <1>9 DEF Limiter!Resume, Lim!Resume
<1> QED BY <1>1, <1>2, <1>3, <1>4, <1>7, <1>10

LEMMA SameLimiter == Spec => Lim!Spec
<1>1. Init => Lim!Init
  BY DEF Init, Limiter!Init, Limiter!SemaphoreInit, Lim!Init, Lim!SemaphoreInit
<1>2. [Limiter!Next]_(Limiter!vars) => [Lim!Next]_(Lim!vars)
  BY SameSteps DEF Limiter!Next, Lim!Next, Limiter!vars, Lim!vars
<1> QED BY <1>1, <1>2, LimiterStep, PTL DEF Spec, Lim!Spec

\* And the barrier is that of the gateway.
LEMMA SameBarrier == Spec => Bar!Spec
<1>1. Init => Bar!Init
  BY DEF Init, Barrier!Init, Bar!Init
<1>2. UNCHANGED Barrier!vars => UNCHANGED Bar!vars
  BY DEF Barrier!vars, Bar!vars
<1>3. Barrier!Flush => Bar!Flush
  BY DEF Barrier!Flush, Bar!Flush
<1>4. Barrier!BarrierTask => Bar!BarrierTask
  BY <1>3 DEF Barrier!BarrierTask, Bar!BarrierTask, Barrier!TimerElapses, Bar!TimerElapses,
         Barrier!RunTimer, Bar!RunTimer, Barrier!RunFlush, Bar!RunFlush
<1>5. ASSUME NEW r \in Requests
      PROVE  /\ Barrier!Enter(r) => Bar!Enter(r)
             /\ Barrier!Resume(r) => Bar!Resume(r)
  BY DEF Barrier!Enter, Bar!Enter, Barrier!Resume, Bar!Resume
<1>6. Barrier!Finished => Bar!Finished
  BY <1>2 DEF Barrier!Finished, Bar!Finished
<1>7. [Barrier!Next]_(Barrier!vars) => [Bar!Next]_(Bar!vars)
  BY <1>2, <1>4, <1>5, <1>6 DEF Barrier!Next, Bar!Next
<1> QED BY <1>1, <1>7, BarrierStepOrStutter, PTL DEF Spec, Bar!Spec

LEMMA PartsKeepTheirPromise == Spec => []Lim!IInv /\ []Bar!IInv
<1>1. Lim!SemaphoreAssumption
  BY PartsAssumed
<1>2. Lim!QueueAssumption
  BY PartsAssumed
<1>3. Bar!BarrierAssumption
  BY PartsAssumed
<1>4. Lim!Spec => []Lim!IInv
  BY <1>1, <1>2, Lim!Invariance, Lim!SemaphoreAssumption, Lim!QueueAssumption
<1>5. Bar!Spec => []Bar!IInv
  BY <1>3, Bar!Invariance, Bar!BarrierAssumption
<1> QED BY <1>4, <1>5, SameLimiter, SameBarrier, PTL

PartsInv == Lim!IInv /\ Bar!IInv /\ SlotsFollowHandlers /\ StagesFollowHandlers

LEMMA SubsetCount ==
  ASSUME NEW S \in SUBSET Requests, NEW T \in SUBSET Requests, S \subseteq T
  PROVE  /\ Cardinality(S) \in Nat /\ Cardinality(T) \in Nat
         /\ Cardinality(S) <= Cardinality(T)
<1>1. IsFiniteSet(S) /\ IsFiniteSet(T)
  BY GatewayAssumption, FS_Subset
<1> QED BY <1>1, FS_CardinalityType, FS_Subset

LEMMA PartsLimitTheLoad ==
  ASSUME PartsInv
  PROVE  /\ Cardinality(At(Holding)) <= MaxConcurrency
         /\ Cardinality(At({"queued"})) <= QueueSize
         /\ Len(pending) <= MaxConcurrency
         /\ Len(pending) \in Nat
<1> DEFINE Own == {r \in Requests : slot[r] \in {"woken", "handback", "held"}}
           Deque == {r \in Requests : slot[r] \in Lim!InDeque}
           Wait == {r \in Requests : stage[r] = "waiting"}
           Hold == At(Holding)
           Queue == At({"queued"})
<1>0. \A S : Lim!Cardinality(S) = Cardinality(S) /\ Bar!Cardinality(S) = Cardinality(S)
  BY DEF Lim!Cardinality, Bar!Cardinality, Cardinality
<1>1. value \in Nat /\ value + Cardinality(Own) = MaxConcurrency
  <2>1. Lim!In(Lim!Owning) = Own
    BY DEF Lim!In, Lim!Owning
  <2>2. value \in 0..MaxConcurrency /\ value + Lim!Cardinality(Lim!In(Lim!Owning)) = MaxConcurrency
    BY DEF PartsInv, Lim!IInv, Lim!SemaphoreInv, Lim!SemaphoreTypeOK, Lim!SlotsConserved
  <2> HIDE DEF Own
  <2> QED BY <1>0, <2>1, <2>2, GatewayAssumption
<1>2. Cardinality(Deque) <= QueueSize
  <2>1. Lim!In(Lim!InDeque) = Deque
    BY DEF Lim!In
  <2>2. queueCount \in 0..QueueSize /\ queueCount = Lim!Cardinality(Lim!In(Lim!InDeque))
    BY DEF PartsInv, Lim!IInv, Lim!TypeOK, Lim!CountsTheWaiting
  <2> HIDE DEF Deque
  <2> QED BY <1>0, <2>1, <2>2, GatewayAssumption
<1>3. Len(pending) = Cardinality(Wait) /\ Len(pending) \in Nat
  <2>1. Bar!Waiting = Wait
    BY DEF Bar!Waiting
  <2>2. pending \in Seq(Requests) /\ Bar!PendingIsWaiting
    BY DEF PartsInv, Bar!IInv, Bar!TypeOK
  <2>3. Bar!BarrierAssumption
    BY PartsAssumed
  <2>4. Len(pending) = Bar!Cardinality(Bar!Waiting) /\ Len(pending) \in Nat
    BY <2>2, <2>3, Bar!PendingCount, Bar!BarrierAssumption
  <2> HIDE DEF Wait
  <2> QED BY <1>0, <2>1, <2>4
<1>4. Hold \subseteq Own
  BY DEF PartsInv, SlotsFollowHandlers, At
<1>5. Queue \subseteq Deque
  <2>1. Limiter!InDeque = Lim!InDeque
    BY DEF Limiter!InDeque, Lim!InDeque
  <2> QED BY <2>1 DEF PartsInv, SlotsFollowHandlers, At
<1>6. Wait \subseteq Hold
  BY DEF PartsInv, StagesFollowHandlers, At, Holding
<1>7. /\ Own \in SUBSET Requests /\ Deque \in SUBSET Requests /\ Wait \in SUBSET Requests
      /\ Hold \in SUBSET Requests /\ Queue \in SUBSET Requests
  BY DEF At
<1> HIDE DEF Own, Deque, Wait, Hold, Queue
<1>8. /\ Cardinality(Hold) \in Nat /\ Cardinality(Own) \in Nat /\ Cardinality(Wait) \in Nat
      /\ Cardinality(Hold) <= Cardinality(Own) /\ Cardinality(Wait) <= Cardinality(Hold)
  BY <1>4, <1>6, <1>7, SubsetCount
<1>9. /\ Cardinality(Queue) \in Nat /\ Cardinality(Deque) \in Nat
      /\ Cardinality(Queue) <= Cardinality(Deque)
  BY <1>5, <1>7, SubsetCount
<1>10. Cardinality(Hold) <= MaxConcurrency
  BY <1>1, <1>8, GatewayAssumption
<1>11. Cardinality(Queue) <= QueueSize
  BY <1>2, <1>9, GatewayAssumption
<1>12. Len(pending) <= MaxConcurrency
  BY <1>3, <1>8, <1>10, GatewayAssumption
<1> QED BY <1>3, <1>10, <1>11, <1>12 DEF Hold, Queue

\* A flush task is made only for a batch that is full.
LEMMA FlushesNeedFullBatch ==
  ASSUME flushes = 0, Barrier!Next \/ UNCHANGED Barrier!vars,
         pending \in Seq(Requests), Len(pending') < MaxBatch, Len(pending) < MaxBatch
  PROVE  flushes' = 0
<1>1. CASE UNCHANGED Barrier!vars \/ Barrier!Finished
  BY <1>1 DEF Barrier!vars, Barrier!Finished
<1>2. CASE Barrier!BarrierTask
  BY <1>2 DEF Barrier!BarrierTask, Barrier!TimerElapses, Barrier!RunTimer, Barrier!RunFlush
<1>3. ASSUME NEW r \in Requests, Barrier!Enter(r)
      PROVE  flushes' = 0
  <2>1. /\ pending' = Append(pending, r)
        /\ flushes' = IF Len(pending) + 1 >= MaxBatch THEN flushes + 1 ELSE flushes
    BY <1>3 DEF Barrier!Enter
  <2>2. Len(pending') = Len(pending) + 1 /\ Len(pending) \in Nat
    BY <2>1, AppendProperties, LenProperties
  <2> QED BY <2>1, <2>2, GatewayAssumption
<1>4. ASSUME NEW r \in Requests, Barrier!Resume(r)
      PROVE  flushes' = 0
  BY <1>4 DEF Barrier!Resume
<1> QED BY <1>1, <1>2, <1>3, <1>4 DEF Barrier!Next

\* With fewer slots than batch_max_size no batch has ever been full.
NoFlushTask == MaxConcurrency < MaxBatch => flushes = 0

LEMMA NoFullBatch == Spec /\ []PartsInv => []NoFlushTask
<1>1. Init => NoFlushTask
  BY DEF Init, Barrier!Init, NoFlushTask
<1>2. PartsInv /\ PartsInv' /\ [Next]_vars /\ NoFlushTask => NoFlushTask'
  <2> SUFFICES ASSUME PartsInv, PartsInv', [Next]_vars, MaxConcurrency < MaxBatch, flushes = 0
               PROVE  flushes' = 0
    BY DEF NoFlushTask
  <2>1. Len(pending) < MaxBatch
    BY PartsLimitTheLoad, GatewayAssumption
  <2>2. Len(pending') < MaxBatch
    <3>1. (Len(pending) <= MaxConcurrency /\ Len(pending) \in Nat)'
      BY PartsLimitTheLoad, PTL
    <3> QED BY <3>1, GatewayAssumption
  <2>3. pending \in Seq(Requests)
    BY DEF PartsInv, Bar!IInv, Bar!TypeOK
  <2>4. Barrier!Next \/ UNCHANGED Barrier!vars
    BY BarrierStepOrStutter
  <2> QED BY <2>1, <2>2, <2>3, <2>4, FlushesNeedFullBatch
<1> QED BY <1>1, <1>2, PTL DEF Spec

LEMMA PartsInvariance == Spec => []PartsInv
<1>1. Lim!IInv /\ Bar!IInv /\ SlotsFollowHandlers /\ StagesFollowHandlers => PartsInv
  BY DEF PartsInv
<1> QED BY <1>1, PartsKeepTheirPromise, SlotsFollow, StagesFollow, PTL

\* The limits hold of handlers, not only of the semaphore: over every error,
\* timeout and disconnect no more than MaxConcurrency requests are past
\* acquire_slot, and no more than QueueSize in it (concurrency.py:22-64).
THEOREM LoadStaysLimited == Spec => []LoadIsLimited
<1>1. PartsInv => LoadIsLimited
  BY PartsLimitTheLoad DEF LoadIsLimited
<1> QED BY <1>1, PartsInvariance, PTL

\* With fewer slots than batch_max_size the "full batch" branch of wait is never
\* taken, and a current timer is on its way to every waiting request
\* (batcher.py:88-89 behind main.py:375-384).
THEOREM BatchesFit == Spec => []BatchesFitTheSlots
<1>1. PartsInv /\ NoFlushTask => BatchesFitTheSlots
  <2> SUFFICES ASSUME PartsInv, NoFlushTask PROVE BatchesFitTheSlots
    OBVIOUS
  <2>1. pending # <<>> => flushes > 0 \/ \E t \in Bar!Windows : t.gen = timerGen
    BY DEF PartsInv, Bar!IInv, Bar!NoStrandedWaiter
  <2>2. Bar!Windows = Barrier!Windows
    BY DEF Bar!Windows, Barrier!Windows, Bar!ToSet, Barrier!ToSet
  <2>3. Len(pending) <= MaxConcurrency
    BY PartsLimitTheLoad
  <2> QED BY <2>1, <2>2, <2>3 DEF BatchesFitTheSlots, NoFlushTask
<1> QED BY <1>1, NoFullBatch, PartsInvariance, PTL

=============================================================================
