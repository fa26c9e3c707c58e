------------------------- MODULE ChatServiceProofs -------------------------
(***************************************************************************)
(* Theorems about ChatService for any requests, limits and quotas.         *)
(***************************************************************************)
EXTENDS ChatService, FiniteSetTheorems, TLAPS

\* Where handlers and slots are, how the one follows the other, and that only a
\* streaming request is in a stream.
SlotInv ==
  /\ phase \in [Requests -> Phases]
  /\ slot \in [Requests -> Limiter!SlotStates]
  /\ \A r \in Requests :
       /\ phase[r] \in InStream => r \in Streaming
       /\ phase[r] = "posting" => r \notin Streaming
  /\ SlotsFollowHandlers

\* What a step of a handler has to do: request r and its slot go on together,
\* and the others stay, but for those that are given a slot while they wait.
LEMMA SlotMove ==
  ASSUME SlotInv, NEW r \in Requests, NEW s \in Phases, NEW t \in Limiter!SlotStates,
         phase' = [phase EXCEPT ![r] = s],
         slot' \in [Requests -> Limiter!SlotStates], slot'[r] = t,
         \A q \in Requests \ {r} :
            slot'[q] = slot[q] \/ (slot[q] = "pending" /\ slot'[q] = "woken"),
         s \in InStream => r \in Streaming,
         s = "posting" => r \notin Streaming,
         t = "held" <=> Owns(r, s),
         t \in Limiter!InDeque <=> s = "queued"
  PROVE  SlotInv'
<1>1. phase' \in [Requests -> Phases] /\ phase'[r] = s
  BY DEF SlotInv
<1>2. ASSUME NEW q \in Requests
      PROVE  /\ slot'[q] = "held" <=> Owns(q, phase'[q])
             /\ slot'[q] \in Limiter!InDeque <=> phase'[q] = "queued"
             /\ phase'[q] \in InStream => q \in Streaming
             /\ phase'[q] = "posting" => q \notin Streaming
  <2>1. CASE q = r
    BY <1>1, <2>1
  <2>2. CASE q # r
    <3>1. phase'[q] = phase[q]
      BY <2>2 DEF SlotInv
    <3>2. slot'[q] = slot[q] \/ (slot[q] = "pending" /\ slot'[q] = "woken")
      BY <2>2
    <3>3. /\ slot[q] = "held" <=> Owns(q, phase[q])
          /\ slot[q] \in Limiter!InDeque <=> phase[q] = "queued"
          /\ phase[q] \in InStream => q \in Streaming
          /\ phase[q] = "posting" => q \notin Streaming
      BY DEF SlotInv, SlotsFollowHandlers
    <3> QED BY <3>1, <3>2, <3>3 DEF Limiter!InDeque
  <2> QED BY <2>1, <2>2
<1>3. (\A q \in Requests : slot[q] = "held" <=> Owns(q, phase[q]))'
  BY <1>2 DEF Owns, InStream, Started, Ending
<1> QED BY <1>1, <1>2, <1>3 DEF SlotInv, SlotsFollowHandlers

\* What the semaphore does to the slots when it hands some on.
LEMMA SlotsMoved ==
  ASSUME SlotInv, NEW r \in Requests, NEW t \in Limiter!SlotStates, NEW free, NEW k,
         Limiter!MoveAndWake(r, t, free, k)
  PROVE  /\ slot' \in [Requests -> Limiter!SlotStates] /\ slot'[r] = t
         /\ \A q \in Requests \ {r} :
              slot'[q] = slot[q] \/ (slot[q] = "pending" /\ slot'[q] = "woken")
<1>1. \A q \in Limiter!FirstPending(k) : q \in Requests /\ slot[q] = "pending"
  BY DEF Limiter!FirstPending, Limiter!Pending, Limiter!In
<1>2. slot' = [q \in Requests |-> IF q = r THEN t
                                  ELSE IF q \in Limiter!FirstPending(k) THEN "woken"
                                  ELSE slot[q]]
  BY DEF Limiter!MoveAndWake
<1>3. slot \in [Requests -> Limiter!SlotStates] /\ "woken" \in Limiter!SlotStates
  BY DEF SlotInv, Limiter!SlotStates
<1> QED BY <1>1, <1>2, <1>3

\* A handler that gives its slot back: to the end of its stream's finally block,
\* or to the end of its task.
LEMMA ReleaseMoves ==
  ASSUME SlotInv, NEW r \in Requests, NEW s \in {"logging", "answered"},
         phase' = [phase EXCEPT ![r] = s], Limiter!ReleaseSlot(r),
         s = "logging" => r \in Streaming
  PROVE  SlotInv'
<1>1. Limiter!MoveAndWake(r, "none", value + 1, 1)
  BY DEF Limiter!ReleaseSlot, Limiter!Release
<1>2. "none" \in Limiter!SlotStates /\ s \in Phases
  BY DEF Limiter!SlotStates, Phases, Ending
<1>3. "none" \notin Limiter!InDeque /\ s # "queued" /\ s \notin InStream /\ s # "posting"
  BY DEF Limiter!InDeque, InStream, Started
<1>4. ~Owns(r, s)
  BY DEF Owns, InStream, Started, Ending
<1>5. /\ slot' \in [Requests -> Limiter!SlotStates] /\ slot'[r] = "none"
      /\ \A q \in Requests \ {r} :
           slot'[q] = slot[q] \/ (slot[q] = "pending" /\ slot'[q] = "woken")
  BY <1>1, <1>2, SlotsMoved
<1> QED BY <1>2, <1>3, <1>4, <1>5, SlotMove

\* A handler that goes on while all slots stay as they are.
LEMMA PhaseMoves ==
  ASSUME SlotInv, NEW r \in Requests, NEW s \in Phases,
         phase' = [phase EXCEPT ![r] = s], UNCHANGED slot,
         Owns(r, phase[r]) <=> Owns(r, s), phase[r] # "queued", s # "queued",
         s \in InStream => r \in Streaming, s = "posting" => r \notin Streaming
  PROVE  SlotInv'
<1>1. slot[r] \in Limiter!SlotStates /\ slot' \in [Requests -> Limiter!SlotStates]
  BY DEF SlotInv
<1>2. (slot[r] = "held" <=> Owns(r, s)) /\ (slot[r] \in Limiter!InDeque <=> s = "queued")
  BY DEF SlotInv, SlotsFollowHandlers
<1> QED BY <1>1, <1>2, SlotMove

LEMMA EndsMoves ==
  ASSUME SlotInv, NEW r \in Requests, NEW from \in {"posting"} \cup Ending, Ends(r, from)
  PROVE  SlotInv'
<1>1. phase[r] = from /\ phase' = [phase EXCEPT ![r] = "answered"]
  BY DEF Ends, Goes
<1>2. CASE r \notin Streaming
  BY <1>1, <1>2, ReleaseMoves DEF Ends
<1>3. CASE r \in Streaming
  <2>1. UNCHANGED slot /\ from # "posting"
    BY <1>1, <1>3 DEF Ends, limiterVars, SlotInv
  <2>2. ~Owns(r, from) /\ ~Owns(r, "answered")
    BY <1>3, <2>1 DEF Owns, InStream, Started, Ending
  <2>3. from # "queued" /\ "answered" \notin InStream /\ "answered" \in Phases
    BY DEF Ending, InStream, Started, Phases
  <2> QED BY <1>1, <2>1, <2>2, <2>3, PhaseMoves
<1> QED BY <1>2, <1>3

LEMMA ClosesMoves ==
  ASSUME SlotInv, NEW r \in Requests, NEW from \in InStream, NEW k, Closes(r, from, k)
  PROVE  SlotInv'
<1>1. phase[r] = from /\ phase' = [phase EXCEPT ![r] = "logging"] /\ Limiter!ReleaseSlot(r)
  BY DEF Closes, Goes
<1>2. r \in Streaming
  BY <1>1 DEF SlotInv
<1> QED BY <1>1, <1>2, ReleaseMoves

\* A handler that gets a slot, or starts to wait for one.
LEMMA GetsSlot ==
  ASSUME SlotInv, NEW r \in Requests, Admitted(r) \/ Queued(r) \/ Served(r) \/ NotServed(r)
  PROVE  SlotInv'
<1> DEFINE b == IF r \in Streaming THEN "opening" ELSE "posting"
<1>0. /\ b \in Phases /\ Owns(r, b) /\ b # "queued"
      /\ b \in InStream => r \in Streaming
      /\ b = "posting" => r \notin Streaming
  BY DEF Phases, Owns, InStream, Started
<1> HIDE DEF b
<1>1. CASE Admitted(r)
  <2>1. phase' = [phase EXCEPT ![r] = b] /\ slot' = [slot EXCEPT ![r] = "held"]
    BY <1>1 DEF Admitted, Begins, Goes, Limiter!Admit, Limiter!AcquireNow, b
  <2>2. "held" \in Limiter!SlotStates /\ "held" \notin Limiter!InDeque
    BY DEF Limiter!SlotStates, Limiter!InDeque
  <2>3. slot' \in [Requests -> Limiter!SlotStates] /\ slot'[r] = "held"
        /\ \A q \in Requests \ {r} : slot'[q] = slot[q]
    BY <2>1, <2>2 DEF SlotInv
  <2> QED BY <1>0, <2>1, <2>2, <2>3, SlotMove
<1>2. CASE Queued(r)
  <2>1. phase' = [phase EXCEPT ![r] = "queued"] /\ slot' = [slot EXCEPT ![r] = "pending"]
    BY <1>2 DEF Queued, Goes, Limiter!Enqueue, Limiter!AcquireWait
  <2>2. /\ "pending" \in Limiter!SlotStates /\ "pending" \in Limiter!InDeque
        /\ "queued" \in Phases /\ ~Owns(r, "queued") /\ "queued" \notin InStream
    BY DEF Limiter!SlotStates, Limiter!InDeque, Phases, Owns, InStream, Started, Ending
  <2>3. slot' \in [Requests -> Limiter!SlotStates] /\ slot'[r] = "pending"
        /\ \A q \in Requests \ {r} : slot'[q] = slot[q]
    BY <2>1, <2>2 DEF SlotInv
  <2> QED BY <2>1, <2>2, <2>3, SlotMove
<1>3. CASE Served(r)
  <2>1. phase' = [phase EXCEPT ![r] = b] /\ slot[r] = "woken"
    BY <1>3 DEF Served, Begins, Goes, b
  <2>2. PICK free, k : Limiter!MoveAndWake(r, "held", free, k)
    BY <1>3, <2>1 DEF Served, Limiter!Resume, Limiter!ResumeAcquire
  <2>3. "held" \in Limiter!SlotStates /\ "held" \notin Limiter!InDeque
    BY DEF Limiter!SlotStates, Limiter!InDeque
  <2>4. /\ slot' \in [Requests -> Limiter!SlotStates] /\ slot'[r] = "held"
        /\ \A q \in Requests \ {r} :
             slot'[q] = slot[q] \/ (slot[q] = "pending" /\ slot'[q] = "woken")
    BY <2>2, <2>3, SlotsMoved
  <2> QED BY <1>0, <2>1, <2>3, <2>4, SlotMove
<1>4. CASE NotServed(r)
  <2>1. PICK s \in {"answered", "refusing"} : phase' = [phase EXCEPT ![r] = s]
    BY <1>4 DEF NotServed, Goes
  <2>2. PICK free, k : Limiter!MoveAndWake(r, "none", free, k)
    BY <1>4 DEF NotServed, Limiter!Resume, Limiter!ResumeAcquire
  <2>3. "none" \in Limiter!SlotStates /\ "none" \notin Limiter!InDeque
    BY DEF Limiter!SlotStates, Limiter!InDeque
  <2>4. s \in Phases /\ ~Owns(r, s) /\ s \notin InStream /\ s # "posting" /\ s # "queued"
    BY DEF Phases, Owns, InStream, Started, Ending
  <2>5. /\ slot' \in [Requests -> Limiter!SlotStates] /\ slot'[r] = "none"
        /\ \A q \in Requests \ {r} :
             slot'[q] = slot[q] \/ (slot[q] = "pending" /\ slot'[q] = "woken")
    BY <2>2, <2>3, SlotsMoved
  <2> QED BY <2>1, <2>3, <2>4, <2>5, SlotMove
<1> QED BY <1>1, <1>2, <1>3, <1>4

\* Timers and cancellations: the request stays in the queue.
LEMMA StaysQueued ==
  ASSUME SlotInv, NEW r \in Requests, QueueTimer(r) \/ LeavesQueue(r)
  PROVE  SlotInv'
<1>1. PICK t \in Limiter!InDeque : slot' = [slot EXCEPT ![r] = t]
  BY DEF QueueTimer, LeavesQueue, Limiter!TimerFires, Limiter!Expire, Limiter!Cancel,
         Limiter!InDeque
<1>2. phase' = phase /\ slot[r] \in Limiter!InDeque
  BY DEF QueueTimer, LeavesQueue, Limiter!TimerFires, Limiter!Expire, Limiter!Cancel,
         Limiter!InDeque
<1>3. phase[r] = "queued" /\ phase' = [phase EXCEPT ![r] = "queued"]
  BY <1>2 DEF SlotInv, SlotsFollowHandlers
<1>4. t \in Limiter!SlotStates /\ t # "held"
  BY DEF Limiter!SlotStates, Limiter!InDeque
<1>5. slot' \in [Requests -> Limiter!SlotStates] /\ slot'[r] = t
      /\ \A q \in Requests \ {r} : slot'[q] = slot[q]
  BY <1>1, <1>4 DEF SlotInv
<1>6. "queued" \in Phases /\ ~Owns(r, "queued") /\ "queued" \notin InStream
  BY DEF Phases, Owns, InStream, Started, Ending
<1> QED BY <1>3, <1>4, <1>5, <1>6, SlotMove

\* Steps within the stream, or outside all that has to do with slots.
LEMMA StaysPut ==
  ASSUME SlotInv, NEW r \in Requests, UNCHANGED slot, NEW from, NEW s, Goes(r, from, s),
         \/ {from, s} \subseteq InStream
         \/ {from, s} \subseteq Ending \cup {"answered"} /\ r \in Streaming
         \/ {from, s} \subseteq Ending
         \/ {from, s} \subseteq {"idle", "limiting", "checking", "refusing", "answered"}
         \/ from = "posting" /\ s = "logging"
  PROVE  SlotInv'
<1>1. phase[r] = from /\ phase' = [phase EXCEPT ![r] = s]
  BY DEF Goes
<1>2. from \in InStream => r \in Streaming
  BY <1>1 DEF SlotInv
<1>3. from = "posting" => r \notin Streaming
  BY <1>1 DEF SlotInv
<1>4. /\ s \in Phases /\ from # "queued" /\ s # "queued" /\ s # "posting"
      /\ s \in InStream => r \in Streaming
  BY <1>2 DEF Phases, InStream, Started, Ending
<1>5. Owns(r, from) <=> Owns(r, s)
  BY <1>2, <1>3 DEF Owns, InStream, Started, Ending
<1> QED BY <1>1, <1>4, <1>5, PhaseMoves

LEMMA SlotInvStep == SlotInv /\ [Next]_vars => SlotInv'
<1> SUFFICES ASSUME SlotInv, [Next]_vars PROVE SlotInv'
  OBVIOUS
<1>1. CASE UNCHANGED <<phase, slot>>
  BY <1>1 DEF SlotInv, SlotsFollowHandlers, Owns
<1>2. CASE UNCHANGED vars \/ Finished
  BY <1>1, <1>2 DEF vars, limiterVars, Finished
<1>3. ASSUME NEW r \in Requests, QuotaThread(r)
      PROVE  SlotInv'
  BY <1>1, <1>3 DEF QuotaThread, limiterVars
<1>4. ASSUME NEW r \in Requests,
             Arrive(r) \/ RateAnswers(r) \/ OverQuota(r) \/ Overloaded(r)
             \/ RefusalLogged(r) \/ LeavesEarly(r) \/ CheckRaises(r)
      PROVE  SlotInv'
  <2>1. PICK from \in {"idle", "limiting", "checking", "refusing"},
             s \in {"limiting", "checking", "refusing", "answered"} : Goes(r, from, s)
    BY <1>4 DEF Arrive, RateAnswers, OverQuota, Overloaded, RefusalLogged, LeavesEarly,
                CheckRaises
  <2>2. UNCHANGED slot
    BY <1>4 DEF Arrive, RateAnswers, OverQuota, Overloaded, RefusalLogged, LeavesEarly,
                CheckRaises, Limiter!RejectOverload, Limiter!vars, limiterVars
  <2> QED BY <2>1, <2>2, StaysPut
<1>5. ASSUME NEW r \in Requests,
             StreamStarts(r) \/ Yields(r) \/ ChunkSent(r) \/ LeavesWhileYielding(r)
             \/ LeavesUnstarted(r)
      PROVE  SlotInv'
  <2>1. PICK from \in InStream, s \in InStream : Goes(r, from, s)
    BY <1>5 DEF StreamStarts, Yields, ChunkSent, LeavesWhileYielding, LeavesUnstarted,
                InStream, Started
  <2>2. UNCHANGED slot
    BY <1>5 DEF StreamStarts, Yields, ChunkSent, LeavesWhileYielding, LeavesUnstarted,
                limiterVars
  <2> QED BY <2>1, <2>2, StaysPut
<1>6. ASSUME NEW r \in Requests,
             ErrorSent(r) \/ StreamEnds(r) \/ StreamBreaks(r) \/ Collected(r)
             \/ LeavesWhileReading(r)
      PROVE  SlotInv'
  BY <1>6, ClosesMoves
     DEF ErrorSent, StreamEnds, StreamBreaks, Collected, LeavesWhileReading, InStream, Started
<1>7. ASSUME NEW r \in Requests, PostAnswers(r) \/ Recorded(r)
      PROVE  SlotInv'
  <2>1. CASE PostAnswers(r)
    BY <2>1, StaysPut DEF PostAnswers, limiterVars
  <2>2. CASE Recorded(r)
    BY <2>2, StaysPut DEF Recorded, limiterVars, Ending
  <2> QED BY <1>7, <2>1, <2>2
<1>8. ASSUME NEW r \in Requests,
             Logged(r) \/ LogFails(r) \/ RecordRaises(r) \/ Bumped(r) \/ LeavesLate(r)
      PROVE  SlotInv'
  <2>1. CASE \E from \in {"posting"} \cup Ending : Ends(r, from)
    BY <2>1, EndsMoves
  <2>2. CASE Logged(r) /\ kind[r] = ""
    BY <2>2, StaysPut DEF Logged, limiterVars, Ending
  <2> QED BY <1>8, <2>1, <2>2
          DEF Logged, LogFails, RecordRaises, Bumped, Bumps, LeavesLate, Ending
<1> QED BY <1>2, <1>3, <1>4, <1>5, <1>6, <1>7, <1>8, GetsSlot, StaysQueued
        DEF Next, Enters, Sends, Closing, Settles, Leaves

LEMMA SlotInvInit == Init => SlotInv
BY DEF Init, ServiceInit, Limiter!Init, Limiter!SemaphoreInit, SlotInv, Phases,
       SlotsFollowHandlers, Limiter!SlotStates, Limiter!InDeque, Owns, InStream, Started, Ending

\* Over every path through the service (errors, exceptions, failing logs,
\* cancellations at any await, generators closed by the event loop or never begun)
\* a slot is held exactly while its request is worked for, or for good if its
\* stream was dropped before it began, and nobody waits for one but a request in
\* acquire_slot (chat_completion.py:215-285, 404-406, 454-461).
THEOREM ChatSlotsFollow == Spec => []SlotsFollowHandlers
<1>1. SlotInv => SlotsFollowHandlers
  BY DEF SlotInv
<1> QED BY <1>1, SlotInvInit, SlotInvStep, PTL DEF Spec

-----------------------------------------------------------------------------

\* The gauges, which follow the handlers as the slots do.
GaugeInv == SlotInv /\ GaugesAreRight

One(p) == IF p THEN 1 ELSE 0

LEMMA RemoveCount ==
  ASSUME NEW S, IsFiniteSet(S), NEW x
  PROVE  Cardinality(S) \in Nat /\ Cardinality(S \ {x}) = Cardinality(S) - One(x \in S)
BY FS_RemoveElement, FS_CardinalityType DEF One

\* How a count moves when one request enters or leaves what is counted.
LEMMA CountMove ==
  ASSUME NEW Before \in SUBSET Requests, NEW After \in SUBSET Requests, NEW r,
         Before \ {r} = After \ {r}
  PROVE  /\ Cardinality(Before) \in Nat /\ Cardinality(After) \in Nat
         /\ Cardinality(After) = Cardinality(Before) + One(r \in After) - One(r \in Before)
<1>1. IsFiniteSet(Before) /\ IsFiniteSet(After)
  BY ChatAssumption, FS_Subset
<1>2. /\ Cardinality(Before) \in Nat
      /\ Cardinality(Before \ {r}) = Cardinality(Before) - One(r \in Before)
  BY <1>1, RemoveCount
<1>3. /\ Cardinality(After) \in Nat
      /\ Cardinality(After \ {r}) = Cardinality(After) - One(r \in After)
  BY <1>1, RemoveCount
<1> QED BY <1>2, <1>3 DEF One

\* What a step of a handler has to do for the gauges.
LEMMA GaugeMove ==
  ASSUME GaugeInv, SlotInv', NEW r \in Requests, NEW s,
         phase' = [phase EXCEPT ![r] = s],
         active' = active + One(Owns(r, s)) - One(Owns(r, phase[r])),
         inFlight' = inFlight + One(s \in Started) - One(phase[r] \in Started)
  PROVE  GaugeInv'
<1>1. /\ phase \in [Requests -> Phases]
      /\ active = Cardinality(Working) /\ inFlight = Cardinality(At(Started))
  BY DEF GaugeInv, SlotInv, GaugesAreRight, Started
<1>2. phase'[r] = s /\ \A q \in Requests \ {r} : phase'[q] = phase[q]
  BY <1>1
<1>3. /\ Working \in SUBSET Requests /\ Working' \in SUBSET Requests
      /\ Working \ {r} = Working' \ {r}
      /\ r \in Working <=> Owns(r, phase[r])
      /\ r \in Working' <=> Owns(r, s)
  BY <1>2 DEF Working, Owns
<1>4. Cardinality(Working') = Cardinality(Working) + One(r \in Working') - One(r \in Working)
  BY <1>3, CountMove
<1>5. One(r \in Working') = One(Owns(r, s)) /\ One(r \in Working) = One(Owns(r, phase[r]))
  BY <1>3 DEF One
<1>6. active' = Cardinality(Working')
  BY <1>1, <1>4, <1>5
<1>7. /\ At(Started) \in SUBSET Requests /\ At(Started)' \in SUBSET Requests
      /\ At(Started) \ {r} = At(Started)' \ {r}
      /\ r \in At(Started) <=> phase[r] \in Started
      /\ r \in At(Started)' <=> s \in Started
  BY <1>2 DEF At
<1>8. Cardinality(At(Started)') =
        Cardinality(At(Started)) + One(r \in At(Started)') - One(r \in At(Started))
  BY <1>7, CountMove
<1>9. /\ One(r \in At(Started)') = One(s \in Started)
      /\ One(r \in At(Started)) = One(phase[r] \in Started)
  BY <1>7 DEF One
<1>10. inFlight' = Cardinality(At(Started)')
  BY <1>1, <1>8, <1>9
<1> QED BY <1>6, <1>10 DEF GaugeInv, GaugesAreRight, Started

\* A step that leaves the gauges alone must not change what they count.
LEMMA GaugesStay ==
  ASSUME GaugeInv, SlotInv', NEW r \in Requests, NEW from, NEW s, Goes(r, from, s),
         Owns(r, from) <=> Owns(r, s), from \in Started <=> s \in Started,
         UNCHANGED gaugeVars
  PROVE  GaugeInv'
<1>1. phase[r] = from /\ phase' = [phase EXCEPT ![r] = s]
  BY DEF Goes
<1>2. active \in Nat /\ inFlight \in Nat
  BY CountMove DEF GaugeInv, GaugesAreRight, Working, At
<1>3. /\ active' = active + One(Owns(r, s)) - One(Owns(r, phase[r]))
      /\ inFlight' = inFlight + One(s \in Started) - One(phase[r] \in Started)
  BY <1>1, <1>2 DEF gaugeVars, One
<1> QED BY <1>1, <1>3, GaugeMove

LEMMA GaugesOfEnds ==
  ASSUME GaugeInv, SlotInv', NEW r \in Requests, NEW from \in {"posting"} \cup Ending,
         Ends(r, from)
  PROVE  GaugeInv'
<1>1. /\ phase[r] = from /\ phase' = [phase EXCEPT ![r] = "answered"]
      /\ inFlight' = inFlight /\ active' = IF r \in Streaming THEN active ELSE active - 1
  BY DEF Ends, Goes
<1>2. active \in Nat /\ inFlight \in Nat
  BY CountMove DEF GaugeInv, GaugesAreRight, Working, At
<1>3. from = "posting" => r \notin Streaming
  BY <1>1 DEF GaugeInv, SlotInv
<1>4. /\ Owns(r, from) <=> r \notin Streaming
      /\ ~Owns(r, "answered") /\ from \notin Started /\ "answered" \notin Started
  BY <1>3 DEF Owns, InStream, Ending, Started
<1>5. /\ active' = active + One(Owns(r, "answered")) - One(Owns(r, phase[r]))
      /\ inFlight' = inFlight + One("answered" \in Started) - One(phase[r] \in Started)
  BY <1>1, <1>2, <1>4 DEF One
<1> QED BY <1>1, <1>5, GaugeMove

LEMMA GaugesOfCloses ==
  ASSUME GaugeInv, SlotInv', NEW r \in Requests, NEW from \in Started, NEW k, Closes(r, from, k)
  PROVE  GaugeInv'
<1>1. /\ phase[r] = from /\ phase' = [phase EXCEPT ![r] = "logging"]
      /\ active' = active - 1 /\ inFlight' = inFlight - 1
  BY DEF Closes, Goes
<1>2. active \in Nat /\ inFlight \in Nat
  BY CountMove DEF GaugeInv, GaugesAreRight, Working, At
<1>3. r \in Streaming
  BY <1>1 DEF GaugeInv, SlotInv, InStream, Started
<1>4. Owns(r, from) /\ ~Owns(r, "logging") /\ "logging" \notin Started
  BY <1>3 DEF Owns, InStream, Ending, Started
<1>5. /\ active' = active + One(Owns(r, "logging")) - One(Owns(r, phase[r]))
      /\ inFlight' = inFlight + One("logging" \in Started) - One(phase[r] \in Started)
  BY <1>1, <1>2, <1>4 DEF One
<1> QED BY <1>1, <1>5, GaugeMove

LEMMA GaugesOfBegins ==
  ASSUME GaugeInv, SlotInv', NEW r \in Requests, NEW from \in {"checking", "queued"},
         Begins(r, from), UNCHANGED inFlight
  PROVE  GaugeInv'
<1> DEFINE b == IF r \in Streaming THEN "opening" ELSE "posting"
<1>1. /\ phase[r] = from /\ phase' = [phase EXCEPT ![r] = b]
      /\ active' = active + 1 /\ inFlight' = inFlight
  BY DEF Begins, Goes
<1>2. active \in Nat /\ inFlight \in Nat
  BY CountMove DEF GaugeInv, GaugesAreRight, Working, At
<1>3. Owns(r, b) /\ ~Owns(r, from) /\ b \notin Started /\ from \notin Started
  BY DEF Owns, InStream, Ending, Started
<1> HIDE DEF b
<1>4. /\ active' = active + One(Owns(r, b)) - One(Owns(r, phase[r]))
      /\ inFlight' = inFlight + One(b \in Started) - One(phase[r] \in Started)
  BY <1>1, <1>2, <1>3 DEF One
<1> QED BY <1>1, <1>4, GaugeMove

LEMMA GaugeInvStep == GaugeInv /\ [Next]_vars => GaugeInv'
<1> SUFFICES ASSUME GaugeInv, [Next]_vars PROVE GaugeInv'
  OBVIOUS
<1>0. SlotInv'
  BY SlotInvStep DEF GaugeInv
<1>1. CASE UNCHANGED <<phase, gaugeVars>>
  BY <1>0, <1>1 DEF GaugeInv, GaugesAreRight, Working, At, Owns, gaugeVars
<1>2. CASE \/ UNCHANGED vars \/ Finished
           \/ \E r \in Requests : QuotaThread(r) \/ QueueTimer(r) \/ LeavesQueue(r)
  BY <1>1, <1>2 DEF vars, Finished, QuotaThread, QueueTimer, LeavesQueue
<1>3. ASSUME NEW r \in Requests,
             Arrive(r) \/ RateAnswers(r) \/ OverQuota(r) \/ Overloaded(r) \/ Queued(r)
             \/ NotServed(r) \/ RefusalLogged(r) \/ LeavesEarly(r) \/ CheckRaises(r)
      PROVE  GaugeInv'
  <2>1. PICK from \in {"idle", "limiting", "checking", "refusing", "queued"},
             s \in {"limiting", "checking", "refusing", "queued", "answered"} : Goes(r, from, s)
    BY <1>3 DEF Arrive, RateAnswers, OverQuota, Overloaded, Queued, NotServed, RefusalLogged,
                LeavesEarly, CheckRaises
  <2>2. UNCHANGED gaugeVars
    BY <1>3 DEF Arrive, RateAnswers, OverQuota, Overloaded, Queued, NotServed, RefusalLogged,
                LeavesEarly, CheckRaises
  <2>3. ~Owns(r, from) /\ ~Owns(r, s) /\ from \notin Started /\ s \notin Started
    BY DEF Owns, InStream, Ending, Started
  <2> QED BY <1>0, <2>1, <2>2, <2>3, GaugesStay
<1>4. ASSUME NEW r \in Requests, Admitted(r) \/ Served(r)
      PROVE  GaugeInv'
  BY <1>0, <1>4, GaugesOfBegins DEF Admitted, Served
<1>5. ASSUME NEW r \in Requests, StreamStarts(r)
      PROVE  GaugeInv'
  <2>1. /\ phase[r] = "opening" /\ phase' = [phase EXCEPT ![r] = "reading"]
        /\ active' = active /\ inFlight' = inFlight + 1
    BY <1>5 DEF StreamStarts, Goes
  <2>2. active \in Nat /\ inFlight \in Nat
    BY CountMove DEF GaugeInv, GaugesAreRight, Working, At
  <2>3. /\ Owns(r, "opening") /\ Owns(r, "reading")
        /\ "opening" \notin Started /\ "reading" \in Started
    BY DEF Owns, InStream, Started
  <2>4. /\ active' = active + One(Owns(r, "reading")) - One(Owns(r, phase[r]))
        /\ inFlight' = inFlight + One("reading" \in Started) - One(phase[r] \in Started)
    BY <2>1, <2>2, <2>3 DEF One
  <2> QED BY <1>0, <2>1, <2>4, GaugeMove
<1>6. ASSUME NEW r \in Requests, Yields(r) \/ ChunkSent(r) \/ LeavesWhileYielding(r)
      PROVE  GaugeInv'
  <2>1. PICK from \in Started, s \in Started : Goes(r, from, s)
    BY <1>6 DEF Yields, ChunkSent, LeavesWhileYielding, InStream, Started
  <2>2. UNCHANGED gaugeVars
    BY <1>6 DEF Yields, ChunkSent, LeavesWhileYielding
  <2>3. Owns(r, from) /\ Owns(r, s)
    BY DEF Owns, InStream, Started
  <2> QED BY <1>0, <2>1, <2>2, <2>3, GaugesStay
<1>60. ASSUME NEW r \in Requests, LeavesUnstarted(r)
       PROVE  GaugeInv'
  <2>1. Goes(r, "opening", "dropped") /\ UNCHANGED gaugeVars
    BY <1>60 DEF LeavesUnstarted
  <2>2. /\ Owns(r, "opening") /\ Owns(r, "dropped")
        /\ "opening" \notin Started /\ "dropped" \notin Started
    BY DEF Owns, InStream, Started
  <2> QED BY <1>0, <2>1, <2>2, GaugesStay
<1>7. ASSUME NEW r \in Requests,
             ErrorSent(r) \/ StreamEnds(r) \/ StreamBreaks(r) \/ Collected(r)
             \/ LeavesWhileReading(r)
      PROVE  GaugeInv'
  BY <1>0, <1>7, GaugesOfCloses
     DEF ErrorSent, StreamEnds, StreamBreaks, Collected, LeavesWhileReading, InStream, Started
<1>8. ASSUME NEW r \in Requests, PostAnswers(r) \/ Recorded(r) \/ (Logged(r) /\ kind[r] = "")
      PROVE  GaugeInv'
  <2>1. PICK from, s : /\ Goes(r, from, s) /\ UNCHANGED gaugeVars
                       /\ \/ from = "posting" /\ s = "logging"
                          \/ {from, s} \subseteq Ending
    BY <1>8 DEF PostAnswers, Recorded, Logged, Ending
  <2>2. from = "posting" => r \notin Streaming
    BY <2>1 DEF Goes, GaugeInv, SlotInv
  <2>3. (Owns(r, from) <=> Owns(r, s)) /\ from \notin Started /\ s \notin Started
    BY <2>1, <2>2 DEF Owns, InStream, Ending, Started
  <2> QED BY <1>0, <2>1, <2>3, GaugesStay
<1>9. ASSUME NEW r \in Requests,
             (Logged(r) /\ kind[r] # "") \/ LogFails(r) \/ RecordRaises(r) \/ Bumped(r)
             \/ LeavesLate(r)
      PROVE  GaugeInv'
  BY <1>0, <1>9, GaugesOfEnds
     DEF Logged, LogFails, RecordRaises, Bumped, Bumps, LeavesLate, Ending
<1> QED BY <1>2, <1>3, <1>4, <1>5, <1>6, <1>60, <1>7, <1>8, <1>9
        DEF Next, Enters, Sends, Closing, Settles, Leaves

LEMMA GaugeInvInit == Init => GaugeInv
<1> SUFFICES ASSUME Init PROVE GaugeInv
  OBVIOUS
<1>1. Working = {} /\ At(Started) = {}
  BY DEF Init, ServiceInit, Working, At, Owns, InStream, Ending, Started
<1>2. GaugesAreRight
  BY <1>1, FS_EmptySet DEF Init, ServiceInit, GaugesAreRight, Started
<1> QED BY <1>2, SlotInvInit DEF GaugeInv

\* The same holds of the gauges: semaphore and gauges agree on which requests
\* are worked for, and both keep counting a stream that was dropped before it
\* began (chat_completion.py:215-285, 404-461).
THEOREM HandlersFollowed == Spec => []HandlersAreFollowed
<1>1. GaugeInv => HandlersAreFollowed
  BY DEF GaugeInv, SlotInv, HandlersAreFollowed
<1> QED BY <1>1, GaugeInvInit, GaugeInvStep, PTL DEF Spec

-----------------------------------------------------------------------------

\* The calls that have come to their end, the requests that may have been counted,
\* those whose tokens may have been too, and those whose task has ended after that.
Finishing == {"recorded", "unrecorded"}
Counted == {r \in Requests : ledger[r] \in {"tallying", "storing"} \cup Finishing}
Done == {r \in Requests : ledger[r] \in Finishing}
Over == {r \in Requests : ledger[r] = "recorded" /\ phase[r] = "answered"}

ChargeTypes ==
  /\ phase \in [Requests -> Phases] /\ ledger \in [Requests -> Quota!LedgerStates]
  /\ kind \in [Requests -> Kinds] /\ seen \in [Requests -> Nat]
  /\ outcome \in [Requests -> Outcomes]
  /\ requestsUsed \in Nat /\ tokensUsed \in Nat /\ keyRequests \in Nat

\* Each counter is covered by the requests that got so far.
Covered ==
  /\ requestsUsed <= Cardinality(Counted)
  /\ tokensUsed <= Cardinality(Done)
  /\ \A r \in Requests : seen[r] <= Cardinality(Done)
  /\ keyRequests <= Cardinality(Over)

\* A request is charged when its answer has ended, in a way error_kind does not
\* show: what that was is known from then on.
ChargedLate ==
  \A r \in Requests :
    /\ ledger[r] \in Charging =>
         outcome[r] # "" /\ phase[r] \in {"recording", "bumping", "answered"}
    /\ phase[r] = "bumping" => ledger[r] = "recorded"
    /\ phase[r] = "logging" /\ kind[r] = "" => outcome[r] # ""
    /\ phase[r] = "orphaned" => outcome[r] # ""

ChargeInv == ChargeTypes /\ Covered /\ ChargedLate

\* Sets of requests that grow.
LEMMA Grows ==
  ASSUME NEW S \in SUBSET Requests, NEW T \in SUBSET Requests, S \subseteq T
  PROVE  /\ Cardinality(S) \in Nat /\ Cardinality(T) \in Nat
         /\ Cardinality(S) <= Cardinality(T)
         /\ \A r \in T \ S : Cardinality(S) + 1 <= Cardinality(T)
<1>1. IsFiniteSet(T) /\ IsFiniteSet(S)
  BY ChatAssumption, FS_Subset
<1>2. Cardinality(S) \in Nat /\ Cardinality(T) \in Nat /\ Cardinality(S) <= Cardinality(T)
  BY <1>1, FS_CardinalityType, FS_Subset
<1>3. ASSUME NEW r \in T \ S
      PROVE  Cardinality(S) + 1 <= Cardinality(T)
  <2>1. IsFiniteSet(S \cup {r}) /\ Cardinality(S \cup {r}) = Cardinality(S) + 1
    BY <1>1, <1>3, FS_AddElement
  <2>2. S \cup {r} \subseteq T
    BY <1>3
  <2>3. Cardinality(S \cup {r}) <= Cardinality(T)
    BY <1>1, <2>2, FS_Subset
  <2> QED BY <2>1, <2>3
<1> QED BY <1>2, <1>3

\* A counter that moves by at most one stays covered by a number that moves
\* whenever it does.
LEMMA StaysCovered ==
  ASSUME NEW m \in Nat, NEW n, NEW c \in Nat, NEW d \in Nat, m <= c, c <= d,
         n = m \/ (n = m + 1 /\ c + 1 <= d)
  PROVE  n \in Nat /\ n <= d
OBVIOUS

\* A step of the task of r that makes no call.
LEMMA TaskMoves ==
  ASSUME ChargeInv, NEW r \in Requests, NEW s \in Phases, NEW k \in Kinds,
         NEW o \in Outcomes,
         phase' = [phase EXCEPT ![r] = s], kind' = [kind EXCEPT ![r] = k],
         outcome' = [outcome EXCEPT ![r] = o],
         UNCHANGED quotaVars, phase[r] # "answered",
         \/ keyRequests' = keyRequests
         \/ keyRequests' = keyRequests + 1 /\ phase[r] = "bumping" /\ s = "answered",
         ledger[r] \in Charging => o # "" /\ s \in {"recording", "bumping", "answered"},
         s = "bumping" => ledger[r] = "recorded",
         s = "logging" /\ k = "" => o # "",
         s = "orphaned" => o # ""
  PROVE  ChargeInv'
<1>1. ledger' = ledger /\ seen' = seen /\ requestsUsed' = requestsUsed /\ tokensUsed' = tokensUsed
  BY DEF quotaVars
<1>2. Counted' = Counted /\ Done' = Done
  BY <1>1 DEF Counted, Done
<1>3. Over \subseteq Over' /\ Over \in SUBSET Requests /\ Over' \in SUBSET Requests
  BY <1>1 DEF Over, ChargeInv, ChargeTypes
<1>4. keyRequests' \in Nat /\ keyRequests' <= Cardinality(Over')
  <2>1. /\ Cardinality(Over) \in Nat /\ Cardinality(Over') \in Nat
        /\ Cardinality(Over) <= Cardinality(Over')
        /\ \A q \in Over' \ Over : Cardinality(Over) + 1 <= Cardinality(Over')
    BY <1>3, Grows
  <2>2. keyRequests <= Cardinality(Over) /\ keyRequests \in Nat
    BY DEF ChargeInv, Covered, ChargeTypes
  <2>3. keyRequests' = keyRequests
        \/ (keyRequests' = keyRequests + 1 /\ Cardinality(Over) + 1 <= Cardinality(Over'))
    <3>1. CASE keyRequests' = keyRequests
      BY <3>1, Zenon
    <3>2. CASE keyRequests' = keyRequests + 1 /\ phase[r] = "bumping" /\ s = "answered"
      <4>1. r \in Over' \ Over
        BY <3>2, <1>1 DEF Over, ChargeInv, ChargeTypes, ChargedLate
      <4> QED BY <2>1, <3>2, <4>1, Zenon
    <3> QED BY <3>1, <3>2, Zenon
  <2> HIDE DEF Over
  <2> QED BY <2>1, <2>2, <2>3, StaysCovered, Zenon
<1>5. ChargeTypes'
  BY <1>1, <1>4 DEF ChargeInv, ChargeTypes
<1>6. Covered'
  BY <1>1, <1>2, <1>4 DEF ChargeInv, Covered
<1>7. ChargedLate'
  <2> SUFFICES ASSUME NEW q \in Requests
               PROVE  /\ ledger[q] \in Charging =>
                           outcome'[q] # "" /\ phase'[q] \in {"recording", "bumping", "answered"}
                      /\ phase'[q] = "bumping" => ledger[q] = "recorded"
                      /\ phase'[q] = "logging" /\ kind'[q] = "" => outcome'[q] # ""
                      /\ phase'[q] = "orphaned" => outcome'[q] # ""
    BY <1>1 DEF ChargedLate, Charging
  <2>1. /\ ledger[q] \in Charging =>
             outcome[q] # "" /\ phase[q] \in {"recording", "bumping", "answered"}
        /\ phase[q] = "bumping" => ledger[q] = "recorded"
        /\ phase[q] = "logging" /\ kind[q] = "" => outcome[q] # ""
        /\ phase[q] = "orphaned" => outcome[q] # ""
    BY DEF ChargeInv, ChargedLate
  <2>2. CASE q = r
    BY <2>1, <2>2 DEF ChargeInv, ChargeTypes
  <2>3. CASE q # r
    BY <2>1, <2>3 DEF ChargeInv, ChargeTypes
  <2> QED BY <2>2, <2>3
<1> QED BY <1>5, <1>6, <1>7 DEF ChargeInv

\* A step of a call of r, to l: the request may be counted or done by it.
CallStepsTo(r, l) ==
  /\ ledger' = [ledger EXCEPT ![r] = l]
  /\ requestsUsed' \in Nat /\ tokensUsed' \in Nat /\ seen' \in [Requests -> Nat]
  /\ UNCHANGED <<phase, kind, outcome, keyRequests>>
  /\ ledger[r] \in Charging <=> l \in Charging
  /\ ledger[r] \notin Finishing
  /\ ledger[r] \in {"tallying", "storing"} => l \in {"tallying", "storing"} \cup Finishing
  /\ \/ requestsUsed' <= requestsUsed
     \/ /\ requestsUsed' <= requestsUsed + 1
        /\ ledger[r] \in {"counting", "adding"} /\ l \in {"tallying", "unrecorded"}
  /\ \/ tokensUsed' = tokensUsed
     \/ tokensUsed' = seen[r] + 1 /\ l \in Finishing
  /\ \A q \in Requests : seen'[q] = seen[q] \/ seen'[q] = tokensUsed \/ seen'[q] = 0

LEMMA CallMoves ==
  ASSUME ChargeInv, NEW r \in Requests, NEW l \in Quota!LedgerStates, CallStepsTo(r, l)
  PROVE  ChargeInv'
<1> USE DEF CallStepsTo, Finishing
<1>0. ledger'[r] = l /\ \A q \in Requests \ {r} : ledger'[q] = ledger[q]
  BY DEF ChargeInv, ChargeTypes
<1>1. ChargeTypes'
  BY DEF ChargeInv, ChargeTypes
<1>2. /\ Counted \subseteq Counted' /\ Counted \in SUBSET Requests /\ Counted' \in SUBSET Requests
      /\ Done \subseteq Done' /\ Done \in SUBSET Requests /\ Done' \in SUBSET Requests
      /\ Over \subseteq Over' /\ Over \in SUBSET Requests /\ Over' \in SUBSET Requests
  BY <1>0 DEF Counted, Done, Over
<1>3. ledger[r] \in {"counting", "adding"} /\ l \in {"tallying", "unrecorded"}
        => r \in Counted' \ Counted
  BY <1>0 DEF Counted
<1>4. l \in Finishing => r \in Done' \ Done
  BY <1>0 DEF Done
<1>5. /\ requestsUsed \in Nat /\ tokensUsed \in Nat /\ keyRequests \in Nat
      /\ requestsUsed <= Cardinality(Counted) /\ tokensUsed <= Cardinality(Done)
      /\ keyRequests <= Cardinality(Over)
      /\ \A q \in Requests : seen[q] \in Nat /\ seen[q] <= Cardinality(Done)
  BY DEF ChargeInv, ChargeTypes, Covered
<1> HIDE DEF Counted, Done, Over
<1>6. /\ Cardinality(Counted) \in Nat /\ Cardinality(Counted') \in Nat
      /\ Cardinality(Counted) <= Cardinality(Counted')
      /\ r \in Counted' \ Counted => Cardinality(Counted) + 1 <= Cardinality(Counted')
  BY <1>2, Grows
<1>7. /\ Cardinality(Done) \in Nat /\ Cardinality(Done') \in Nat
      /\ Cardinality(Done) <= Cardinality(Done')
      /\ r \in Done' \ Done => Cardinality(Done) + 1 <= Cardinality(Done')
  BY <1>2, Grows
<1>8. /\ Cardinality(Over) \in Nat /\ Cardinality(Over') \in Nat
      /\ Cardinality(Over) <= Cardinality(Over')
  BY <1>2, Grows
<1>9. requestsUsed' <= Cardinality(Counted')
  BY <1>3, <1>5, <1>6
<1>10. tokensUsed' <= Cardinality(Done')
  BY <1>4, <1>5, <1>7
<1>11. \A q \in Requests : seen'[q] <= Cardinality(Done')
  BY <1>5, <1>7
<1>12. keyRequests' <= Cardinality(Over')
  BY <1>5, <1>8
<1>13. ChargedLate'
  BY <1>0 DEF ChargeInv, ChargedLate
<1> QED BY <1>1, <1>9, <1>10, <1>11, <1>12, <1>13 DEF ChargeInv, Covered

LEMMA QuotaMoves ==
  ASSUME ChargeInv, NEW r \in Requests, Quota!CallStep(r),
         UNCHANGED <<phase, kind, outcome, keyRequests>>
  PROVE  ChargeInv'
<1>0. /\ requestsUsed \in Nat /\ tokensUsed \in Nat /\ seen \in [Requests -> Nat]
      /\ seen[r] \in Nat
  BY DEF ChargeInv, ChargeTypes
<1>00. /\ \A l \in {"checking", "halfway", "passed", "refused", "unchecked"} :
             l \in Quota!LedgerStates /\ l \notin Charging /\ l \notin Finishing
       /\ \A l \in {"counting", "adding", "tallying", "storing", "recorded", "unrecorded"} :
             l \in Quota!LedgerStates /\ l \in Charging
       /\ \A l \in {"counting", "adding", "tallying", "storing"} : l \notin Finishing
       /\ Finishing = {"recorded", "unrecorded"}
  BY DEF Quota!LedgerStates, Charging, Finishing
<1>1. CASE Quota!CheckRequests(r) \/ Quota!CheckTokens(r)
  <2>1. PICK l \in {"checking", "halfway", "passed", "refused"} :
          ledger' = [ledger EXCEPT ![r] = l]
    BY <1>1 DEF Quota!CheckRequests, Quota!CheckTokens, Quota!Moves
  <2>2. /\ ledger[r] \in {"checking", "halfway"}
        /\ UNCHANGED <<requestsUsed, tokensUsed, seen>>
    BY <1>1 DEF Quota!CheckRequests, Quota!CheckTokens, Quota!Moves
  <2>3. CallStepsTo(r, l)
    BY <1>0, <1>00, <2>1, <2>2 DEF CallStepsTo
  <2> QED BY <1>00, <2>1, <2>3, CallMoves
<1>2. CASE Quota!IncrementRequests(r) \/ Quota!AddRequests(r)
  <2>1. PICK l \in {"adding", "tallying", "unrecorded"} :
          /\ ledger' = [ledger EXCEPT ![r] = l]
          /\ requestsUsed' = requestsUsed
             \/ (requestsUsed' = requestsUsed + 1 /\ l \in {"tallying", "unrecorded"})
    <3>1. CASE Quota!IncrementRequests(r)
      BY <1>0, <3>1 DEF Quota!IncrementRequests, Quota!Moves
    <3>2. CASE Quota!AddRequests(r)
      <4>1. PICK l \in {"tallying", "unrecorded"} : ledger' = [ledger EXCEPT ![r] = l]
        BY <3>2 DEF Quota!AddRequests, Quota!Moves
      <4>2. requestsUsed' \in {requestsUsed, requestsUsed + 1}
        BY <1>0, <3>2 DEF Quota!AddRequests
      <4> QED BY <4>1, <4>2
    <3> QED BY <1>2, <3>1, <3>2
  <2>2. ledger[r] \in {"counting", "adding"} /\ UNCHANGED <<tokensUsed, seen>>
    BY <1>2 DEF Quota!IncrementRequests, Quota!AddRequests, Quota!Moves
  <2>3. requestsUsed' \in Nat
    BY <1>0, <2>1
  <2>4. CallStepsTo(r, l)
    BY <1>0, <1>00, <2>1, <2>2, <2>3 DEF CallStepsTo
  <2> QED BY <1>00, <2>1, <2>4, CallMoves
<1>3. CASE Quota!ReadTokens(r)
  <2>1. /\ ledger[r] = "tallying" /\ ledger' = [ledger EXCEPT ![r] = "storing"]
        /\ seen' = [seen EXCEPT ![r] = tokensUsed] /\ UNCHANGED <<requestsUsed, tokensUsed>>
    BY <1>3 DEF Quota!ReadTokens, Quota!Moves
  <2>2. /\ seen' \in [Requests -> Nat]
        /\ \A q \in Requests : seen'[q] = seen[q] \/ seen'[q] = tokensUsed
    BY <1>0, <2>1
  <2>3. CallStepsTo(r, "storing")
    BY <1>0, <1>00, <2>1, <2>2 DEF CallStepsTo
  <2> QED BY <1>00, <2>3, CallMoves
<1>4. CASE Quota!StoreTokens(r)
  <2>1. PICK l \in {"recorded", "unrecorded"} : ledger' = [ledger EXCEPT ![r] = l]
    BY <1>4 DEF Quota!StoreTokens, Quota!Moves
  <2>2. /\ ledger[r] = "storing" /\ tokensUsed' = seen[r] + 1
        /\ seen' = [seen EXCEPT ![r] = 0] /\ requestsUsed' = requestsUsed
    BY <1>4 DEF Quota!StoreTokens, Quota!Moves
  <2>3. /\ tokensUsed' \in Nat /\ seen' \in [Requests -> Nat]
        /\ \A q \in Requests : seen'[q] = seen[q] \/ seen'[q] = 0
    BY <1>0, <2>2
  <2>4. CallStepsTo(r, l)
    BY <1>0, <1>00, <2>1, <2>2, <2>3 DEF CallStepsTo
  <2> QED BY <1>00, <2>1, <2>4, CallMoves
<1>5. CASE Quota!Raises(r)
  <2>1. /\ seen' = [seen EXCEPT ![r] = 0] /\ UNCHANGED <<requestsUsed, tokensUsed>>
    BY <1>5 DEF Quota!Raises
  <2>2. /\ seen' \in [Requests -> Nat]
        /\ \A q \in Requests : seen'[q] = seen[q] \/ seen'[q] = 0
    BY <1>0, <2>1
  <2>3. CASE ledger[r] \in {"checking", "halfway"}
    <3>1. ledger' = [ledger EXCEPT ![r] = "unchecked"]
      BY <1>5, <2>3 DEF Quota!Raises, Quota!Moves
    <3>2. CallStepsTo(r, "unchecked")
      BY <1>0, <1>00, <2>1, <2>2, <2>3, <3>1 DEF CallStepsTo
    <3> QED BY <1>00, <3>2, CallMoves
  <2>4. CASE ledger[r] \in {"counting", "adding", "tallying", "storing"}
    <3>1. ledger' = [ledger EXCEPT ![r] = "unrecorded"]
      BY <1>5, <2>4 DEF Quota!Raises, Quota!Moves
    <3>2. CallStepsTo(r, "unrecorded")
      BY <1>0, <1>00, <2>1, <2>2, <2>4, <3>1 DEF CallStepsTo
    <3> QED BY <1>00, <3>2, CallMoves
  <2> QED BY <1>5, <2>3, <2>4 DEF Quota!Raises, Quota!Moves
<1> QED BY <1>1, <1>2, <1>3, <1>4, <1>5 DEF Quota!CallStep

\* A step of the task of r that leaves the quota alone, from a phase in which r
\* cannot have been charged.
LEMMA UnchargedMoves ==
  ASSUME ChargeInv, NEW r \in Requests, NEW s \in Phases \ {"bumping"}, NEW k \in Kinds,
         NEW o \in Outcomes, phase[r] \notin {"recording", "bumping", "answered"},
         phase' = [phase EXCEPT ![r] = s], kind' = [kind EXCEPT ![r] = k],
         outcome' = [outcome EXCEPT ![r] = o], UNCHANGED <<quotaVars, keyRequests>>,
         s = "logging" /\ k = "" => o # "", s = "orphaned" => o # ""
  PROVE  ChargeInv'
<1>1. ledger[r] \notin Charging /\ phase[r] # "answered"
  BY DEF ChargeInv, ChargedLate
<1> QED BY <1>1, TaskMoves

\* The task of r starts a call.
LEMMA CallStarts ==
  ASSUME ChargeInv, NEW r \in Requests, NEW l \in {"checking", "counting"},
         NEW s \in {"checking", "recording"},
         ledger[r] \in {"out", "passed"}, ledger' = [ledger EXCEPT ![r] = l],
         phase' = [phase EXCEPT ![r] = s],
         UNCHANGED <<kind, outcome, seen, requestsUsed, tokensUsed, keyRequests>>,
         l = "counting" => outcome[r] # "" /\ s = "recording"
  PROVE  ChargeInv'
<1>1. l \in Quota!LedgerStates /\ s \in Phases
  BY DEF Quota!LedgerStates, Phases, Ending
<1>2. /\ ledger \in [Requests -> Quota!LedgerStates] /\ phase \in [Requests -> Phases]
      /\ ledger' \in [Requests -> Quota!LedgerStates] /\ phase' \in [Requests -> Phases]
      /\ ledger'[r] = l /\ phase'[r] = s
      /\ \A q \in Requests \ {r} : ledger'[q] = ledger[q] /\ phase'[q] = phase[q]
  BY <1>1 DEF ChargeInv, ChargeTypes
<1>3. Counted' = Counted /\ Done' = Done /\ Over' = Over
  BY <1>2 DEF Counted, Done, Over, Finishing
<1>4. ChargeTypes'
  BY <1>2 DEF ChargeInv, ChargeTypes
<1>5. Covered'
  BY <1>3 DEF ChargeInv, Covered
<1>6. ASSUME NEW q \in Requests
      PROVE  /\ ledger'[q] \in Charging =>
                  outcome'[q] # "" /\ phase'[q] \in {"recording", "bumping", "answered"}
             /\ phase'[q] = "bumping" => ledger'[q] = "recorded"
             /\ phase'[q] = "logging" /\ kind'[q] = "" => outcome'[q] # ""
             /\ phase'[q] = "orphaned" => outcome'[q] # ""
  <2>1. CASE q = r
    BY <1>2, <2>1 DEF Charging
  <2>2. CASE q # r
    BY <1>2, <2>2 DEF ChargeInv, ChargedLate
  <2> QED BY <2>1, <2>2
<1>7. ChargedLate'
  BY <1>6 DEF ChargedLate, Charging
<1> QED BY <1>4, <1>5, <1>7 DEF ChargeInv

LEMMA ChargeInvStep == ChargeInv /\ [Next]_vars => ChargeInv'
<1> SUFFICES ASSUME ChargeInv, [Next]_vars PROVE ChargeInv'
  OBVIOUS
<1> DEFINE Calm == {"idle", "limiting", "checking", "queued", "posting", "refusing",
                    "opening", "dropped", "reading", "yielding"}
           Free == Calm \cup {"orphaned", "logging"}
<1>0. /\ kind \in [Requests -> Kinds] /\ phase \in [Requests -> Phases]
      /\ outcome \in [Requests -> Outcomes]
      /\ "" \in Kinds /\ "upstream" \in Kinds /\ "client_disconnected" \in Kinds
      /\ "complete" \in Outcomes /\ "brokeoff" \in Outcomes /\ "abandoned" \in Outcomes
      /\ \A r \in Requests : kind[r] \in Kinds /\ kind = [kind EXCEPT ![r] = kind[r]]
      /\ \A r \in Requests : /\ outcome[r] \in Outcomes
                             /\ outcome = [outcome EXCEPT ![r] = outcome[r]]
  BY DEF ChargeInv, ChargeTypes, Kinds, Outcomes
<1>00. /\ Free \cup {"recording", "bumping", "answered"} \subseteq Phases
       /\ Free \cap {"recording", "bumping", "answered"} = {}
       /\ "bumping" \notin Free \cup {"answered"}
       /\ "logging" \notin Calm \cup {"answered"} /\ "orphaned" \notin Calm \cup {"answered"}
       /\ Calm \subseteq Free
  BY DEF Phases, InStream, Started, Ending
<1>1. CASE UNCHANGED vars \/ Finished
  BY <1>1 DEF vars, quotaVars, Finished, ChargeInv, ChargeTypes, Covered, ChargedLate,
              Counted, Done, Over, Charging
<1>2. ASSUME NEW r \in Requests, QuotaThread(r)
      PROVE  ChargeInv'
  BY <1>2, QuotaMoves DEF QuotaThread
<1>3. ASSUME NEW r \in Requests, NEW from \in Free, NEW s \in Free \cup {"answered"},
             NEW k \in Kinds, NEW o \in Outcomes,
             Goes(r, from, s), kind' = [kind EXCEPT ![r] = k],
             outcome' = [outcome EXCEPT ![r] = o], UNCHANGED <<quotaVars, keyRequests>>,
             s = "logging" /\ k = "" => o # "", s = "orphaned" => o # ""
      PROVE  ChargeInv'
  <2>1. phase[r] = from /\ phase' = [phase EXCEPT ![r] = s]
    BY <1>3 DEF Goes
  <2>2. s \in Phases \ {"bumping"} /\ phase[r] \notin {"recording", "bumping", "answered"}
    BY <1>00, <2>1
  <2> HIDE DEF Free, Calm
  <2> QED BY <1>3, <2>1, <2>2, UnchargedMoves
<1>4. ASSUME NEW r \in Requests,
             Arrive(r) \/ OverQuota(r) \/ CheckRaises(r) \/ Admitted(r) \/ Queued(r)
             \/ Overloaded(r) \/ Served(r) \/ NotServed(r) \/ RefusalLogged(r)
             \/ StreamStarts(r) \/ ChunkSent(r) \/ LeavesEarly(r) \/ LeavesUnstarted(r)
      PROVE  ChargeInv'
  <2>1. kind' = kind /\ outcome' = outcome /\ UNCHANGED <<quotaVars, keyRequests>>
    BY <1>4 DEF Arrive, OverQuota, CheckRaises, Admitted, Queued, Overloaded, Served,
         NotServed, RefusalLogged, StreamStarts, ChunkSent, LeavesEarly, LeavesUnstarted
  <2>2. PICK from \in Calm, s \in Calm \cup {"answered"} : Goes(r, from, s)
    BY <1>4 DEF Arrive, OverQuota, CheckRaises, Admitted, Queued, Overloaded, Served,
         NotServed, Begins, RefusalLogged, StreamStarts, ChunkSent, LeavesEarly,
         LeavesUnstarted
  <2>3. /\ from \in Free /\ s \in Free \cup {"answered"}
        /\ s # "logging" /\ s # "orphaned"
    BY <1>00
  <2>4. /\ kind' = [kind EXCEPT ![r] = kind[r]] /\ kind[r] \in Kinds
        /\ outcome' = [outcome EXCEPT ![r] = outcome[r]] /\ outcome[r] \in Outcomes
    BY <1>0, <2>1
  <2> HIDE DEF Free, Calm
  <2> QED BY <1>3, <2>1, <2>2, <2>3, <2>4
<1>40. ASSUME NEW r \in Requests, LeavesWhileYielding(r)
       PROVE  ChargeInv'
  <2>1. /\ Goes(r, "yielding", "orphaned") /\ UNCHANGED <<quotaVars, keyRequests>>
        /\ kind' = [kind EXCEPT ![r] = kind[r]] /\ kind[r] \in Kinds
        /\ outcome' = [outcome EXCEPT ![r] = "abandoned"]
    BY <1>0, <1>40 DEF LeavesWhileYielding, EndsAs
  <2>2. "yielding" \in Free /\ "orphaned" \in Free \cup {"answered"}
    OBVIOUS
  <2> HIDE DEF Free, Calm
  <2> QED BY <1>0, <1>3, <2>1, <2>2
<1>5. ASSUME NEW r \in Requests, RateAnswers(r)
      PROVE  ChargeInv'
  <2>0. kind' = kind /\ outcome' = outcome /\ keyRequests' = keyRequests
    BY <1>5 DEF RateAnswers
  <2>1. CASE UNCHANGED quotaVars
    <3>1. PICK s \in {"refusing", "answered", "checking"} : Goes(r, "limiting", s)
      BY <1>5 DEF RateAnswers
    <3>2. /\ kind' = [kind EXCEPT ![r] = kind[r]] /\ kind[r] \in Kinds
          /\ outcome' = [outcome EXCEPT ![r] = outcome[r]] /\ outcome[r] \in Outcomes
      BY <1>0, <2>0
    <3>3. /\ "limiting" \in Free /\ s \in Free \cup {"answered"}
          /\ s # "logging" /\ s # "orphaned"
      OBVIOUS
    <3> HIDE DEF Free, Calm
    <3> QED BY <1>3, <2>0, <2>1, <3>1, <3>2, <3>3
  <2>2. CASE Goes(r, "limiting", "checking") /\ Quota!StartCheck(r)
    <3>1. /\ ledger[r] = "out" /\ ledger' = [ledger EXCEPT ![r] = "checking"]
          /\ phase' = [phase EXCEPT ![r] = "checking"]
          /\ UNCHANGED <<seen, requestsUsed, tokensUsed>>
      BY <2>2 DEF Goes, Quota!StartCheck, Quota!Moves
    <3> QED BY <2>0, <3>1, CallStarts
  <2> QED BY <1>5, <2>1, <2>2 DEF RateAnswers
<1>6. ASSUME NEW r \in Requests, NEW from \in InStream, NEW k \in Kinds, NEW o \in Outcomes,
             Closes(r, from, k), outcome' = [outcome EXCEPT ![r] = o], k = "" => o # ""
      PROVE  ChargeInv'
  <2>1. from \in Free /\ "logging" \in Free /\ "logging" # "orphaned"
    BY DEF InStream, Started
  <2>2. /\ Goes(r, from, "logging") /\ kind' = [kind EXCEPT ![r] = k]
        /\ UNCHANGED <<quotaVars, keyRequests>>
    BY <1>6 DEF Closes
  <2> HIDE DEF Free, Calm
  <2> QED BY <1>3, <1>6, <2>1, <2>2
<1>7. ASSUME NEW r \in Requests,
             StreamEnds(r) \/ StreamBreaks(r) \/ ErrorSent(r) \/ Collected(r)
             \/ LeavesWhileReading(r)
      PROVE  ChargeInv'
  <2>0. /\ "reading" \in InStream /\ "yielding" \in InStream /\ "orphaned" \in InStream
    BY DEF InStream, Started
  <2>1. CASE StreamEnds(r) \/ StreamBreaks(r)
    BY <1>0, <1>6, <2>0, <2>1 DEF StreamEnds, StreamBreaks, EndsAs
  <2>2. CASE ErrorSent(r)
    <3>1. Closes(r, "yielding", kind[r]) /\ kind[r] # "" /\ outcome' = outcome
      BY <2>2 DEF ErrorSent
    <3> QED BY <1>0, <1>6, <2>0, <3>1
  <2>3. CASE Collected(r)
    <3>1. Closes(r, "orphaned", kind[r]) /\ phase[r] = "orphaned" /\ outcome' = outcome
      BY <2>3 DEF Collected, Closes, Goes
    <3>2. outcome[r] # ""
      BY <3>1 DEF ChargeInv, ChargedLate
    <3> QED BY <1>0, <1>6, <2>0, <3>1, <3>2
  <2>4. CASE LeavesWhileReading(r)
    <3>1. Closes(r, "reading", "client_disconnected") /\ outcome' = outcome
      BY <2>4 DEF LeavesWhileReading
    <3> QED BY <1>0, <1>6, <2>0, <3>1
  <2> QED BY <1>7, <2>1, <2>2, <2>3, <2>4
<1>8. ASSUME NEW r \in Requests, Yields(r) \/ PostAnswers(r)
      PROVE  ChargeInv'
  <2>1. PICK k \in Kinds, o \in Outcomes :
          /\ kind' = [kind EXCEPT ![r] = k] /\ outcome' = [outcome EXCEPT ![r] = o]
          /\ PostAnswers(r) /\ k = "" => o # ""
    <3>1. CASE Yields(r)
      <4>1. PICK k \in {"", "upstream"} : kind' = [kind EXCEPT ![r] = k]
        BY <3>1 DEF Yields
      <4>2. outcome' = [outcome EXCEPT ![r] = outcome[r]] /\ outcome[r] \in Outcomes
        BY <1>0, <3>1 DEF Yields
      <4>3. ~PostAnswers(r)
        BY <3>1 DEF Yields, PostAnswers, Goes
      <4> QED BY <1>0, <4>1, <4>2, <4>3
    <3>2. CASE PostAnswers(r) /\ kind' = kind /\ EndsAs(r, "complete")
      <4>1. kind' = [kind EXCEPT ![r] = kind[r]] /\ kind[r] \in Kinds
        BY <1>0, <3>2
      <4> QED BY <1>0, <3>2, <4>1 DEF EndsAs
    <3>3. CASE kind' = [kind EXCEPT ![r] = "upstream"] /\ outcome' = outcome
      <4>1. outcome' = [outcome EXCEPT ![r] = outcome[r]] /\ outcome[r] \in Outcomes
        BY <1>0, <3>3
      <4> QED BY <1>0, <3>3, <4>1
    <3> QED BY <1>8, <3>1, <3>2, <3>3 DEF PostAnswers
  <2>2. \/ Yields(r) /\ Goes(r, "reading", "yielding")
        \/ PostAnswers(r) /\ Goes(r, "posting", "logging")
    BY <1>8 DEF Yields, PostAnswers
  <2>3. UNCHANGED <<quotaVars, keyRequests>>
    BY <1>8 DEF Yields, PostAnswers
  <2>4. /\ "reading" \in Free /\ "posting" \in Free
        /\ "yielding" \in Free \cup {"answered"} /\ "logging" \in Free \cup {"answered"}
    OBVIOUS
  <2> HIDE DEF Free, Calm
  <2> QED BY <1>3, <2>1, <2>2, <2>3, <2>4
<1>9. ASSUME NEW r \in Requests, QueueTimer(r) \/ LeavesQueue(r)
      PROVE  ChargeInv'
  BY <1>9 DEF QueueTimer, LeavesQueue, quotaVars, ChargeInv, ChargeTypes, Covered,
              ChargedLate, Counted, Done, Over, Charging
<1>10. ASSUME NEW r \in Requests, NEW from \in {"posting"} \cup Ending, Ends(r, from),
              UNCHANGED quotaVars,
              \/ UNCHANGED keyRequests
              \/ from = "bumping" /\ keyRequests' = keyRequests + 1
       PROVE  ChargeInv'
  <2>1. /\ phase[r] = from /\ phase' = [phase EXCEPT ![r] = "answered"]
        /\ kind' = [kind EXCEPT ![r] = kind[r]] /\ kind[r] \in Kinds
        /\ outcome' = [outcome EXCEPT ![r] = outcome[r]] /\ outcome[r] \in Outcomes
    BY <1>0, <1>10 DEF Ends, Goes
  <2>2. from # "answered" /\ "answered" \in Phases
    BY <1>00 DEF Ending
  <2>3. ledger[r] \in Charging => outcome[r] # ""
    BY DEF ChargeInv, ChargedLate
  <2> QED BY <1>10, <2>1, <2>2, <2>3, TaskMoves
<1>11. ASSUME NEW r \in Requests, LogFails(r) \/ RecordRaises(r) \/ Bumped(r) \/ LeavesLate(r)
       PROVE  ChargeInv'
  BY <1>10, <1>11 DEF LogFails, RecordRaises, Bumped, Bumps, LeavesLate, Ending
<1>12. ASSUME NEW r \in Requests, Recorded(r)
       PROVE  ChargeInv'
  <2>1. /\ ledger[r] = "recorded" /\ phase[r] = "recording"
        /\ phase' = [phase EXCEPT ![r] = "bumping"]
        /\ kind' = [kind EXCEPT ![r] = kind[r]] /\ kind[r] \in Kinds
        /\ outcome' = [outcome EXCEPT ![r] = outcome[r]] /\ outcome[r] \in Outcomes
        /\ UNCHANGED <<quotaVars, keyRequests>> /\ "bumping" \in Phases
    BY <1>0, <1>00, <1>12 DEF Recorded, Goes
  <2>2. ledger[r] \in Charging => outcome[r] # ""
    BY DEF ChargeInv, ChargedLate
  <2> QED BY <2>1, <2>2, TaskMoves
<1>13. ASSUME NEW r \in Requests, Logged(r)
       PROVE  ChargeInv'
  <2>1. CASE kind[r] # ""
    BY <1>10, <1>13, <2>1 DEF Logged, Ending
  <2>2. CASE kind[r] = ""
    <3>1. /\ ledger[r] = "passed" /\ ledger' = [ledger EXCEPT ![r] = "counting"]
          /\ phase[r] = "logging" /\ phase' = [phase EXCEPT ![r] = "recording"]
          /\ UNCHANGED <<kind, outcome, seen, requestsUsed, tokensUsed, keyRequests>>
      BY <1>13, <2>2 DEF Logged, Goes, Quota!StartRecord, Quota!Moves
    <3>2. outcome[r] # ""
      BY <2>2, <3>1 DEF ChargeInv, ChargedLate
    <3> QED BY <3>1, <3>2, CallStarts
  <2> QED BY <2>1, <2>2
<1> QED BY <1>1, <1>2, <1>4, <1>40, <1>5, <1>7, <1>8, <1>9, <1>11, <1>12, <1>13
        DEF Next, Enters, Sends, Closing, Settles, Leaves

LEMMA ChargeInvInit == Init => ChargeInv
<1> SUFFICES ASSUME Init PROVE ChargeInv
  OBVIOUS
<1>1. /\ ledger = [r \in Requests |-> "out"] /\ seen = [r \in Requests |-> 0]
      /\ phase = [r \in Requests |-> "idle"] /\ kind = [r \in Requests |-> ""]
      /\ outcome = [r \in Requests |-> ""]
      /\ requestsUsed = 0 /\ tokensUsed = 0 /\ keyRequests = 0
  BY DEF Init, ServiceInit, Quota!Init
<1>2. ChargeTypes
  BY <1>1 DEF ChargeTypes, Phases, Kinds, Outcomes, Quota!LedgerStates
<1>3. Counted = {} /\ Done = {} /\ Over = {}
  BY <1>1 DEF Counted, Done, Over, Finishing
<1>4. Covered
  <2>1. Cardinality(Counted) = 0 /\ Cardinality(Done) = 0 /\ Cardinality(Over) = 0
    BY <1>3, FS_EmptySet
  <2>2. \A r \in Requests : seen[r] = 0
    BY <1>1
  <2>3. requestsUsed = 0 /\ tokensUsed = 0 /\ keyRequests = 0
    BY <1>1
  <2>4. \A r \in Requests : seen[r] <= Cardinality(Done)
    BY <2>1, <2>2
  <2> QED BY <2>1, <2>3, <2>4 DEF Covered
<1>5. ChargedLate
  BY <1>1 DEF ChargedLate, Charging
<1> QED BY <1>2, <1>4, <1>5 DEF ChargeInv

\* In any interleaving of any number of recordings, any of which may fail, the
\* counters of the user and of the key never exceed the recordings begun and
\* finished, and none is begun but for a complete answer, a stream that broke off
\* or one that was abandoned while a chunk was sent (limits.py:94-120,
\* usage.py:17-22, chat_completion.py:393, 483).
THEOREM ChargesHaveTheirCause == Spec => []ChargesAreExplained
<1>1. ChargeInv => ChargesAreExplained
  <2> SUFFICES ASSUME ChargeInv PROVE ChargesAreExplained
    OBVIOUS
  <2>1. /\ requestsUsed \in Nat /\ tokensUsed \in Nat /\ keyRequests \in Nat
        /\ requestsUsed <= Cardinality(Counted) /\ tokensUsed <= Cardinality(Done)
        /\ keyRequests <= Cardinality(Over)
    BY DEF ChargeInv, ChargeTypes, Covered
  <2>2. /\ Counted \in SUBSET Requests /\ Done \in SUBSET Requests /\ Over \in SUBSET Requests
        /\ Charged \in SUBSET Requests
        /\ Counted \subseteq Charged /\ Done \subseteq Charged
    BY DEF Counted, Done, Over, Finishing, Charged, Charging
  <2> DEFINE Booked == {r \in Requests : ledger[r] = "recorded"}
  <2>3. Over \subseteq Booked /\ Booked \in SUBSET Requests
    BY DEF Over
  <2> HIDE DEF Counted, Done, Over, Charged, Booked
  <2>4. /\ Cardinality(Counted) \in Nat /\ Cardinality(Done) \in Nat
        /\ Cardinality(Charged) \in Nat
        /\ Cardinality(Counted) <= Cardinality(Charged)
        /\ Cardinality(Done) <= Cardinality(Charged)
    BY <2>2, Grows
  <2>40. /\ Cardinality(Over) \in Nat /\ Cardinality(Booked) \in Nat
         /\ Cardinality(Over) <= Cardinality(Booked)
    BY <2>2, <2>3, Grows
  <2>5. /\ requestsUsed <= Cardinality(Charged) /\ tokensUsed <= Cardinality(Charged)
        /\ keyRequests <= Cardinality(Booked)
    BY <2>1, <2>4, <2>40
  <2>6. \A r \in Charged : outcome[r] \in {"complete", "brokeoff", "abandoned"}
    BY DEF ChargeInv, ChargeTypes, ChargedLate, Charged, Outcomes
  <2> QED BY <2>5, <2>6 DEF ChargesAreExplained, Booked
<1> QED BY <1>1, ChargeInvInit, ChargeInvStep, PTL DEF Spec

-----------------------------------------------------------------------------

\* A cancelled request is on its way out of the queue, or gone.
DepthInv ==
  /\ SlotInv
  /\ depth \in Nat /\ cancelled \subseteq Requests
  /\ \A r \in cancelled :
       \/ phase[r] = "answered"
       \/ phase[r] = "queued" /\ slot[r] \in {"expired", "handback"}
  /\ depth = Cardinality(Waiting) + Cardinality(cancelled \ Waiting)

\* How the waiting, and the lost, are counted when one request comes or goes.
LEMMA OneMore ==
  ASSUME NEW S \in SUBSET Requests, NEW r \in Requests \ S
  PROVE  /\ Cardinality(S) \in Nat
         /\ Cardinality(S \cup {r}) = Cardinality(S) + 1
<1>1. IsFiniteSet(S)
  BY ChatAssumption, FS_Subset
<1> QED BY <1>1, FS_CardinalityType, FS_AddElement

\* What the other requests see of a step of r.
OthersStay(r) ==
  \A q \in Requests \ {r} :
    /\ phase'[q] = phase[q]
    /\ slot'[q] = slot[q] \/ (slot[q] = "pending" /\ slot'[q] = "woken")

LEMMA DepthKeeps ==
  ASSUME DepthInv, SlotInv', NEW r \in Requests, OthersStay(r),
         phase[r] \notin {"queued", "answered"}, phase'[r] # "queued",
         UNCHANGED <<depth, cancelled>>
  PROVE  DepthInv'
<1>1. Waiting' = Waiting
  BY DEF Waiting, At, OthersStay
<1>2. r \notin cancelled
  BY DEF DepthInv
<1>3. \A q \in cancelled :
        \/ phase'[q] = "answered"
        \/ phase'[q] = "queued" /\ slot'[q] \in {"expired", "handback"}
  BY <1>2 DEF DepthInv, OthersStay
<1> QED BY <1>1, <1>3 DEF DepthInv

\* Timers and cancellations leave everybody where they are.
LEMMA DepthStays ==
  ASSUME DepthInv, SlotInv', NEW r \in Requests, QueueTimer(r) \/ LeavesQueue(r)
  PROVE  DepthInv'
<1>1. phase' = phase /\ depth' = depth
  BY DEF QueueTimer, LeavesQueue, Limiter!TimerFires, Limiter!Cancel
<1>2. slot[r] \in Limiter!InDeque
  BY DEF QueueTimer, LeavesQueue, Limiter!TimerFires, Limiter!Cancel, Limiter!Expire,
         Limiter!InDeque
<1>3. phase[r] = "queued"
  BY <1>2 DEF DepthInv, SlotInv, SlotsFollowHandlers
<1>4. PICK t \in {"expired", "handback"} : slot' = [slot EXCEPT ![r] = t]
  BY <1>2 DEF QueueTimer, LeavesQueue, Limiter!TimerFires, Limiter!Cancel, Limiter!Expire,
              Limiter!InDeque
<1>5. slot'[r] = t /\ \A q \in Requests \ {r} : slot'[q] = slot[q]
  BY <1>4 DEF DepthInv, SlotInv
<1>6. cancelled' \in {cancelled, cancelled \cup {r}}
  BY DEF QueueTimer, LeavesQueue, Limiter!TimerFires, Limiter!Cancel
<1>7. Waiting' = Waiting /\ r \in Waiting
  BY <1>1, <1>3 DEF Waiting, At
<1>8. cancelled' \ Waiting' = cancelled \ Waiting
  BY <1>6, <1>7
<1>9. \A q \in cancelled' :
        \/ phase'[q] = "answered"
        \/ phase'[q] = "queued" /\ slot'[q] \in {"expired", "handback"}
  BY <1>1, <1>3, <1>5, <1>6 DEF DepthInv
<1> QED BY <1>1, <1>6, <1>7, <1>8, <1>9 DEF DepthInv

LEMMA DepthGrows ==
  ASSUME DepthInv, SlotInv', NEW r \in Requests, Queued(r)
  PROVE  DepthInv'
<1>1. /\ phase[r] = "checking" /\ phase' = [phase EXCEPT ![r] = "queued"]
      /\ slot' = [slot EXCEPT ![r] = "pending"]
      /\ depth' = depth + 1 /\ cancelled' = cancelled
  BY DEF Queued, Goes, Limiter!Enqueue, Limiter!AcquireWait
<1>2. /\ phase'[r] = "queued"
      /\ \A q \in Requests \ {r} : phase'[q] = phase[q] /\ slot'[q] = slot[q]
  BY <1>1 DEF DepthInv, SlotInv
<1>3. r \notin cancelled
  BY <1>1 DEF DepthInv
<1>4. Waiting' = Waiting \cup {r} /\ r \notin Waiting /\ Waiting \in SUBSET Requests
  BY <1>1, <1>2 DEF Waiting, At
<1>5. cancelled' \ Waiting' = cancelled \ Waiting
  BY <1>1, <1>3, <1>4
<1>6. Cardinality(Waiting) \in Nat /\ Cardinality(Waiting') = Cardinality(Waiting) + 1
  BY <1>4, OneMore
<1>7. (cancelled \ Waiting) \in SUBSET Requests /\ Cardinality(cancelled \ Waiting) \in Nat
  BY Grows DEF DepthInv
<1>8. depth' = Cardinality(Waiting') + Cardinality(cancelled' \ Waiting')
  <2>1. depth = Cardinality(Waiting) + Cardinality(cancelled \ Waiting)
    BY DEF DepthInv
  <2>2. Cardinality(cancelled' \ Waiting') = Cardinality(cancelled \ Waiting)
    BY <1>5
  <2> QED BY <1>1, <1>6, <1>7, <2>1, <2>2
<1>9. \A q \in cancelled' :
        \/ phase'[q] = "answered"
        \/ phase'[q] = "queued" /\ slot'[q] \in {"expired", "handback"}
  BY <1>1, <1>2, <1>3 DEF DepthInv
<1> QED BY <1>1, <1>8, <1>9 DEF DepthInv

LEMMA DepthShrinks ==
  ASSUME DepthInv, SlotInv', NEW r \in Requests, Served(r) \/ NotServed(r)
  PROVE  DepthInv'
<1>1. /\ phase[r] = "queued" /\ cancelled' = cancelled
      /\ depth' = IF r \in cancelled THEN depth ELSE depth - 1
  BY DEF Served, NotServed, Begins, Goes, Limiter!Resume
<1>2. PICK s \in Phases \ {"queued"} :
        phase' = [phase EXCEPT ![r] = s] /\ (r \in cancelled => s = "answered")
  <2>1. CASE Served(r)
    BY <2>1 DEF Served, Begins, Goes, Phases, InStream, Started, DepthInv
  <2>2. CASE NotServed(r)
    <3>1. phase' = [phase EXCEPT ![r] = IF r \in cancelled THEN "answered" ELSE "refusing"]
      BY <2>2 DEF NotServed, Goes
    <3>2. "answered" \in Phases \ {"queued"} /\ "refusing" \in Phases \ {"queued"}
      BY DEF Phases
    <3> QED BY <3>1, <3>2
  <2> QED BY <2>1, <2>2
<1>3. PICK t \in Limiter!SlotStates : \E free, k : Limiter!MoveAndWake(r, t, free, k)
  BY DEF Served, NotServed, Limiter!Resume, Limiter!ResumeAcquire, Limiter!SlotStates
<1>4. \A q \in Requests \ {r} :
        slot'[q] = slot[q] \/ (slot[q] = "pending" /\ slot'[q] = "woken")
  BY <1>3, SlotsMoved DEF DepthInv
<1>5. phase'[r] = s /\ \A q \in Requests \ {r} : phase'[q] = phase[q]
  BY <1>2 DEF DepthInv, SlotInv
<1>6. /\ Waiting = Waiting' \cup {r} /\ r \notin Waiting' /\ Waiting' \in SUBSET Requests
  BY <1>1, <1>5 DEF Waiting, At
<1>7. Cardinality(Waiting') \in Nat /\ Cardinality(Waiting) = Cardinality(Waiting') + 1
  BY <1>6, OneMore
<1>8. (cancelled \ Waiting) \in SUBSET Requests /\ Cardinality(cancelled \ Waiting) \in Nat
  BY Grows DEF DepthInv
<1>9. depth' \in Nat /\ depth' = Cardinality(Waiting') + Cardinality(cancelled' \ Waiting')
  <2>1. depth = Cardinality(Waiting) + Cardinality(cancelled \ Waiting)
    BY DEF DepthInv
  <2>2. CASE r \notin cancelled
    <3>1. cancelled' \ Waiting' = cancelled \ Waiting
      BY <1>1, <1>6, <2>2
    <3> QED BY <1>1, <1>7, <1>8, <2>1, <2>2, <3>1
  <2>3. CASE r \in cancelled
    <3>1. cancelled' \ Waiting' = (cancelled \ Waiting) \cup {r} /\ r \notin cancelled \ Waiting
      BY <1>1, <1>6, <2>3
    <3>2. Cardinality(cancelled' \ Waiting') = Cardinality(cancelled \ Waiting) + 1
      BY <1>8, <3>1, OneMore
    <3> QED BY <1>1, <1>7, <1>8, <2>1, <2>3, <3>2
  <2> QED BY <2>2, <2>3
<1>10. \A q \in cancelled' :
         \/ phase'[q] = "answered"
         \/ phase'[q] = "queued" /\ slot'[q] \in {"expired", "handback"}
  BY <1>1, <1>2, <1>4, <1>5 DEF DepthInv
<1> QED BY <1>1, <1>9, <1>10 DEF DepthInv

LEMMA DepthInvStep == DepthInv /\ [Next]_vars => DepthInv'
<1> SUFFICES ASSUME DepthInv, [Next]_vars PROVE DepthInv'
  OBVIOUS
<1> DEFINE Free == {"idle", "limiting", "checking", "posting", "refusing", "opening",
                    "dropped", "reading", "yielding", "orphaned", "logging", "recording",
                    "bumping"}
<1>0. /\ SlotInv' /\ SlotInv
      /\ phase \in [Requests -> Phases] /\ slot \in [Requests -> Limiter!SlotStates]
  BY SlotInvStep DEF DepthInv, SlotInv
<1>1. CASE UNCHANGED vars \/ Finished
  BY <1>0, <1>1 DEF vars, limiterVars, Finished, DepthInv, Waiting, At
<1>2. ASSUME NEW r \in Requests, QuotaThread(r)
      PROVE  DepthInv'
  BY <1>0, <1>2 DEF QuotaThread, limiterVars, DepthInv, Waiting, At
<1>3. ASSUME NEW r \in Requests, NEW from \in Free, NEW s \in Free \cup {"answered"},
             Goes(r, from, s), UNCHANGED <<depth, cancelled>>,
             \A q \in Requests \ {r} :
               slot'[q] = slot[q] \/ (slot[q] = "pending" /\ slot'[q] = "woken")
      PROVE  DepthInv'
  <2>1. phase[r] = from /\ phase'[r] = s /\ \A q \in Requests \ {r} : phase'[q] = phase[q]
    BY <1>0, <1>3 DEF Goes
  <2>2. OthersStay(r)
    BY <1>3, <2>1 DEF OthersStay
  <2> QED BY <1>0, <1>3, <2>1, <2>2, DepthKeeps
<1>4. ASSUME NEW r \in Requests, Limiter!ReleaseSlot(r)
      PROVE  /\ UNCHANGED <<depth, cancelled>>
             /\ \A q \in Requests \ {r} :
                  slot'[q] = slot[q] \/ (slot[q] = "pending" /\ slot'[q] = "woken")
  <2>1. Limiter!MoveAndWake(r, "none", value + 1, 1) /\ "none" \in Limiter!SlotStates
    BY <1>4 DEF Limiter!ReleaseSlot, Limiter!Release, Limiter!SlotStates
  <2> QED BY <1>0, <1>4, <2>1, SlotsMoved DEF Limiter!ReleaseSlot
<1>5. ASSUME NEW r \in Requests,
             Arrive(r) \/ RateAnswers(r) \/ OverQuota(r) \/ Overloaded(r)
             \/ RefusalLogged(r) \/ StreamStarts(r) \/ Yields(r) \/ ChunkSent(r)
             \/ PostAnswers(r) \/ Recorded(r) \/ LeavesEarly(r) \/ LeavesWhileYielding(r)
             \/ LeavesUnstarted(r) \/ CheckRaises(r)
      PROVE  DepthInv'
  <2>1. UNCHANGED <<slot, depth, cancelled>>
    BY <1>5 DEF Arrive, RateAnswers, OverQuota, Overloaded, RefusalLogged, StreamStarts,
         Yields, ChunkSent, PostAnswers, Recorded, LeavesEarly, LeavesWhileYielding,
         LeavesUnstarted, CheckRaises, Limiter!RejectOverload, Limiter!vars, limiterVars
  <2>2. PICK from \in Free, s \in Free \cup {"answered"} : Goes(r, from, s)
    BY <1>5 DEF Arrive, RateAnswers, OverQuota, Overloaded, RefusalLogged, StreamStarts,
         Yields, ChunkSent, PostAnswers, Recorded, LeavesEarly, LeavesWhileYielding,
         LeavesUnstarted, CheckRaises
  <2> HIDE DEF Free
  <2> QED BY <1>3, <2>1, <2>2
<1>6. ASSUME NEW r \in Requests, Admitted(r)
      PROVE  DepthInv'
  <2>1. PICK s \in Free : Goes(r, "checking", s)
    BY <1>6 DEF Admitted, Begins
  <2>2. slot' = [slot EXCEPT ![r] = "held"] /\ UNCHANGED <<depth, cancelled>>
    BY <1>6 DEF Admitted, Limiter!Admit, Limiter!AcquireNow
  <2>3. \A q \in Requests \ {r} : slot'[q] = slot[q]
    BY <1>0, <2>2
  <2> QED BY <1>3, <2>1, <2>2, <2>3
<1>7. ASSUME NEW r \in Requests,
             StreamEnds(r) \/ StreamBreaks(r) \/ ErrorSent(r) \/ Collected(r)
             \/ LeavesWhileReading(r)
      PROVE  DepthInv'
  <2>1. PICK from \in InStream : \E k : Closes(r, from, k)
    BY <1>7 DEF StreamEnds, StreamBreaks, ErrorSent, Collected, LeavesWhileReading, InStream, Started
  <2>2. Goes(r, from, "logging") /\ Limiter!ReleaseSlot(r)
    BY <2>1 DEF Closes
  <2>3. from \in Free /\ "logging" \in Free
    BY DEF InStream, Started
  <2> HIDE DEF Free
  <2> QED BY <1>3, <1>4, <2>2, <2>3
<1>8. ASSUME NEW r \in Requests, NEW from \in {"posting"} \cup Ending, Ends(r, from)
      PROVE  DepthInv'
  <2>1. Goes(r, from, "answered") /\ from \in Free
    BY <1>8 DEF Ends, Ending
  <2>2. /\ UNCHANGED <<depth, cancelled>>
        /\ \A q \in Requests \ {r} :
             slot'[q] = slot[q] \/ (slot[q] = "pending" /\ slot'[q] = "woken")
    <3>1. CASE r \in Streaming
      BY <1>8, <3>1 DEF Ends, limiterVars
    <3>2. CASE r \notin Streaming
      BY <1>4, <1>8, <3>2 DEF Ends
    <3> QED BY <3>1, <3>2
  <2> HIDE DEF Free
  <2> QED BY <1>3, <2>1, <2>2
<1>9. ASSUME NEW r \in Requests,
             Logged(r) \/ LogFails(r) \/ RecordRaises(r) \/ Bumped(r) \/ LeavesLate(r)
      PROVE  DepthInv'
  <2>1. CASE \E from \in {"posting"} \cup Ending : Ends(r, from)
    BY <1>8, <2>1
  <2>2. CASE Logged(r) /\ kind[r] = ""
    <3>1. Goes(r, "logging", "recording") /\ UNCHANGED <<slot, depth, cancelled>>
      BY <2>2 DEF Logged, limiterVars
    <3> QED BY <1>3, <3>1
  <2> QED BY <1>9, <2>1, <2>2
          DEF Logged, LogFails, RecordRaises, Bumped, Bumps, LeavesLate, Ending
<1> QED BY <1>0, <1>1, <1>2, <1>5, <1>6, <1>7, <1>9, DepthStays, DepthGrows, DepthShrinks
        DEF Next, Enters, Sends, Closing, Settles, Leaves

LEMMA DepthInvInit == Init => DepthInv
<1> SUFFICES ASSUME Init PROVE DepthInv
  OBVIOUS
<1>1. depth = 0 /\ cancelled = {} /\ Waiting = {}
  BY DEF Init, ServiceInit, Limiter!Init, Waiting, At
<1>2. Cardinality(Waiting) = 0 /\ Cardinality(cancelled \ Waiting) = 0
  BY <1>1, FS_EmptySet
<1> QED BY <1>1, <1>2, SlotInvInit DEF DepthInv

\* QUEUE_DEPTH counts the waiting requests and, for ever, those that were cancelled
\* while they waited; timers, hand-backs and late wake-ups leave no trace in it
\* (concurrency.py:44-75).
THEOREM DepthCountsTheCancelled == Spec => []DepthIsOffByTheCancelled
<1>1. DepthInv => DepthIsOffByTheCancelled
  BY DEF DepthInv, DepthIsOffByTheCancelled, Waiting
<1> QED BY <1>1, DepthInvInit, DepthInvStep, PTL DEF Spec

-----------------------------------------------------------------------------
(* The semaphore of the service: what ConcurrencyLimiterProofs says of the  *)
(* semaphore steps holds of this limiter too, which takes the same ones.    *)
(* Only lemmas about AsyncioSemaphore are used, so the count of the other   *)
(* limiter is put at zero.                                                  *)

Sem == INSTANCE ConcurrencyLimiterProofs WITH queueCount <- 0

LEMMA SemaphoreAssumed == Sem!SemaphoreAssumption
BY ChatAssumption DEF Sem!SemaphoreAssumption, Sem!IsFiniteSet, IsFiniteSet

LEMMA QueueAssumed == Sem!QueueAssumption
BY ChatAssumption DEF Sem!QueueAssumption

\* Both instances of the semaphore mean the same.
LEMMA SameSets ==
  /\ \A states : Limiter!In(states) = Sem!In(states)
  /\ Limiter!Pending = Sem!Pending
  /\ Limiter!InDeque = Sem!InDeque /\ Limiter!Owning = Sem!Owning
  /\ Limiter!Locked <=> Sem!Locked
  /\ \A k : Limiter!FirstPending(k) = Sem!FirstPending(k)
<1>1. /\ \A states : Limiter!In(states) = Sem!In(states)
      /\ Limiter!InDeque = Sem!InDeque /\ Limiter!Owning = Sem!Owning
      /\ Limiter!Locked <=> Sem!Locked
  BY DEF Limiter!In, Sem!In, Limiter!InDeque, Sem!InDeque, Limiter!Owning, Sem!Owning,
         Limiter!Locked, Sem!Locked
<1>2. Limiter!Pending = Sem!Pending
  BY <1>1 DEF Limiter!Pending, Sem!Pending
<1>3. \A q, r : Limiter!Before(q, r) <=> Sem!Before(q, r)
  BY DEF Limiter!Before, Sem!Before
<1>4. \A r : Limiter!Ahead(r) = Sem!Ahead(r)
  BY <1>2, <1>3 DEF Limiter!Ahead, Sem!Ahead
<1>5. \A S : Limiter!Cardinality(S) = Sem!Cardinality(S)
  BY DEF Limiter!Cardinality, Sem!Cardinality
<1>6. ASSUME NEW k PROVE Limiter!FirstPending(k) = Sem!FirstPending(k)
  BY <1>2, <1>4, <1>5 DEF Limiter!FirstPending, Sem!FirstPending
<1> QED BY <1>1, <1>2, <1>6

LEMMA SameSteps ==
  ASSUME NEW r \in Requests
  PROVE  /\ Limiter!AcquireNow(r) => Sem!AcquireNow(r)
         /\ Limiter!AcquireWait(r) => Sem!AcquireWait(r)
         /\ Limiter!Expire(r) => Sem!Expire(r)
         /\ Limiter!ResumeAcquire(r) => Sem!ResumeAcquire(r)
         /\ Limiter!Release(r) => Sem!Release(r)
<1>1. /\ Limiter!AcquireNow(r) => Sem!AcquireNow(r)
      /\ Limiter!AcquireWait(r) => Sem!AcquireWait(r)
      /\ Limiter!Expire(r) => Sem!Expire(r)
  BY SameSets DEF Limiter!AcquireNow, Sem!AcquireNow, Limiter!AcquireWait, Sem!AcquireWait,
         Limiter!Expire, Sem!Expire
<1>2. \A S : Limiter!Cardinality(S) = Sem!Cardinality(S)
  BY DEF Limiter!Cardinality, Sem!Cardinality
<1>3. ASSUME NEW next, NEW free, NEW k, Limiter!MoveAndWake(r, next, free, k)
      PROVE  Sem!MoveAndWake(r, next, free, k)
  BY <1>2, <1>3, SameSets DEF Limiter!MoveAndWake, Sem!MoveAndWake
<1>4. Limiter!Release(r) => Sem!Release(r)
  BY <1>3 DEF Limiter!Release, Sem!Release
<1>5. Limiter!PositionOf(r) = Sem!PositionOf(r)
  BY DEF Limiter!PositionOf, Sem!PositionOf
<1>6. \A free : Limiter!WakeUps(r, free) = Sem!WakeUps(r, free)
  BY DEF Limiter!WakeUps, Sem!WakeUps
<1>7. \A i : Limiter!RemoveAt(waiters, i) = Sem!RemoveAt(waiters, i)
  BY DEF Limiter!RemoveAt, Sem!RemoveAt
<1>8. Limiter!ResumeAcquire(r) => Sem!ResumeAcquire(r)
  BY <1>3, <1>5, <1>6, <1>7 DEF Limiter!ResumeAcquire, Sem!ResumeAcquire
<1> QED BY <1>1, <1>4, <1>8

\* What a step of the limiter keeps; a cancellation is a timer that fires, or
\* finds nothing left to do.
LEMMA LimiterKeeps ==
  ASSUME Sem!SemaphoreInv, NEW r \in Requests,
         \/ Limiter!Admit(r) \/ Limiter!Enqueue(r) \/ Limiter!RejectOverload(r)
         \/ Limiter!TimerFires(r) \/ Limiter!Cancel(r) \/ Limiter!Resume(r)
         \/ Limiter!ReleaseSlot(r)
  PROVE  Sem!SemaphoreInv'
<1>1. CASE UNCHANGED <<value, waiters, slot>>
  BY <1>1 DEF Sem!SemaphoreInv, Sem!SemaphoreTypeOK, Sem!SlotsConserved,
              Sem!DequeIsTheWaiting, Sem!NoLostWakeUp, Sem!In, Sem!Pending
<1>2. CASE Limiter!Admit(r)
  <2>1. Sem!AcquireNow(r)
    BY <1>2, SameSteps DEF Limiter!Admit
  <2> QED BY <2>1, Sem!AcquireNowKeeps, Sem!SemaphoreAssumption, SemaphoreAssumed,
             Sem!QueueAssumption, QueueAssumed
<1>3. CASE Limiter!Enqueue(r)
  <2>1. Sem!AcquireWait(r)
    BY <1>3, SameSteps DEF Limiter!Enqueue
  <2> QED BY <2>1, Sem!AcquireWaitKeeps, Sem!SemaphoreAssumption, SemaphoreAssumed,
             Sem!QueueAssumption, QueueAssumed
<1>4. CASE Limiter!RejectOverload(r)
  BY <1>1, <1>4 DEF Limiter!RejectOverload, Limiter!vars
<1>5. ASSUME Limiter!Expire(r) PROVE Sem!SemaphoreInv'
  <2>1. Sem!Expire(r)
    BY <1>5, SameSteps
  <2> QED BY <2>1, Sem!ExpireKeeps, Sem!SemaphoreAssumption, SemaphoreAssumed,
             Sem!QueueAssumption, QueueAssumed
<1>6. CASE Limiter!TimerFires(r)
  BY <1>5, <1>6 DEF Limiter!TimerFires
<1>7. CASE Limiter!Cancel(r)
  <2>1. /\ slot[r] \in {"pending", "woken", "expired", "handback"}
        /\ slot' = [slot EXCEPT ![r] = CASE @ = "pending" -> "expired"
                                         [] @ = "woken"   -> "handback"
                                         [] OTHER         -> @]
        /\ UNCHANGED <<value, waiters>>
    BY <1>7 DEF Limiter!Cancel, Limiter!InDeque
  <2>2. CASE slot[r] \in {"pending", "woken"}
    BY <1>5, <2>1, <2>2 DEF Limiter!Expire
  <2>3. CASE slot[r] \in {"expired", "handback"}
    <3>1. slot \in [Requests -> Sem!SlotStates]
      BY DEF Sem!SemaphoreInv, Sem!SemaphoreTypeOK
    <3>2. slot' = slot
      BY <2>1, <2>3, <3>1
    <3> QED BY <1>1, <2>1, <3>2
  <2> QED BY <2>1, <2>2, <2>3
<1>8. CASE Limiter!Resume(r)
  <2>1. Sem!ResumeAcquire(r)
    BY <1>8, SameSteps DEF Limiter!Resume
  <2> QED BY <2>1, Sem!ResumeKeeps, Sem!SemaphoreAssumption, SemaphoreAssumed,
             Sem!QueueAssumption, QueueAssumed
<1>9. CASE Limiter!ReleaseSlot(r)
  <2>1. Sem!Release(r)
    BY <1>9, SameSteps DEF Limiter!ReleaseSlot
  <2> QED BY <2>1, Sem!ReleaseKeeps, Sem!SemaphoreAssumption, SemaphoreAssumed,
             Sem!QueueAssumption, QueueAssumed
<1> QED BY <1>2, <1>3, <1>4, <1>6, <1>7, <1>8, <1>9

\* Every step of the service is a step of the limiter, or leaves it alone.
LEMMA LimiterStep == [Next]_vars => [Limiter!Next]_(Limiter!vars)
<1> SUFFICES ASSUME [Next]_vars PROVE [Limiter!Next]_(Limiter!vars)
  OBVIOUS
<1>0. UNCHANGED limiterVars => UNCHANGED Limiter!vars
  BY DEF limiterVars, Limiter!vars
<1>1. CASE UNCHANGED vars
  BY <1>0, <1>1 DEF vars
<1>2. ASSUME NEW r \in Requests,
             Arrive(r) \/ RateAnswers(r) \/ OverQuota(r) \/ RefusalLogged(r)
             \/ QuotaThread(r) \/ (Sends(r) /\ ~ErrorSent(r)) \/ PostAnswers(r)
             \/ Recorded(r) \/ LeavesEarly(r) \/ LeavesWhileYielding(r)
             \/ LeavesUnstarted(r) \/ CheckRaises(r)
      PROVE  UNCHANGED Limiter!vars
  BY <1>0, <1>2 DEF Arrive, RateAnswers, OverQuota, RefusalLogged, QuotaThread, Sends,
         StreamStarts, Yields, ChunkSent, PostAnswers, Recorded, LeavesEarly,
         LeavesWhileYielding, LeavesUnstarted, CheckRaises
<1>3. ASSUME NEW r \in Requests,
             Admitted(r) \/ Queued(r) \/ Overloaded(r) \/ QueueTimer(r) \/ Served(r)
             \/ NotServed(r) \/ LeavesQueue(r)
      PROVE  Limiter!Next
  BY <1>3 DEF Admitted, Queued, Overloaded, QueueTimer, Served, NotServed, LeavesQueue,
              Limiter!Next
<1>4. ASSUME NEW r \in Requests, NEW from, NEW k, Closes(r, from, k)
      PROVE  Limiter!Next
  BY <1>4 DEF Closes, Limiter!Next
<1>5. ASSUME NEW r \in Requests,
             ErrorSent(r) \/ StreamEnds(r) \/ StreamBreaks(r) \/ Collected(r)
             \/ LeavesWhileReading(r)
      PROVE  Limiter!Next
  BY <1>4, <1>5 DEF ErrorSent, StreamEnds, StreamBreaks, Collected, LeavesWhileReading
<1>6. ASSUME NEW r \in Requests, NEW from, Ends(r, from)
      PROVE  Limiter!Next \/ UNCHANGED Limiter!vars
  BY <1>0, <1>6 DEF Ends, Limiter!Next
<1>7. ASSUME NEW r \in Requests,
             Logged(r) \/ LogFails(r) \/ RecordRaises(r) \/ Bumped(r) \/ LeavesLate(r)
      PROVE  Limiter!Next \/ UNCHANGED Limiter!vars
  BY <1>0, <1>6, <1>7 DEF Logged, LogFails, RecordRaises, Bumped, Bumps, LeavesLate
<1>8. CASE Finished
  BY <1>1, <1>8 DEF Finished
<1> QED BY <1>1, <1>2, <1>3, <1>5, <1>7, <1>8
        DEF Next, Enters, Sends, Closing, Settles, Leaves

LEMMA SemaphoreInvStep == Sem!SemaphoreInv /\ [Next]_vars => Sem!SemaphoreInv'
<1> SUFFICES ASSUME Sem!SemaphoreInv, [Next]_vars PROVE Sem!SemaphoreInv'
  OBVIOUS
<1>1. CASE UNCHANGED Limiter!vars
  BY <1>1 DEF Limiter!vars, Sem!SemaphoreInv, Sem!SemaphoreTypeOK, Sem!SlotsConserved,
              Sem!DequeIsTheWaiting, Sem!NoLostWakeUp, Sem!In, Sem!Pending
<1>2. CASE Limiter!Next
  BY <1>2, LimiterKeeps DEF Limiter!Next
<1> QED BY <1>1, <1>2, LimiterStep

LEMMA SemaphoreInvInit == Init => Sem!SemaphoreInv
<1>1. Init => Sem!SemaphoreInit
  BY DEF Init, Limiter!Init, Limiter!SemaphoreInit, Sem!SemaphoreInit
<1> QED BY <1>1, Sem!SemaphoreStarts, Sem!SemaphoreAssumption, SemaphoreAssumed,
           Sem!QueueAssumption, QueueAssumed

LEMMA SemaphoreMeans ==
  ASSUME Sem!SemaphoreInv
  PROVE  Limiter!SemaphoreTypeOK /\ Limiter!SlotsConserved /\ Limiter!NoLostWakeUp
<1>1. Limiter!SemaphoreTypeOK
  BY DEF Sem!SemaphoreInv, Limiter!SemaphoreTypeOK, Sem!SemaphoreTypeOK,
         Limiter!SlotStates, Sem!SlotStates
<1>2. \A S : Limiter!Cardinality(S) = Sem!Cardinality(S)
  BY DEF Limiter!Cardinality, Sem!Cardinality
<1>3. Limiter!SlotsConserved
  BY <1>2, SameSets DEF Sem!SemaphoreInv, Limiter!SlotsConserved, Sem!SlotsConserved
<1>4. Limiter!NoLostWakeUp
  BY SameSets DEF Sem!SemaphoreInv, Limiter!NoLostWakeUp, Sem!NoLostWakeUp
<1> QED BY <1>1, <1>3, <1>4

\* The semaphore neither loses nor duplicates a slot while tasks are cancelled at
\* any await, timers fire and generators are closed late or never: those in the
\* semaphore and those owned by a request make MaxConcurrency.  Of the latter a
\* dropped stream never gives its own back (concurrency.py:44-81).
THEOREM SlotsAreConserved == Spec => []Limiter!SlotsConserved
BY SemaphoreInvInit, SemaphoreInvStep, SemaphoreMeans, PTL DEF Spec

\* A slot that is free next to a waiting request is on its way to one, also when
\* the task that was woken for it is cancelled before it resumes.
THEOREM WakeUpsAreNeverLost == Spec => []Limiter!NoLostWakeUp
BY SemaphoreInvInit, SemaphoreInvStep, SemaphoreMeans, PTL DEF Spec

-----------------------------------------------------------------------------

\* What the types and the load follow from.
ServiceInv ==
  /\ Sem!SemaphoreInv /\ DepthInv /\ ChargeInv /\ GaugeInv
  /\ depth < QueueSize

LEMMA DepthIsBounded ==
  ASSUME depth \in Nat, depth < QueueSize, Limiter!Next \/ UNCHANGED Limiter!vars
  PROVE  depth' < QueueSize
<1>1. CASE UNCHANGED Limiter!vars
  BY <1>1 DEF Limiter!vars
<1>2. ASSUME NEW r \in Requests,
             \/ Limiter!Admit(r) \/ Limiter!RejectOverload(r) \/ Limiter!TimerFires(r)
             \/ Limiter!Cancel(r) \/ Limiter!ReleaseSlot(r)
      PROVE  UNCHANGED depth
  BY <1>2 DEF Limiter!Admit, Limiter!RejectOverload, Limiter!TimerFires, Limiter!Cancel,
              Limiter!ReleaseSlot, Limiter!vars
<1>3. ASSUME NEW r \in Requests, Limiter!Enqueue(r) PROVE depth' < QueueSize
  BY <1>3 DEF Limiter!Enqueue
<1>4. ASSUME NEW r \in Requests, Limiter!Resume(r) PROVE depth' < QueueSize
  <2>1. depth' \in {depth, depth - 1}
    BY <1>4 DEF Limiter!Resume
  <2> QED BY <2>1, ChatAssumption
<1> QED BY <1>1, <1>2, <1>3, <1>4 DEF Limiter!Next

LEMMA ServiceInvStep == ServiceInv /\ [Next]_vars => ServiceInv'
<1> SUFFICES ASSUME ServiceInv, [Next]_vars PROVE ServiceInv'
  OBVIOUS
<1>1. Sem!SemaphoreInv' /\ DepthInv' /\ ChargeInv' /\ GaugeInv'
  BY SemaphoreInvStep, DepthInvStep, ChargeInvStep, GaugeInvStep DEF ServiceInv
<1>2. Limiter!Next \/ UNCHANGED Limiter!vars
  BY LimiterStep
<1>3. depth' < QueueSize
  BY <1>2, DepthIsBounded DEF ServiceInv, DepthInv
<1> QED BY <1>1, <1>3 DEF ServiceInv

\* The requests that are worked for own a slot each.
LEMMA WorkIsLimited ==
  ASSUME ServiceInv
  PROVE  Cardinality(Working) \in 0..MaxConcurrency
<1> DEFINE Own == {r \in Requests : slot[r] \in {"woken", "handback", "held"}}
<1>1. Working \subseteq Own /\ Own \in SUBSET Requests /\ Working \in SUBSET Requests
  BY DEF ServiceInv, GaugeInv, SlotInv, SlotsFollowHandlers, Working
<1>2. value \in Nat /\ value + Cardinality(Own) = MaxConcurrency
  <2>1. Limiter!SemaphoreTypeOK /\ Limiter!SlotsConserved
    BY SemaphoreMeans DEF ServiceInv
  <2>2. Limiter!In(Limiter!Owning) = Own
    BY DEF Limiter!In, Limiter!Owning
  <2>3. Limiter!Cardinality(Own) = Cardinality(Own)
    BY DEF Limiter!Cardinality, Cardinality
  <2> QED BY <2>1, <2>2, <2>3, ChatAssumption DEF Limiter!SemaphoreTypeOK, Limiter!SlotsConserved
<1> HIDE DEF Own
<1>3. /\ Cardinality(Working) \in Nat /\ Cardinality(Own) \in Nat
      /\ Cardinality(Working) <= Cardinality(Own)
  BY <1>1, Grows
<1> QED BY <1>2, <1>3, ChatAssumption

LEMMA ServiceInvInit == Init => ServiceInv
<1>1. Init => Sem!SemaphoreInv /\ DepthInv /\ ChargeInv /\ GaugeInv
  BY SemaphoreInvInit, DepthInvInit, ChargeInvInit, GaugeInvInit
<1>2. Init => depth = 0
  BY DEF Init, Limiter!Init
<1>3. 0 < QueueSize
  BY ChatAssumption
<1> QED BY <1>1, <1>2, <1>3 DEF ServiceInv

\* The service never works for more requests than it has slots, less those that
\* dropped streams have taken, whoever leaves and whenever, and its queue is
\* bounded by the size it is given, less the places that cancelled requests have
\* taken (concurrency.py:44-81).
THEOREM LoadStaysLimited == Spec => []LoadIsLimited
<1>1. ServiceInv => LoadIsLimited
  <2> SUFFICES ASSUME ServiceInv PROVE LoadIsLimited
    OBVIOUS
  <2>1. Cardinality(Working) <= MaxConcurrency
    BY WorkIsLimited, ChatAssumption
  <2>2. depth = Cardinality(Waiting) + Cardinality(cancelled \ Waiting) /\ depth < QueueSize
    BY DEF ServiceInv, DepthInv
  <2> QED BY <2>1, <2>2 DEF LoadIsLimited
<1> QED BY <1>1, ServiceInvInit, ServiceInvStep, PTL DEF Spec

\* The counters, the gauges and the deque keep their types: no gauge falls below
\* zero or rises above the number of slots, and QUEUE_DEPTH, which cancellations
\* let drift, still stays below the size of the queue.
THEOREM TypeCorrect == Spec => []TypeOK
<1>1. ServiceInv => TypeOK
  <2> SUFFICES ASSUME ServiceInv PROVE TypeOK
    OBVIOUS
  <2>1. Limiter!TypeOK
    <3>1. Limiter!SemaphoreTypeOK
      BY SemaphoreMeans DEF ServiceInv
    <3>2. depth \in 0..(QueueSize - 1) /\ cancelled \subseteq Requests
      BY ChatAssumption DEF ServiceInv, DepthInv
    <3> QED BY <3>1, <3>2 DEF Limiter!TypeOK
  <2>2. Quota!TypeOK /\ phase \in [Requests -> Phases] /\ kind \in [Requests -> Kinds]
        /\ keyRequests \in Nat /\ outcome \in [Requests -> Outcomes]
    BY DEF ServiceInv, ChargeInv, ChargeTypes, Quota!TypeOK
  <2>3. active \in 0..MaxConcurrency
    BY WorkIsLimited DEF ServiceInv, GaugeInv, GaugesAreRight
  <2>4. inFlight \in 0..MaxConcurrency
    <3>1. At(Started) \subseteq Working /\ Working \in SUBSET Requests
          /\ At(Started) \in SUBSET Requests
      BY DEF At, InStream, Started, Working, Owns
    <3>2. /\ Cardinality(At(Started)) \in Nat /\ Cardinality(Working) \in Nat
          /\ Cardinality(At(Started)) <= Cardinality(Working)
      BY <3>1, Grows
    <3>3. Cardinality(Working) <= MaxConcurrency
      BY WorkIsLimited, ChatAssumption
    <3>4. inFlight = Cardinality(At(Started))
      BY DEF ServiceInv, GaugeInv, GaugesAreRight, Started
    <3> QED BY <3>2, <3>3, <3>4, ChatAssumption
  <2> QED BY <2>1, <2>2, <2>3, <2>4 DEF TypeOK
<1> QED BY <1>1, ServiceInvInit, ServiceInvStep, PTL DEF Spec

=============================================================================
