------------------------- MODULE BatchBarrierProofs -------------------------
(***************************************************************************)
(* Theorems about BatchBarrier for any finite set of requests and any      *)
(* batch size.  The inductive invariant is the conjunction IInv.           *)
(***************************************************************************)
EXTENDS BatchBarrier, FiniteSetTheorems, SequenceTheorems, TLAPS

\* What appending and taking the head do to the elements of a sequence.
LEMMA ToSetAppend ==
  ASSUME NEW S, NEW s \in Seq(S), NEW e \in S
  PROVE  ToSet(Append(s, e)) = ToSet(s) \cup {e}
<1>1. /\ DOMAIN s = 1..Len(s) /\ Len(s) \in Nat
      /\ DOMAIN Append(s, e) = 1..Len(s) + 1
      /\ \A i \in 1..Len(s) : Append(s, e)[i] = s[i]
      /\ Append(s, e)[Len(s) + 1] = e
  BY AppendProperties, LenProperties
<1> QED BY <1>1 DEF ToSet

LEMMA ToSetHeadTail ==
  ASSUME NEW S, NEW s \in Seq(S), s # <<>>
  PROVE  ToSet(s) = {Head(s)} \cup ToSet(Tail(s))
<1>1. /\ DOMAIN s = 1..Len(s) /\ Len(s) \in Nat \ {0}
      /\ Len(Tail(s)) = Len(s) - 1 /\ DOMAIN Tail(s) = 1..Len(s) - 1
      /\ \A i \in 1..Len(s) - 1 : Tail(s)[i] = s[i + 1]
      /\ Head(s) = s[1]
  BY LenProperties, EmptySeq, HeadTailProperties
<1>2. ASSUME NEW x \in ToSet(s) PROVE x \in {Head(s)} \cup ToSet(Tail(s))
  <2>1. PICK i \in 1..Len(s) : x = s[i]
    BY <1>1, <1>2 DEF ToSet
  <2>2. CASE i = 1
    BY <2>1, <2>2, <1>1
  <2>3. CASE i # 1
    <3>1. i - 1 \in 1..Len(s) - 1 /\ Tail(s)[i - 1] = s[i]
      BY <2>1, <2>3, <1>1
    <3> QED BY <3>1, <2>1, <1>1 DEF ToSet
  <2> QED BY <2>2, <2>3
<1>3. ASSUME NEW x \in {Head(s)} \cup ToSet(Tail(s)) PROVE x \in ToSet(s)
  <2>1. CASE x = Head(s)
    BY <2>1, <1>1 DEF ToSet
  <2>2. CASE x \in ToSet(Tail(s))
    <3>1. PICK i \in 1..Len(s) - 1 : x = Tail(s)[i]
      BY <2>2, <1>1 DEF ToSet
    <3>2. i + 1 \in 1..Len(s) /\ x = s[i + 1]
      BY <3>1, <1>1
    <3> QED BY <3>2, <1>1 DEF ToSet
  <2> QED BY <1>3, <2>1, <2>2
<1> QED BY <1>2, <1>3

\* A list that holds each waiting request once is as long as there are
\* waiting requests.
LEMMA PendingCount ==
  ASSUME pending \in Seq(Requests), PendingIsWaiting
  PROVE  Len(pending) = Cardinality(Waiting) /\ Len(pending) \in Nat
<1>1. DOMAIN pending = 1..Len(pending) /\ Len(pending) \in Nat
      /\ pending \in [1..Len(pending) -> Requests]
  BY LenProperties
<1>2. pending \in Bijection(1..Len(pending), Waiting)
  <2>1. \A i \in 1..Len(pending) : pending[i] \in Waiting
    BY <1>1 DEF PendingIsWaiting, Waiting
  <2>2. \A r \in Waiting : \E i \in 1..Len(pending) : pending[i] = r
    BY <1>1 DEF PendingIsWaiting, Waiting
  <2>3. pending \in [1..Len(pending) -> Waiting]
    BY <1>1, <2>1
  <2>4. \A i, j \in 1..Len(pending) : pending[i] = pending[j] => i = j
    BY <1>1 DEF PendingIsWaiting
  <2> QED BY <2>2, <2>3, <2>4 DEF Bijection, Injection, Surjection, IsInjective
<1>3. ExistsBijection(1..Len(pending), Waiting)
  BY <1>2 DEF ExistsBijection
<1> QED BY <1>1, <1>3, FS_CountingElements

\* Timers are started for generations that have been reached.
TimersAreDated == \A t \in Windows : t.gen <= timerGen

\* The inductive invariant.
IInv ==
  /\ TypeOK
  /\ PendingIsWaiting
  /\ NoStrandedWaiter
  /\ TimerOpensItsOwnWindow
  /\ TimersAreDated
  /\ EfficiencyIsSound

LEMMA FiniteStages ==
  /\ IsFiniteSet(Waiting) /\ Cardinality(Waiting) \in Nat
  /\ IsFiniteSet(Passed) /\ Cardinality(Passed) \in Nat
  /\ Cardinality(Passed) <= Cardinality(Requests)
  /\ Cardinality(Requests) \in Nat
<1>1. Waiting \subseteq Requests /\ Passed \subseteq Requests
  BY DEF Waiting, Passed
<1> QED BY <1>1, FS_Subset, FS_CardinalityType, BarrierAssumption

LEMMA InitIInv == Init => IInv
<1> SUFFICES ASSUME Init PROVE IInv
  OBVIOUS
<1> USE DEF Init
<1>1. Passed = {} /\ Cardinality({}) = 0 /\ Cardinality(Requests) \in Nat
  BY FS_EmptySet, FiniteStages DEF Passed
<1>2. TypeOK
  BY <1>1, EmptySeq DEF TypeOK, Stages
<1>3. PendingIsWaiting
  BY EmptySeq DEF PendingIsWaiting
<1>4. Windows = {}
  BY EmptySeq DEF Windows, ToSet
<1>5. NoStrandedWaiter /\ TimerOpensItsOwnWindow /\ TimersAreDated
  BY <1>4 DEF NoStrandedWaiter, TimerOpensItsOwnWindow, TimersAreDated
<1>6. EfficiencyIsSound
  BY <1>1 DEF EfficiencyIsSound
<1> QED BY <1>2, <1>3, <1>5, <1>6 DEF IInv

-----------------------------------------------------------------------------

LEMMA EnterPreserves ==
  ASSUME IInv, NEW r \in Requests, Enter(r)
  PROVE  IInv'
<1>0. /\ TypeOK /\ PendingIsWaiting /\ NoStrandedWaiter
      /\ TimerOpensItsOwnWindow /\ TimersAreDated /\ EfficiencyIsSound
  BY DEF IInv
<1>1. /\ pending \in Seq(Requests) /\ timerGen \in Nat /\ flushes \in Nat
      /\ asleep \in Seq(Timers) /\ due \in Seq(Timers)
      /\ stage \in [Requests -> Stages]
  BY <1>0 DEF TypeOK
<1>2. /\ stage[r] = "out" /\ stage' = [stage EXCEPT ![r] = "waiting"]
      /\ pending' = Append(pending, r)
      /\ UNCHANGED <<due, batches, batched>>
      /\ flushes' \in {flushes, flushes + 1}
  BY DEF Enter
<1> DEFINE t == [gen |-> timerGen + 1, opener |-> r]
<1>3. \/ /\ pending = <<>> /\ timerGen' = timerGen + 1 /\ asleep' = Append(asleep, t)
      \/ pending # <<>> /\ UNCHANGED <<timerGen, asleep>>
  BY DEF Enter
<1>4. t \in Timers
  BY <1>1 DEF Timers
<1>5. /\ pending' \in Seq(Requests) /\ pending' # <<>>
      /\ DOMAIN pending = 1..Len(pending) /\ DOMAIN pending' = 1..Len(pending) + 1
      /\ \A i \in 1..Len(pending) : pending'[i] = pending[i]
      /\ pending'[Len(pending) + 1] = r
      /\ Len(pending) \in Nat
  BY <1>1, <1>2, AppendProperties, LenProperties
<1>6. asleep' \in Seq(Timers) /\ timerGen' \in Nat
  <2> HIDE DEF t
  <2>1. Append(asleep, t) \in Seq(Timers)
    BY <1>1, <1>4, AppendProperties
  <2>2. asleep' = Append(asleep, t) \/ asleep' = asleep
    BY <1>3
  <2>3. timerGen' = timerGen + 1 \/ timerGen' = timerGen
    BY <1>3
  <2>4. asleep \in Seq(Timers)
    BY <1>1
  <2>5. asleep' \in Seq(Timers)
    BY <2>1, <2>2, <2>4, Zenon
  <2> QED BY <2>3, <2>5, <1>1
<1>7. TypeOK'
  <2>1. stage' \in [Requests -> Stages] /\ flushes' \in Nat
    BY <1>1, <1>2 DEF Stages
  <2> QED BY <2>1, <1>0, <1>2, <1>5, <1>6 DEF TypeOK
<1>8. PendingIsWaiting'
  <2>1. \A i \in 1..Len(pending) : pending[i] # r
    BY <1>0, <1>1, <1>2, <1>5 DEF PendingIsWaiting
  <2>2. \A i, j \in DOMAIN pending' : pending'[i] = pending'[j] => i = j
    BY <2>1, <1>0, <1>5 DEF PendingIsWaiting
  <2>3. ASSUME NEW q \in Requests
        PROVE  stage'[q] = "waiting" <=> \E i \in DOMAIN pending' : pending'[i] = q
    <3>1. CASE q = r
      <4>1. stage'[r] = "waiting"
        BY <1>1, <1>2
      <4>2. Len(pending) + 1 \in DOMAIN pending'
        BY <1>5
      <4> QED BY <3>1, <4>1, <4>2, <1>5
    <3>2. CASE q # r
      <4>1. stage'[q] = stage[q]
        BY <3>2, <1>1, <1>2
      <4>2. (\E i \in DOMAIN pending' : pending'[i] = q)
              <=> \E i \in DOMAIN pending : pending[i] = q
        BY <3>2, <1>5
      <4> QED BY <4>1, <4>2, <1>0 DEF PendingIsWaiting
    <3> QED BY <3>1, <3>2
  <2> QED BY <2>2, <2>3 DEF PendingIsWaiting
<1>9. NoStrandedWaiter' /\ TimerOpensItsOwnWindow' /\ TimersAreDated'
  <2>1. CASE pending = <<>>
    <3>1. timerGen' = timerGen + 1 /\ asleep' = Append(asleep, t)
      BY <2>1, <1>3
    <3>2. Windows' = Windows \cup {t}
      BY <3>1, <1>1, <1>2, <1>4, ToSetAppend DEF Windows
    <3>3. Len(pending) = 0 /\ Head(pending') = r
      BY <2>1, <1>1, <1>2, <1>5, EmptySeq, HeadTailProperties
    <3>4. \A u \in Windows : u.gen <= timerGen /\ u.gen \in Nat
      <4>1. ToSet(asleep) \subseteq Timers /\ ToSet(due) \subseteq Timers
        BY <1>1, LenProperties, ElementOfSeq DEF ToSet
      <4>2. Windows \subseteq Timers
        BY <4>1 DEF Windows
      <4> QED BY <4>2, <1>0 DEF TimersAreDated, Timers
    <3>5. t.gen = timerGen' /\ t.opener = r
      BY <3>1
    <3>6. \A u \in Windows' : u.gen = timerGen' => u = t
      BY <3>1, <3>2, <3>4, <1>1
    <3>7. NoStrandedWaiter'
      BY <3>2, <3>5 DEF NoStrandedWaiter
    <3>8. TimerOpensItsOwnWindow'
      BY <3>3, <3>5, <3>6 DEF TimerOpensItsOwnWindow
    <3>9. TimersAreDated'
      BY <3>1, <3>2, <3>4, <3>5, <1>1 DEF TimersAreDated
    <3> QED BY <3>7, <3>8, <3>9
  <2>2. CASE pending # <<>>
    <3>1. UNCHANGED <<timerGen, asleep, due>>
      BY <2>2, <1>2, <1>3
    <3>2. Windows' = Windows
      BY <3>1 DEF Windows
    <3>3. Len(pending) # 0 /\ Head(pending') = Head(pending)
      <4>1. Len(pending) \in Nat \ {0}
        BY <2>2, <1>1, EmptySeq
      <4>2. Head(pending) = pending[1] /\ Head(pending') = pending'[1]
        BY <2>2, <1>1, <1>5
      <4> QED BY <4>1, <4>2, <1>5
    <3>4. flushes' > 0 \/ flushes' = flushes
      BY <1>1, <1>2
    <3>5. NoStrandedWaiter'
      BY <3>1, <3>2, <3>4, <2>2, <1>0 DEF NoStrandedWaiter
    <3> QED BY <3>1, <3>2, <3>3, <3>5, <2>2, <1>0
            DEF TimerOpensItsOwnWindow, TimersAreDated
  <2> QED BY <2>1, <2>2
<1>10. EfficiencyIsSound'
  <2>1. Passed' = Passed
    BY <1>1, <1>2 DEF Passed
  <2> QED BY <2>1, <1>0, <1>2 DEF EfficiencyIsSound
<1> QED BY <1>7, <1>8, <1>9, <1>10 DEF IInv

LEMMA ElapsePreserves ==
  ASSUME IInv, TimerElapses
  PROVE  IInv'
<1>0. /\ TypeOK /\ PendingIsWaiting /\ NoStrandedWaiter
      /\ TimerOpensItsOwnWindow /\ TimersAreDated /\ EfficiencyIsSound
  BY DEF IInv
<1>1. /\ asleep # <<>> /\ asleep \in Seq(Timers) /\ due \in Seq(Timers)
      /\ asleep' = Tail(asleep) /\ due' = Append(due, Head(asleep))
      /\ UNCHANGED <<pending, timerGen, flushes, stage, batches, batched>>
  BY <1>0 DEF TimerElapses, TypeOK
<1>2. Head(asleep) \in Timers /\ asleep' \in Seq(Timers) /\ due' \in Seq(Timers)
  BY <1>1, HeadTailProperties, AppendProperties
<1>3. Windows' = Windows
  <2>1. ToSet(due') = ToSet(due) \cup {Head(asleep)}
    BY <1>1, <1>2, ToSetAppend
  <2>2. ToSet(asleep) = {Head(asleep)} \cup ToSet(asleep')
    BY <1>1, ToSetHeadTail
  <2>3. Windows' = ToSet(asleep') \cup ToSet(due')
    BY DEF Windows
  <2> QED BY <2>1, <2>2, <2>3 DEF Windows
<1>4. TypeOK'
  BY <1>0, <1>1, <1>2 DEF TypeOK
<1>5. PendingIsWaiting' /\ EfficiencyIsSound'
  BY <1>0, <1>1 DEF PendingIsWaiting, EfficiencyIsSound, Passed
<1>6. NoStrandedWaiter' /\ TimerOpensItsOwnWindow' /\ TimersAreDated'
  BY <1>0, <1>1, <1>3 DEF NoStrandedWaiter, TimerOpensItsOwnWindow, TimersAreDated
<1> QED BY <1>4, <1>5, <1>6 DEF IInv

\* A flush empties the barrier and counts whom it lets through.
LEMMA FlushEffect ==
  ASSUME TypeOK, PendingIsWaiting, EfficiencyIsSound, Flush
  PROVE  /\ pending' = <<>>
         /\ stage' \in [Requests -> Stages]
         /\ Waiting' = {} /\ Passed' = Passed \cup Waiting
         /\ PendingIsWaiting' /\ EfficiencyIsSound'
         /\ batches' \in Nat /\ batched' \in 0..Cardinality(Requests)
<1>1. /\ pending \in Seq(Requests) /\ stage \in [Requests -> Stages]
      /\ batches \in Nat /\ batched \in Nat /\ batched = Cardinality(Passed)
      /\ batches <= batched
  BY FiniteStages DEF TypeOK, EfficiencyIsSound
<1>2. Len(pending) = Cardinality(Waiting) /\ Len(pending) \in Nat
  BY <1>1, PendingCount
<1>3. CASE pending = <<>>
  <2>1. UNCHANGED <<pending, stage, batches, batched>>
    BY <1>3 DEF Flush
  <2>2. Waiting = {}
    BY <1>3, EmptySeq DEF Waiting, PendingIsWaiting
  <2>3. Waiting' = {} /\ Passed' = Passed \cup Waiting
    BY <2>1, <2>2 DEF Waiting, Passed
  <2>4. PendingIsWaiting' /\ EfficiencyIsSound'
    BY <2>1 DEF PendingIsWaiting, EfficiencyIsSound, Passed
  <2> QED BY <1>3, <2>1, <2>3, <2>4 DEF TypeOK
<1>4. CASE pending # <<>>
  <2>1. /\ pending' = <<>>
        /\ stage' = [r \in Requests |->
                       IF \E i \in DOMAIN pending : pending[i] = r THEN "released"
                       ELSE stage[r]]
        /\ batches' = batches + 1 /\ batched' = batched + Len(pending)
    BY <1>4 DEF Flush
  <2>2. stage' = [r \in Requests |->
                    IF stage[r] = "waiting" THEN "released" ELSE stage[r]]
    BY <2>1 DEF PendingIsWaiting
  <2>3. /\ stage' \in [Requests -> Stages]
        /\ \A r \in Requests : stage'[r] # "waiting"
    BY <2>2, <1>1 DEF Stages
  <2>4. Waiting' = {} /\ Passed' = Passed \cup Waiting
    BY <2>2, <1>1 DEF Waiting, Passed
  <2>5. PendingIsWaiting'
    BY <2>1, <2>3, EmptySeq DEF PendingIsWaiting
  <2>6. Cardinality(Passed \cup Waiting) = batched + Len(pending)
    <3>1. Cardinality(Passed \cup Waiting)
            = Cardinality(Passed) + Cardinality(Waiting) - Cardinality(Passed \cap Waiting)
      BY FiniteStages, FS_Union
    <3>2. Passed \cap Waiting = {}
      BY DEF Passed, Waiting
    <3>3. Cardinality(Passed \cap Waiting) = 0
      BY <3>2, FS_EmptySet
    <3> QED BY <3>1, <3>3, <1>1, <1>2, FiniteStages
  <2>7. batched' = Cardinality(Passed')
    BY <2>1, <2>4, <2>6
  <2>8. Len(pending) >= 1
    BY <1>4, <1>1, <1>2, EmptySeq
  <2>9. batches' <= batched' /\ batches' \in Nat /\ batched' \in Nat
    BY <2>1, <2>8, <1>1, <1>2
  <2>10. Cardinality(Passed') <= Cardinality(Requests) /\ Cardinality(Requests) \in Nat
    <3>1. Passed' \subseteq Requests
      BY DEF Passed
    <3> QED BY <3>1, FiniteStages, FS_Subset, BarrierAssumption
  <2>11. EfficiencyIsSound'
    BY <2>7, <2>9 DEF EfficiencyIsSound
  <2> QED BY <2>1, <2>3, <2>4, <2>5, <2>7, <2>9, <2>10, <2>11
<1> QED BY <1>3, <1>4

LEMMA RunTimerPreserves ==
  ASSUME IInv, RunTimer
  PROVE  IInv'
<1>0. /\ TypeOK /\ PendingIsWaiting /\ NoStrandedWaiter
      /\ TimerOpensItsOwnWindow /\ TimersAreDated /\ EfficiencyIsSound
  BY DEF IInv
<1>1. /\ due # <<>> /\ due \in Seq(Timers) /\ due' = Tail(due)
      /\ UNCHANGED <<timerGen, asleep, flushes>>
  BY <1>0 DEF RunTimer, TypeOK
<1>2. due' \in Seq(Timers)
  BY <1>1, HeadTailProperties
<1>3. Windows' \cup {Head(due)} = Windows \cup {Head(due)} /\ Windows' \subseteq Windows
  <2>1. ToSet(due) = {Head(due)} \cup ToSet(due')
    BY <1>1, ToSetHeadTail
  <2>2. Windows' = ToSet(asleep) \cup ToSet(due')
    BY <1>1 DEF Windows
  <2> QED BY <2>1, <2>2 DEF Windows
<1>4. CASE Head(due).gen = timerGen
  <2>1. Flush
    BY <1>4 DEF RunTimer
  <2>2. /\ pending' = <<>> /\ stage' \in [Requests -> Stages]
        /\ PendingIsWaiting' /\ EfficiencyIsSound'
        /\ batches' \in Nat /\ batched' \in 0..Cardinality(Requests)
    BY <2>1, <1>0, FlushEffect
  <2>3. TypeOK'
    BY <2>2, <1>0, <1>1, <1>2, EmptySeq DEF TypeOK
  <2>4. NoStrandedWaiter' /\ TimerOpensItsOwnWindow' /\ TimersAreDated'
    BY <2>2, <1>0, <1>1, <1>3 DEF NoStrandedWaiter, TimerOpensItsOwnWindow, TimersAreDated
  <2> QED BY <2>2, <2>3, <2>4 DEF IInv
<1>5. CASE Head(due).gen # timerGen
  <2>1. UNCHANGED <<pending, stage, batches, batched>>
    BY <1>5 DEF RunTimer
  <2>2. TypeOK'
    BY <2>1, <1>0, <1>1, <1>2 DEF TypeOK
  <2>3. PendingIsWaiting' /\ EfficiencyIsSound'
    BY <2>1, <1>0 DEF PendingIsWaiting, EfficiencyIsSound, Passed
  <2>4. \A t \in Windows : t.gen = timerGen => t \in Windows'
    BY <1>3, <1>5
  <2>5. NoStrandedWaiter'
    BY <2>1, <2>4, <1>0, <1>1 DEF NoStrandedWaiter
  <2>6. TimerOpensItsOwnWindow' /\ TimersAreDated'
    BY <2>1, <1>0, <1>1, <1>3 DEF TimerOpensItsOwnWindow, TimersAreDated
  <2> QED BY <2>2, <2>3, <2>5, <2>6 DEF IInv
<1> QED BY <1>4, <1>5

LEMMA RunFlushPreserves ==
  ASSUME IInv, RunFlush
  PROVE  IInv'
<1>0. /\ TypeOK /\ PendingIsWaiting /\ NoStrandedWaiter
      /\ TimerOpensItsOwnWindow /\ TimersAreDated /\ EfficiencyIsSound
  BY DEF IInv
<1>1. /\ flushes > 0 /\ flushes \in Nat /\ flushes' = flushes - 1
      /\ Flush /\ UNCHANGED <<timerGen, asleep, due>>
  BY <1>0 DEF RunFlush, TypeOK
<1>2. /\ pending' = <<>> /\ stage' \in [Requests -> Stages]
      /\ PendingIsWaiting' /\ EfficiencyIsSound'
      /\ batches' \in Nat /\ batched' \in 0..Cardinality(Requests)
  BY <1>0, <1>1, FlushEffect
<1>3. TypeOK'
  BY <1>0, <1>1, <1>2, EmptySeq DEF TypeOK
<1>4. Windows' = Windows
  BY <1>1 DEF Windows
<1>5. NoStrandedWaiter' /\ TimerOpensItsOwnWindow' /\ TimersAreDated'
  BY <1>0, <1>1, <1>2, <1>4 DEF NoStrandedWaiter, TimerOpensItsOwnWindow, TimersAreDated
<1> QED BY <1>2, <1>3, <1>5 DEF IInv

LEMMA ResumePreserves ==
  ASSUME IInv, NEW r \in Requests, Resume(r)
  PROVE  IInv'
<1>0. /\ TypeOK /\ PendingIsWaiting /\ NoStrandedWaiter
      /\ TimerOpensItsOwnWindow /\ TimersAreDated /\ EfficiencyIsSound
  BY DEF IInv
<1>1. /\ stage \in [Requests -> Stages] /\ stage[r] = "released"
      /\ stage' = [stage EXCEPT ![r] = "through"]
      /\ UNCHANGED <<pending, timerGen, asleep, due, flushes, batches, batched>>
  BY <1>0 DEF Resume, TypeOK
<1>2. Windows' = Windows /\ Passed' = Passed
  BY <1>1 DEF Windows, Passed
<1>3. TypeOK'
  BY <1>0, <1>1 DEF TypeOK, Stages
<1>4. PendingIsWaiting'
  BY <1>0, <1>1 DEF PendingIsWaiting
<1>5. EfficiencyIsSound' /\ NoStrandedWaiter' /\ TimerOpensItsOwnWindow' /\ TimersAreDated'
  BY <1>0, <1>1, <1>2
  DEF EfficiencyIsSound, NoStrandedWaiter, TimerOpensItsOwnWindow, TimersAreDated
<1> QED BY <1>3, <1>4, <1>5 DEF IInv

LEMMA NextIInv == IInv /\ [Next]_vars => IInv'
<1> SUFFICES ASSUME IInv, [Next]_vars PROVE IInv'
  OBVIOUS
<1>1. CASE UNCHANGED vars
  BY <1>1 DEF vars, IInv, TypeOK, PendingIsWaiting, NoStrandedWaiter, Windows, Passed,
              TimerOpensItsOwnWindow, TimersAreDated, EfficiencyIsSound
<1>2. CASE BarrierTask
  BY <1>2, ElapsePreserves, RunTimerPreserves, RunFlushPreserves DEF BarrierTask
<1>3. CASE \E r \in Requests : Enter(r) \/ Resume(r)
  BY <1>3, EnterPreserves, ResumePreserves
<1>4. CASE Finished
  BY <1>1, <1>4 DEF Finished
<1> QED BY <1>1, <1>2, <1>3, <1>4 DEF Next

\* Every reachable state satisfies the inductive invariant.
THEOREM Invariance == Spec => []IInv
BY InitIInv, NextIInv, PTL DEF Spec

\* The barrier's lists, counts and stages keep their types.
THEOREM TypeCorrect == Spec => []TypeOK
<1>1. IInv => TypeOK
  BY DEF IInv
<1> QED BY <1>1, Invariance, PTL

\* However timers, flush tasks and arrivals interleave, a waiting request has a
\* flush task or a current timer on its way.
THEOREM NobodyIsStranded == Spec => []NoStrandedWaiter
<1>1. IInv => NoStrandedWaiter
  BY DEF IInv
<1> QED BY <1>1, Invariance, PTL

\* The generation check is enough: a timer only opens the window it was started
\* for.
THEOREM TimersKeepToTheirWindow == Spec => []TimerOpensItsOwnWindow
<1>1. IInv => TimerOpensItsOwnWindow
  BY DEF IInv
<1> QED BY <1>1, Invariance, PTL

\* The batching totals count each request that passed once, and no empty batch.
THEOREM EfficiencyIsRight == Spec => []EfficiencyIsSound
<1>1. IInv => EfficiencyIsSound
  BY DEF IInv
<1> QED BY <1>1, Invariance, PTL

-----------------------------------------------------------------------------

LEMMA InitRefines == Init => Group!Init
BY DEF Init, Group!Init, Waiting, Passed

\* A flush is one opening of the gate, or nothing.
LEMMA FlushRefines ==
  ASSUME IInv, Flush
  PROVE  [Group!Next]_(Group!vars)
<1>1. Waiting' = {} /\ Passed' = Passed \cup Waiting
  BY FlushEffect DEF IInv
<1>2. CASE Waiting = {}
  BY <1>1, <1>2 DEF Group!vars
<1>3. CASE Waiting # {}
  BY <1>1, <1>3 DEF Group!Next, Group!OpenGate
<1> QED BY <1>2, <1>3

LEMMA NextRefines == IInv /\ [Next]_vars => [Group!Next]_(Group!vars)
<1> SUFFICES ASSUME IInv, [Next]_vars PROVE [Group!Next]_(Group!vars)
  OBVIOUS
<1>0. stage \in [Requests -> Stages]
  BY DEF IInv, TypeOK
<1>1. ASSUME UNCHANGED stage PROVE UNCHANGED Group!vars
  BY <1>1 DEF Group!vars, Waiting, Passed
<1>2. CASE UNCHANGED vars \/ TimerElapses \/ Finished
  BY <1>1, <1>2 DEF vars, TimerElapses, Finished
<1>3. CASE RunTimer
  BY <1>1, <1>3, FlushRefines DEF RunTimer
<1>4. CASE RunFlush
  BY <1>4, FlushRefines DEF RunFlush
<1>5. ASSUME NEW r \in Requests, Enter(r) PROVE Group!Next
  <2>1. stage[r] = "out" /\ stage' = [stage EXCEPT ![r] = "waiting"]
    BY <1>5 DEF Enter
  <2>2. /\ Waiting' = Waiting \cup {r} /\ Passed' = Passed
        /\ r \notin Waiting \cup Passed
    BY <2>1, <1>0 DEF Waiting, Passed
  <2>3. Group!Arrive(r)
    BY <2>2 DEF Group!Arrive
  <2> QED BY <2>3 DEF Group!Next
<1>6. ASSUME NEW r \in Requests, Resume(r) PROVE UNCHANGED Group!vars
  <2>1. stage[r] = "released" /\ stage' = [stage EXCEPT ![r] = "through"]
    BY <1>6 DEF Resume
  <2> QED BY <2>1, <1>0 DEF Group!vars, Waiting, Passed
<1> QED BY <1>2, <1>3, <1>4, <1>5, <1>6 DEF Next, BarrierTask

\* The barrier lets through all that wait at one moment, for any number of
\* requests and any batch size.
THEOREM BarrierImplementsGroup == Spec => ImplementsGroup
BY InitRefines, NextRefines, Invariance, PTL DEF Spec, ImplementsGroup, Group!Spec

=============================================================================
