---------------------- MODULE ConcurrencyLimiterProofs ----------------------
(***************************************************************************)
(* Theorems about ConcurrencyLimiter for any finite set of requests and    *)
(* any limits.  The inductive invariant is the conjunction IInv.           *)
(***************************************************************************)
EXTENDS ConcurrencyLimiter, FiniteSetTheorems, SequenceTheorems, TLAPS

\* Every set of naturals that is not empty has a least element.
LEMMA LeastNat ==
  ASSUME NEW T \in SUBSET Nat, T # {}
  PROVE  \E n \in T : \A m \in T : n <= m
<1>1. PICK n \in T : \A m \in T : ~ (<<m, n>> \in OpToRel(<, Nat))
  BY WFMin, NatLessThanWellFounded
<1>2. \A m \in T : ~ (m < n)
  BY <1>1 DEF OpToRel
<1> QED BY <1>2

\* The positions of the waiting requests order them: each has one, and
\* "before" compares them.
LEMMA Positions ==
  ASSUME SemaphoreTypeOK, DequeIsTheWaiting
  PROVE  /\ \A r \in In(InDeque) : /\ PositionOf(r) \in 1..Len(waiters)
                                   /\ waiters[PositionOf(r)] = r
         /\ \A q, r \in In(InDeque) :
              /\ Before(q, r) <=> PositionOf(q) < PositionOf(r)
              /\ PositionOf(q) = PositionOf(r) => q = r
<1>1. DOMAIN waiters = 1..Len(waiters) /\ Len(waiters) \in Nat
  BY DEF SemaphoreTypeOK
<1>2. ASSUME NEW r \in In(InDeque)
      PROVE  PositionOf(r) \in DOMAIN waiters /\ waiters[PositionOf(r)] = r
  <2>1. \E i \in DOMAIN waiters : waiters[i] = r
    BY DEF In, Pending, DequeIsTheWaiting
  <2> QED BY <2>1 DEF PositionOf
<1>3. ASSUME NEW q \in In(InDeque), NEW r \in In(InDeque)
      PROVE  Before(q, r) <=> PositionOf(q) < PositionOf(r)
  <2>1. \A i \in DOMAIN waiters : waiters[i] = q => i = PositionOf(q)
    BY <1>2 DEF DequeIsTheWaiting
  <2>2. \A i \in DOMAIN waiters : waiters[i] = r => i = PositionOf(r)
    BY <1>2 DEF DequeIsTheWaiting
  <2> QED BY <1>2, <2>1, <2>2 DEF Before
<1>4. ASSUME NEW q \in In(InDeque), NEW r \in In(InDeque), PositionOf(q) = PositionOf(r)
      PROVE  q = r
  BY <1>2, <1>4
<1> QED BY <1>1, <1>2, <1>3, <1>4

\* k wake-ups give a slot to k pending requests, or to all of them when they
\* are fewer; they are served in the order of the deque.
LEMMA FirstPendingRank ==
  ASSUME SemaphoreTypeOK, DequeIsTheWaiting, NEW k \in Nat
  PROVE  /\ FirstPending(k) \subseteq Pending
         /\ IsFiniteSet(FirstPending(k))
         /\ Cardinality(FirstPending(k)) \in 0..k
         /\ Cardinality(FirstPending(k)) < k => FirstPending(k) = Pending
         /\ \A q \in Pending, r \in FirstPending(k) :
              Before(q, r) => q \in FirstPending(k)
<1> DEFINE P == Pending
           F == FirstPending(k)
<1>1. P \subseteq In(InDeque) /\ F \subseteq P /\ P \subseteq Requests
  BY DEF In, Pending, InDeque, FirstPending
<1>2. IsFiniteSet(P) /\ IsFiniteSet(F) /\ \A r \in P : IsFiniteSet(Ahead(r))
  BY <1>1, FS_Subset, SemaphoreAssumption DEF Ahead, In, Pending
<1>3. Cardinality(F) \in Nat /\ \A r \in P : Cardinality(Ahead(r)) \in Nat
  BY <1>2, FS_CardinalityType
<1>4. Len(waiters) \in Nat
  BY DEF SemaphoreTypeOK
<1>5. Cardinality(F) <= k
  <2>1. CASE F = {}
    BY <2>1, FS_EmptySet
  <2>2. CASE F # {}
    <3> DEFINE T == {Len(waiters) - PositionOf(r) : r \in F}
    <3>1. T \in SUBSET Nat /\ T # {}
      BY <2>2, <1>1, <1>4, Positions
    <3>2. PICK n \in T : \A m \in T : n <= m
      BY <3>1, LeastNat
    <3>3. PICK r \in F : n = Len(waiters) - PositionOf(r)
      BY <3>2
    <3>4. ASSUME NEW q \in F PROVE PositionOf(q) <= PositionOf(r)
      <4>1. n <= Len(waiters) - PositionOf(q)
        BY <3>2
      <4>2. PositionOf(q) \in Nat /\ PositionOf(r) \in Nat
        BY <1>1, <1>4, Positions
      <4> QED BY <4>1, <4>2, <3>3, <1>4
    <3>5. F \ {r} \subseteq Ahead(r)
      BY <3>4, <1>1, Positions DEF Ahead
    <3>6. Cardinality(F \ {r}) <= Cardinality(Ahead(r))
      BY <3>5, <1>1, <1>2, FS_Subset
    <3>7. Cardinality(F \ {r}) = Cardinality(F) - 1
      BY <1>2, FS_RemoveElement
    <3>8. Cardinality(Ahead(r)) < k
      BY DEF FirstPending
    <3> QED BY <3>6, <3>7, <3>8, <1>1, <1>3
  <2> QED BY <2>1, <2>2
<1>6. ASSUME F # P PROVE Cardinality(F) >= k
  <2> DEFINE T == {PositionOf(r) : r \in P \ F}
  <2>0. P \ F # {}
    BY <1>1, <1>6
  <2>1. T \in SUBSET Nat /\ T # {}
    BY <2>0, <1>1, <1>4, Positions
  <2>2. PICK n \in T : \A m \in T : n <= m
    BY <2>1, LeastNat
  <2>3. PICK r \in P \ F : n = PositionOf(r)
    BY <2>2
  <2>4. Ahead(r) \subseteq F
    <3> SUFFICES ASSUME NEW q \in Ahead(r), q \notin F PROVE FALSE
      OBVIOUS
    <3>1. q \in P /\ Before(q, r)
      BY DEF Ahead
    <3>2. PositionOf(q) < PositionOf(r)
      BY <3>1, <1>1, Positions
    <3>3. PositionOf(r) <= PositionOf(q)
      BY <3>1, <2>2, <2>3
    <3> QED BY <3>1, <3>2, <3>3, <1>1, <1>4, Positions
  <2>5. Cardinality(Ahead(r)) <= Cardinality(F)
    BY <2>4, <1>2, FS_Subset
  <2>6. ~ (Cardinality(Ahead(r)) < k)
    BY <2>3 DEF FirstPending
  <2> QED BY <2>5, <2>6, <1>1, <1>3
<1>7. ASSUME NEW q \in P, NEW r \in F, Before(q, r)
      PROVE  q \in F
  <2>1. Ahead(q) \subseteq Ahead(r)
    <3> SUFFICES ASSUME NEW p \in Ahead(q) PROVE p \in Ahead(r)
      OBVIOUS
    <3>1. p \in P /\ Before(p, q)
      BY DEF Ahead
    <3>2. PositionOf(p) < PositionOf(q) /\ PositionOf(q) < PositionOf(r)
      BY <3>1, <1>1, <1>7, Positions
    <3>3. Before(p, r)
      BY <3>1, <3>2, <1>1, <1>4, Positions
    <3> QED BY <3>1, <3>3 DEF Ahead
  <2>2. Cardinality(Ahead(q)) <= Cardinality(Ahead(r))
    BY <2>1, <1>1, <1>2, FS_Subset
  <2>3. Cardinality(Ahead(r)) < k
    BY DEF FirstPending
  <2> QED BY <2>2, <2>3, <1>1, <1>3 DEF FirstPending
<1> QED BY <1>1, <1>2, <1>3, <1>5, <1>6, <1>7

-----------------------------------------------------------------------------

\* Taking one element out of a sequence keeps the others, in order.
LEMMA RemoveAtProperties ==
  ASSUME NEW S, NEW s \in Seq(S), NEW n \in 1..Len(s)
  PROVE  /\ RemoveAt(s, n) \in Seq(S)
         /\ Len(RemoveAt(s, n)) = Len(s) - 1
         /\ \A i \in 1..Len(s) - 1 :
              RemoveAt(s, n)[i] = IF i < n THEN s[i] ELSE s[i + 1]
<1> DEFINE front == SubSeq(s, 1, n - 1)
           back  == SubSeq(s, n + 1, Len(s))
<1>1. Len(s) \in Nat /\ n \in Nat /\ \A i \in 1..Len(s) : s[i] \in S
  BY LenProperties, ElementOfSeq
<1>2. /\ front \in Seq(S) /\ Len(front) = n - 1
      /\ \A i \in 1..n - 1 : front[i] = s[i]
  <2>1. \A i \in 1..n - 1 : s[i] \in S
    BY <1>1
  <2> QED BY <2>1, <1>1, SubSeqProperties
<1>3. /\ back \in Seq(S) /\ Len(back) = Len(s) - n
      /\ \A i \in 1..Len(s) - n : back[i] = s[n + i]
  <2>1. \A i \in n + 1..Len(s) : s[i] \in S
    BY <1>1
  <2> QED BY <2>1, <1>1, SubSeqProperties
<1>4. /\ front \o back \in Seq(S)
      /\ Len(front \o back) = Len(s) - 1
      /\ \A i \in 1..Len(s) - 1 :
           (front \o back)[i] = IF i <= n - 1 THEN front[i] ELSE back[i - (n - 1)]
  <2> HIDE DEF front, back
  <2>1. /\ front \o back \in Seq(S)
        /\ Len(front \o back) = Len(front) + Len(back)
        /\ \A i \in 1..Len(front) + Len(back) :
             (front \o back)[i] = IF i <= Len(front) THEN front[i] ELSE back[i - Len(front)]
    BY <1>2, <1>3, ConcatProperties
  <2> QED BY <2>1, <1>1, <1>2, <1>3
<1>5. RemoveAt(s, n) = front \o back
  BY DEF RemoveAt
<1>6. ASSUME NEW i \in 1..Len(s) - 1
      PROVE  (front \o back)[i] = IF i < n THEN s[i] ELSE s[i + 1]
  <2> HIDE DEF front, back
  <2>1. CASE i < n
    BY <2>1, <1>1, <1>2, <1>4
  <2>2. CASE ~ (i < n)
    <3>1. i - (n - 1) \in 1..Len(s) - n /\ n + (i - (n - 1)) = i + 1
      BY <2>2, <1>1
    <3> QED BY <3>1, <2>2, <1>1, <1>3, <1>4
  <2> QED BY <2>1, <2>2
<1> QED
  <2> HIDE DEF front, back
  <2> QED BY <1>4, <1>5, <1>6

\* A resumed task takes itself, and only itself, out of the deque.
LEMMA LeavingTheDeque ==
  ASSUME SemaphoreTypeOK, DequeIsTheWaiting, NEW r \in In(InDeque),
         waiters' = RemoveAt(waiters, PositionOf(r))
  PROVE  /\ waiters' \in Seq(Requests)
         /\ \A q \in Requests : (\E i \in DOMAIN waiters' : waiters'[i] = q)
                                  <=> q # r /\ \E i \in DOMAIN waiters : waiters[i] = q
         /\ \A i, j \in DOMAIN waiters' : waiters'[i] = waiters'[j] => i = j
<1> DEFINE n == PositionOf(r)
           w == waiters'
<1>1. waiters \in Seq(Requests) /\ Len(waiters) \in Nat /\ DOMAIN waiters = 1..Len(waiters)
  BY DEF SemaphoreTypeOK
<1>2. n \in 1..Len(waiters) /\ waiters[n] = r
  BY Positions
<1>3. /\ w \in Seq(Requests)
      /\ Len(w) = Len(waiters) - 1
      /\ \A i \in 1..Len(waiters) - 1 :
           w[i] = IF i < n THEN waiters[i] ELSE waiters[i + 1]
  BY <1>1, <1>2, RemoveAtProperties
<1>4. DOMAIN w = 1..Len(waiters) - 1
  BY <1>3, LenProperties
<1>5. \A i, j \in DOMAIN waiters : waiters[i] = waiters[j] => i = j
  BY DEF DequeIsTheWaiting
<1>6. \A i, j \in DOMAIN w : w[i] = w[j] => i = j
  <2> DEFINE from(i) == IF i < n THEN i ELSE i + 1
  <2>1. ASSUME NEW i \in DOMAIN w
        PROVE  from(i) \in DOMAIN waiters /\ from(i) # n /\ w[i] = waiters[from(i)]
    BY <1>1, <1>2, <1>3, <1>4
  <2>2. ASSUME NEW i \in DOMAIN w, NEW j \in DOMAIN w, from(i) = from(j)
        PROVE  i = j
    BY <2>2, <1>1, <1>2, <1>4
  <2> HIDE DEF from
  <2> QED BY <2>1, <2>2, <1>5
<1>7. ASSUME NEW i \in DOMAIN w
      PROVE  w[i] # r /\ \E j \in DOMAIN waiters : waiters[j] = w[i]
  <2>1. PICK j \in DOMAIN waiters : j # n /\ w[i] = waiters[j]
    <3>1. CASE i < n
      BY <3>1, <1>1, <1>2, <1>3, <1>4
    <3>2. CASE i >= n
      <4>1. i + 1 \in DOMAIN waiters /\ i + 1 # n /\ w[i] = waiters[i + 1]
        BY <3>2, <1>1, <1>2, <1>3, <1>4
      <4> QED BY <4>1
    <3> QED BY <3>1, <3>2, <1>1, <1>2, <1>4
  <2> QED BY <2>1, <1>1, <1>2, <1>5
<1>8. ASSUME NEW j \in DOMAIN waiters, waiters[j] # r
      PROVE  \E i \in DOMAIN w : w[i] = waiters[j]
  <2>1. CASE j < n
    BY <2>1, <1>1, <1>2, <1>3, <1>4
  <2>2. CASE j > n
    <3>1. j - 1 \in DOMAIN w /\ w[j - 1] = waiters[j]
      BY <2>2, <1>1, <1>2, <1>3, <1>4
    <3> QED BY <3>1
  <2> QED BY <2>1, <2>2, <1>1, <1>2, <1>8
<1> QED BY <1>3, <1>6, <1>7, <1>8

-----------------------------------------------------------------------------

\* The requests that own a slot once r has gone to state `next`, before any
\* wake-up.
OwningWithout(r, next) ==
  IF next = "held" THEN In(Owning) \cup {r} ELSE In(Owning) \ {r}

\* What a request that leaves its state and wakes k others does to the sets
\* the invariant is about.
LEMMA MoveAndWakeEffect ==
  ASSUME SemaphoreTypeOK, DequeIsTheWaiting,
         NEW r \in Requests, slot[r] \notin {"none", "pending"},
         NEW next \in {"none", "held"},
         NEW k \in Nat, NEW free \in Nat, k <= free, free <= MaxConcurrency,
         MoveAndWake(r, next, free, k)
  PROVE  /\ slot' \in [Requests -> SlotStates]
         /\ value' \in 0..MaxConcurrency /\ value' \in Nat
         /\ value' + Cardinality(FirstPending(k)) = free
         /\ Pending' = Pending \ FirstPending(k)
         /\ In(InDeque)' = In(InDeque) \ {r}
         /\ Cardinality(In(Owning)') =
              Cardinality(FirstPending(k)) + Cardinality(OwningWithout(r, next))
         /\ In(Owning)' = FirstPending(k) \cup OwningWithout(r, next)
<1> DEFINE F == FirstPending(k)
           O == OwningWithout(r, next)
<1>1. /\ F \subseteq Pending /\ IsFiniteSet(F) /\ Cardinality(F) \in 0..k
  BY FirstPendingRank
<1>2. slot \in [Requests -> SlotStates]
  BY DEF SemaphoreTypeOK
<1>3. /\ value' = free - Cardinality(F)
      /\ slot' = [q \in Requests |-> IF q = r THEN next
                                     ELSE IF q \in F THEN "woken" ELSE slot[q]]
  BY DEF MoveAndWake
<1>4. slot' \in [Requests -> SlotStates]
  BY <1>2, <1>3 DEF SlotStates
<1>5. value' \in 0..MaxConcurrency /\ value' \in Nat /\ value' + Cardinality(F) = free
  BY <1>1, <1>3, SemaphoreAssumption
<1>6. Pending' = Pending \ F
  BY <1>1, <1>2, <1>3 DEF In, Pending
<1>7. In(InDeque)' = In(InDeque) \ {r}
  BY <1>1, <1>2, <1>3 DEF In, Pending, InDeque
<1>8. In(Owning)' = F \cup O
  BY <1>1, <1>2, <1>3 DEF In, Pending, Owning, OwningWithout
<1>9. F \cap O = {}
  BY <1>1 DEF In, Pending, Owning, OwningWithout
<1>10. IsFiniteSet(O)
  <2>1. IsFiniteSet(In(Owning))
    BY FS_Subset, SemaphoreAssumption DEF In, Pending
  <2> QED BY <2>1, FS_AddElement, FS_RemoveElement DEF OwningWithout
<1>11. Cardinality(F \cup O) = Cardinality(F) + Cardinality(O)
  <2>1. Cardinality(F \cup O) = Cardinality(F) + Cardinality(O) - Cardinality(F \cap O)
    BY <1>1, <1>10, FS_Union
  <2>2. Cardinality(F \cap O) = 0
    BY <1>9, FS_EmptySet
  <2>3. Cardinality(F) \in Nat /\ Cardinality(O) \in Nat
    BY <1>1, <1>10, FS_CardinalityType
  <2> QED BY <2>1, <2>2, <2>3
<1> QED BY <1>4, <1>5, <1>6, <1>7, <1>8, <1>11

\* What the semaphore keeps, whatever is done with the requests it serves.
SemaphoreInv ==
  /\ SemaphoreTypeOK
  /\ SlotsConserved
  /\ DequeIsTheWaiting
  /\ NoLostWakeUp

\* The sets of requests in given states are finite.
LEMMA FiniteIn ==
  ASSUME NEW states
  PROVE  IsFiniteSet(In(states)) /\ Cardinality(In(states)) \in Nat
<1>1. In(states) \subseteq Requests
  BY DEF In
<1> QED BY <1>1, FS_Subset, FS_CardinalityType, SemaphoreAssumption

LEMMA SemaphoreStarts == SemaphoreInit => SemaphoreInv
<1> SUFFICES ASSUME SemaphoreInit PROVE SemaphoreInv
  OBVIOUS
<1> USE DEF SemaphoreInit
<1>1. In(Owning) = {} /\ In(InDeque) = {} /\ Pending = {}
  BY DEF In, Pending, Owning, InDeque
<1>2. Cardinality({}) = 0
  BY FS_EmptySet
<1>3. SemaphoreTypeOK
  BY SemaphoreAssumption, EmptySeq DEF SemaphoreTypeOK, SlotStates
<1>4. SlotsConserved
  BY <1>1, <1>2, SemaphoreAssumption DEF SlotsConserved
<1>5. DequeIsTheWaiting
  BY EmptySeq DEF DequeIsTheWaiting, InDeque
<1>6. NoLostWakeUp
  BY <1>1 DEF NoLostWakeUp
<1> QED BY <1>3, <1>4, <1>5, <1>6 DEF SemaphoreInv

-----------------------------------------------------------------------------

LEMMA AcquireNowKeeps ==
  ASSUME SemaphoreInv, NEW r \in Requests, AcquireNow(r)
  PROVE  /\ SemaphoreInv'
         /\ In(InDeque)' = In(InDeque) /\ In({"expired"})' = In({"expired"})
         /\ In(InDeque) = In({"expired"})
<1> USE DEF SemaphoreInv
<1>1. /\ slot \in [Requests -> SlotStates] /\ value \in 0..MaxConcurrency
      /\ waiters \in Seq(Requests)
  BY DEF SemaphoreTypeOK
<1>2. /\ slot[r] = "none" /\ ~Locked
      /\ value' = value - 1 /\ slot' = [slot EXCEPT ![r] = "held"]
      /\ waiters' = waiters
  BY DEF AcquireNow
<1>3. value # 0 /\ \A i \in DOMAIN waiters : slot[waiters[i]] = "expired"
  BY <1>2 DEF Locked
<1>4. SemaphoreTypeOK'
  BY <1>1, <1>2, <1>3, SemaphoreAssumption DEF SemaphoreTypeOK, SlotStates
<1>5. /\ In(InDeque)' = In(InDeque) /\ Pending' = Pending
      /\ In({"expired"})' = In({"expired"})
      /\ In(Owning)' = In(Owning) \cup {r} /\ r \notin In(Owning)
  BY <1>1, <1>2 DEF In, Pending, InDeque, Owning
<1>6. In(InDeque) = In({"expired"})
  BY <1>3 DEF DequeIsTheWaiting, In, Pending, InDeque
<1>7. SlotsConserved'
  <2>1. Cardinality(In(Owning) \cup {r}) = Cardinality(In(Owning)) + 1
    BY <1>5, FiniteIn, FS_AddElement
  <2> QED BY <2>1, <1>1, <1>2, <1>5, FiniteIn DEF SlotsConserved
<1>8. DequeIsTheWaiting'
  BY <1>1, <1>2 DEF DequeIsTheWaiting, InDeque
<1>9. NoLostWakeUp'
  <2>1. Pending = {}
    BY <1>6 DEF In, Pending, InDeque
  <2> QED BY <2>1, <1>5 DEF NoLostWakeUp
<1> QED BY <1>4, <1>5, <1>6, <1>7, <1>8, <1>9

LEMMA AcquireWaitKeeps ==
  ASSUME SemaphoreInv, NEW r \in Requests, AcquireWait(r)
  PROVE  /\ SemaphoreInv'
         /\ In(InDeque)' = In(InDeque) \cup {r} /\ r \notin In(InDeque)
<1> USE DEF SemaphoreInv
<1>1. /\ slot \in [Requests -> SlotStates] /\ value \in 0..MaxConcurrency
      /\ waiters \in Seq(Requests)
  BY DEF SemaphoreTypeOK
<1>2. /\ slot[r] = "none" /\ Locked
      /\ waiters' = Append(waiters, r) /\ slot' = [slot EXCEPT ![r] = "pending"]
      /\ value' = value
  BY DEF AcquireWait
<1>3. /\ waiters' \in Seq(Requests)
      /\ DOMAIN waiters = 1..Len(waiters) /\ DOMAIN waiters' = 1..Len(waiters) + 1
      /\ \A i \in 1..Len(waiters) : waiters'[i] = waiters[i]
      /\ waiters'[Len(waiters) + 1] = r
      /\ Len(waiters) \in Nat
  BY <1>1, <1>2, AppendProperties, LenProperties
<1>4. SemaphoreTypeOK'
  BY <1>1, <1>2, <1>3 DEF SemaphoreTypeOK, SlotStates
<1>5. /\ In(InDeque)' = In(InDeque) \cup {r} /\ r \notin In(InDeque)
      /\ In({"woken", "handback"})' = In({"woken", "handback"})
      /\ In(Owning)' = In(Owning)
  BY <1>1, <1>2 DEF In, Pending, InDeque, Owning
<1>6. SlotsConserved'
  BY <1>2, <1>5 DEF SlotsConserved
<1>7. DequeIsTheWaiting'
  <2>1. \A i \in 1..Len(waiters) : waiters[i] # r
    BY <1>2, <1>3 DEF DequeIsTheWaiting, InDeque
  <2>2. \A i, j \in DOMAIN waiters' : waiters'[i] = waiters'[j] => i = j
    BY <2>1, <1>3 DEF DequeIsTheWaiting
  <2>3. ASSUME NEW q \in Requests
        PROVE  slot'[q] \in InDeque <=> \E i \in DOMAIN waiters' : waiters'[i] = q
    <3>1. CASE q = r
      BY <3>1, <1>1, <1>2, <1>3 DEF InDeque
    <3>2. CASE q # r
      <4>1. slot'[q] = slot[q]
        BY <3>2, <1>1, <1>2
      <4>2. (\E i \in DOMAIN waiters' : waiters'[i] = q)
              <=> \E i \in DOMAIN waiters : waiters[i] = q
        BY <3>2, <1>3
      <4> QED BY <4>1, <4>2 DEF DequeIsTheWaiting
    <3> QED BY <3>1, <3>2
  <2> QED BY <2>2, <2>3 DEF DequeIsTheWaiting
<1>8. NoLostWakeUp'
  <2> SUFFICES ASSUME value > 0 PROVE In({"woken", "handback"}) # {}
    BY <1>2, <1>5 DEF NoLostWakeUp
  <2>1. PICK i \in DOMAIN waiters : slot[waiters[i]] # "expired"
    BY <1>1, <1>2 DEF Locked
  <2>2. waiters[i] \in Pending \/ waiters[i] \in In({"woken", "handback"})
    BY <2>1, <1>1, <1>3, ElementOfSeq DEF DequeIsTheWaiting, In, Pending, InDeque
  <2> QED BY <2>2 DEF NoLostWakeUp
<1> QED BY <1>4, <1>5, <1>6, <1>7, <1>8

LEMMA ExpireKeeps ==
  ASSUME SemaphoreInv, NEW r \in Requests, Expire(r)
  PROVE  /\ SemaphoreInv'
         /\ In(InDeque)' = In(InDeque) /\ r \in In(InDeque) /\ r \notin In({"expired"})
<1> USE DEF SemaphoreInv
<1>1. /\ slot \in [Requests -> SlotStates] /\ UNCHANGED <<value, waiters>>
      /\ \/ slot[r] = "pending" /\ slot' = [slot EXCEPT ![r] = "expired"]
         \/ slot[r] = "woken"   /\ slot' = [slot EXCEPT ![r] = "handback"]
  BY DEF Expire, SemaphoreTypeOK
<1>2. /\ In(InDeque)' = In(InDeque) /\ In(Owning)' = In(Owning)
      /\ In({"woken", "handback"})' = In({"woken", "handback"})
      /\ Pending' \subseteq Pending
      /\ r \in In(InDeque) /\ r \notin In({"expired"})
  BY <1>1 DEF In, Pending, InDeque, Owning
<1>3. SemaphoreTypeOK'
  BY <1>1 DEF SemaphoreTypeOK, SlotStates
<1>4. SlotsConserved' /\ NoLostWakeUp'
  BY <1>1, <1>2 DEF SlotsConserved, NoLostWakeUp
<1>5. DequeIsTheWaiting'
  BY <1>1 DEF DequeIsTheWaiting, InDeque
<1> QED BY <1>2, <1>3, <1>4, <1>5

\* A step that wakes k waiters keeps the wake-ups complete: if a slot is left
\* while somebody waits, a woken task is on its way.
LEMMA WakeUpsSuffice ==
  ASSUME SemaphoreInv, NEW r \in Requests, slot[r] \notin {"none", "pending"},
         NEW next \in {"none", "held"},
         NEW k \in Nat, NEW free \in Nat, k <= free, free <= MaxConcurrency,
         MoveAndWake(r, next, free, k),
         k > 0 \/ free = 0 \/ (slot[r] = "expired" /\ free = value)
  PROVE  NoLostWakeUp'
<1> DEFINE F == FirstPending(k)
<1>0. SemaphoreTypeOK /\ DequeIsTheWaiting /\ NoLostWakeUp
  BY DEF SemaphoreInv
<1>1. /\ slot \in [Requests -> SlotStates] /\ value \in 0..MaxConcurrency
  BY <1>0 DEF SemaphoreTypeOK
<1>2. /\ F \subseteq Pending /\ IsFiniteSet(F) /\ Cardinality(F) \in 0..k
      /\ Cardinality(F) < k => F = Pending
  BY <1>0, FirstPendingRank
<1>3. /\ value' + Cardinality(F) = free /\ value' \in Nat
      /\ Pending' = Pending \ F
  BY <1>0, MoveAndWakeEffect
<1>4. slot' = [q \in Requests |-> IF q = r THEN next
                                  ELSE IF q \in F THEN "woken" ELSE slot[q]]
  BY DEF MoveAndWake
<1> SUFFICES ASSUME value' > 0, Pending' # {}
             PROVE  In({"woken", "handback"})' # {}
  BY DEF NoLostWakeUp
<1>5. CASE F # {}
  BY <1>5, <1>1, <1>2, <1>4 DEF In, Pending
<1>6. CASE F = {}
  <2>1. Cardinality(F) = 0
    BY <1>6, FS_EmptySet
  <2>2. k = 0 /\ free # 0
    <3>1. value' > 0 /\ value' \in Nat /\ value' + Cardinality(F) = free
      BY <1>3
    <3>3. Cardinality(F) \in Nat => free >= value'
      BY <3>1
    <3>4. free # 0
      BY <3>1, <3>3, <1>2
    <3>2. ~ (0 < k)
      <4>1. 0 < k => F = Pending
        BY <2>1, <1>2
      <4> QED BY <4>1, <1>3, <1>6
    <3> QED BY <3>4, <3>2
  <2>3. slot[r] = "expired" /\ value > 0 /\ Pending # {}
    BY <2>1, <2>2, <1>1, <1>3
  <2>4. PICK q \in Requests : slot[q] \in {"woken", "handback"}
    BY <1>0, <2>3 DEF NoLostWakeUp, In, Pending
  <2> QED BY <2>3, <2>4, <1>4, <1>6 DEF In, Pending
<1> QED BY <1>5, <1>6

LEMMA ResumeKeeps ==
  ASSUME SemaphoreInv, NEW r \in Requests, ResumeAcquire(r)
  PROVE  /\ SemaphoreInv'
         /\ In(InDeque)' = In(InDeque) \ {r} /\ r \in In(InDeque)
<1>0. SemaphoreTypeOK /\ SlotsConserved /\ DequeIsTheWaiting /\ NoLostWakeUp
  BY DEF SemaphoreInv
\* Names for what the step computes from the state it starts in.
<1> PICK free, next, k :
      /\ free = IF slot[r] = "handback" THEN value + 1 ELSE value
      /\ next = IF slot[r] = "woken" THEN "held" ELSE "none"
      /\ k = WakeUps(r, free)
  OBVIOUS
<1>1. /\ slot \in [Requests -> SlotStates] /\ value \in 0..MaxConcurrency
      /\ waiters \in Seq(Requests)
  BY <1>0 DEF SemaphoreTypeOK
<1>2. /\ slot[r] \in {"woken", "expired", "handback"}
      /\ waiters' = RemoveAt(waiters, PositionOf(r))
      /\ MoveAndWake(r, next, free, k)
  BY DEF ResumeAcquire
<1>3. r \in In(InDeque)
  BY <1>2 DEF In, Pending, InDeque
<1>4. free \in 0..MaxConcurrency
  <2>1. CASE slot[r] = "handback"
    <3>1. In(Owning) # {}
      BY <2>1 DEF In, Pending, Owning
    <3>2. Cardinality(In(Owning)) # 0 /\ Cardinality(In(Owning)) \in Nat
      BY <3>1, FiniteIn, FS_EmptySet
    <3> QED BY <3>2, <2>1, <1>0, <1>1, SemaphoreAssumption DEF SlotsConserved
  <2> QED BY <2>1, <1>1
<1>5. k \in Nat /\ free \in Nat /\ k <= free /\ free <= MaxConcurrency
  BY <1>4, SemaphoreAssumption DEF WakeUps
<1>6. next \in {"none", "held"} /\ slot[r] \notin {"none", "pending"}
  BY <1>2
<1>7. /\ slot' \in [Requests -> SlotStates] /\ value' \in 0..MaxConcurrency /\ value' \in Nat
      /\ value' + Cardinality(FirstPending(k)) = free
      /\ In(InDeque)' = In(InDeque) \ {r}
      /\ Cardinality(In(Owning)') =
           Cardinality(FirstPending(k)) + Cardinality(OwningWithout(r, next))
  BY <1>0, <1>2, <1>5, <1>6, MoveAndWakeEffect
<1>8. /\ waiters' \in Seq(Requests)
      /\ \A q \in Requests : (\E i \in DOMAIN waiters' : waiters'[i] = q)
                               <=> q # r /\ \E i \in DOMAIN waiters : waiters[i] = q
      /\ \A i, j \in DOMAIN waiters' : waiters'[i] = waiters'[j] => i = j
  BY <1>0, <1>2, <1>3, LeavingTheDeque
<1>9. SemaphoreTypeOK'
  BY <1>7, <1>8 DEF SemaphoreTypeOK
<1>10. SlotsConserved'
  <2> DEFINE woken == Cardinality(FirstPending(k))
             owned == Cardinality(In(Owning))
  <2>4. woken \in Nat /\ owned \in Nat /\ value' \in Nat
    BY <1>0, <1>5, <1>7, FiniteIn, FirstPendingRank
  <2>5. value + owned = MaxConcurrency /\ value' + woken = free
    BY <1>0, <1>7 DEF SlotsConserved
  <2>1. CASE slot[r] = "woken"
    <3>1. free = value /\ next = "held" /\ In(Owning) \cup {r} = In(Owning)
      BY <2>1 DEF In, Pending, Owning
    <3>2. Cardinality(In(Owning)') = woken + owned
      BY <3>1, <1>7 DEF woken, owned, OwningWithout
    <3> QED BY <3>1, <3>2, <2>4, <2>5, <1>1 DEF SlotsConserved
  <2>2. CASE slot[r] = "handback"
    <3>1. free = value + 1 /\ next = "none" /\ r \in In(Owning)
      BY <2>2 DEF In, Pending, Owning
    <3>2. Cardinality(In(Owning) \ {r}) = Cardinality(In(Owning)) - 1
      BY <3>1, FiniteIn, FS_RemoveElement
    <3>3. Cardinality(In(Owning)') = woken + (owned - 1)
      BY <3>1, <3>2, <1>7 DEF woken, owned, OwningWithout
    <3> QED BY <3>1, <3>3, <2>4, <2>5, <1>1 DEF SlotsConserved
  <2>3. CASE slot[r] = "expired"
    <3>1. free = value /\ next = "none" /\ In(Owning) \ {r} = In(Owning)
      BY <2>3 DEF In, Pending, Owning
    <3>2. Cardinality(In(Owning)') = woken + owned
      BY <3>1, <1>7 DEF woken, owned, OwningWithout
    <3> QED BY <3>1, <3>2, <2>4, <2>5, <1>1 DEF SlotsConserved
  <2> QED BY <1>2, <2>1, <2>2, <2>3
<1>11. DequeIsTheWaiting'
  <2>1. ASSUME NEW q \in Requests
        PROVE  slot'[q] \in InDeque <=> slot[q] \in InDeque /\ q # r
    <3>1. slot'[q] \in InDeque <=> q \in In(InDeque)'
      BY DEF In
    <3>2. slot[q] \in InDeque <=> q \in In(InDeque)
      BY DEF In
    <3>3. In(InDeque)' = In(InDeque) \ {r}
      BY <1>7
    <3> QED BY <3>1, <3>2, <3>3
  <2> QED BY <2>1, <1>0, <1>8 DEF DequeIsTheWaiting
<1>12. NoLostWakeUp'
  <2>1. k > 0 \/ free = 0 \/ (slot[r] = "expired" /\ free = value)
    BY <1>2, <1>4 DEF WakeUps
  <2> QED BY <2>1, <1>2, <1>5, <1>6, WakeUpsSuffice
<1> QED BY <1>3, <1>7, <1>9, <1>10, <1>11, <1>12 DEF SemaphoreInv

LEMMA ReleaseKeeps ==
  ASSUME SemaphoreInv, NEW r \in Requests, Release(r)
  PROVE  /\ SemaphoreInv'
         /\ In(InDeque)' = In(InDeque)
<1> USE DEF SemaphoreInv
<1>1. /\ slot \in [Requests -> SlotStates] /\ value \in 0..MaxConcurrency
      /\ waiters \in Seq(Requests)
  BY DEF SemaphoreTypeOK
<1>2. /\ slot[r] = "held" /\ MoveAndWake(r, "none", value + 1, 1)
      /\ waiters' = waiters
  BY DEF Release
<1>3. r \in In(Owning) /\ r \notin In(InDeque)
  BY <1>2 DEF In, Pending, Owning, InDeque
<1>4. value + 1 \in 1..MaxConcurrency
  <2>1. Cardinality(In(Owning)) # 0 /\ Cardinality(In(Owning)) \in Nat
    BY <1>3, FiniteIn, FS_EmptySet
  <2> QED BY <2>1, <1>1, SemaphoreAssumption DEF SlotsConserved
<1>5. /\ slot' \in [Requests -> SlotStates] /\ value' \in 0..MaxConcurrency /\ value' \in Nat
      /\ value' + Cardinality(FirstPending(1)) = value + 1
      /\ Pending' = Pending \ FirstPending(1)
      /\ In(InDeque)' = In(InDeque) \ {r}
      /\ Cardinality(In(Owning)') =
           Cardinality(FirstPending(1)) + Cardinality(OwningWithout(r, "none"))
  <2>1. slot[r] \notin {"none", "pending"} /\ "none" \in {"none", "held"}
    BY <1>2
  <2>2. 1 \in Nat /\ value + 1 \in Nat /\ 1 <= value + 1 /\ value + 1 <= MaxConcurrency
    BY <1>4, SemaphoreAssumption
  <2>3. MoveAndWake(r, "none", value + 1, 1)
    BY <1>2
  <2>4. SemaphoreTypeOK /\ DequeIsTheWaiting
    OBVIOUS
  <2> HIDE DEF SemaphoreInv
  <2> QED BY <2>1, <2>2, <2>3, <2>4, MoveAndWakeEffect
<1>6. SemaphoreTypeOK'
  BY <1>1, <1>2, <1>5 DEF SemaphoreTypeOK
<1>7. SlotsConserved'
  <2>1. Cardinality(OwningWithout(r, "none")) = Cardinality(In(Owning)) - 1
    BY <1>3, FiniteIn, FS_RemoveElement DEF OwningWithout
  <2>2. Cardinality(FirstPending(1)) \in Nat /\ Cardinality(In(Owning)) \in Nat
    BY FiniteIn, FirstPendingRank
  <2>3. value' \in Nat /\ value' + Cardinality(FirstPending(1)) = value + 1
    BY <1>5
  <2>4. Cardinality(In(Owning)') = Cardinality(FirstPending(1)) + Cardinality(In(Owning)) - 1
    BY <2>1, <2>2, <1>5
  <2>5. value \in Nat /\ value + Cardinality(In(Owning)) = MaxConcurrency
    BY <1>1 DEF SlotsConserved
  <2> QED BY <2>2, <2>3, <2>4, <2>5 DEF SlotsConserved
<1>8. In(InDeque)' = In(InDeque)
  BY <1>3, <1>5
<1>9. DequeIsTheWaiting'
  <2>1. ASSUME NEW q \in Requests
        PROVE  slot'[q] \in InDeque <=> slot[q] \in InDeque
    <3>1. slot'[q] \in InDeque <=> q \in In(InDeque)'
      BY DEF In
    <3>2. slot[q] \in InDeque <=> q \in In(InDeque)
      BY DEF In
    <3> QED BY <3>1, <3>2, <1>8
  <2> QED BY <2>1, <1>2 DEF DequeIsTheWaiting
<1>10. NoLostWakeUp'
  BY <1>2, <1>4, WakeUpsSuffice
<1> QED BY <1>6, <1>7, <1>8, <1>9, <1>10

-----------------------------------------------------------------------------
(* The limiter.                                                            *)

\* The inductive invariant.
IInv ==
  /\ TypeOK
  /\ SemaphoreInv
  /\ CountsTheWaiting
  /\ GaugeIsTruthful

LEMMA InitIInv == Init => IInv
<1> SUFFICES ASSUME Init PROVE IInv
  OBVIOUS
<1>1. SemaphoreInv /\ SemaphoreInit /\ queueCount = 0 /\ depth = 0
  BY SemaphoreStarts DEF Init
<1>2. In(InDeque) = {} /\ Cardinality({}) = 0
  BY <1>1, FS_EmptySet DEF SemaphoreInit, In, InDeque
<1>3. TypeOK
  BY <1>1, QueueAssumption DEF TypeOK, SemaphoreInv
<1> QED BY <1>1, <1>2, <1>3 DEF IInv, CountsTheWaiting, GaugeIsTruthful

LEMMA AdmitPreserves ==
  ASSUME IInv, NEW r \in Requests, Admit(r)
  PROVE  IInv'
<1>1. /\ SemaphoreInv' /\ In(InDeque)' = In(InDeque)
      /\ In({"expired"})' = In({"expired"}) /\ In(InDeque) = In({"expired"})
  BY AcquireNowKeeps DEF IInv, Admit
<1>2. queueCount' = queueCount /\ depth' = 0
  BY DEF Admit
<1>3. TypeOK'
  BY <1>1, <1>2, QueueAssumption DEF IInv, TypeOK, SemaphoreInv
<1> QED BY <1>1, <1>2, <1>3 DEF IInv, CountsTheWaiting, GaugeIsTruthful

LEMMA EnqueuePreserves ==
  ASSUME IInv, NEW r \in Requests, Enqueue(r)
  PROVE  IInv'
<1>1. SemaphoreInv' /\ In(InDeque)' = In(InDeque) \cup {r} /\ r \notin In(InDeque)
  BY AcquireWaitKeeps DEF IInv, Enqueue
<1>2. queueCount + 1 <= QueueSize /\ queueCount' = queueCount + 1 /\ depth' = queueCount + 1
  BY DEF Enqueue
<1>3. TypeOK'
  BY <1>1, <1>2, QueueAssumption DEF IInv, TypeOK, SemaphoreInv
<1>4. CountsTheWaiting'
  <2>1. Cardinality(In(InDeque) \cup {r}) = Cardinality(In(InDeque)) + 1
    BY <1>1, FiniteIn, FS_AddElement
  <2> QED BY <2>1, <1>1, <1>2 DEF IInv, CountsTheWaiting
<1> QED BY <1>1, <1>2, <1>3, <1>4 DEF IInv, GaugeIsTruthful

LEMMA RejectPreserves ==
  ASSUME IInv, NEW r \in Requests, RejectOverload(r)
  PROVE  IInv'
BY DEF IInv, RejectOverload, TypeOK, SemaphoreInv, SemaphoreTypeOK, SlotsConserved,
       CountsTheWaiting, DequeIsTheWaiting, NoLostWakeUp, GaugeIsTruthful, In, Pending

LEMMA TimerPreserves ==
  ASSUME IInv, NEW r \in Requests, TimerFires(r)
  PROVE  IInv'
<1>1. /\ SemaphoreInv' /\ In(InDeque)' = In(InDeque)
      /\ r \in In(InDeque) /\ r \notin In({"expired"})
  BY ExpireKeeps DEF IInv, TimerFires
<1>2. queueCount' = queueCount /\ depth' = depth
  BY DEF TimerFires
<1>3. TypeOK'
  BY <1>1, <1>2 DEF IInv, TypeOK, SemaphoreInv
<1> QED BY <1>1, <1>2, <1>3 DEF IInv, CountsTheWaiting, GaugeIsTruthful

LEMMA ResumePreserves ==
  ASSUME IInv, NEW r \in Requests, Resume(r)
  PROVE  IInv'
<1>1. SemaphoreInv' /\ In(InDeque)' = In(InDeque) \ {r} /\ r \in In(InDeque)
  BY ResumeKeeps DEF IInv, Resume
<1>2. queueCount' = queueCount - 1 /\ depth' = queueCount - 1
  BY DEF Resume
<1>3. Cardinality(In(InDeque)') = queueCount - 1 /\ queueCount - 1 \in 0..QueueSize
  <2>1. Cardinality(In(InDeque) \ {r}) = Cardinality(In(InDeque)) - 1
    BY <1>1, FiniteIn, FS_RemoveElement
  <2>2. Cardinality(In(InDeque)) # 0
    BY <1>1, FiniteIn, FS_EmptySet
  <2>3. queueCount = Cardinality(In(InDeque)) /\ queueCount \in 0..QueueSize
    BY DEF IInv, CountsTheWaiting, TypeOK
  <2> QED BY <2>1, <2>2, <2>3, <1>1, QueueAssumption
<1>4. TypeOK'
  BY <1>1, <1>2, <1>3 DEF TypeOK, SemaphoreInv
<1> QED BY <1>1, <1>2, <1>3, <1>4 DEF IInv, CountsTheWaiting, GaugeIsTruthful

LEMMA ReleasePreserves ==
  ASSUME IInv, NEW r \in Requests, ReleaseSlot(r)
  PROVE  IInv'
<1>1. SemaphoreInv' /\ In(InDeque)' = In(InDeque)
  BY ReleaseKeeps DEF IInv, ReleaseSlot
<1>2. queueCount' = queueCount /\ depth' = depth
  BY DEF ReleaseSlot
<1>3. TypeOK'
  BY <1>1, <1>2 DEF IInv, TypeOK, SemaphoreInv
<1>4. GaugeIsTruthful'
  <2>1. CASE depth = queueCount
    BY <2>1, <1>2 DEF GaugeIsTruthful
  <2>2. CASE depth = 0 /\ In(InDeque) = In({"expired"})
    <3>1. Pending = {}
      BY <2>2 DEF In, Pending, InDeque
    <3>2. FirstPending(1) = {}
      BY <3>1 DEF FirstPending
    <3>3. /\ slot \in [Requests -> SlotStates] /\ slot[r] = "held"
          /\ MoveAndWake(r, "none", value + 1, 1)
      BY DEF IInv, SemaphoreInv, SemaphoreTypeOK, ReleaseSlot, Release
    <3>4. In({"expired"})' = In({"expired"})
      BY <3>2, <3>3 DEF MoveAndWake, In
    <3> QED BY <3>4, <2>2, <1>1, <1>2 DEF GaugeIsTruthful
  <2> QED BY <2>1, <2>2 DEF IInv, GaugeIsTruthful
<1> QED BY <1>1, <1>2, <1>3, <1>4 DEF IInv, CountsTheWaiting

-----------------------------------------------------------------------------

LEMMA NextIInv == IInv /\ [Next]_vars => IInv'
<1> SUFFICES ASSUME IInv, [Next]_vars PROVE IInv'
  OBVIOUS
<1>1. CASE UNCHANGED vars
  BY <1>1 DEF vars, IInv, TypeOK, SemaphoreInv, SemaphoreTypeOK, SlotsConserved, CountsTheWaiting,
              DequeIsTheWaiting, NoLostWakeUp, GaugeIsTruthful, In, Pending
<1>2. CASE Next
  <2>1. PICK r \in Requests :
          \/ Admit(r) \/ Enqueue(r) \/ RejectOverload(r)
          \/ TimerFires(r) \/ Resume(r) \/ ReleaseSlot(r)
    BY <1>2 DEF Next
  <2> QED BY <2>1, AdmitPreserves, EnqueuePreserves, RejectPreserves,
             TimerPreserves, ResumePreserves, ReleasePreserves
<1> QED BY <1>1, <1>2

\* Every reachable state satisfies the inductive invariant.
THEOREM Invariance == Spec => []IInv
BY InitIInv, NextIInv, PTL DEF Spec

\* The counters and the deque keep their types: no count ever goes below zero
\* or above its limit, in concurrency.py or in the semaphore.
THEOREM TypeCorrect == Spec => []TypeOK
<1>1. IInv => TypeOK
  BY DEF IInv
<1> QED BY <1>1, Invariance, PTL

\* No order of timers, wake-ups and releases loses or duplicates a slot.
THEOREM SlotsAreConserved == Spec => []SlotsConserved
<1>1. IInv => SlotsConserved
  BY DEF IInv, SemaphoreInv
<1> QED BY <1>1, Invariance, PTL

\* A slot is never left free next to a waiting request with nobody on the way
\* to pass it on.
THEOREM WakeUpsAreNeverLost == Spec => []NoLostWakeUp
<1>1. IInv => NoLostWakeUp
  BY DEF IInv, SemaphoreInv
<1> QED BY <1>1, Invariance, PTL

\* _queue_count is the number of requests suspended in acquire(), on every way
\* out of it, and the gauge reads the count, or zero when only timed-out
\* requests are left (concurrency.py:27-56).
THEOREM QueueIsRight == Spec => []QueueIsTruthful
<1>1. IInv => QueueIsTruthful
  BY DEF IInv, QueueIsTruthful
<1> QED BY <1>1, Invariance, PTL

-----------------------------------------------------------------------------
(* ConcurrencyLimiter serves its waiters in order and implements SlotPool. *)

\* One step in which a request that does not own a slot comes to own one,
\* while q goes on waiting.
Overtakes(r, q) ==
  /\ slot[q] = "pending" /\ slot'[q] = "pending"
  /\ slot[r] \notin Owning /\ slot'[r] \in Owning
  /\ ~ (slot[r] = "pending" /\ ~ Before(q, r))

\* Wake-ups are given in the order of the deque.
LEMMA WakingDoesNotOvertake ==
  ASSUME IInv, NEW p \in Requests, slot[p] \notin {"none", "pending"},
         NEW next \in {"none", "held"}, next = "held" => slot[p] = "woken",
         NEW k \in Nat, NEW free, MoveAndWake(p, next, free, k),
         NEW q \in Requests, NEW r \in Requests
  PROVE  ~ Overtakes(r, q)
<1> SUFFICES ASSUME Overtakes(r, q) PROVE FALSE
  OBVIOUS
<1>1. /\ slot[q] = "pending" /\ slot'[q] = "pending"
      /\ slot[r] \notin Owning /\ slot'[r] \in Owning
      /\ slot[r] = "pending" => Before(q, r)
  BY DEF Overtakes
<1>2. SemaphoreTypeOK /\ DequeIsTheWaiting /\ slot \in [Requests -> SlotStates]
  BY DEF IInv, SemaphoreInv, SemaphoreTypeOK
<1>3. slot' = [x \in Requests |-> IF x = p THEN next
                                  ELSE IF x \in FirstPending(k) THEN "woken" ELSE slot[x]]
  BY DEF MoveAndWake
<1>4. r # p
  BY <1>1, <1>3 DEF Owning
<1>5. r \in FirstPending(k)
  BY <1>1, <1>3, <1>4
<1>6. q \in Pending /\ Before(q, r)
  BY <1>1, <1>2, <1>5, FirstPendingRank DEF Pending, In
<1>7. q \in FirstPending(k)
  BY <1>2, <1>5, <1>6, FirstPendingRank
<1> QED BY <1>1, <1>3, <1>7

LEMMA StepDoesNotOvertake ==
  ASSUME IInv, Next, NEW q \in Requests, NEW r \in Requests
  PROVE  ~ Overtakes(r, q)
<1>1. PICK p \in Requests :
        \/ Admit(p) \/ Enqueue(p) \/ RejectOverload(p)
        \/ TimerFires(p) \/ Resume(p) \/ ReleaseSlot(p)
  BY DEF Next
<1>2. slot \in [Requests -> SlotStates] /\ value \in 0..MaxConcurrency /\ DequeIsTheWaiting
  BY DEF IInv, SemaphoreInv, SemaphoreTypeOK
\* A newcomer is admitted only when no waiter's future is still pending.
<1>3. CASE Admit(p)
  <2>1. \A i \in DOMAIN waiters : slot[waiters[i]] = "expired"
    BY <1>3 DEF Admit, AcquireNow, Locked
  <2>2. slot[q] # "pending"
    BY <2>1, <1>2 DEF DequeIsTheWaiting, InDeque
  <2> QED BY <2>2 DEF Overtakes
<1>4. CASE Enqueue(p)
  BY <1>2, <1>4 DEF Enqueue, AcquireWait, Overtakes, Owning
<1>5. CASE RejectOverload(p)
  BY <1>5 DEF RejectOverload, Overtakes
<1>6. CASE TimerFires(p)
  BY <1>2, <1>6 DEF TimerFires, Expire, Overtakes, Owning
<1>7. CASE Resume(p)
  <2>1. PICK free, next, k :
          /\ MoveAndWake(p, next, free, k)
          /\ next = IF slot[p] = "woken" THEN "held" ELSE "none"
          /\ free = IF slot[p] = "handback" THEN value + 1 ELSE value
          /\ k = WakeUps(p, free)
    BY <1>7 DEF Resume, ResumeAcquire
  <2>2. slot[p] \in {"woken", "expired", "handback"}
    BY <1>7 DEF Resume, ResumeAcquire
  <2>3. k \in Nat
    BY <2>1, <1>2, SemaphoreAssumption DEF WakeUps
  <2> QED BY <2>1, <2>2, <2>3, WakingDoesNotOvertake
<1>8. CASE ReleaseSlot(p)
  <2>1. slot[p] = "held" /\ MoveAndWake(p, "none", value + 1, 1)
    BY <1>8 DEF ReleaseSlot, Release
  <2> QED BY <2>1, WakingDoesNotOvertake
<1> QED BY <1>1, <1>3, <1>4, <1>5, <1>6, <1>7, <1>8

\* First come, first served, for any number of requests: no request gets a
\* slot while one that was waiting before it goes on waiting.
THEOREM ServedInOrder == Spec => NoOvertaking
<1>1. IInv /\ [Next]_vars =>
        [\A q, r \in Requests :
           /\ slot[q] = "pending" /\ slot'[q] = "pending"
           /\ slot[r] \notin Owning /\ slot'[r] \in Owning
           => slot[r] = "pending" /\ ~Before(q, r)]_vars
  BY StepDoesNotOvertake DEF Overtakes
<1> QED BY <1>1, Invariance, PTL DEF Spec, NoOvertaking

-----------------------------------------------------------------------------

\* The pool counts with the same Cardinality.
LEMMA SameCardinality ==
  ASSUME NEW S
  PROVE  Pool!Cardinality(S) = Cardinality(S)
BY DEF Pool!Cardinality, Cardinality

LEMMA InitRefines == Init => Pool!Init
BY DEF Init, SemaphoreInit, Pool!Init, In, Owning, Pending

\* Moving on with wake-ups hands slots from the requests that leave to the
\* head of the line, and never beyond MaxConcurrency.
LEMMA MovingRefines ==
  ASSUME IInv, IInv', NEW p \in Requests, slot[p] \notin {"none", "pending"},
         NEW next \in {"none", "held"}, next = "held" => slot[p] = "woken",
         NEW k \in Nat, NEW free, MoveAndWake(p, next, free, k)
  PROVE  Pool!Next
<1>1. SemaphoreTypeOK /\ DequeIsTheWaiting /\ slot \in [Requests -> SlotStates]
  BY DEF IInv, SemaphoreInv, SemaphoreTypeOK
<1>2. slot' = [x \in Requests |-> IF x = p THEN next
                                  ELSE IF x \in FirstPending(k) THEN "woken" ELSE slot[x]]
  BY DEF MoveAndWake
<1> DEFINE gone == IF next = "none" THEN {p} \cap In(Owning) ELSE {}
           F == FirstPending(k)
<1>3. F \subseteq Pending /\ F \in SUBSET Requests /\ gone \in SUBSET Requests
  BY <1>1, FirstPendingRank DEF Pending, In
<1>4. In(Owning)' = (In(Owning) \ gone) \cup F
  BY <1>1, <1>2, <1>3 DEF In, Owning, Pending
<1>5. Pending' = Pending \ F
  BY <1>1, <1>2, <1>3 DEF In, Pending
<1>6. Cardinality(In(Owning)') <= MaxConcurrency
  <2>1. /\ value' \in Nat /\ value' + Cardinality(In(Owning)') = MaxConcurrency
        /\ MaxConcurrency \in Nat
    BY SemaphoreAssumption DEF IInv, SemaphoreInv, SemaphoreTypeOK, SlotsConserved
  <2>2. In(Owning)' \subseteq Requests
    BY <1>3, <1>4 DEF In
  <2>3. Cardinality(In(Owning)') \in Nat
    BY <2>2, FS_Subset, FS_CardinalityType, SemaphoreAssumption
  <2> QED BY <2>1, <2>3
<1>7. gone \subseteq In(Owning)
  OBVIOUS
<1>8. Pool!Pass(gone, F)
  BY <1>3, <1>4, <1>5, <1>6, <1>7, SameCardinality DEF Pool!Pass
<1> QED BY <1>3, <1>8 DEF Pool!Next

LEMMA NextRefines == IInv /\ IInv' /\ [Next]_vars => [Pool!Next]_(Pool!vars)
<1> SUFFICES ASSUME IInv, IInv', [Next]_vars PROVE [Pool!Next]_(Pool!vars)
  OBVIOUS
<1> DEFINE Stutter == In(Owning)' = In(Owning) /\ Pending' = Pending
<1>0. Stutter => UNCHANGED Pool!vars
  BY DEF Pool!vars
<1>1. CASE UNCHANGED vars
  BY <1>0, <1>1 DEF vars, In, Pending
<1>2. ASSUME Next PROVE [Pool!Next]_(Pool!vars)
  <2>1. PICK p \in Requests :
          \/ Admit(p) \/ Enqueue(p) \/ RejectOverload(p)
          \/ TimerFires(p) \/ Resume(p) \/ ReleaseSlot(p)
    BY <1>2 DEF Next
  <2>2. /\ slot \in [Requests -> SlotStates] /\ value \in Nat
        /\ value + Cardinality(In(Owning)) = MaxConcurrency
        /\ queueCount = Cardinality(In(InDeque)) /\ queueCount \in Nat
        /\ DequeIsTheWaiting
    BY SemaphoreAssumption, QueueAssumption
    DEF IInv, TypeOK, SemaphoreInv, SemaphoreTypeOK, SlotsConserved, CountsTheWaiting
  <2>3. CASE Admit(p)
    <3>1. /\ slot[p] = "none" /\ ~Locked /\ value' = value - 1
          /\ slot' = [slot EXCEPT ![p] = "held"]
      BY <2>3 DEF Admit, AcquireNow
    <3>2. Pending = {}
      BY <3>1, <2>2 DEF Locked, DequeIsTheWaiting, Pending, In, InDeque
    <3>3. /\ In(Owning)' = In(Owning) \cup {p} /\ p \notin In(Owning)
          /\ Pending' = Pending
      BY <3>1, <2>2 DEF In, Owning, Pending
    <3>4. Cardinality(In(Owning)) < MaxConcurrency
      BY <3>1, <2>2, FiniteIn DEF Locked
    <3>5. Pool!Enter(p)
      BY <3>2, <3>3, <3>4, SameCardinality DEF Pool!Enter
    <3> QED BY <3>5 DEF Pool!Next
  <2>4. CASE Enqueue(p)
    <3>1. /\ slot[p] = "none" /\ queueCount + 1 <= QueueSize
          /\ slot' = [slot EXCEPT ![p] = "pending"]
      BY <2>4 DEF Enqueue, AcquireWait
    <3>2. /\ In(Owning)' = In(Owning) /\ p \notin In(Owning) \cup Pending
          /\ Pending' = Pending \cup {p}
      BY <3>1, <2>2 DEF In, Owning, Pending
    <3>3. Cardinality(Pending) < QueueSize
      <4>1. Pending \subseteq In(InDeque)
        BY DEF In, Pending, InDeque
      <4>2. Cardinality(Pending) <= Cardinality(In(InDeque))
        BY <4>1, FiniteIn, FS_Subset
      <4>3. Cardinality(Pending) \in Nat
        BY FiniteIn DEF Pending
      <4> QED BY <4>2, <4>3, <3>1, <2>2, QueueAssumption
    <3>4. Pool!Join(p)
      BY <3>2, <3>3, SameCardinality DEF Pool!Join
    <3> QED BY <3>4 DEF Pool!Next
  <2>5. CASE RejectOverload(p)
    BY <2>5, <1>0 DEF RejectOverload, In, Pending
  <2>6. CASE TimerFires(p)
    <3>1. CASE slot[p] = "pending" /\ slot' = [slot EXCEPT ![p] = "expired"]
      <4>1. /\ p \in Pending /\ Pending' = Pending \ {p}
            /\ In(Owning)' = In(Owning)
        BY <3>1, <2>2 DEF In, Owning, Pending
      <4>2. Pool!GiveUp(p)
        BY <4>1 DEF Pool!GiveUp
      <4> QED BY <4>2 DEF Pool!Next
    <3>2. CASE slot[p] = "woken" /\ slot' = [slot EXCEPT ![p] = "handback"]
      BY <3>2, <2>2, <1>0 DEF In, Owning, Pending
    <3> QED BY <3>1, <3>2, <2>6 DEF TimerFires, Expire
  <2>7. CASE Resume(p)
    <3>1. PICK free, next, k :
            /\ MoveAndWake(p, next, free, k)
            /\ next = IF slot[p] = "woken" THEN "held" ELSE "none"
            /\ free = IF slot[p] = "handback" THEN value + 1 ELSE value
            /\ k = WakeUps(p, free)
      BY <2>7 DEF Resume, ResumeAcquire
    <3>2. slot[p] \in {"woken", "expired", "handback"}
      BY <2>7 DEF Resume, ResumeAcquire
    <3>3. k \in Nat
      BY <3>1, <2>2, SemaphoreAssumption DEF WakeUps
    <3> QED BY <3>1, <3>2, <3>3, MovingRefines
  <2>8. CASE ReleaseSlot(p)
    <3>1. slot[p] = "held" /\ MoveAndWake(p, "none", value + 1, 1)
      BY <2>8 DEF ReleaseSlot, Release
    <3> QED BY <3>1, MovingRefines
  <2> QED BY <2>1, <2>3, <2>4, <2>5, <2>6, <2>7, <2>8
<1> QED BY <1>1, <1>2

\* The limiter keeps the promise of SlotPool for any finite set of requests and
\* any limits: at most MaxConcurrency requests own a slot, at most QueueSize
\* wait, and nobody is admitted past a waiting request.
THEOREM LimiterImplementsPool == Spec => ImplementsPool
BY InitRefines, NextRefines, Invariance, PTL DEF Spec, ImplementsPool, Pool!Spec

=============================================================================
