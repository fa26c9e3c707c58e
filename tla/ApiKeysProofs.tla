---------------------------- MODULE ApiKeysProofs ----------------------------
(***************************************************************************)
(* Theorems about ApiKeys and the rate limiter it contains, for any number *)
(* of requests, creators, forms and operators, any limits and any time.    *)
(***************************************************************************)
EXTENDS ApiKeys, FiniteSetTheorems, TLAPS

(***************************************************************************)
(* The limiter.  The invariant says where the numbers of the requests of   *)
(* one minute come from: they are distinct, and below the counter for as   *)
(* long as the counter must live.                                          *)
(***************************************************************************)

StepsFit ==
  \A r \in Requests :
    /\ check[r].counter.minute <= minute
    /\ check[r].step \in {"idle", "incr", "exists", "add"} =>
         check[r].number = 0 /\ ~check[r].missed
    /\ check[r].step = "expire" => check[r].number = 1
    /\ check[r].step = "allowed" /\ check[r].number > 0 => check[r].number <= check[r].rpm
    /\ check[r].step = "refused" => check[r].number > check[r].rpm

ExpiriesAreLate == \A c \in Counters : expiry[c] >= c.minute + Lifetime

TimelyBelowCount ==
  \A c \in Counters : \A r \in Timely(c) : ~Late(c) => check[r].number <= count[c]

TimelyDiffer ==
  \A c \in Counters : \A r, q \in Timely(c) : check[r].number = check[q].number => r = q

CountsAreBacked ==
  \A c \in Counters :
    /\ count[c] <= Cardinality(Counting(c))
    /\ \A r \in Counting(c) : check[r].number <= Cardinality(Counting(c))

LimiterInv ==
  /\ LimiterTypeOK
  /\ StepsFit
  /\ ExpiriesAreLate
  /\ TimelyBelowCount
  /\ TimelyDiffer
  /\ CountsAreBacked

-----------------------------------------------------------------------------

LEMMA CountingIsFinite ==
  \A c : IsFiniteSet(Counting(c)) /\ Cardinality(Counting(c)) \in Nat
  BY RateLimiterAssumption, FS_Subset, FS_CardinalityType DEF Counting

LEMMA CountersHaveMinutes ==
  \A c \in Counters : c.minute \in Nat
  BY RateLimiterAssumption DEF Counters, Minutes

\* What the three ways of being counted have in common: the request gets the
\* number after those of its counter, or the number one of a lost add.
Numbered(r, number, missed) ==
  LET c == check[r].counter
  IN  /\ check[r].step \in {"incr", "add"}
      /\ check'[r].counter = c /\ check'[r].rpm = check[r].rpm
      /\ check'[r].number = number
      /\ check'[r].late = Late(c)
      /\ check'[r].missed = missed
      /\ \A q \in Requests \ {r} : check'[q] = check[q]
      /\ \A d \in Counters \ {c} : count'[d] = count[d]
      /\ IF missed THEN number = 1 /\ count' = count
         ELSE number = count[c] + 1 /\ count'[c] = number
      /\ minute' = minute

\* Or else the request is not counted, and the counters stay.
Uncounted(r) ==
  /\ check'[r].number = check[r].number
  /\ \/ check'[r].counter = check[r].counter /\ check'[r].missed = check[r].missed
           /\ check'[r].late = check[r].late
     \/ check[r].number = 0
  /\ \A q \in Requests \ {r} : check'[q] = check[q]
  /\ count' = count
  /\ minute' = minute

LEMMA StartEffect ==
  ASSUME LimiterInv, NEW r \in Requests, NEW path \in Paths, NEW rpm \in Nat,
         StartCheck(r, path, rpm)
  PROVE  /\ LimiterTypeOK' /\ StepsFit' /\ ExpiriesAreLate'
         /\ Uncounted(r)
<1> USE DEF LimiterInv, LimiterTypeOK, StartCheck
<1>1. [path |-> path, minute |-> minute] \in Counters
  BY DEF Counters
<1>2. Unchecked \in Checks
  BY RateLimiterAssumption DEF Unchecked, Checks, CheckSteps, Counters, Paths, Minutes
<1>3. check'[r] \in Checks
  BY <1>1, <1>2 DEF Checks, CheckSteps, Unchecked
<1>4. \A q \in Requests \ {r} : check'[q] = check[q]
  OBVIOUS
<1>5. check' \in [Requests -> Checks]
  BY <1>3, <1>4
<1>6. check'[r].number = 0 /\ check[r].number = 0
  BY <1>2 DEF StepsFit, Unchecked
<1>7. StepsFit'
  <2>1. /\ check'[r].counter.minute = minute
        /\ check'[r].step \in {"allowed", "incr", "exists"}
    BY DEF Unchecked
  <2>2. minute \in Nat
    BY RateLimiterAssumption DEF Minutes
  <2>3. check'[r].missed = FALSE
    BY DEF Unchecked
  <2> QED BY <2>1, <2>2, <2>3, <1>4, <1>6 DEF StepsFit
<1>8. ExpiriesAreLate'
  BY DEF ExpiriesAreLate
<1> QED BY <1>4, <1>5, <1>6, <1>7, <1>8 DEF Uncounted

LEMMA CountedEffect ==
  ASSUME LimiterInv, NEW r \in Requests, NEW step,
         check[r].step = "incr", Counted(r, step),
         step \in {"expire", "allowed", "refused", "open", "raised"},
         step = "expire" => count[check[r].counter] = 0,
         step = "allowed" => count[check[r].counter] + 1 <= check[r].rpm,
         step = "refused" => count[check[r].counter] + 1 > check[r].rpm
  PROVE  /\ LimiterTypeOK' /\ StepsFit' /\ ExpiriesAreLate'
         /\ Numbered(r, count[check[r].counter] + 1, FALSE)
<1> DEFINE c == check[r].counter
<1> USE DEF LimiterInv, LimiterTypeOK, Counted
<1>1. check[r] \in Checks /\ c \in Counters /\ count[c] \in Nat
  BY DEF Checks
<1>2. /\ check'[r].step = step /\ check'[r].number = count[c] + 1
      /\ check'[r].late = Late(c) /\ check'[r].counter = c
      /\ check'[r].rpm = check[r].rpm /\ check'[r].missed = check[r].missed
  BY <1>1 DEF Checks
<1>3. Late(c) \in BOOLEAN
  BY DEF Late
<1>4. check'[r] \in Checks
  <2>1. step \in CheckSteps /\ count[c] + 1 \in Nat
    BY <1>1 DEF CheckSteps
  <2>2. check'[r] = [check[r] EXCEPT !.step = step, !.number = count[c] + 1, !.late = Late(c)]
    BY <1>1
  <2> QED BY <1>1, <1>3, <2>1, <2>2 DEF Checks
<1>5. \A q \in Requests \ {r} : check'[q] = check[q]
  OBVIOUS
<1>6. check' \in [Requests -> Checks]
  BY <1>4, <1>5
<1>7. count' \in [Counters -> Nat] /\ count'[c] = count[c] + 1
  BY <1>1
<1>8. \A d \in Counters \ {c} : count'[d] = count[d]
  OBVIOUS
<1>9. StepsFit'
  BY <1>1, <1>2, <1>5 DEF StepsFit
<1>10. ~check[r].missed
  BY DEF StepsFit
<1>11. check[r].missed \in BOOLEAN
  BY <1>1 DEF Checks
<1>12. Numbered(r, count[c] + 1, FALSE)
  BY <1>2, <1>5, <1>7, <1>8, <1>10, <1>11 DEF Numbered
<1>13. ExpiriesAreLate'
  BY DEF ExpiriesAreLate
<1> QED BY <1>6, <1>7, <1>9, <1>12, <1>13

LEMMA AddEffect ==
  ASSUME LimiterInv, NEW r \in Requests, NEW step \in {Verdict(r, 1), "raised"},
         check[r].step = "add", Added(r, step)
  PROVE  /\ LimiterTypeOK' /\ StepsFit' /\ ExpiriesAreLate'
         /\ \E missed \in BOOLEAN : Numbered(r, 1, missed)
<1> DEFINE c == check[r].counter
           free == count[c] = 0
<1> USE DEF LimiterInv, LimiterTypeOK, Added
<1>1. check[r] \in Checks /\ c \in Counters /\ count[c] \in Nat /\ minute \in Minutes
  BY DEF Checks
<1>2. /\ check'[r].step = step /\ check'[r].number = 1
      /\ check'[r].late = Late(c) /\ check'[r].counter = c
      /\ check'[r].rpm = check[r].rpm /\ check'[r].missed = ~free
  BY <1>1 DEF Checks
<1>3. Late(c) \in BOOLEAN /\ step \in {"allowed", "refused", "raised"}
  BY DEF Late, Verdict
<1>4. check'[r] \in Checks
  BY <1>1, <1>3 DEF Checks, CheckSteps
<1>5. \A q \in Requests \ {r} : check'[q] = check[q]
  OBVIOUS
<1>6. check' \in [Requests -> Checks]
  BY <1>4, <1>5
<1>7. /\ count' \in [Counters -> Nat]
      /\ count'[c] = IF free THEN 1 ELSE count[c]
      /\ \A d \in Counters \ {c} : count'[d] = count[d]
  BY <1>1
<1>8. StepsFit'
  <2>1. check[r].rpm \in Nat
    BY <1>1 DEF Checks
  <2>2. check'[r].step = "allowed" => 1 <= check[r].rpm
    BY <1>2, <2>1 DEF Verdict
  <2>3. check'[r].step = "refused" => 1 > check[r].rpm
    BY <1>2, <2>1 DEF Verdict
  <2>4. check'[r].counter.minute <= minute'
    BY <1>2 DEF StepsFit
  <2> QED BY <1>2, <1>3, <1>5, <2>2, <2>3, <2>4 DEF StepsFit
<1>9. Numbered(r, 1, ~free)
  <2>1. CASE free
    BY <1>1, <1>2, <1>5, <1>7, <2>1 DEF Numbered
  <2>2. CASE ~free
    <3>1. count' = count
      BY <1>1, <2>2
    <3> QED BY <1>1, <1>2, <1>5, <3>1, <2>2 DEF Numbered
  <2> QED BY <2>1, <2>2
<1>10. c.minute <= minute /\ c.minute \in Nat /\ minute \in Nat /\ MaxMinute \in Nat
  BY <1>1, RateLimiterAssumption, CountersHaveMinutes DEF StepsFit, Minutes
<1>11. ExpiriesAreLate'
  BY <1>10 DEF ExpiriesAreLate, Lifetime
<1>12. expiry' \in [Counters -> 0..Never]
  <2>1. minute + Lifetime \in 0..Never
    BY <1>1, <1>10 DEF Lifetime, Never, Minutes
  <2> QED BY <2>1
<1> QED BY <1>1, <1>6, <1>7, <1>8, <1>9, <1>11, <1>12

-----------------------------------------------------------------------------

LEMMA UncountedKeeps ==
  ASSUME LimiterInv, NEW r \in Requests, Uncounted(r)
  PROVE  TimelyBelowCount' /\ TimelyDiffer' /\ CountsAreBacked'
<1> USE DEF Uncounted
<1>1. ASSUME NEW c PROVE Counting(c)' = Counting(c) /\ Timely(c)' = Timely(c)
  <2>1. \A q \in Requests : q \in Counting(c)' <=> q \in Counting(c)
    BY DEF Counting
  <2>2. Counting(c)' = Counting(c)
    BY <2>1 DEF Counting
  <2>3. \A q \in Counting(c) :
          check'[q].late = check[q].late /\ check'[q].missed = check[q].missed
    BY DEF Counting
  <2> QED BY <2>2, <2>3 DEF Timely
<1>2. \A q \in Requests : check'[q].number = check[q].number
  OBVIOUS
<1>3. \A c : Late(c)' = Late(c)
  BY DEF Late
<1>4. TimelyBelowCount'
  BY <1>1, <1>2, <1>3 DEF LimiterInv, TimelyBelowCount, Timely, Counting
<1>5. TimelyDiffer'
  BY <1>1, <1>2 DEF LimiterInv, TimelyDiffer, Timely, Counting
<1>6. CountsAreBacked'
  BY <1>1, <1>2 DEF LimiterInv, CountsAreBacked, Counting
<1> QED BY <1>4, <1>5, <1>6

LEMMA NumberedKeeps ==
  ASSUME LimiterInv, LimiterTypeOK', NEW r \in Requests, NEW number, NEW missed \in BOOLEAN,
         Numbered(r, number, missed)
  PROVE  TimelyBelowCount' /\ TimelyDiffer' /\ CountsAreBacked'
<1> DEFINE c == check[r].counter
<1> USE DEF Numbered
<1>1. /\ check[r] \in Checks /\ c \in Counters
      /\ \A d \in Counters : count[d] \in Nat /\ count'[d] \in Nat
      /\ \A q \in Requests : check[q].number \in Nat /\ check'[q].number \in Nat
  BY DEF LimiterInv, LimiterTypeOK, Checks
<1>2. check[r].number = 0 /\ number > 0
  BY <1>1 DEF LimiterInv, StepsFit
<1>3. Counting(c)' = Counting(c) \cup {r}
  <2>1. \A q \in Requests : q \in Counting(c)' <=> q \in Counting(c) \/ q = r
    BY <1>2 DEF Counting
  <2> QED BY <2>1 DEF Counting
<1>4. r \notin Counting(c)
  BY <1>2 DEF Counting
<1>5. ASSUME NEW d \in Counters \ {c}
      PROVE  Counting(d)' = Counting(d) /\ Timely(d)' = Timely(d)
  <2>1. \A q \in Requests : q \in Counting(d)' <=> q \in Counting(d)
    BY <1>2 DEF Counting
  <2>2. Counting(d)' = Counting(d)
    BY <2>1 DEF Counting
  <2>3. r \notin Counting(d)
    BY <1>2 DEF Counting
  <2> QED BY <2>2, <2>3 DEF Timely, Counting
<1>6. Cardinality(Counting(c)') = Cardinality(Counting(c)) + 1
  <2>1. IsFiniteSet(Counting(c))
    BY CountingIsFinite
  <2>2. Counting(c)' = Counting(c) \cup {r} /\ r \notin Counting(c)
    BY <1>3, <1>4
  <2> QED BY <2>1, <2>2, FS_AddElement
<1>7. \A d : Late(d)' = Late(d)
  BY DEF Late
<1>8. Timely(c)' = IF missed \/ Late(c) THEN Timely(c) ELSE Timely(c) \cup {r}
  <2>1. \A q \in Requests \ {r} : q \in Timely(c)' <=> q \in Timely(c)
    BY <1>3, <1>4 DEF Timely
  <2>2. r \in Timely(c)' <=> ~(missed \/ Late(c))
    BY <1>3 DEF Timely
  <2>3. r \notin Timely(c)
    BY <1>4 DEF Timely
  <2>4. Timely(c) \subseteq Requests /\ Timely(c)' \subseteq Requests
    BY DEF Timely, Counting
  <2> QED BY <2>1, <2>2, <2>3, <2>4
<1>9. \A q \in Timely(c) : q # r /\ check'[q].number = check[q].number
  BY <1>4 DEF Timely, Counting
<1>10. \A d \in Counters \ {c} : \A q \in Timely(d) : check'[q].number = check[q].number
  <2>1. \A d : r \notin Timely(d)
    BY <1>2 DEF Timely, Counting
  <2> QED BY <2>1 DEF Timely, Counting
<1>11. ~Late(c) => \A q \in Timely(c) : check[q].number <= count[c]
  BY <1>1 DEF LimiterInv, TimelyBelowCount
<1>12. TimelyBelowCount'
  <2>1. ASSUME ~Late(c) PROVE \A q \in Timely(c)' : check'[q].number <= count'[c]
    <3>1. \A q \in Timely(c) : check'[q].number <= count[c] /\ check[q].number \in Nat
      BY <1>1, <1>9, <1>11, <2>1 DEF Timely, Counting
    <3>2. count[c] <= count'[c]
      BY <1>1
    <3>3. \A q \in Timely(c) : check'[q].number <= count'[c]
      BY <1>1, <1>9, <3>1, <3>2
    <3>4. r \in Timely(c)' => check'[r].number <= count'[c]
      BY <1>1, <1>8, <1>9, <2>1
    <3> QED BY <1>8, <3>3, <3>4
  <2>2. ASSUME NEW d \in Counters \ {c}, ~Late(d)
        PROVE  \A q \in Timely(d)' : check'[q].number <= count'[d]
    BY <1>5, <1>10, <2>2 DEF LimiterInv, TimelyBelowCount
  <2> QED BY <1>7, <2>1, <2>2 DEF TimelyBelowCount
<1>13. TimelyDiffer'
  <2>1. \A q, p \in Timely(c) : check'[q].number = check'[p].number => q = p
    BY <1>1, <1>9 DEF LimiterInv, TimelyDiffer
  <2>2. ASSUME r \in Timely(c)', NEW q \in Timely(c) PROVE check'[q].number < check'[r].number
    <3>1. ~missed /\ ~Late(c)
      BY <1>8, <1>9, <2>2
    <3>2. check'[q].number <= count[c] /\ check'[r].number = count[c] + 1
      BY <1>9, <1>11, <3>1, <2>2
    <3> QED BY <1>1, <3>2, <2>2 DEF Timely, Counting
  <2>3. \A q, p \in Timely(c)' : check'[q].number = check'[p].number => q = p
    <3>1. \A q \in Timely(c)' : q \in Timely(c) \/ q = r
      BY <1>8
    <3>2. \A q \in Timely(c) : r \in Timely(c)' => check'[q].number # check'[r].number
      <4>1. SUFFICES ASSUME NEW q \in Timely(c), r \in Timely(c)'
                     PROVE  check'[q].number # check'[r].number
        OBVIOUS
      <4>2. check'[q].number < check'[r].number
        BY <2>2, <4>1
      <4> QED BY <1>1, <4>2 DEF Timely, Counting
    <3> QED BY <2>1, <3>1, <3>2
  <2>4. \A d \in Counters \ {c} : \A q, p \in Timely(d)' :
          check'[q].number = check'[p].number => q = p
    BY <1>5, <1>10 DEF LimiterInv, TimelyDiffer
  <2> QED BY <2>3, <2>4 DEF TimelyDiffer
<1>14. \A d \in Counters : count'[d] <= Cardinality(Counting(d)')
  <2>1. \A d \in Counters : count[d] <= Cardinality(Counting(d))
    BY DEF LimiterInv, CountsAreBacked
  <2>2. Cardinality(Counting(c)) \in Nat
    BY CountingIsFinite
  <2>3. count'[c] <= Cardinality(Counting(c)')
    BY <1>1, <1>6, <2>1, <2>2
  <2>4. \A d \in Counters \ {c} : count'[d] <= Cardinality(Counting(d)')
    <3>1. \A d \in Counters \ {c} : count'[d] = count[d]
      OBVIOUS
    <3> QED BY <1>5, <2>1, <3>1
  <2> QED BY <2>3, <2>4
<1>15. \A d \in Counters : \A q \in Counting(d)' : check'[q].number <= Cardinality(Counting(d)')
  <2>1. \A d \in Counters : \A q \in Counting(d) : check[q].number <= Cardinality(Counting(d))
    BY DEF LimiterInv, CountsAreBacked
  <2>2. Cardinality(Counting(c)) \in Nat /\ count[c] <= Cardinality(Counting(c))
    BY <1>1, CountingIsFinite DEF LimiterInv, CountsAreBacked
  <2>3. check'[r].number <= Cardinality(Counting(c)')
    <3>1. check'[r].number = count[c] + 1 \/ check'[r].number = 1
      OBVIOUS
    <3> QED BY <1>1, <1>6, <2>2, <3>1
  <2>4. ASSUME NEW q \in Counting(c) PROVE check'[q].number <= Cardinality(Counting(c)')
    <3>1. q # r /\ q \in Requests
      BY <1>4 DEF Counting
    <3>2. check'[q].number = check[q].number /\ check[q].number \in Nat
      BY <1>1, <3>1
    <3>3. check[q].number <= Cardinality(Counting(c))
      BY <1>1, <2>1
    <3> QED BY <1>6, <2>2, <3>2, <3>3
  <2>5. ASSUME NEW d \in Counters \ {c}, NEW q \in Counting(d)
        PROVE  check'[q].number <= Cardinality(Counting(d)')
    <3>1. q # r /\ q \in Requests
      BY <1>2 DEF Counting
    <3>2. check'[q].number = check[q].number
      BY <3>1
    <3> QED BY <1>5, <2>1, <3>2
  <2>6. \A q \in Counting(c)' : q = r \/ q \in Counting(c)
    BY <1>3
  <2>7. \A d \in Counters \ {c} : Counting(d)' = Counting(d)
    BY <1>5
  <2> QED BY <2>3, <2>4, <2>5, <2>6, <2>7
<1> QED BY <1>12, <1>13, <1>14, <1>15 DEF CountsAreBacked

-----------------------------------------------------------------------------

LEMMA GoesKeeps ==
  ASSUME LimiterInv, NEW r \in Requests, NEW step \in CheckSteps, Goes(r, step),
         minute' = minute, count' = count,
         expiry' \in [Counters -> 0..Never], ExpiriesAreLate',
         step \in {"incr", "add", "exists", "idle"} => check[r].number = 0 /\ ~check[r].missed,
         step # "expire",
         step = "allowed" => check[r].number <= check[r].rpm,
         step = "refused" => check[r].number > check[r].rpm
  PROVE  LimiterInv'
<1>1. check \in [Requests -> Checks] /\ check[r] \in Checks
  BY DEF LimiterInv, LimiterTypeOK
<1>2. /\ check' = [check EXCEPT ![r].step = step]
      /\ check'[r] = [check[r] EXCEPT !.step = step]
  BY <1>1 DEF Goes
<1>3. check'[r] \in Checks
  BY <1>1, <1>2 DEF Checks
<1>4. /\ check'[r].step = step /\ check'[r].number = check[r].number
      /\ check'[r].counter = check[r].counter /\ check'[r].rpm = check[r].rpm
      /\ check'[r].missed = check[r].missed /\ check'[r].late = check[r].late
  BY <1>1, <1>2 DEF Checks
<1>5. \A q \in Requests \ {r} : check'[q] = check[q]
  BY <1>1, <1>2
<1>6. check' \in [Requests -> Checks]
  BY <1>1, <1>2, <1>3, <1>5
<1>7. LimiterTypeOK'
  BY <1>6 DEF LimiterInv, LimiterTypeOK
<1>8. StepsFit'
  BY <1>4, <1>5 DEF LimiterInv, StepsFit
<1>9. Uncounted(r)
  BY <1>4, <1>5 DEF Uncounted
<1> QED BY <1>7, <1>8, <1>9, UncountedKeeps DEF LimiterInv

LEMMA CountedKeeps ==
  ASSUME LimiterInv, NEW r \in Requests, NEW step,
         check[r].step = "incr", Counted(r, step),
         step \in {"expire", "allowed", "refused", "open", "raised"},
         step = "expire" => count[check[r].counter] = 0,
         step = "allowed" => count[check[r].counter] + 1 <= check[r].rpm,
         step = "refused" => count[check[r].counter] + 1 > check[r].rpm
  PROVE  LimiterInv'
BY CountedEffect, NumberedKeeps DEF LimiterInv

LEMMA StartKeeps ==
  ASSUME LimiterInv, NEW r \in Requests, NEW path \in Paths, NEW rpm \in Nat,
         StartCheck(r, path, rpm)
  PROVE  LimiterInv'
BY StartEffect, UncountedKeeps DEF LimiterInv

LEMMA VerdictFits ==
  ASSUME NEW r \in Requests, NEW number \in Nat, check[r].rpm \in Nat
  PROVE  /\ Verdict(r, number) \in {"allowed", "refused"}
         /\ Verdict(r, number) = "allowed" => number <= check[r].rpm
         /\ Verdict(r, number) = "refused" => number > check[r].rpm
BY DEF Verdict

LEMMA LimiterStepKeeps ==
  ASSUME LimiterInv, NEW r \in Requests, LimiterStep(r)
  PROVE  LimiterInv'
<1> DEFINE c == check[r].counter
<1>1. /\ check[r] \in Checks /\ c \in Counters /\ count[c] \in Nat /\ count[c] + 1 \in Nat
      /\ check[r].rpm \in Nat /\ check[r].number \in Nat
      /\ minute \in Nat /\ minute <= MaxMinute /\ MaxMinute \in Nat /\ c.minute \in Nat
      /\ expiry \in [Counters -> 0..Never]
  BY RateLimiterAssumption, CountersHaveMinutes DEF LimiterInv, LimiterTypeOK, Checks, Minutes
<1>2. CASE Incr(r)
  <2> DEFINE step == IF count[c] + 1 = 1 THEN "expire" ELSE Verdict(r, count[c] + 1)
  <2>1. check[r].step = "incr" /\ Counted(r, step)
    BY <1>2 DEF Incr
  <2>2. /\ step \in {"expire", "allowed", "refused", "open"}
        /\ step = "expire" => count[c] = 0
        /\ step = "allowed" => count[c] + 1 <= check[r].rpm
        /\ step = "refused" => count[c] + 1 > check[r].rpm
    BY <1>1, VerdictFits
  <2> HIDE DEF step
  <2> QED BY <2>1, <2>2, CountedKeeps
<1>3. CASE IncrExisting(r)
  <2> DEFINE step == Verdict(r, count[c] + 1)
  <2>1. check[r].step = "incr" /\ Counted(r, step)
    BY <1>3 DEF IncrExisting
  <2>2. /\ step \in {"expire", "allowed", "refused", "open"}
        /\ step # "expire"
        /\ step = "allowed" => count[c] + 1 <= check[r].rpm
        /\ step = "refused" => count[c] + 1 > check[r].rpm
    BY <1>1, VerdictFits
  <2> HIDE DEF step
  <2> QED BY <2>1, <2>2, CountedKeeps
<1>4. ASSUME NEW step \in {Verdict(r, 1), "raised"}, check[r].step = "add", Added(r, step)
      PROVE  LimiterInv'
  BY <1>4, AddEffect, NumberedKeeps DEF LimiterInv
<1>5. ASSUME NEW step \in {"open", "raised"}, check[r].step = "incr", Counted(r, step)
      PROVE  LimiterInv'
  BY <1>5, CountedKeeps
<1>6. ASSUME NEW step \in {"open", "raised"}, Goes(r, step), UNCHANGED <<minute, count, expiry>>
      PROVE  LimiterInv'
  <2>1. ExpiriesAreLate' /\ expiry' \in [Counters -> 0..Never] /\ step \in CheckSteps
    BY <1>1, <1>6 DEF LimiterInv, ExpiriesAreLate, CheckSteps
  <2> QED BY <1>6, <2>1, GoesKeeps
<1>7. CASE Exists(r)
  <2>1. PICK step \in {"incr", "add"} : Goes(r, step)
    BY <1>7 DEF Exists
  <2>2. ExpiriesAreLate' /\ expiry' \in [Counters -> 0..Never] /\ step \in CheckSteps
    BY <1>1, <1>7 DEF LimiterInv, ExpiriesAreLate, CheckSteps, Exists
  <2>3. check[r].number = 0 /\ ~check[r].missed /\ minute' = minute /\ count' = count
    BY <1>7 DEF LimiterInv, StepsFit, Exists
  <2> QED BY <2>1, <2>2, <2>3, GoesKeeps
<1>8. ASSUME NEW step \in {Verdict(r, 1), "open"}, check[r].step = "expire",
             Expires(r), Goes(r, step)
      PROVE  LimiterInv'
  <2>1. check[r].number = 1 /\ c.minute <= minute
    BY <1>8 DEF LimiterInv, StepsFit
  <2>2. /\ minute' = minute /\ count' = count
        /\ expiry' = [expiry EXCEPT ![c] = IF count[c] > 0 THEN minute + Lifetime ELSE @]
    BY <1>8 DEF Expires
  <2>3. minute + Lifetime \in 0..Never /\ minute + Lifetime >= c.minute + Lifetime
    BY <1>1, <2>1 DEF Lifetime, Never
  <2>4. expiry' \in [Counters -> 0..Never]
    BY <1>1, <2>2, <2>3
  <2>5. ExpiriesAreLate'
    BY <1>1, <2>2, <2>3 DEF LimiterInv, ExpiriesAreLate
  <2>6. /\ step \in {"allowed", "refused", "open"}
        /\ step = "allowed" => check[r].number <= check[r].rpm
        /\ step = "refused" => check[r].number > check[r].rpm
    BY <1>1, <2>1, VerdictFits
  <2>7. step \in CheckSteps
    BY <2>6 DEF CheckSteps
  <2> QED BY <1>8, <2>2, <2>4, <2>5, <2>6, <2>7, GoesKeeps
<1> QED BY <1>2, <1>3, <1>4, <1>5, <1>6, <1>7, <1>8
        DEF LimiterStep, GatewayFails, DjangoFails, Expire, Add

\* A counter is dropped when its minute has been over for a minute, so that what
\* the timely requests of a later call can hold against it no longer matters.
LEMMA TickKeeps ==
  ASSUME LimiterInv, Tick
  PROVE  LimiterInv'
<1> USE DEF Tick
<1>1. /\ minute \in Nat /\ minute' = minute + 1 /\ minute' <= MaxMinute /\ MaxMinute \in Nat
      /\ check' = check
  BY RateLimiterAssumption DEF LimiterInv, LimiterTypeOK, Minutes
<1>2. \A c \in Counters :
        /\ c.minute \in Nat /\ c.minute <= MaxMinute
        /\ count[c] \in Nat /\ expiry[c] \in 0..Never /\ expiry[c] >= c.minute + Lifetime
  <2>1. \A c \in Counters : c.minute \in Nat /\ c.minute <= MaxMinute
    BY RateLimiterAssumption DEF Counters, Minutes
  <2>2. \A c \in Counters : count[c] \in Nat /\ expiry[c] \in 0..Never
    BY DEF LimiterInv, LimiterTypeOK
  <2>3. \A c \in Counters : expiry[c] >= c.minute + Lifetime
    BY DEF LimiterInv, ExpiriesAreLate
  <2> QED BY <2>1, <2>2, <2>3
<1>3. LimiterTypeOK'
  <2>1. Never \in 0..Never /\ minute' \in Minutes
    BY <1>1 DEF Never, Lifetime, Minutes
  <2>2. count' \in [Counters -> Nat] /\ expiry' \in [Counters -> 0..Never]
    BY <1>2, <2>1
  <2> QED BY <1>1, <2>1, <2>2 DEF LimiterInv, LimiterTypeOK
<1>4. StepsFit'
  <2>1. \A r \in Requests : check[r].counter.minute \in Nat
    BY CountersHaveMinutes DEF LimiterInv, LimiterTypeOK, Checks
  <2> QED BY <1>1, <2>1 DEF LimiterInv, StepsFit
<1>5. ExpiriesAreLate'
  BY <1>1, <1>2 DEF ExpiriesAreLate, Never, Lifetime
<1>6. ASSUME NEW c PROVE Counting(c)' = Counting(c) /\ Timely(c)' = Timely(c)
  BY <1>1 DEF Counting, Timely
<1>7. TimelyBelowCount'
  <2>1. SUFFICES ASSUME NEW c \in Counters, NEW r \in Timely(c), ~Late(c)'
                 PROVE  check[r].number <= count'[c]
    BY <1>1, <1>6 DEF TimelyBelowCount
  <2>2. minute + 1 <= c.minute + 1
    BY <1>1, <1>2, <2>1 DEF Late
  <2>3. ~(expiry[c] <= minute')
    BY <1>1, <1>2, <2>2 DEF Lifetime
  <2>4. count'[c] = count[c]
    BY <2>3
  <2>5. ~Late(c)
    BY <1>1, <1>2, <2>2 DEF Late
  <2> QED BY <2>1, <2>4, <2>5 DEF LimiterInv, TimelyBelowCount
<1>8. TimelyDiffer'
  BY <1>1, <1>6 DEF LimiterInv, TimelyDiffer
<1>9. CountsAreBacked'
  <2>1. SUFFICES ASSUME NEW c \in Counters
                 PROVE  /\ count'[c] <= Cardinality(Counting(c))
                        /\ \A r \in Counting(c) : check[r].number <= Cardinality(Counting(c))
    BY <1>1, <1>6 DEF CountsAreBacked
  <2>2. count'[c] \in {0, count[c]}
    BY <1>2
  <2>3. Cardinality(Counting(c)) \in Nat
    BY CountingIsFinite
  <2> QED BY <2>2, <2>3 DEF LimiterInv, CountsAreBacked
<1> QED BY <1>3, <1>4, <1>5, <1>7, <1>8, <1>9 DEF LimiterInv

-----------------------------------------------------------------------------
\* What the invariant says of the limit.

LEMMA LimitHolds ==
  ASSUME LimiterInv
  PROVE  AdmittedWithinLimit
<1>1. SUFFICES ASSUME NEW c \in Counters, NEW q \in Requests
               PROVE  Cardinality({r \in Timely(c) : check[r].step = "allowed"
                                                     /\ check[r].rpm <= check[q].rpm})
                        <= check[q].rpm
  BY DEF AdmittedWithinLimit
<1> DEFINE Admitted == {r \in Timely(c) : check[r].step = "allowed" /\ check[r].rpm <= check[q].rpm}
           L == check[q].rpm
           f == [r \in Admitted |-> check[r].number]
<1>2. L \in Nat /\ \A r \in Requests : check[r].rpm \in Nat /\ check[r].number \in Nat
  BY DEF LimiterInv, LimiterTypeOK, Checks
<1>3. \A r \in Admitted : check[r].number \in 1..L
  BY <1>2 DEF LimiterInv, StepsFit, Timely, Counting
<1>4. \A r, p \in Admitted : check[r].number = check[p].number => r = p
  BY DEF LimiterInv, TimelyDiffer
<1>5. f \in Injection(Admitted, 1..L)
  <2>1. f \in [Admitted -> 1..L]
    BY <1>3
  <2>2. \A r, p \in Admitted : f[r] = f[p] => r = p
    BY <1>4
  <2> QED BY <2>1, <2>2 DEF Injection, IsInjective
<1>6. IsFiniteSet(1..L) /\ Cardinality(1..L) = L
  <2>1. L \in Nat
    BY <1>2
  <2> HIDE DEF L
  <2>2. /\ IsFiniteSet(1..L)
        /\ Cardinality(1..L) = IF 1 > L THEN 0 ELSE L - 1 + 1
    BY <2>1, FS_Interval
  <2> QED BY <2>1, <2>2
<1>7. Cardinality(Admitted) <= L
  <2> HIDE DEF Admitted, L, f
  <2>1. Cardinality(Admitted) <= Cardinality(1..L)
    BY <1>5, <1>6, FS_Injection
  <2> QED BY <1>6, <2>1
<1> QED BY <1>7, Zenon

LEMMA RefusalsAreEarned ==
  ASSUME LimiterInv
  PROVE  RefusedOnlyOverLimit
<1>1. SUFFICES ASSUME NEW r \in Requests, check[r].step = "refused"
               PROVE  Cardinality(Counting(check[r].counter)) > check[r].rpm
  BY DEF RefusedOnlyOverLimit
<1>2. /\ check[r].rpm \in Nat /\ check[r].number \in Nat /\ check[r].counter \in Counters
      /\ check[r].number > check[r].rpm
  BY <1>1 DEF LimiterInv, LimiterTypeOK, Checks, StepsFit
<1>3. r \in Counting(check[r].counter)
  BY <1>2 DEF Counting
<1>4. check[r].number <= Cardinality(Counting(check[r].counter))
  BY <1>2, <1>3 DEF LimiterInv, CountsAreBacked
<1> QED BY <1>2, <1>4, CountingIsFinite

-----------------------------------------------------------------------------
(***************************************************************************)
(* The key.  What is gone stays gone unless a form has been saved over it, *)
(* and nobody holds the row, or uses it, before it is created.             *)
(***************************************************************************)

KeyTypeOK ==
  /\ row \in Rows
  /\ audit \subseteq {"created", "revoked", "deleted"}
  /\ creator \in [Creators -> CreatorSteps]
  /\ form \in [Forms -> FormStates]
  /\ operator \in [Operators -> OperatorStates]
  /\ caller \in [Requests -> Callers]
  /\ gone \in BOOLEAN /\ overwritten \in BOOLEAN /\ raced \in BOOLEAN

GoneStaysGone == gone /\ row.there /\ ~row.revoked => overwritten

NothingBeforeCreation ==
  "created" \notin audit =>
    /\ ~row.there /\ ~gone
    /\ \A f \in Forms : form[f].step \notin {"filled", "save"}
    /\ \A o \in Operators : operator[o].step = "idle"
    /\ \A c \in Creators : creator[c] # "done"
    /\ \A r \in Requests : caller[r].step = "idle"

VerifiedHavePaths == \A r \in Requests : caller[r].step = "verified" => caller[r].path \in Paths

KeyInv ==
  /\ KeyTypeOK
  /\ GoneStaysGone
  /\ NothingBeforeCreation
  /\ VerifiedHavePaths
  /\ NoAccessAfterRevocation
  /\ ChangesAreAudited

Touched == {r \in Requests : caller[r].step = "touched"}

UsesFit(x) == x.uses <= Cardinality(Touched) /\ (raced \/ x.uses = Cardinality(Touched))

UsesFollow ==
  /\ row.there => UsesFit(row)
  /\ \A f \in Forms : form[f].step = "save" => UsesFit(form[f].read)

IInv == LimiterInv /\ KeyInv /\ UsesFollow

-----------------------------------------------------------------------------

LEMMA NoRowIsARow == NoRow \in Rows /\ ~NoRow.there /\ ~NoRow.revoked /\ NoRow.uses = 0
BY DEF NoRow, Rows

LEMMA LimiterRests ==
  ASSUME LimiterInv, UNCHANGED limiterVars
  PROVE  LimiterInv'
BY DEF LimiterInv, limiterVars, LimiterTypeOK, StepsFit, ExpiriesAreLate, TimelyBelowCount,
       TimelyDiffer, CountsAreBacked, Timely, Counting, Late

LEMMA LimiterStays ==
  ASSUME IInv, [Next]_vars
  PROVE  LimiterInv'
<1> USE DEF IInv
<1>1. CASE Minute
  BY <1>1, TickKeeps DEF Minute
<1>2. ASSUME NEW r \in Requests, Consume(r) PROVE LimiterInv'
  <2>1. caller[r].path \in Paths /\ caller[r].rpm \in Nat
    BY <1>2 DEF Consume, KeyInv, VerifiedHavePaths, KeyTypeOK, Callers
  <2> QED BY <1>2, <2>1, StartKeeps DEF Consume
<1>3. ASSUME NEW r \in Requests, Checking(r) PROVE LimiterInv'
  BY <1>3, LimiterStepKeeps DEF Checking
<1>4. CASE UNCHANGED limiterVars
  BY <1>4, LimiterRests
<1>5. ASSUME NEW r \in Requests, CallerStep(r), ~Consume(r), ~Checking(r)
      PROVE  UNCHANGED limiterVars
  BY <1>5 DEF CallerStep, Verify, Deny, ReadDefaultKey, ListModels, Serve, Reject, Touch, TouchLost
<1>6. ASSUME NEW c \in Creators, CreatorStep(c) PROVE UNCHANGED limiterVars
  BY <1>6 DEF CreatorStep, Draw, Insert
<1>7. ASSUME NEW f \in Forms, FormStep(f) PROVE UNCHANGED limiterVars
  BY <1>7 DEF FormStep, OpenForm, SubmitForm, SaveForm, FormFails, DeleteInAdmin
<1>8. ASSUME NEW o \in Operators, OperatorStep(o) PROVE UNCHANGED limiterVars
  BY <1>8 DEF OperatorStep, OperatorReads, Revoke, DeleteKey, WriteAudit, OperatorFails
<1> QED BY <1>1, <1>2, <1>3, <1>4, <1>5, <1>6, <1>7, <1>8 DEF Next, vars

-----------------------------------------------------------------------------
\* One lemma for each actor.

LEMMA CreatorKeeps ==
  ASSUME KeyInv, NEW c \in Creators, CreatorStep(c)
  PROVE  KeyInv'
<1> USE DEF KeyInv, KeyTypeOK, GoneStaysGone, NothingBeforeCreation, VerifiedHavePaths,
            NoAccessAfterRevocation, ChangesAreAudited
<1>1. CASE Draw(c)
  BY <1>1 DEF Draw, CreatorSteps, historyVars
<1>2. CASE Insert(c)
  <2>1. CASE creator' = [creator EXCEPT ![c] = "failed"] /\ UNCHANGED <<row, audit>>
    BY <1>2, <2>1 DEF Insert, CreatorSteps, historyVars
  <2>2. CASE /\ "created" \notin audit
             /\ \E rpm \in Limits : row' = [NoRow EXCEPT !.there = TRUE, !.rpm = rpm]
             /\ audit' = audit \cup {"created"}
             /\ creator' = [creator EXCEPT ![c] = "done"]
    <3>1. row' \in Rows /\ row'.there /\ ~row'.revoked
      <4>1. PICK rpm \in Limits : row' = [NoRow EXCEPT !.there = TRUE, !.rpm = rpm]
        BY <2>2
      <4>2. row' = [there |-> TRUE, revoked |-> FALSE, rpm |-> rpm, uses |-> 0] /\ rpm \in Nat
        BY <4>1, ApiKeysAssumption DEF NoRow
      <4> QED BY <4>2 DEF Rows
    <3>2. creator' \in [Creators -> CreatorSteps]
      BY <2>2 DEF CreatorSteps
    <3> QED BY <1>2, <2>2, <3>1, <3>2 DEF Insert, historyVars
  <2> QED BY <1>2, <2>1, <2>2 DEF Insert
<1> QED BY <1>1, <1>2 DEF CreatorStep

LEMMA FormKeeps ==
  ASSUME KeyInv, NEW f \in Forms, FormStep(f)
  PROVE  KeyInv'
<1> USE DEF KeyInv, KeyTypeOK, GoneStaysGone, NothingBeforeCreation, VerifiedHavePaths,
            NoAccessAfterRevocation, ChangesAreAudited
<1>0. form[f] \in FormStates /\ row.revoked \in BOOLEAN /\ row.rpm \in Nat
  BY DEF Rows
<1>1. CASE OpenForm(f)
  <2>1. form' \in [Forms -> FormStates]
    BY <1>0, <1>1 DEF OpenForm, FormStates
  <2>2. \A g \in Forms : form[g].step = "done" => form'[g] = form[g]
    BY <1>1 DEF OpenForm
  <2> QED BY <1>1, <2>1, <2>2 DEF OpenForm, historyVars
<1>2. CASE SubmitForm(f)
  <2>1. form' \in [Forms -> FormStates]
    <3>1. PICK revoked \in BOOLEAN, rpm \in {form[f].rpm} \cup Limits :
            form' = [form EXCEPT ![f].step = IF row.there THEN "save" ELSE "failed",
                                 ![f].revoked = revoked, ![f].rpm = rpm, ![f].read = row]
      BY <1>2 DEF SubmitForm
    <3>2. rpm \in Nat
      BY <1>0, ApiKeysAssumption DEF FormStates
    <3>3. form'[f] \in FormStates
      BY <1>0, <3>1, <3>2 DEF FormStates
    <3> QED BY <3>1, <3>3
  <2>2. \A g \in Forms : form[g].step = "done" => form'[g] = form[g]
    BY <1>2 DEF SubmitForm
  <2>3. "created" \in audit
    BY <1>2 DEF SubmitForm
  <2> QED BY <1>2, <2>1, <2>2, <2>3 DEF SubmitForm, historyVars
<1>3. CASE SaveForm(f)
  <2>1. form' \in [Forms -> FormStates]
    BY <1>0, <1>3, NoRowIsARow DEF SaveForm, FormStates
  <2>2. \A g \in Forms : form[g].step = "done" => form'[g] = form[g]
    BY <1>3 DEF SaveForm
  <2>3. "created" \in audit
    BY <1>3 DEF SaveForm
  <2>4. row' \in Rows /\ row'.revoked = form[f].revoked
    BY <1>0, <1>3 DEF SaveForm, FormStates, Rows
  <2>5. form'[f].step = "done" /\ form'[f].revoked = form[f].revoked
    BY <1>0, <1>3 DEF SaveForm, FormStates
  <2>6. gone' \in BOOLEAN /\ overwritten' \in BOOLEAN /\ (overwritten => overwritten')
    BY <1>3, <2>4 DEF SaveForm, Rows
  <2>7. GoneStaysGone'
    BY <1>3 DEF SaveForm
  <2> QED BY <1>3, <2>1, <2>2, <2>3, <2>4, <2>5, <2>6, <2>7 DEF SaveForm
<1>4. CASE FormFails(f)
  <2>1. form' \in [Forms -> FormStates]
    BY <1>0, <1>4, NoRowIsARow DEF FormFails, FormStates
  <2>2. \A g \in Forms : form[g].step = "done" => form'[g] = form[g]
    BY <1>4 DEF FormFails
  <2>3. \A g \in Forms : form'[g].step \in {form[g].step, "failed"}
    BY <1>4 DEF FormFails
  <2> QED BY <1>4, <2>1, <2>2, <2>3 DEF FormFails, historyVars
<1>5. CASE DeleteInAdmin(f)
  <2>1. form' \in [Forms -> FormStates]
    BY <1>0, <1>5 DEF DeleteInAdmin, FormStates
  <2>2. "created" \in audit
    BY <1>5 DEF DeleteInAdmin
  <2> QED BY <1>5, <2>1, <2>2, NoRowIsARow DEF DeleteInAdmin
<1> QED BY <1>1, <1>2, <1>3, <1>4, <1>5 DEF FormStep

LEMMA OperatorKeeps ==
  ASSUME KeyInv, NEW o \in Operators, OperatorStep(o)
  PROVE  KeyInv'
<1> USE DEF KeyInv, KeyTypeOK, GoneStaysGone, NothingBeforeCreation, VerifiedHavePaths,
            NoAccessAfterRevocation, ChangesAreAudited
<1>0. operator[o] \in OperatorStates
  OBVIOUS
<1>1. \A step \in {"idle", "revoke", "delete", "auditRevoked", "auditDeleted",
                   "done", "failed", "unaudited"} :
        OperatorAt(o, step) => /\ operator' \in [Operators -> OperatorStates]
                               /\ operator'[o].step = step
                               /\ \A p \in Operators \ {o} : operator'[p] = operator[p]
  BY NoRowIsARow DEF OperatorAt, OperatorStates
<1>2. operator[o].step # "idle" => "created" \in audit
  OBVIOUS
<1>3. CASE OperatorReads(o)
  <2>1. operator' \in [Operators -> OperatorStates]
    BY <1>3 DEF OperatorReads, OperatorStates
  <2>2. \A p \in Operators : operator[p].step \in {"auditRevoked", "unaudited"} => operator'[p] = operator[p]
    BY <1>3 DEF OperatorReads
  <2> QED BY <1>3, <2>1, <2>2 DEF OperatorReads, historyVars
<1>4. CASE Revoke(o)
  <2>1. row' \in Rows /\ row'.there /\ row'.revoked
    BY <1>4 DEF Revoke, Rows
  <2> QED BY <1>1, <1>2, <1>4, <2>1 DEF Revoke
<1>5. CASE DeleteKey(o)
  BY <1>1, <1>2, <1>5, NoRowIsARow DEF DeleteKey
<1>6. CASE WriteAudit(o)
  <2>1. OperatorAt(o, "done") /\ UNCHANGED <<row, creator, form, caller, historyVars>>
    BY <1>6 DEF WriteAudit
  <2>2. CASE operator[o].step = "auditRevoked" /\ row.there /\ audit' = audit \cup {"revoked"}
    BY <1>1, <1>2, <2>1, <2>2 DEF historyVars
  <2>3. CASE operator[o].step = "auditDeleted" /\ audit' = audit \cup {"deleted"}
    BY <1>1, <1>2, <2>1, <2>3 DEF historyVars
  <2> QED BY <1>6, <2>2, <2>3 DEF WriteAudit
<1>7. CASE OperatorFails(o)
  <2>1. UNCHANGED <<row, audit, creator, form, caller, historyVars>>
    BY <1>7 DEF OperatorFails
  <2>2. CASE operator[o].step \in {"revoke", "delete"} /\ OperatorAt(o, "failed")
    BY <1>1, <1>2, <2>1, <2>2 DEF historyVars
  <2>3. CASE operator[o].step \in {"auditRevoked", "auditDeleted"} /\ OperatorAt(o, "unaudited")
    BY <1>1, <1>2, <2>1, <2>3 DEF historyVars
  <2> QED BY <1>7, <2>2, <2>3 DEF OperatorFails
<1> QED BY <1>3, <1>4, <1>5, <1>6, <1>7 DEF OperatorStep

LEMMA CallerKeeps ==
  ASSUME KeyInv, NEW r \in Requests, CallerStep(r)
  PROVE  KeyInv'
<1> USE DEF KeyInv, KeyTypeOK, GoneStaysGone, NothingBeforeCreation, VerifiedHavePaths,
            NoAccessAfterRevocation, ChangesAreAudited
<1>0. /\ caller[r] \in Callers /\ row.rpm \in Nat
      /\ caller[r].step # "idle" \/ row.there \/ Issued => "created" \in audit
  BY DEF Rows, Issued
<1>1. \A step \in {"denied", "listed", "checking", "served", "rejected", "touched", "untouched"} :
        CallerAt(r, step) =>
          /\ caller' \in [Requests -> Callers]
          /\ \A q \in Requests : /\ caller'[q].path = caller[q].path
                                 /\ caller'[q].after = caller[q].after
                                 /\ caller'[q].step = "verified" => caller[q].step = "verified"
  BY <1>0 DEF CallerAt, Callers
<1>2. CASE Verify(r)
  <2>1. caller' \in [Requests -> Callers]
    BY <1>0, <1>2 DEF Verify, Callers, Paths
  <2>2. caller'[r].path = "gateway" /\ (caller'[r].after => gone)
    BY <1>2 DEF Verify
  <2>3. \A q \in Requests \ {r} : caller'[q] = caller[q]
    BY <1>2 DEF Verify
  <2>4. gone => overwritten
    BY <1>2 DEF Verify, Valid
  <2> QED BY <1>0, <1>2, <2>1, <2>2, <2>3, <2>4 DEF Verify, historyVars, Paths
<1>3. CASE ReadDefaultKey(r)
  <2>1. caller' \in [Requests -> Callers]
    BY <1>0, <1>3 DEF ReadDefaultKey, Callers, Paths
  <2>2. caller'[r].path = "ui"
    BY <1>3 DEF ReadDefaultKey
  <2>3. \A q \in Requests \ {r} : caller'[q] = caller[q]
    BY <1>3 DEF ReadDefaultKey
  <2> QED BY <1>0, <1>3, <2>1, <2>2, <2>3 DEF ReadDefaultKey, historyVars, Paths
<1>4. CASE Touch(r)
  <2>1. row' \in Rows /\ row'.there = row.there /\ row'.revoked = row.revoked
    <3>1. row' = [row EXCEPT !.uses = row.uses + 1] /\ row.uses + 1 \in Nat
      BY <1>4 DEF Touch, Rows
    <3> QED BY <3>1 DEF Rows
  <2>2. raced' \in BOOLEAN
    BY <1>4 DEF Touch
  <2> QED BY <1>0, <1>1, <1>4, <2>1, <2>2 DEF Touch
<1>5. ASSUME UNCHANGED <<row, audit, creator, form, operator, historyVars>>, "created" \in audit,
             NEW step \in {"denied", "listed", "checking", "served", "rejected", "untouched"},
             CallerAt(r, step)
      PROVE  KeyInv'
  BY <1>1, <1>5 DEF historyVars
<1>6. CASE Checking(r)
  BY <1>6 DEF Checking, actorVars, historyVars
<1>7. Deny(r) \/ ListModels(r) \/ Consume(r) \/ Serve(r) \/ Reject(r) \/ TouchLost(r) => KeyInv'
  BY <1>0, <1>5 DEF Deny, ListModels, Consume, Serve, Reject, TouchLost
<1> QED BY <1>2, <1>3, <1>4, <1>6, <1>7 DEF CallerStep

LEMMA KeyStays ==
  ASSUME KeyInv, [Next]_vars
  PROVE  KeyInv'
<1>1. ASSUME UNCHANGED <<row, audit, actorVars, historyVars>> PROVE KeyInv'
  BY <1>1 DEF actorVars, historyVars, KeyInv, KeyTypeOK, GoneStaysGone, NothingBeforeCreation,
     VerifiedHavePaths, NoAccessAfterRevocation, ChangesAreAudited
<1> QED BY <1>1, CreatorKeeps, FormKeeps, OperatorKeeps, CallerKeeps DEF Next, vars, Minute

-----------------------------------------------------------------------------
\* requests_count, against the requests that have been counted.

LEMMA TouchedIsFinite ==
  IsFiniteSet(Touched) /\ Cardinality(Touched) \in Nat
BY RateLimiterAssumption, FS_Subset, FS_CardinalityType DEF Touched

LEMMA UntouchedFits ==
  ASSUME UsesFollow, Touched' = Touched, raced' = raced,
         row'.there => \/ row' = row
                       \/ row.there /\ row'.uses = row.uses
                       \/ \E f \in Forms : form[f].step = "save" /\ row'.uses = form[f].read.uses,
         \A f \in Forms : form'[f].step = "save" => \/ form'[f] = form[f]
                                                    \/ row.there /\ form'[f].read = row
  PROVE  UsesFollow'
BY DEF UsesFollow, UsesFit

LEMMA UsesStay ==
  ASSUME KeyInv, UsesFollow, [Next]_vars
  PROVE  UsesFollow'
<1> USE DEF KeyInv, KeyTypeOK
<1>1. caller' = caller => Touched' = Touched
  BY DEF Touched
<1>2. CASE UNCHANGED <<row, audit, actorVars, historyVars>>
  BY <1>1, <1>2, UntouchedFits DEF actorVars, historyVars
<1>3. ASSUME NEW c \in Creators, CreatorStep(c) PROVE UsesFollow'
  <2>1. CASE row' = row
    BY <1>1, <1>3, <2>1, UntouchedFits DEF CreatorStep, Draw, Insert, historyVars
  <2>2. CASE row' # row
    <3>1. /\ "created" \notin audit /\ caller' = caller /\ form' = form
          /\ \E rpm \in Limits : row' = [NoRow EXCEPT !.there = TRUE, !.rpm = rpm]
      BY <1>3, <2>2 DEF CreatorStep, Draw, Insert
    <3>2. row'.uses = 0
      BY <3>1 DEF NoRow
    <3>3. Touched' = {}
      BY <3>1 DEF Touched, NothingBeforeCreation
    <3>4. Cardinality(Touched') = 0
      BY <3>3, FS_EmptySet
    <3>5. \A f \in Forms : form'[f].step # "save"
      BY <3>1 DEF NothingBeforeCreation
    <3> QED BY <3>2, <3>4, <3>5 DEF UsesFollow, UsesFit
  <2> QED BY <2>1, <2>2
<1>4. ASSUME NEW f \in Forms, FormStep(f) PROVE UsesFollow'
  <2>1. caller' = caller /\ raced' = raced /\ (\A g \in Forms \ {f} : form'[g] = form[g])
    BY <1>4 DEF FormStep, OpenForm, SubmitForm, SaveForm, FormFails, DeleteInAdmin, historyVars
  <2>2. CASE OpenForm(f) \/ FormFails(f)
    <3>1. row' = row /\ form'[f].step # "save"
      BY <2>2 DEF OpenForm, FormFails, FormStates
    <3> QED BY <1>1, <2>1, <3>1, UntouchedFits
  <2>3. CASE SubmitForm(f)
    <3>1. row' = row /\ (form'[f].step = "save" => row.there /\ form'[f].read = row)
      BY <2>3 DEF SubmitForm, FormStates
    <3> QED BY <1>1, <2>1, <3>1, UntouchedFits
  <2>4. CASE SaveForm(f)
    <3>1. form'[f].step # "save" /\ form[f].step = "save" /\ row'.uses = form[f].read.uses
      BY <2>4 DEF SaveForm, FormStates, Rows
    <3> QED BY <1>1, <2>1, <3>1, UntouchedFits
  <2>5. CASE DeleteInAdmin(f)
    <3>1. form'[f].step # "save" /\ ~row'.there
      BY <2>5, NoRowIsARow DEF DeleteInAdmin, FormStates
    <3> QED BY <1>1, <2>1, <3>1, UntouchedFits
  <2> QED BY <1>4, <2>2, <2>3, <2>4, <2>5 DEF FormStep
<1>5. ASSUME NEW o \in Operators, OperatorStep(o) PROVE UsesFollow'
  <2>1. caller' = caller /\ form' = form /\ raced' = raced
    BY <1>5 DEF OperatorStep, OperatorReads, Revoke, DeleteKey, WriteAudit, OperatorFails, historyVars
  <2>2. row'.there => row' = row \/ (row.there /\ row'.uses = row.uses)
    BY <1>5, NoRowIsARow
    DEF OperatorStep, OperatorReads, Revoke, DeleteKey, WriteAudit, OperatorFails, Rows
  <2> QED BY <1>1, <2>1, <2>2, UntouchedFits
<1>6. ASSUME NEW r \in Requests, CallerStep(r), ~Touch(r) PROVE UsesFollow'
  <2>1. row' = row /\ form' = form /\ raced' = raced
    BY <1>6 DEF CallerStep, Verify, Deny, ReadDefaultKey, ListModels, Consume, Checking, Serve,
                Reject, TouchLost, historyVars, actorVars
  <2>2. \A q \in Requests : caller'[q].step = "touched" <=> caller[q].step = "touched"
    BY <1>6 DEF CallerStep, Verify, Deny, ReadDefaultKey, ListModels, Consume, Checking, Serve,
                Reject, TouchLost, actorVars, CallerAt, Callers
  <2>3. Touched' = Touched
    BY <2>2 DEF Touched
  <2> QED BY <2>1, <2>3, UntouchedFits
<1>7. ASSUME NEW r \in Requests, Touch(r) PROVE UsesFollow'
  <2>1. /\ row.there /\ row'.uses = row.uses + 1 /\ row.uses \in Nat
        /\ raced \in BOOLEAN /\ raced' = (raced \/ \E f \in Forms : form[f].step = "save")
        /\ form' = form
    BY <1>7 DEF Touch, Rows
  <2>2. \A q \in Requests : caller'[q].step = "touched" <=> caller[q].step = "touched" \/ q = r
    BY <1>7 DEF Touch, CallerAt, Callers
  <2>3. Touched' = Touched \cup {r} /\ r \notin Touched
    BY <1>7, <2>2 DEF Touched, Touch
  <2>4. Cardinality(Touched') = Cardinality(Touched) + 1
    BY <2>3, TouchedIsFinite, FS_AddElement
  <2>5. row.uses <= Cardinality(Touched) /\ (raced \/ row.uses = Cardinality(Touched))
    BY <2>1 DEF UsesFollow, UsesFit
  <2>6. UsesFit(row)'
    BY <2>1, <2>4, <2>5, TouchedIsFinite DEF UsesFit
  <2>7. ASSUME NEW f \in Forms, form[f].step = "save" PROVE UsesFit(form[f].read)'
    <3>1. form[f].read.uses <= Cardinality(Touched) /\ form[f].read.uses \in Nat
      BY <2>7 DEF UsesFollow, UsesFit, FormStates, Rows
    <3>2. raced'
      BY <2>1, <2>7
    <3>3. form'[f].read.uses <= Cardinality(Touched')
      BY <2>1, <2>4, <3>1, TouchedIsFinite
    <3> QED BY <3>2, <3>3 DEF UsesFit
  <2> QED BY <2>1, <2>6, <2>7 DEF UsesFollow
<1> QED BY <1>2, <1>3, <1>4, <1>5, <1>6, <1>7 DEF Next, vars, Minute

-----------------------------------------------------------------------------

LEMMA InitSatisfies == Init => IInv
<1> SUFFICES ASSUME Init PROVE IInv
  OBVIOUS
<1>1. Unchecked \in Checks
  BY RateLimiterAssumption DEF Unchecked, Checks, CheckSteps, Counters, Paths, Minutes
<1>2. Never \in 0..Never /\ 0 \in Minutes
  BY RateLimiterAssumption DEF Never, Lifetime, Minutes
<1>3. LimiterTypeOK
  BY <1>1, <1>2 DEF Init, InitLimiter, LimiterTypeOK
<1>4. \A c : Counting(c) = {} /\ Timely(c) = {}
  BY DEF Init, InitLimiter, Counting, Timely, Unchecked
<1>5. StepsFit
  BY DEF Init, InitLimiter, StepsFit, Unchecked
<1>6. ExpiriesAreLate
  BY RateLimiterAssumption DEF Init, InitLimiter, ExpiriesAreLate, Never, Lifetime, Counters, Minutes
<1>7. CountsAreBacked
  <2>1. \A c \in Counters : count[c] = 0
    BY DEF Init, InitLimiter
  <2> QED BY <1>4, <2>1, CountingIsFinite DEF CountsAreBacked
<1>8. LimiterInv
  BY <1>3, <1>4, <1>5, <1>6, <1>7 DEF LimiterInv, TimelyBelowCount, TimelyDiffer
<1>9. KeyInv
  <2>1. KeyTypeOK
    BY NoRowIsARow DEF Init, KeyTypeOK, CreatorSteps, FormStates, OperatorStates, Callers, NoCaller
  <2> QED BY <2>1, NoRowIsARow
      DEF Init, KeyInv, GoneStaysGone, NothingBeforeCreation, VerifiedHavePaths,
          NoAccessAfterRevocation, ChangesAreAudited, NoCaller
<1>10. UsesFollow
  BY NoRowIsARow DEF Init, UsesFollow
<1> QED BY <1>8, <1>9, <1>10 DEF IInv

LEMMA Inductive == Spec => []IInv
<1>1. IInv /\ [Next]_vars => IInv'
  BY LimiterStays, KeyStays, UsesStay DEF IInv
<1> QED BY <1>1, InitSatisfies, PTL DEF Spec

-----------------------------------------------------------------------------

(* Every variable keeps its type, and no counter outgrows its minute.      *)
THEOREM TypeCorrect == Spec => []TypeOK
<1>1. IInv => TypeOK
  BY DEF IInv, LimiterInv, KeyInv, KeyTypeOK, TypeOK
<1> QED BY <1>1, Inductive, PTL

(* However many requests count themselves in one minute, in any order and  *)
(* with any failure, those let in by the count are no more than the limit, *)
(* the late and those of a lost add apart (limits.py:16-21).               *)
THEOREM LimitsAreKept == Spec => []AdmittedWithinLimit
<1>1. IInv => AdmittedWithinLimit
  BY LimitHolds DEF IInv
<1> QED BY <1>1, Inductive, PTL

(* Nobody is refused before the limit is used up (limits.py:21).           *)
THEOREM RefusalsAreFair == Spec => []RefusedOnlyOverLimit
<1>1. IInv => RefusedOnlyOverLimit
  BY RefusalsAreEarned DEF IInv
<1> QED BY <1>1, Inductive, PTL

(* A revoked or deleted key lets nobody in at the gateway, except after a  *)
(* form has been saved over it (crypto_auth.py:70).                        *)
THEOREM RevocationHolds == Spec => []NoAccessAfterRevocation
<1>1. IInv => NoAccessAfterRevocation
  BY DEF IInv, KeyInv
<1> QED BY <1>1, Inductive, PTL

(* No key without the entry of its creation, and no revocation without its *)
(* own, but for the admin site and failures (keys.py:46-66).               *)
THEOREM AuditIsKept == Spec => []ChangesAreAudited
<1>1. IInv => ChangesAreAudited
  BY DEF IInv, KeyInv
<1> QED BY <1>1, Inductive, PTL

(* The use count is the number of uses, unless a form was saved over one.  *)
THEOREM UsesAreRight == Spec => []UsesAreCounted
<1>1. IInv => UsesAreCounted
  BY DEF IInv, UsesFollow, UsesFit, Touched, UsesAreCounted
<1> QED BY <1>1, Inductive, PTL

=============================================================================
