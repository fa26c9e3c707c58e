----------------------------- MODULE RateLimiter -----------------------------
(***************************************************************************)
(* The requests per minute of one API key: consume_rate_limit of the       *)
(* gateway (deploy/gateway/gateway/limits.py) and that of Django           *)
(* (apps/api_keys/services/limits.py).  Each has a counter in redis for    *)
(* every minute, under names of its own, so that a key has its limit       *)
(* twice.                                                                  *)
(*                                                                         *)
(* An action is one command to redis with the code up to the next.  The    *)
(* minute is read before the first command, which may be late: time passes *)
(* between any two actions.  A command may fail, before or after redis has *)
(* carried it out.  A counter lives two minutes from when its expiry was   *)
(* set, or for ever.                                                       *)
(***************************************************************************)
EXTENDS Integers, FiniteSets

CONSTANTS
  Requests,
  MaxMinute      \* bounds the minutes that pass

Paths == {"gateway", "ui"}
Minutes == 0..MaxMinute
Lifetime == 2                      \* of 120 seconds
Never == MaxMinute + Lifetime + 1  \* the expiry of a counter without one

ASSUME RateLimiterAssumption ==
  /\ IsFiniteSet(Requests)
  /\ MaxMinute \in Nat

VARIABLES
  minute,    \* the current one
  count,     \* the counter of each path and minute; 0 is a counter that is not there
  expiry,    \* when each is dropped
  check      \* what each request's call of consume_rate_limit does next

limiterVars == <<minute, count, expiry, check>>

-----------------------------------------------------------------------------

CheckSteps == {"idle", "incr", "expire", "exists", "add", "allowed", "refused", "open", "raised"}

Counters == [path : Paths, minute : Minutes]

(* `number' is what the counter gave the request, 0 if nothing; `late' if  *)
(* its minute was over for a whole minute by then; `missed' if add found a *)
(* counter that incr had not.                                              *)
Checks == [step : CheckSteps, rpm : Nat, counter : Counters, number : Nat,
           late : BOOLEAN, missed : BOOLEAN]

Unchecked == [step |-> "idle", rpm |-> 0, counter |-> [path |-> "gateway", minute |-> 0],
              number |-> 0, late |-> FALSE, missed |-> FALSE]

InitLimiter ==
  /\ minute = 0
  /\ count = [c \in Counters |-> 0]
  /\ expiry = [c \in Counters |-> Never]
  /\ check = [r \in Requests |-> Unchecked]

Late(c) == minute > c.minute + 1

Goes(r, step) == check' = [check EXCEPT ![r].step = step]

(* A limit of 0 is none; otherwise the minute is read.                     *)
StartCheck(r, path, rpm) ==
  /\ check[r].step = "idle"
  /\ check' = [check EXCEPT ![r] =
       [Unchecked EXCEPT !.step = IF rpm <= 0 THEN "allowed"
                                  ELSE IF path = "gateway" THEN "incr" ELSE "exists",
                         !.rpm = rpm,
                         !.counter = [path |-> path, minute |-> minute]]]
  /\ UNCHANGED <<minute, count, expiry>>

(* The counter as it is after one more request, and what the request does. *)
Counted(r, step) ==
  LET c == check[r].counter
  IN  /\ count' = [count EXCEPT ![c] = @ + 1]
      /\ check' = [check EXCEPT ![r].step = step,
                                ![r].number = count[c] + 1,
                                ![r].late = Late(c)]
      /\ UNCHANGED <<minute, expiry>>

\* Faulty variant of Verdict: the limit itself is refused.
VerdictBelow(r, number) == IF number < check[r].rpm THEN "allowed" ELSE "refused"

Verdict(r, number) == IF number <= check[r].rpm THEN "allowed" ELSE "refused"

(* The gateway: INCR, and EXPIRE for the first.                            *)
Incr(r) ==
  LET number == count[check[r].counter] + 1
  IN  /\ check[r].step = "incr"
      /\ Counted(r, IF number = 1 THEN "expire" ELSE Verdict(r, number))

Expires(r) ==
  LET c == check[r].counter
  IN  /\ expiry' = [expiry EXCEPT ![c] = IF count[c] > 0 THEN minute + Lifetime ELSE @]
      /\ UNCHANGED <<minute, count>>

Expire(r) == check[r].step = "expire" /\ Expires(r) /\ Goes(r, Verdict(r, 1))

(* Any exception of either lets the request through, be it before or after *)
(* redis has carried the command out.                                      *)
GatewayFails(r) ==
  \/ /\ check[r].step \in {"incr", "expire"}
     /\ Goes(r, "open")
     /\ UNCHANGED <<minute, count, expiry>>
  \/ check[r].step = "incr" /\ Counted(r, "open")
  \/ check[r].step = "expire" /\ Expires(r) /\ Goes(r, "open")

(* Django: RedisCache.incr asks for the counter first and raises           *)
(* ValueError if there is none.                                            *)
Exists(r) ==
  /\ check[r].step = "exists"
  /\ Goes(r, IF count[check[r].counter] > 0 THEN "incr" ELSE "add")
  /\ UNCHANGED <<minute, count, expiry>>

IncrExisting(r) ==
  LET number == count[check[r].counter] + 1
  IN  /\ check[r].step = "incr"
      /\ Counted(r, Verdict(r, number))

\* Faulty variant of Added: the counter is set, whatever it is.
AddedOver(r, step) ==
  LET c == check[r].counter
  IN  /\ count' = [count EXCEPT ![c] = 1]
      /\ expiry' = [expiry EXCEPT ![c] = minute + Lifetime]
      /\ check' = [check EXCEPT ![r].step = step, ![r].number = 1, ![r].late = Late(c)]
      /\ UNCHANGED minute

(* cache.add stores nothing if there is a counter by now; the request goes *)
(* on as the first all the same.                                           *)
Added(r, step) ==
  LET c == check[r].counter
      free == count[c] = 0
  IN  /\ count' = [count EXCEPT ![c] = IF free THEN 1 ELSE @]
      /\ expiry' = [expiry EXCEPT ![c] = IF free THEN minute + Lifetime ELSE @]
      /\ check' = [check EXCEPT ![r].step = step, ![r].number = 1,
                                ![r].late = Late(c), ![r].missed = ~free]
      /\ UNCHANGED minute

Add(r) == check[r].step = "add" /\ Added(r, Verdict(r, 1))

(* Django catches ValueError only: the request ends in an exception,       *)
(* before or after redis has carried the command out.                      *)
DjangoFails(r) ==
  \/ /\ check[r].step \in {"exists", "incr", "add"}
     /\ Goes(r, "raised")
     /\ UNCHANGED <<minute, count, expiry>>
  \/ check[r].step = "incr" /\ Counted(r, "raised")
  \/ check[r].step = "add" /\ Added(r, "raised")

LimiterStep(r) ==
  \/ check[r].counter.path = "gateway" /\ (Incr(r) \/ Expire(r) \/ GatewayFails(r))
  \/ check[r].counter.path = "ui" /\ (Exists(r) \/ IncrExisting(r) \/ Add(r) \/ DjangoFails(r))

Tick ==
  /\ minute < MaxMinute
  /\ minute' = minute + 1
  /\ count' = [c \in Counters |-> IF expiry[c] <= minute' THEN 0 ELSE count[c]]
  /\ expiry' = [c \in Counters |-> IF expiry[c] <= minute' THEN Never ELSE expiry[c]]
  /\ UNCHANGED check

-----------------------------------------------------------------------------
(* Properties.                                                             *)

Counting(c) == {r \in Requests : check[r].number > 0 /\ check[r].counter = c}

Timely(c) == {r \in Counting(c) : ~check[r].late /\ ~check[r].missed}

LimiterTypeOK ==
  /\ minute \in Minutes
  /\ count \in [Counters -> Nat]
  /\ expiry \in [Counters -> 0..Never]
  /\ check \in [Requests -> Checks]

(* In a minute no more requests are admitted by the count than the limit   *)
(* says, whatever commands fail and however they interleave, but for those *)
(* that are late by a minute and, in Django, those whose add found a       *)
(* counter (limits.py:16-21; api_keys/services/limits.py:28-36).           *)
AdmittedWithinLimit ==
  \A c \in Counters : \A q \in Requests :
    Cardinality({r \in Timely(c) : check[r].step = "allowed" /\ check[r].rpm <= check[q].rpm})
      <= check[q].rpm

(* Who is refused has been preceded in its minute by as many requests of   *)
(* the key as the limit allows: no minute inherits the count of another.   *)
RefusedOnlyOverLimit ==
  \A r \in Requests :
    check[r].step = "refused" => Cardinality(Counting(check[r].counter)) > check[r].rpm

=============================================================================
