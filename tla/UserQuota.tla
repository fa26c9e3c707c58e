------------------------------ MODULE UserQuota ------------------------------
(***************************************************************************)
(* apps/api_keys/services/limits.py: the daily counters of one user in the *)
(* cache, checked before an inference (check_user_daily_quota) and moved   *)
(* after it (record_user_quota_success).                                   *)
(*                                                                         *)
(* Each call runs in the worker thread of its own request, so the calls of *)
(* two requests interleave between any two accesses to the cache, and a    *)
(* call that has started goes on when its request is cancelled.  Any       *)
(* access may raise, carried out or not, which ends its call.  One UTC day *)
(* is modelled; an inference costs one unit of tokens.                     *)
(***************************************************************************)
EXTENDS Integers, FiniteSets

CONSTANTS
  Requests,       \* the user's requests
  RequestLimit,   \* daily_request_limit
  TokenLimit,     \* daily_token_limit
  Estimate        \* prompt estimate and pessimistic completion budget

VARIABLES
  requestsUsed,   \* quota:req:<user>:<day>, 0 if there is no such key
  tokensUsed,     \* quota:tok:<user>:<day>
  ledger,         \* where the calls of each request are
  seen            \* the token count a recording call has read, 0 outside it

vars == <<requestsUsed, tokensUsed, ledger, seen>>

(***************************************************************************)
(* "checking", "halfway"   before the two reads of the check               *)
(* "passed", "refused"     its result                                      *)
(* "counting", "adding"    before cache.incr, before cache.add             *)
(* "tallying", "storing"   before cache.get, before cache.set              *)
(* "unchecked", "unrecorded"  an access of the call raised                 *)
(***************************************************************************)
LedgerStates == {"out", "checking", "halfway", "passed", "refused",
                 "counting", "adding", "tallying", "storing", "recorded",
                 "unchecked", "unrecorded"}

\* A call is between two accesses to the cache.
UnderWay == {"checking", "halfway", "counting", "adding", "tallying", "storing"}

Init ==
  /\ requestsUsed = 0 /\ tokensUsed = 0
  /\ ledger = [r \in Requests |-> "out"]
  /\ seen = [r \in Requests |-> 0]

Moves(r, from, to) == ledger[r] = from /\ ledger' = [ledger EXCEPT ![r] = to]

-----------------------------------------------------------------------------

StartCheck(r) ==
  /\ Moves(r, "out", "checking")
  /\ UNCHANGED <<requestsUsed, tokensUsed, seen>>

CheckRequests(r) ==
  /\ Moves(r, "checking", IF requestsUsed >= RequestLimit THEN "refused" ELSE "halfway")
  /\ UNCHANGED <<requestsUsed, tokensUsed, seen>>

CheckTokens(r) ==
  /\ Moves(r, "halfway", IF tokensUsed + Estimate > TokenLimit THEN "refused" ELSE "passed")
  /\ UNCHANGED <<requestsUsed, tokensUsed, seen>>

StartRecord(r) ==
  /\ Moves(r, "passed", "counting")
  /\ UNCHANGED <<requestsUsed, tokensUsed, seen>>

\* cache.incr raises ValueError when there is no key yet.
IncrementRequests(r) ==
  /\ \/ /\ requestsUsed > 0
        /\ \E to \in {"tallying", "unrecorded"} : Moves(r, "counting", to)
        /\ requestsUsed' = requestsUsed + 1
     \/ /\ requestsUsed = 0
        /\ Moves(r, "counting", "adding")
        /\ UNCHANGED requestsUsed
  /\ UNCHANGED <<tokensUsed, seen>>

\* Faulty variant of AddRequests: it counts on top of a key that appeared since.
AddOnTop(r) ==
  /\ \E to \in {"tallying", "unrecorded"} : Moves(r, "adding", to)
  /\ requestsUsed' = requestsUsed + 2
  /\ UNCHANGED <<tokensUsed, seen>>

\* cache.add stores 1 unless the key has appeared since.
AddRequests(r) ==
  /\ \E to \in {"tallying", "unrecorded"} : Moves(r, "adding", to)
  /\ requestsUsed' = IF requestsUsed = 0 THEN 1 ELSE requestsUsed
  /\ UNCHANGED <<tokensUsed, seen>>

ReadTokens(r) ==
  /\ Moves(r, "tallying", "storing")
  /\ seen' = [seen EXCEPT ![r] = tokensUsed]
  /\ UNCHANGED <<requestsUsed, tokensUsed>>

StoreTokens(r) ==
  /\ \E to \in {"recorded", "unrecorded"} : Moves(r, "storing", to)
  /\ tokensUsed' = seen[r] + 1
  /\ seen' = [seen EXCEPT ![r] = 0]
  /\ UNCHANGED requestsUsed

\* An access raises, and has not been carried out.
Raises(r) ==
  /\ \/ \E from \in {"checking", "halfway"} : Moves(r, from, "unchecked")
     \/ \E from \in {"counting", "adding", "tallying", "storing"} : Moves(r, from, "unrecorded")
  /\ seen' = [seen EXCEPT ![r] = 0]
  /\ UNCHANGED <<requestsUsed, tokensUsed>>

\* A step of a call that is under way.
CallStep(r) ==
  \/ CheckRequests(r) \/ CheckTokens(r)
  \/ IncrementRequests(r) \/ AddRequests(r) \/ ReadTokens(r) \/ StoreTokens(r)
  \/ Raises(r)

Next == \E r \in Requests : StartCheck(r) \/ StartRecord(r) \/ CallStep(r)

Spec == Init /\ [][Next]_vars

TypeOK ==
  /\ requestsUsed \in Nat /\ tokensUsed \in Nat
  /\ ledger \in [Requests -> LedgerStates]
  /\ seen \in [Requests -> Nat]

=============================================================================
