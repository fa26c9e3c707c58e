----------------------------- MODULE ChatService -----------------------------
(***************************************************************************)
(* apps/inference/services/chat_completion.py: ChatCompletionService, the  *)
(* chat path of the Django application, with the ChatLimiter and UserQuota *)
(* it goes through.                                                        *)
(*                                                                         *)
(* One action is what one task does between two awaits.  A client that     *)
(* leaves cancels the task of its request at the await it is suspended in; *)
(* database and cache calls run in worker threads and are not interrupted. *)
(* All requests come from one user with an API key.  What the upstream,    *)
(* the rate limiter, the cache and the database do, raising an exception   *)
(* included, is chosen freely; the second attempt of a request without     *)
(* stream belongs to "posting".                                            *)
(***************************************************************************)
EXTENDS Integers, FiniteSets, Sequences

CONSTANTS
  Requests,
  MaxConcurrency, WakesAll, QueueSize,   \* of the limiter
  RequestLimit, TokenLimit, Estimate,    \* of the quota
  Streaming                              \* the requests with "stream": true

ASSUME ChatAssumption ==
  /\ IsFiniteSet(Requests) /\ Streaming \subseteq Requests
  /\ MaxConcurrency \in Nat \ {0} /\ QueueSize \in Nat \ {0}
  /\ WakesAll \in BOOLEAN
  /\ RequestLimit \in Nat /\ TokenLimit \in Nat /\ Estimate \in Nat

VARIABLES
  value, waiters, slot, depth, cancelled,
  requestsUsed, tokensUsed, ledger, seen,
  phase,         \* where the task of each request is suspended
  kind,          \* error_kind; "" is the only value that counts as a success
  active,        \* ACTIVE_INFERENCE_REQUESTS
  inFlight,      \* STREAMING_IN_FLIGHT
  keyRequests,   \* APIKey.requests_count
  outcome        \* how each answer ended, as far as the code does not tell

limiterVars == <<value, waiters, slot, depth, cancelled>>
quotaVars == <<requestsUsed, tokensUsed, ledger, seen>>
gaugeVars == <<active, inFlight>>
vars == <<limiterVars, quotaVars, phase, kind, gaugeVars, keyRequests, outcome>>

Limiter == INSTANCE ChatLimiter
Quota == INSTANCE UserQuota

(***************************************************************************)
(* "limiting"  consume_rate_limit         "checking"  the quota check      *)
(* "queued"    acquire_slot               "opening"   the response is back *)
(* "dropped"   ... and nobody will ever iterate its stream                 *)
(* "reading"   the stream awaits a chunk  "yielding"  a chunk is sent      *)
(* "orphaned"  the stream yielded, and the task that iterated it is gone   *)
(* "posting"   the upstream answers       "logging"   the log is written   *)
(* "recording" the quota is charged       "bumping"   the key's counters   *)
(* "refusing"  a refusal is logged                                         *)
(***************************************************************************)
Started == {"reading", "yielding", "orphaned"}
InStream == {"opening", "dropped"} \cup Started
Ending == {"logging", "recording", "bumping"}
Phases == {"idle", "limiting", "checking", "queued", "posting", "refusing", "answered"}
          \cup InStream \cup Ending

\* "upstream" stands for upstream_timeout, upstream_unavailable, upstream_http.
Kinds == {"", "client_disconnected", "upstream"}

\* "complete"  the upstream's answer ended properly
\* "brokeoff"  it broke off in the stream   "abandoned"  the client left while
\* a chunk was sent: no exit of the last two sets an error_kind of its own.
Outcomes == {"", "complete", "brokeoff", "abandoned"}

ServiceInit ==
  /\ phase = [r \in Requests |-> "idle"]
  /\ kind = [r \in Requests |-> ""]
  /\ active = 0 /\ inFlight = 0 /\ keyRequests = 0
  /\ outcome = [r \in Requests |-> ""]

Init == Limiter!Init /\ Quota!Init /\ ServiceInit

Goes(r, from, to) == phase[r] = from /\ phase' = [phase EXCEPT ![r] = to]

EndsAs(r, o) == outcome' = [outcome EXCEPT ![r] = o]

-----------------------------------------------------------------------------

\* Validation, then the rate limiter.
Arrive(r) ==
  /\ \E to \in {"limiting", "refusing"} : Goes(r, "idle", to)
  /\ UNCHANGED <<limiterVars, quotaVars, kind, gaugeVars, keyRequests, outcome>>

\* "answered": the rate limiter raised, which ends the handler.
RateAnswers(r) ==
  /\ \/ \E to \in {"refusing", "answered"} : Goes(r, "limiting", to) /\ UNCHANGED quotaVars
     \/ Goes(r, "limiting", "checking") /\ Quota!StartCheck(r)
  /\ UNCHANGED <<limiterVars, kind, gaugeVars, keyRequests, outcome>>

QuotaThread(r) ==
  /\ Quota!CallStep(r)
  /\ UNCHANGED <<limiterVars, phase, kind, gaugeVars, keyRequests, outcome>>

OverQuota(r) ==
  /\ ledger[r] = "refused"
  /\ Goes(r, "checking", "refusing")
  /\ UNCHANGED <<limiterVars, quotaVars, kind, gaugeVars, keyRequests, outcome>>

\* The check of the quota raised.
CheckRaises(r) ==
  /\ ledger[r] = "unchecked"
  /\ Goes(r, "checking", "answered")
  /\ UNCHANGED <<limiterVars, quotaVars, kind, gaugeVars, keyRequests, outcome>>

\* With a slot: the backend is chosen, and the release handed over to the stream
\* or to _handle_nonstreaming (_acquired = False).
Begins(r, from) ==
  /\ Goes(r, from, IF r \in Streaming THEN "opening" ELSE "posting")
  /\ active' = active + 1

Admitted(r) ==
  /\ ledger[r] = "passed"
  /\ Begins(r, "checking")
  /\ Limiter!Admit(r)
  /\ UNCHANGED <<quotaVars, kind, inFlight, keyRequests, outcome>>

Queued(r) ==
  /\ ledger[r] = "passed"
  /\ Goes(r, "checking", "queued")
  /\ Limiter!Enqueue(r)
  /\ UNCHANGED <<quotaVars, kind, gaugeVars, keyRequests, outcome>>

Overloaded(r) ==
  /\ ledger[r] = "passed"
  /\ Goes(r, "checking", "refusing")
  /\ Limiter!RejectOverload(r)
  /\ UNCHANGED <<quotaVars, kind, gaugeVars, keyRequests, outcome>>

QueueTimer(r) ==
  /\ Limiter!TimerFires(r)
  /\ UNCHANGED <<quotaVars, phase, kind, gaugeVars, keyRequests, outcome>>

\* acquire_slot ends in a waiting task: with a slot, a timeout or a cancellation.
Served(r) ==
  /\ slot[r] = "woken"
  /\ Begins(r, "queued")
  /\ Limiter!Resume(r)
  /\ UNCHANGED <<quotaVars, kind, inFlight, keyRequests, outcome>>

NotServed(r) ==
  /\ slot[r] \in {"expired", "handback"}
  /\ Goes(r, "queued", IF r \in cancelled THEN "answered" ELSE "refusing")
  /\ Limiter!Resume(r)
  /\ UNCHANGED <<quotaVars, kind, gaugeVars, keyRequests, outcome>>

RefusalLogged(r) ==
  /\ Goes(r, "refusing", "answered")
  /\ UNCHANGED <<limiterVars, quotaVars, kind, gaugeVars, keyRequests, outcome>>

-----------------------------------------------------------------------------
\* The stream.

StreamStarts(r) ==
  /\ Goes(r, "opening", "reading")
  /\ inFlight' = inFlight + 1
  /\ UNCHANGED <<limiterVars, quotaVars, kind, active, keyRequests, outcome>>

\* A chunk, or the event that reports a timeout or an error status.
Yields(r) ==
  /\ Goes(r, "reading", "yielding")
  /\ \E k \in {"", "upstream"} : kind' = [kind EXCEPT ![r] = k]
  /\ UNCHANGED <<limiterVars, quotaVars, gaugeVars, keyRequests, outcome>>

ChunkSent(r) ==
  /\ kind[r] = ""
  /\ Goes(r, "yielding", "reading")
  /\ UNCHANGED <<limiterVars, quotaVars, kind, gaugeVars, keyRequests, outcome>>

\* Faulty variant of Closes: the slot is kept until the log is written, and
\* then forgotten.
ClosesWithSlot(r, from, k) ==
  /\ Goes(r, from, "logging")
  /\ kind' = [kind EXCEPT ![r] = k]
  /\ active' = active - 1 /\ inFlight' = inFlight - 1
  /\ UNCHANGED <<limiterVars, quotaVars, keyRequests>>

\* The finally block of the stream, up to its first await.
Closes(r, from, k) ==
  /\ Goes(r, from, "logging")
  /\ kind' = [kind EXCEPT ![r] = k]
  /\ active' = active - 1 /\ inFlight' = inFlight - 1
  /\ Limiter!ReleaseSlot(r)
  /\ UNCHANGED <<quotaVars, keyRequests>>

StreamEnds(r) ==
  /\ Closes(r, "reading", "")
  /\ EndsAs(r, "complete")

\* httpx.RequestError but ReadTimeout: no except clause is made for it.
StreamBreaks(r) ==
  /\ Closes(r, "reading", "")
  /\ EndsAs(r, "brokeoff")

ErrorSent(r) ==
  /\ kind[r] # ""
  /\ Closes(r, "yielding", kind[r])
  /\ UNCHANGED outcome

\* The generator of a client that left is closed by the event loop: GeneratorExit.
Collected(r) ==
  /\ Closes(r, "orphaned", kind[r])
  /\ UNCHANGED outcome

-----------------------------------------------------------------------------
\* The end of a request.

\* _handle_nonstreaming has its answer, or has given up.
PostAnswers(r) ==
  /\ Goes(r, "posting", "logging")
  /\ \/ kind' = kind /\ EndsAs(r, "complete")
     \/ kind' = [kind EXCEPT ![r] = "upstream"] /\ UNCHANGED outcome
  /\ UNCHANGED <<limiterVars, quotaVars, gaugeVars, keyRequests>>

\* Faulty variant of Ends: the gauge stays up after an error.
EndsCounted(r, from) ==
  /\ Goes(r, from, "answered")
  /\ IF r \in Streaming THEN UNCHANGED <<limiterVars, active>>
     ELSE /\ active' = IF kind[r] = "" THEN active - 1 ELSE active
          /\ Limiter!ReleaseSlot(r)
  /\ UNCHANGED <<kind, inFlight, outcome>>

\* The task of r ends: without stream, the finally block of _handle_nonstreaming.
Ends(r, from) ==
  /\ Goes(r, from, "answered")
  /\ IF r \in Streaming THEN UNCHANGED <<limiterVars, active>>
     ELSE active' = active - 1 /\ Limiter!ReleaseSlot(r)
  /\ UNCHANGED <<kind, inFlight, outcome>>

Logged(r) ==
  /\ \/ /\ kind[r] = ""
        /\ Goes(r, "logging", "recording") /\ Quota!StartRecord(r)
        /\ UNCHANGED <<limiterVars, kind, gaugeVars, outcome>>
     \/ kind[r] # "" /\ Ends(r, "logging") /\ UNCHANGED quotaVars
  /\ UNCHANGED <<keyRequests>>

LogFails(r) ==
  /\ Ends(r, "logging")
  /\ UNCHANGED <<quotaVars, keyRequests>>

Recorded(r) ==
  /\ ledger[r] = "recorded"
  /\ Goes(r, "recording", "bumping")
  /\ UNCHANGED <<limiterVars, quotaVars, kind, gaugeVars, keyRequests, outcome>>

\* A recording raised: the hooks end, and with them the task.
RecordRaises(r) ==
  /\ ledger[r] = "unrecorded"
  /\ Ends(r, "recording")
  /\ UNCHANGED <<quotaVars, keyRequests>>

\* The update of the key's counters, carried out or not, ends the task.
Bumps(r) == Ends(r, "bumping") /\ keyRequests' \in {keyRequests, keyRequests + 1}

Bumped(r) ==
  /\ Bumps(r)
  /\ UNCHANGED quotaVars

-----------------------------------------------------------------------------
\* The client leaves: the task is cancelled where it is suspended.

LeavesEarly(r) ==
  /\ \E from \in {"limiting", "checking", "refusing"} : Goes(r, from, "answered")
  /\ UNCHANGED <<limiterVars, quotaVars, kind, gaugeVars, keyRequests, outcome>>

LeavesQueue(r) ==
  /\ phase[r] = "queued"
  /\ Limiter!Cancel(r)
  /\ UNCHANGED <<quotaVars, phase, kind, gaugeVars, keyRequests, outcome>>

\* Django is cancelled between the view's return and the first step of the
\* stream (response middleware, the headers being sent).  A generator that has
\* not begun has no finally block to run: nobody releases what it was to own.
LeavesUnstarted(r) ==
  /\ Goes(r, "opening", "dropped")
  /\ UNCHANGED <<limiterVars, quotaVars, kind, gaugeVars, keyRequests, outcome>>

LeavesWhileReading(r) ==
  /\ Closes(r, "reading", "client_disconnected")
  /\ UNCHANGED outcome

LeavesWhileYielding(r) ==
  /\ Goes(r, "yielding", "orphaned")
  /\ EndsAs(r, "abandoned")
  /\ UNCHANGED <<limiterVars, quotaVars, kind, gaugeVars, keyRequests>>

\* The database call that is under way is not undone: an update of the key's
\* counters may count, whatever becomes of its task.
LeavesLate(r) ==
  /\ \/ \E from \in {"posting", "logging", "recording"} :
          Ends(r, from) /\ UNCHANGED keyRequests
     \/ Bumps(r)
  /\ UNCHANGED quotaVars

\* The task of r was cancelled before; what is left of it ends by itself.
Gone(r) ==
  r \in cancelled \/ kind[r] = "client_disconnected" \/ outcome[r] = "abandoned"

Leaves(r) ==
  /\ ~Gone(r)
  /\ \/ LeavesEarly(r) \/ LeavesQueue(r) \/ LeavesLate(r)
     \/ LeavesUnstarted(r) \/ LeavesWhileReading(r) \/ LeavesWhileYielding(r)

\* Every task is done, and no call is under way.
Finished ==
  /\ \A r \in Requests : phase[r] \in {"answered", "dropped"} /\ ledger[r] \notin Quota!UnderWay
  /\ UNCHANGED vars

\* The steps a task takes by itself once its request has arrived.
Enters(r) ==
  RateAnswers(r) \/ CheckRaises(r) \/ OverQuota(r) \/ Admitted(r) \/ Queued(r) \/ Overloaded(r)
  \/ Served(r) \/ NotServed(r) \/ RefusalLogged(r)
Sends(r) == StreamStarts(r) \/ Yields(r) \/ ChunkSent(r) \/ ErrorSent(r)
Closing(r) == StreamEnds(r) \/ StreamBreaks(r) \/ Collected(r) \/ PostAnswers(r)
Settles(r) == Logged(r) \/ LogFails(r) \/ Recorded(r) \/ RecordRaises(r) \/ Bumped(r)

Next ==
  \/ \E r \in Requests :
       \/ Arrive(r) \/ Enters(r) \/ Sends(r) \/ Closing(r) \/ Settles(r)
       \/ QuotaThread(r) \/ QueueTimer(r) \/ Leaves(r)
  \/ Finished

Spec == Init /\ [][Next]_vars

\* The loop runs every ready task, worker threads run, the upstream and the
\* database answer or fail within their timeouts, a completion is finite.  No
\* queue timer is assumed to fire.
Fairness ==
  \A r \in Requests :
    /\ WF_vars(Enters(r)) /\ WF_vars(Sends(r)) /\ SF_vars(Closing(r))
    /\ WF_vars(Settles(r)) /\ WF_vars(QuotaThread(r))

FairSpec == Spec /\ Fairness

-----------------------------------------------------------------------------

At(phases) == {r \in Requests : phase[r] \in phases}

\* Request r has a slot in phase p; in "dropped", for good.
Owns(r, p) == p \in InStream \cup {"posting"} \/ (p \in Ending /\ r \notin Streaming)

Working == {r \in Requests : Owns(r, phase[r])}
Dropped == At({"dropped"})
Waiting == At({"queued"})

\* The requests whose user is, or has been, charged.
Charging == {"counting", "adding", "tallying", "storing", "recorded", "unrecorded"}
Charged == {r \in Requests : ledger[r] \in Charging}

TypeOK ==
  /\ Limiter!TypeOK /\ Quota!TypeOK
  /\ phase \in [Requests -> Phases]
  /\ kind \in [Requests -> Kinds]
  /\ active \in 0..MaxConcurrency /\ inFlight \in 0..MaxConcurrency
  /\ keyRequests \in Nat
  /\ outcome \in [Requests -> Outcomes]

\* A slot is held exactly by the requests that are being worked for, whoever
\* has to release it by then (handle, _stream_sse or _handle_nonstreaming) and
\* however they end (answer, error, failing log, cancellation, collection), and
\* by those whose stream was dropped before it began: these keep it for good.
SlotsFollowHandlers ==
  \A r \in Requests :
    /\ slot[r] = "held" <=> Owns(r, phase[r])
    /\ slot[r] \in Limiter!InDeque <=> phase[r] = "queued"

\* The gauges count the same requests, and the streams among them that have
\* started.
GaugesAreRight ==
  /\ active = Cardinality(Working)
  /\ inFlight = Cardinality(At(Started))

\* Semaphore and gauges, each of which is told on its own, agree at all times
\* on which requests are worked for, and lose by a dropped stream one slot and
\* one count each, and nothing anywhere else (chat_completion.py:215-285,
\* 404-461).
HandlersAreFollowed == SlotsFollowHandlers /\ GaugesAreRight

\* QUEUE_DEPTH is wrong by exactly the requests cancelled while they waited:
\* no timer, hand-back or late wake-up adds to that.
DepthIsOffByTheCancelled ==
  depth = Cardinality(Waiting) + Cardinality(cancelled \ Waiting)

\* No more than MaxConcurrency requests are worked for or dropped, and every
\* request that was cancelled while it waited takes one of the QueueSize - 1
\* places of the queue for ever: after as many cancellations nobody may wait
\* (concurrency.py:44-81).
LoadIsLimited ==
  /\ Cardinality(Working) <= MaxConcurrency
  /\ Cardinality(Waiting) + Cardinality(cancelled \ Waiting) < QueueSize

\* However the calls of several requests interleave in the cache, and fail in
\* it, the counters never exceed the recordings begun, the key's those that
\* were finished, and a recording is begun for no request but those whose
\* answer was complete and two kinds of exceptions: streams that broke off and
\* streams that were abandoned while a chunk was sent (chat_completion.py:393,
\* 483, limits.py:94-120; that the exceptions are charged is what
\* OnlySuccessIsCharged is about).
ChargesAreExplained ==
  /\ requestsUsed <= Cardinality(Charged)
  /\ tokensUsed <= Cardinality(Charged)
  /\ keyRequests <= Cardinality({r \in Requests : ledger[r] = "recorded"})
  /\ \A r \in Charged : outcome[r] \in {"complete", "brokeoff", "abandoned"}

\* Every request that arrives ends, with no queue timer to rely on, although
\* tasks are cancelled and the queue's gauge may stay up, unless every slot has
\* been lost to a stream that was dropped before it began.
EveryRequestEnds ==
  \A r \in Requests :
    phase[r] = "limiting" ~> \/ phase[r] \in {"answered", "dropped"}
                             \/ Cardinality(Dropped) = MaxConcurrency

\* What limits.py says of the counters: they move after a successful inference.
OnlySuccessIsCharged == \A r \in Charged : outcome[r] = "complete"

=============================================================================
