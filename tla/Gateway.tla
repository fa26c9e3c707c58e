------------------------------ MODULE Gateway ------------------------------
(***************************************************************************)
(* gateway/main.py: the handler of POST /v1/chat/completions, from the     *)
(* rate limit to the answer, with the ConcurrencyLimiter and BatchBarrier  *)
(* it goes through.  One action is what one task does between two awaits.  *)
(*                                                                         *)
(* Each request is one run of the handler.  What the upstream, redis and   *)
(* the client do is chosen freely; of a payload only "stream" is kept (the *)
(* backend changes nothing here: both share the limiter and the barrier).  *)
(* A client that leaves has an effect only while its stream is being sent: *)
(* until then the server does not interrupt the handler.                   *)
(***************************************************************************)
EXTENDS Integers, FiniteSets, Sequences

CONSTANTS
  Requests,
  MaxConcurrency, WakesAll, QueueSize,   \* of the limiter
  MaxBatch,                              \* of the barrier
  Streaming                              \* the requests with "stream": true

ASSUME GatewayAssumption ==
  /\ IsFiniteSet(Requests) /\ Streaming \subseteq Requests
  /\ MaxConcurrency \in Nat \ {0} /\ QueueSize \in Nat /\ MaxBatch \in Nat \ {0}
  /\ WakesAll \in BOOLEAN

VARIABLES
  value, waiters, slot, queueCount, depth,
  pending, timerGen, asleep, due, flushes, stage, batches, batched,
  handler,      \* where the handler of each request is suspended
  status,       \* its local variables status and err, or how it was refused
  active,       \* ACTIVE_INFERENCE_REQUESTS
  inFlight,     \* STREAMING_IN_FLIGHT
  records,      \* how many log records were created for each request
  left          \* the requests whose client left, for the properties only

limiterVars == <<value, waiters, slot, queueCount, depth>>
barrierVars == <<pending, timerGen, asleep, due, flushes, stage, batches, batched>>
gaugeVars == <<active, inFlight>>
vars == <<limiterVars, barrierVars, handler, status, gaugeVars, records, left>>

Limiter == INSTANCE ConcurrencyLimiter
Barrier == INSTANCE BatchBarrier

(***************************************************************************)
(* "limiting"  in consume_rate_limit                                       *)
(* "queued"    in acquire_slot                                             *)
(* "batching"  at the barrier                                              *)
(* "opening"   the StreamingResponse is returned, its generator not started*)
(* "reading"   the generator waits for the upstream                        *)
(* "yielding"  the generator waits for the server to send what it yielded  *)
(* "orphaned"  the same, and the task that iterated it has been cancelled  *)
(* "posting"   a request without stream waits for the upstream             *)
(***************************************************************************)
Dispatched == {"reading", "yielding", "orphaned", "posting"}
Holding == {"batching", "opening"} \cup Dispatched
HandlerStates == {"idle", "limiting", "queued", "answered"} \cup Holding

UpstreamErrors == {"upstream_http", "upstream_timeout", "upstream_unavailable"}
Refusals == {"rate_limited", "overload"}

\* What ends a request without a log record: a refusal, or an exception that no
\* except clause of the path without stream catches.
Unlogged == Refusals \cup {"raised"}
StatusValues == {"none", "ok", "client_disconnected"} \cup UpstreamErrors \cup Unlogged

At(states) == {r \in Requests : handler[r] \in states}

GatewayInit ==
  /\ handler = [r \in Requests |-> "idle"]
  /\ status = [r \in Requests |-> "none"]
  /\ active = 0 /\ inFlight = 0
  /\ records = [r \in Requests |-> 0]
  /\ left = {}

Init == Limiter!Init /\ Barrier!Init /\ GatewayInit

-----------------------------------------------------------------------------

Goes(r, from, to) == handler[r] = from /\ handler' = [handler EXCEPT ![r] = to]

Arrive(r) ==
  /\ Goes(r, "idle", "limiting")
  /\ UNCHANGED <<limiterVars, barrierVars, status, gaugeVars, records, left>>

\* A 429, or a 500 if the rate limiter raised.
RateLimited(r) ==
  /\ Goes(r, "limiting", "answered")
  /\ status' = [status EXCEPT ![r] = "rate_limited"]
  /\ UNCHANGED <<limiterVars, barrierVars, gaugeVars, records, left>>

\* From the answer of the rate limiter to the barrier, with no await that
\* suspends: a free slot is taken.
Admitted(r) ==
  /\ Goes(r, "limiting", "batching")
  /\ Limiter!Admit(r)
  /\ Barrier!Enter(r)
  /\ UNCHANGED <<status, gaugeVars, records, left>>

Queued(r) ==
  /\ Goes(r, "limiting", "queued")
  /\ Limiter!Enqueue(r)
  /\ UNCHANGED <<barrierVars, status, gaugeVars, records, left>>

\* No room to wait, or no slot in time: a 503.
Refused(r) ==
  /\ Goes(r, "limiting", "answered")
  /\ Limiter!RejectOverload(r)
  /\ status' = [status EXCEPT ![r] = "overload"]
  /\ UNCHANGED <<barrierVars, gaugeVars, records, left>>

QueueTimer(r) ==
  /\ Limiter!TimerFires(r)
  /\ UNCHANGED <<barrierVars, handler, status, gaugeVars, records, left>>

\* acquire_slot returns in a waiting handler: on to the barrier, or a 503.
Served(r) ==
  /\ slot[r] = "woken"
  /\ Goes(r, "queued", "batching")
  /\ Limiter!Resume(r)
  /\ Barrier!Enter(r)
  /\ UNCHANGED <<status, gaugeVars, records, left>>

TimedOut(r) ==
  /\ slot[r] \in {"expired", "handback"}
  /\ Goes(r, "queued", "answered")
  /\ Limiter!Resume(r)
  /\ status' = [status EXCEPT ![r] = "overload"]
  /\ UNCHANGED <<barrierVars, gaugeVars, records, left>>

BarrierStep ==
  /\ Barrier!BarrierTask
  /\ UNCHANGED <<limiterVars, handler, status, gaugeVars, records, left>>

\* batcher.wait() returns.  A request without stream calls the upstream in the
\* same step; the generator of a stream is started later.
Dispatch(r) ==
  /\ Barrier!Resume(r)
  /\ IF r \in Streaming
     THEN /\ Goes(r, "batching", "opening")
          /\ UNCHANGED <<status, active>>
     ELSE /\ Goes(r, "batching", "posting")
          /\ status' = [status EXCEPT ![r] = "ok"]
          /\ active' = active + 1
  /\ UNCHANGED <<limiterVars, inFlight, records, left>>

StreamStarts(r) ==
  /\ Goes(r, "opening", "reading")
  /\ status' = [status EXCEPT ![r] = "ok"]
  /\ active' = active + 1
  /\ inFlight' = inFlight + 1
  /\ UNCHANGED <<limiterVars, barrierVars, records, left>>

\* The generator yields a chunk, or the event that reports an error of kind s;
\* after a chunk it reads on, after an error it ends.
Yields(r) ==
  /\ Goes(r, "reading", "yielding")
  /\ \E s \in {"ok"} \cup UpstreamErrors : status' = [status EXCEPT ![r] = s]
  /\ UNCHANGED <<limiterVars, barrierVars, gaugeVars, records, left>>

ChunkSent(r) ==
  /\ status[r] = "ok"
  /\ Goes(r, "yielding", "reading")
  /\ UNCHANGED <<limiterVars, barrierVars, status, gaugeVars, records, left>>

\* Faulty variants of Finish: the slot is kept; the slot is given back with
\* nobody woken.
FinishKeepsSlot(r, from, s) ==
  /\ Goes(r, from, "answered")
  /\ status' = [status EXCEPT ![r] = s]
  /\ active' = active - 1
  /\ inFlight' = IF r \in Streaming THEN inFlight - 1 ELSE inFlight
  /\ records' = [records EXCEPT ![r] = @ + 1]
  /\ UNCHANGED <<limiterVars, barrierVars>>

FinishReleasesTwice(r, from, s) ==
  /\ Goes(r, from, "answered")
  /\ status' = [status EXCEPT ![r] = s]
  /\ active' = active - 1
  /\ inFlight' = IF r \in Streaming THEN inFlight - 1 ELSE inFlight
  /\ records' = [records EXCEPT ![r] = @ + 1]
  /\ value' = value + 2
  /\ slot' = [slot EXCEPT ![r] = "none"]
  /\ UNCHANGED <<waiters, queueCount, depth, barrierVars>>

\* The end of a dispatched request with status s, the finally blocks included:
\* gauges down, one log record, slot released.
Finish(r, from, s) ==
  /\ Goes(r, from, "answered")
  /\ status' = [status EXCEPT ![r] = s]
  /\ active' = active - 1
  /\ inFlight' = IF r \in Streaming THEN inFlight - 1 ELSE inFlight
  /\ records' = [records EXCEPT ![r] = @ + 1]
  /\ Limiter!ReleaseSlot(r)
  /\ UNCHANGED <<barrierVars>>

PostEnds(r) ==
  /\ \E s \in {"ok"} \cup UpstreamErrors : Finish(r, "posting", s)
  /\ UNCHANGED left

\* An exception that is not an httpx.RequestError: without stream, the gauge and
\* the record are not in a finally block, and only the slot is given back.
PostRaises(r) ==
  /\ Goes(r, "posting", "answered")
  /\ status' = [status EXCEPT ![r] = "raised"]
  /\ Limiter!ReleaseSlot(r)
  /\ UNCHANGED <<barrierVars, gaugeVars, records, left>>

\* The last chunk; or an exception that no except clause catches, after an error
\* status if it was the body of the error that could not be decoded.
StreamEnds(r) ==
  /\ \E s \in {"ok", "upstream_http"} : Finish(r, "reading", s)
  /\ UNCHANGED left

ErrorSent(r) ==
  /\ status[r] \in UpstreamErrors
  /\ Finish(r, "yielding", status[r])
  /\ UNCHANGED left

\* The client leaves while the generator awaits the upstream: CancelledError.
LeavesWhileReading(r) ==
  /\ Finish(r, "reading", "client_disconnected")
  /\ left' = left \cup {r}

\* The client leaves while a chunk is sent: the task that iterates the generator
\* is cancelled and the generator stays where it yielded.
LeavesWhileYielding(r) ==
  /\ Goes(r, "yielding", "orphaned")
  /\ left' = left \cup {r}
  /\ UNCHANGED <<limiterVars, barrierVars, status, gaugeVars, records>>

\* Faulty variant of Collected: the generator is dropped without its finally.
CollectedSilently(r) ==
  /\ Goes(r, "orphaned", "answered")
  /\ UNCHANGED <<limiterVars, barrierVars, status, gaugeVars, records, left>>

\* The event loop closes a generator that nobody refers to: GeneratorExit, which
\* no except clause catches, and the finally block with status as it was.
Collected(r) ==
  /\ Finish(r, "orphaned", status[r])
  /\ UNCHANGED left

Finished ==
  /\ At({"answered"}) = Requests
  /\ asleep = <<>> /\ due = <<>> /\ flushes = 0
  /\ UNCHANGED vars

\* The steps a handler takes by itself once it has arrived.
Enters(r) == RateLimited(r) \/ Admitted(r) \/ Queued(r) \/ Refused(r)
Leaves(r) == Served(r) \/ TimedOut(r)
Sends(r) == ChunkSent(r) \/ ErrorSent(r) \/ LeavesWhileYielding(r)
Ends(r) ==
  PostEnds(r) \/ PostRaises(r) \/ StreamEnds(r) \/ LeavesWhileReading(r) \/ Collected(r)

Next ==
  \/ \E r \in Requests :
       \/ Arrive(r) \/ Enters(r) \/ QueueTimer(r) \/ Leaves(r)
       \/ Dispatch(r) \/ StreamStarts(r) \/ Yields(r) \/ Sends(r) \/ Ends(r)
  \/ BarrierStep
  \/ Finished

Spec == Init /\ [][Next]_vars

\* The loop runs every ready task, redis answers, httpx's timeouts bound every
\* wait for the upstream, the server sends or gives up, and CPython collects an
\* orphaned generator.  A completion is finite: a stream that keeps coming back
\* to read ends.  No queue timer is assumed to fire.
Fairness ==
  /\ WF_vars(BarrierStep /\ Barrier!TimerElapses)
  /\ WF_vars(BarrierStep /\ Barrier!RunTimer)
  /\ WF_vars(BarrierStep /\ Barrier!RunFlush)
  /\ \A r \in Requests :
       /\ WF_vars(Enters(r)) /\ WF_vars(Leaves(r)) /\ WF_vars(Dispatch(r))
       /\ WF_vars(StreamStarts(r)) /\ WF_vars(Sends(r)) /\ SF_vars(Ends(r))

FairSpec == Spec /\ Fairness

-----------------------------------------------------------------------------

TypeOK ==
  /\ handler \in [Requests -> HandlerStates]
  /\ status \in [Requests -> StatusValues]
  /\ active \in Nat /\ inFlight \in Nat
  /\ records \in [Requests -> Nat]
  /\ left \subseteq Streaming

\* A slot is held exactly by the handlers between acquire_slot and the end of
\* their request, over every error path, disconnect and orphaned generator; a
\* handler waits in the limiter's queue exactly while it is in acquire_slot
\* (main.py:375-384, 513-514, 622-623).
SlotsFollowHandlers ==
  \A r \in Requests :
    /\ slot[r] = "held" <=> handler[r] \in Holding
    /\ slot[r] \in Limiter!InDeque <=> handler[r] = "queued"

\* The barrier and the limiter agree on where a handler is.
StagesFollowHandlers ==
  \A r \in Requests : stage[r] \in {"waiting", "released"} <=> handler[r] = "batching"

Raised == {r \in Requests : status[r] = "raised"}

\* The gauges show how many requests the upstream is working for; the first of
\* them goes on counting those without stream that ended in an exception.
GaugesAreRight ==
  /\ active = Cardinality(At(Dispatched) \cup Raised)
  /\ inFlight = Cardinality(At(Dispatched) \cap Streaming)

\* Each dispatched request leaves one log record when it ends, but a refused one
\* and one without stream that ended in an exception none, and only a client that
\* left is recorded as disconnected (main.py:432-457, 497-512, 603-620).
RecordsFollowHandlers ==
  \A r \in Requests :
    /\ records[r] = IF handler[r] = "answered" /\ status[r] \notin Unlogged THEN 1 ELSE 0
    /\ status[r] = "client_disconnected" => handler[r] = "answered" /\ r \in left
    /\ status[r] = "raised" => handler[r] = "answered" /\ r \notin Streaming

\* The limiter, the barrier, the gauges and the log, each of which is told on
\* its own, agree at all times on where every handler is, over every error,
\* timeout, disconnect and generator that is closed late, with one exception:
\* what is not in a finally block (main.py:576, 603) is skipped by an exception
\* nobody expects, which leaves the gauge up (main.py:342-623).
HandlersAreFollowed ==
  SlotsFollowHandlers /\ StagesFollowHandlers /\ GaugesAreRight /\ RecordsFollowHandlers

\* However requests arrive and end, no more than inference_max_concurrency of
\* them are past the limiter, at the barrier, talking to the model server or in
\* a generator that nobody iterates any more, and no more than
\* inference_queue_size wait for it (concurrency.py:22-64 behind main.py:375).
LoadIsLimited ==
  /\ Cardinality(At(Holding)) <= MaxConcurrency
  /\ Cardinality(At({"queued"})) <= QueueSize

\* A request waits at the barrier with its slot in hand, so a batch is never
\* larger than the slots; where there are fewer slots than batch_max_size (the
\* defaults are 4 and 8, docker-compose.yml sets 48 and 128) no batch is ever
\* full, and what a waiting request relies on is the timer of its window
\* (batcher.py:88-89 behind main.py:375-384).
BatchesFitTheSlots ==
  /\ Len(pending) <= MaxConcurrency
  /\ MaxConcurrency < MaxBatch =>
       /\ flushes = 0
       /\ pending # <<>> => \E t \in Barrier!Windows : t.gen = timerGen

\* Every request that arrives is answered, with no queue timer to rely on.
EveryRequestIsAnswered ==
  \A r \in Requests : handler[r] = "limiting" ~> handler[r] = "answered"

=============================================================================
