# A verification project for the AI inference gateway platform

TLA+ modules that model the platform's concurrent core, the TLC configurations
that check them on small instances, and theorems about them that the TLAPS proof
system checks for all instances. Everything is translated from the Python source
under `src/`; line numbers below refer to it.

- [The system](#the-system): its parts, their state, what makes them hard
- [The modules](#the-modules): how each corresponds to the code
- [The runs](#the-runs): what each checks, the bounds, the fairness
- [The proofs](#the-proofs): what holds for all instances, and why
- [What the checks found](#what-the-checks-found)
- [What is not modelled](#what-is-not-modelled), and [the plan](#the-plan)

## The system

Two Python processes serve chat completions from local model servers (llama.cpp
or vLLM), and share a PostgreSQL database and redis:

- the **gateway** (`deploy/gateway/gateway/`, FastAPI, one uvicorn worker) serves
  the programmatic API `/v1/chat/completions` to holders of API keys;
- the **Django application** (`apps/`, one uvicorn worker) serves the browser's
  chat (`/ui/v1/chat/completions`), manages keys and users, ingests documents for
  retrieval (RAG), and runs scheduled agents.

| component | state | operations | what must hold |
|---|---|---|---|
| gateway limiter, `gateway/concurrency.py` | semaphore, `_queue_count`, `QUEUE_DEPTH` gauge | `acquire_slot`, `release_slot` | no slot lost or duplicated; the count bounds the waiting; no lost wake-up; service in order |
| batch barrier, `gateway/batcher.py` | `_pending`, `_gen`, tasks on the loop, totals | `wait`, `_timer_flush`, `_flush` | nobody stranded; no window cut short; the efficiency gauge is a ratio of what happened |
| gateway handler, `gateway/main.py` | tasks, generators, gauges, log records | `chat_completions`, `event_stream` | slot, gauges and log agree on every exit; load within the limit; every request answered |
| rate limiters, `gateway/limits.py`, `api_keys/services/limits.py` | a counter per key and minute, one in redis for the gateway, one in Django's cache | `consume_rate_limit` | a minute admits no more than the limit, and refuses nobody below it, whatever fails |
| router, configuration | none | pure | |
| Django limiter, `inference/services/concurrency.py` | semaphore, `QUEUE_DEPTH` as the count | `acquire`, `release` | as the gateway's, and cancellation |
| quotas, `api_keys/services/limits.py` | two cache counters per user and day | `check_user_daily_quota`, `record_user_quota_success` | the counters never exceed the recordings begun; only complete answers are recorded, with named exceptions; limits respected |
| Django chat service, `inference/services/chat_completion.py` | tasks, generators, gauges | `handle`, `_handle_nonstreaming`, `_stream_sse` | slot and gauges on every exit; every charge has its cause; every request ends |
| API keys, `api_keys/`, `gateway/crypto_auth.py` | a row per key, audit entries | create, revoke, delete, edit in the admin site, verify, touch | a revoked key is refused; uses are counted; changes are audited |
| RAG, `rag/` | document rows, chunks in ChromaDB, files; a queue and one worker thread | upload, process, delete, search, complete | a ready document is complete; no chunk without its document; every upload settles; chunks hold the whole text; an answer is well formed and cites what the model was shown |
| agents, `agents/` | agents, runs, results; a gauge per process | scheduler, runner, pipelines, views | a completed row tells the truth; a settled run stays settled; every run settles; only duplicates are dropped, and the best results are stored with their own scores |
| observability, dashboard, benchmarks, deployment | none of their own | | |

Interactions. A gateway request passes the rate limiter (redis), takes a slot from
the limiter, waits at the barrier with the slot in hand, and only then calls the
model server; its answer or stream ends by adjusting gauges, creating a log task and
giving the slot back. The barrier's callback updates module-level totals. In Django
a request passes the rate limiter and the quota check (worker threads), takes a slot
from Django's own limiter, calls the model server, writes a log row, and only then
charges user and key. The key is one row that both processes read: the gateway at
every request, Django with the user's profile; the admin site reads and writes it whole.

What is hard. Everything above runs on an event loop where a task is interrupted at
awaits and nowhere else, but awaits are everywhere: a slot can be given to a task
whose timer has already fired; a timer or a flush task can outlive the batch it was
made for; a generator suspended at a `yield` runs nothing when its client leaves,
until the event loop closes it; Django cancels the task of a request whose client
left at whatever await it is in, while the database and cache calls it started go on
in their threads. Exits differ in what they must undo, and in who undoes it. Documents and
agents add stores that no transaction spans, rows that are deleted under the feet of those
who work on them, objects saved whole from an old reading, and processes that end in between.

## The modules

| module | models | in terms of |
|---|---|---|
| `AsyncioSemaphore` | `asyncio.Semaphore` under `wait_for`, as the two limiters use it (external) | `value`, `waiters`, and `slot[r]`, what request r has to do with it |
| `SlotPool` | what a limiter promises, abstractly: a set of users and a line | |
| `ConcurrencyLimiter` | `gateway/concurrency.py` | adds `queueCount` (`_queue_count`) and `depth` (`QUEUE_DEPTH`) |
| `GroupBarrier` | what the barrier promises: those who wait pass together | |
| `BatchBarrier` | `gateway/batcher.py` | `pending`, `timerGen`, `stage[r]`, the timers and flush tasks there are, the totals |
| `Gateway` | the handler of `gateway/main.py`; composes `ConcurrencyLimiter` and `BatchBarrier` by `INSTANCE` | `handler[r]`, `status[r]`, gauges, `records[r]`, `left` |
| `ChatLimiter` | `apps/inference/services/concurrency.py` | the semaphore, `depth` and `cancelled` |
| `UserQuota` | `apps/api_keys/services/limits.py`, the daily counters | `requestsUsed`, `tokensUsed`, and where each request's calls are (`ledger`, `seen`) |
| `ChatService` | `ChatCompletionService` and its hooks; composes `ChatLimiter` and `UserQuota` | `phase[r]`, `kind[r]` (`error_kind`), gauges, `keyRequests`, and `outcome[r]`, what the code does not tell of how an answer ended |
| `AgentRuns` | `AgentRunner.run_agent`, the two pipelines, delivery, the views that change agents | the rows (`agent`, `rows`, `results`), `stage[r]` and `local[r]` of each handler, `gauge` per process |
| `Collection` | what a run collects, drops, ranks, sums up and stores: the sources, `dedup`, `ranking`, the two pipelines, `digest` | `items`, `kept`, `scored`, `ranked`, `stored`: one list after the other |
| `RateLimiter` | `consume_rate_limit` of the gateway and of Django, the clock and the expiry of counters | `count` and `expiry` per path and minute, `check[r]` |
| `ApiKeys` | `create_api_key`, `revoke_api_key`, `delete_api_key`, the admin site, and the requests that use the key; extends `RateLimiter` | `row`, `audit`, and where each creator, form, operator and request is |
| `Chunker` | `chunk_document`, `_compute_overlap`, `chunk_pages`, as operators | sentences with their lengths and the gap before them |
| `RagCompletion` | `rag_chat_completions` and `rag_completion_stream` | `step`, `hits`, the events `sent`, the requests (`calls`) to the upstream |
| `RagAnswers` | both: a corpus that `Chunker` has stored, and a question that `RagCompletion` answers | `pages`, `stored` |
| `RagIngestion` | upload, `_sync_process`, deletion | the three stores (`row` and `count`, `chunks`, `file`), and where each upload, the worker and each deletion is |
| `MC...` | instances for TLC | |
| `...Proofs` | theorems | |

One action is what one task does from one await to the next, all the calls it makes
included. The names of actions say what happens (`StreamEnds`, `LeavesWhileYielding`);
`Goes(r, from, to)` moves request r's task. Definitions introduced as *faulty variant
of* X are plausible mistakes in X, used only to see that the properties notice.

Correspondences worth knowing when reading the modules beside the code:

- **Slots.** `slot[r]` unfolds the state of a waiting future: `pending`, `woken` (its
  future has a result, its task has not run yet), `expired` (the future was cancelled
  by `wait_for`'s timer), `handback` (cancelled after the wake-up: the slot must go
  back). `WakesAll` chooses between the two versions of `Semaphore.acquire` that the
  unpinned Python can have: on its way out a resumed waiter wakes as many others as there are
  slots, or one at most.
- **Barrier.** A timer carries the generation it was started for, because what it does when it runs
  depends on `_timer_gen`; what a flush task does depends on nothing, so that they are only counted.
- **Gateway exits.** `Finish` is the `finally` of `event_stream` or of the non-streaming
  path, which every ending goes through but one: without stream, gauge and record stand
  behind the `try` block of the request to the model server and not in a `finally`
  (`main.py:576, 603`), so that an exception nobody expects skips them (`PostRaises`). A client that leaves while a chunk is being
  sent (`LeavesWhileYielding`) leaves an *orphaned* generator; `Collected` is the event
  loop closing it.
- **Django exits.** `Closes` is the `finally` of `_stream_sse` up to its first await: it
  frees the slot; log, quota and key follow as `Logged`, `Recorded`, `Bumped`.
  Without stream, `Ends` frees the slot after all of them. Between the view's return and the
  first step of its stream (phase `opening`) Django may be cancelled; the generator has not begun
  and has no `finally` to run (`LeavesUnstarted`, phase `dropped`). `StreamBreaks` is an
  `httpx.RequestError` other than `ReadTimeout`, which `stream_chat_completion` does
  not convert (`llama_cpp.py:79`).
- **Quota.** Every access to the cache is an action, since calls run in the
  threads of their own requests, and each may raise, carried out or not. `cache.incr` fails without a
  key (`requestsUsed = 0`).

- **Agents.** An action of a handler is one access to the database or the network, with the
  code up to the next. `Configure` is outside the `try` block and after the increment of
  the gauge, `Fail` to `Notify` are the `except` block, `Leaves` the `finally`. `run.save()`
  without `update_fields` updates or inserts (`Complete`), as does `agent.save()` in an edit
  (`EditSaves`); `save(update_fields=...)` raises when there is no row (`Stamp`, `Fail`,
  `FailStamp`). Both pipelines take the steps of `Pipeline`.
- **Documents.** A step is one access to the database, ChromaDB or the disk. An access may
  raise without effect; adding a batch may also take effect and raise (its answer was lost).
  `Clear` and `LookUp`/`RemoveChunks` are the two callers of `delete_document_chunks`,
  which swallows errors. `Crash` forgets the queue, the worker and the views in progress.
- **Texts.** A text is a sequence of sentences with lengths; `gap` is what stands before a
  sentence, one character within a paragraph and two between paragraphs. `Fits` is the
  comparison of the code, which always counts one. Ids are positions in the document, as
  `chunk_pages` numbers them, and `Stored` is the collection after `store_chunks`.
- **Answers.** Every `yield` of the generator is an action. `Raise` is any exception in it;
  the view turns it into a last event (`SendError`). A request to the model server is its system prompt,
  known by what is left of it (the labels of the sources, the length, and whether the instructions, which
  stand behind the context, are still there), the client's messages that go with it, which are never cut, and the tokens asked for.
- **Keys.** One access to the database, redis or the cache is an action. A form of the admin
  site is filled (`OpenForm`), comes back and reads the row again (`SubmitForm`), and saves
  all of it, as UPDATE or INSERT (`SaveForm`). `Counters` has one counter per path: both
  processes use the same names in the same redis, but Django's cache puts a prefix before
  them, so that each counts its own requests only.
- **Collected items.** An item is its URL and title; what a source can produce is a set
  (`HackerNews`, `Rss`, ...). `Sifted` is the loop around `is_duplicate`, as a recursive function along
  the items. A list that the code sorts is the items by their places (`InOrder`), equals as they were.
- **History variables.** `cascaded`, `abandoned`, `leaked`, `reported`, `unheard` (agents), `outcome` (chat service),
  `left` (gateway), `gone`, `overwritten`, `raced` (keys) and `begun`, `raced`, `lost` (documents) record what has
  happened for the properties to speak of; no guard reads them, but that of a departure in Django (`Gone`): a task
  is cancelled once. `missing` counts the messages of a digest that have not arrived.

What is abstracted: payloads and their validation, wording of answers, token counting
(an inference costs one unit), the ranges of temperature and the like, labels of metrics, histograms, log output, which of two
identical upstream clients serves. The answers of redis, the database and the model
server are chosen freely.

## The runs

| run | instance | what it shows |
|---|---|---|
| `limiter` | 7 requests, 3 slots, queue of 3, symmetry | slots conserved, no lost wake-up, count and gauge truthful, first come first served, implements `SlotPool` |
| `barrier` | 5 requests, batches of 3, fairness | nobody stranded or released by a stale timer; implements `GroupBarrier`; everybody passes |
| `gateway` | 4 requests (2 streams), 2 slots, queue of 1, batches of 2, symmetry | slots, stages, gauges and records follow the handlers; the load stays within slots and queue |
| `gateway_live` | 3 requests (2 streams), 1 slot, queue of 2, older semaphore, fairness | every request that arrives is answered; with fewer slots than places in a batch none is ever full |
| `chat` | 3 requests (1 stream), 1 slot, queue size 2, older semaphore, limits of 2 and 1, fairness | slots and gauges follow the handlers, the queue's gauge is off by the cancelled, which is what they take from its places; every charge has its cause; every request that arrives ends, unless all slots were lost to dropped streams |
| `agents` | 1 scheduled run, 1 run-now, 1 result, digests of up to 2 messages, fairness | completed rows tell the truth; gauges; rows are settled by their handlers and stay settled; every run settles |
| `rag` | 2 documents, 2 deletions, up to 2 batches, fairness | a ready document is complete; orphaned chunks have one of two causes; every upload settles |
| `answers` | 2 documents, the first with any of 841 pages; 7 kinds of question; top 2; fairness | chunks cover the pages and are bounded; the stream is well formed and ends; the model is shown the best of what is cited; every piece is grounded in it, a retry's included |
| `keys` | 1 key, 1 creator, 1 form, 1 operator, 2 requests, limits 0 and 1, 3 minutes, symmetry | limits kept, refusals fair, no access after revocation, uses counted, changes audited |
| `collect` | 3 URLs and 3 titles; two sources together or each of the others alone; 2 results; 3 scores; symmetry | only duplicates are dropped; results carry their own score and summary; the best are stored |
| `chat_charge`, `rag_deleted` | 3 requests (2 streams) with 2 slots; the instance of `rag` | each finds a counterexample to a documented promise, [below](#what-the-checks-found) |

**Bounds.** Sets of actors and limits of the code are bounded by the instance; counters by what
the actors do. `MaxMinute`, `MaxPieces`, `MaxAnswer` and `MaxBatches` are bounds of the
models: on the minutes that pass, the pieces of a stream, the answer of a source, the batches of a
document. In `limiter` seven requests
make room for all slots taken, a full queue and a refused request; three slots allow
releases in a row before a woken task runs. In `barrier` five requests and batches of
three give a full batch, one left over, and stale timers and flush tasks of an earlier
generation. In `gateway` each of the kinds (streaming, not streaming) contends with its own
and with the other; a batch can be full or short; one request can be refused. In
`chat` one slot suffices for queueing, and the stream's recording still overlaps with
the next request, as it frees its slot first; the limits of 2 requests and 1 token
let the second and the third request be refused by either; the queue size of 2 is 1 place because
the code refuses at `depth + 1 >= QueueSize` (`concurrency.py:47`). A request does not
come back after it has been answered: a second request of the same client is another request.

In `agents` the scheduled and the manual run may overlap, and one agent with one edit
in progress is what they contend for; one result and two messages separate *none*, *some*
and *all*. In `rag` the two deletions may be of one document or of two, one document can be
queued behind another, and two batches let the second fail after the first. A document
that was deleted is not uploaded again: an upload makes a new document.

In `answers` the lengths are chosen around a chunk of 7 and an overlap of 3: sentences that exceed a
chunk (9) or fill it with and without the one that `Fits` adds, half chunks, and pages of up to three paragraphs, so
that a paragraph can start, join and overflow a chunk; the context of 22 holds one or two of
the best chunks but not any two. In `keys` two requests with a limit of 1 are one admitted and one refused
of the same counter, or the two sides of the change of the minute; in the third minute a counter of
the first has expired, and so has the key. `ApiKeysProofs` has the same for any number. In `collect` three
items of which two are results tell duplicates by URL from duplicates by title, and what is cut before the
ranking from what is cut after.

**Deadlock** is checked in all runs but `agents`, `keys` and `collect`: in the composed models `Finished` stutters only when
every task is done, in the component models a request can always be released or arrive, and a server can always
be restarted. In `agents` the agent may be deleted when both runs are over, in `keys` the last minute
may be over and all visits and requests be done, in `collect` the run ends: nothing is left to do.

**Fairness** is stated per task step, and only where the code's scheduling gives it:

- the event loop runs every task that is ready (weak fairness of its next step), and
  worker threads run;
- the model server, redis and the database answer or fail: `httpx` timeouts bound each
  wait, so a request at the upstream is not there for ever;
- a completion is finite: a stream that comes back to read again and again ends (strong
  fairness of the ending, since reading and yielding alternate);
- CPython collects an orphaned generator, and the event loop closes it;
- the batching window elapses (`asyncio.sleep` returns);
- a run of an agent that has started goes on: its sources, models and Telegram are called
  with timeouts, so each step returns or raises;
- the worker thread and the task of an upload go on; ChromaDB, the database and the parser
  answer or fail. Deletions are not assumed to finish;
- the generator of a RAG answer goes on, and its upstream sends a piece, ends or runs into the read timeout.

No queue timer is assumed to fire: that waiting requests get on is shown to follow from
the slots alone. Nothing forces a client to leave or a request to arrive.

## The proofs

For every set of requests, every limit and both semaphores (assumptions:
`SemaphoreAssumption` and the other named `ASSUME`s: finitely many requests, positive limits),
for any number of documents, batches and deletions, of creators, forms and operators of a key,
of runs of an agent, for sources, items and scores of any number, and for pages, questions and settings of any kind:

| module | theorem | says |
|---|---|---|
| `ConcurrencyLimiterProofs` | `TypeCorrect`, `SlotsAreConserved`, `QueueIsRight`, `WakeUpsAreNeverLost`, `ServedInOrder`, `LimiterImplementsPool` | the limiter's invariants, the action property, and `Spec => Pool!Spec` |
| `BatchBarrierProofs` | `TypeCorrect`, `NobodyIsStranded`, `TimersKeepToTheirWindow`, `EfficiencyIsRight`, `BarrierImplementsGroup` | the barrier's invariants and its refinement |
| `GatewayProofs` | `SlotsFollow`, `StagesFollow`, `TypeCorrect`, `HandlersFollowed`, `LoadStaysLimited`, `BatchesFit` | slots, stages, gauges and records follow the handlers; the load is limited, and with it the batches |
| `ChatServiceProofs` | `TypeCorrect`, `ChatSlotsFollow`, `HandlersFollowed`, `ChargesHaveTheirCause`, `DepthCountsTheCancelled`, `SlotsAreConserved`, `WakeUpsAreNeverLost`, `LoadStaysLimited` | the chat service's invariants, and those of its limiter |
| `RagIngestionProofs` | `TypeCorrect`, `ReadyDocumentsAreComplete`, `OrphansHaveACause` | the invariants of the documents |
| `ApiKeysProofs` | `TypeCorrect`, `LimitsAreKept`, `RefusalsAreFair`, `RevocationHolds`, `UsesAreRight`, `AuditIsKept` | the invariants of keys and rate limits |
| `AgentRunsProofs` | `TypeCorrect`, `CompletedRowsTell`, `GaugesCount`, `HandlersSettle`, `SettledForGood` | the invariants of runs, and that a settled run stays settled |
| `RagAnswersProofs` | `NothingIsLost`, `NothingIsTooLong`, `TypeCorrect`, `OneAnswer`, `AnswersStayGrounded`, `TheBestAreShown` | what the chunker makes of any page, and what an answer makes of the chunks |
| `AgentRunsProofs`, second part | `CollectionTypeCorrect`, `NothingElseIsDropped`, `ResultsOwnTheirScores`, `TheBestAreStored` | what a run collects, drops, ranks and stores |

The arguments, in short:

- **Limiter.** The inductive invariant joins the type invariant, the deque's consistency
  (each waiting request once), conservation, and *no lost wake-up*. Conservation alone is
  not inductive: that `value` stays at or above zero needs that a wake-up is given only to
  pending requests, one per slot handed on, and that the value is positive when a slot is taken
  at once. No lost wake-up needs, for the older semaphore, that a resumed task which takes
  or hands back a slot tries one more wake-up.
- **One semaphore, two limiters.** What the semaphore needs is in `SemaphoreInv`, which speaks of `value`,
  `waiters` and `slot` alone; one lemma for each of its operations (`AcquireNowKeeps` to `ReleaseKeeps`). The
  gateway's limiter adds its count, Django's takes the lemmas by `INSTANCE` and adds cancellation, which is
  `Expire` by another cause.
- **Load.** A composed module inherits the theorems of its parts through the lemmas `LimiterStep`
  and `BarrierStepOrStutter`: each of its steps is one of the limiter's and the barrier's or leaves them alone, by
  the way the module is built, so that both keep their invariants (`PartsKeepTheirPromise`). Who is past the limiter holds a slot, so `SlotsConserved` bounds their number;
  who waits at the barrier is past the limiter, so the list of the barrier is no longer than the
  slots. A flush task is made by a list of `MaxBatch` only (`NoFlushTask`).
- **Order and refinement.** The line of `SlotPool` is the set of pending requests; a wake-up
  chooses the first of the deque that are still pending, whence nobody is overtaken.
- **Barrier.** Whoever waits is in `pending`, once (`PendingIsWaiting`); `pending` is non-empty only if a timer
  of the current generation or a flush task exists. It is kept because the first to enter an empty barrier starts
  a generation and its timer, no timer is of a generation that is yet to come (`TimersAreDated`), and what runs
  without flushing is a timer of an older one.
- **Gateway and chat service.** `SlotInv` relates each request's place in the handler to its slot.
  A step of one request moves its own pair together; others change only from `pending` to
  `woken`, which the relation does not distinguish (lemma `SlotMove`). For the chat service
  it is strengthened by *only a streaming request is in a stream*, since the `finally` that owes the
  release depends on it. A dropped stream stays where it is, and with it its slot and its count.
- **Quota.** Each counter is covered by a set of requests that can only grow: those counted,
  those whose tokens have been stored, those whose task ended after. A token count read
  earlier is covered by the smaller set of that time, so the lost update between
  `cache.get` and `cache.set` loses charges but never invents one. That a charge has its cause rests on
  where `kind[r]` is `""` when the log has been written: with the upstream's answer complete, or at one of the two
  exits that set no `error_kind`.
- **Gauges.** A gauge equals the number of requests whose handler is at certain places. A step moves one
  request, so that the set gains or loses that one or neither (`FS_AddElement`, `FS_RemoveElement`),
  and the gauge with it; it never goes below zero since the one that lowers it is counted.
- **Rate limit.** The requests of one counter that were neither late nor missed by `add` hold
  distinct numbers, none above the count as long as the counter must live (`TimelyDiffer`,
  `TimelyBelowCount`). So at most n of them hold a number of n or less. In the other direction a
  count is backed by as many requests (`CountsAreBacked`): who is refused was preceded.
- **Keys.** What is gone is revoked or not there unless a form was saved over it; a form that holds an
  older reading is the only one that can do so (`KeyInv`). Each use is one touched request, and a
  saved reading has no more uses than the row had (`UsesFollow`).
- **Queue gauge.** `DepthInv` adds that a cancelled request is on its way out or gone.
  The theorem states the exact extent of the leak found below, and `LoadStaysLimited` what it costs: who waits
  and who was ever cancelled while waiting share the places of the queue.
- **Documents.** A document is in one place at a time: being uploaded, in the queue, with the worker,
  or done (`QueueInv`). Hence nothing of it is stored before the worker's first batch, and from there
  on its chunks are the batches stored so far, unless a deletion has begun (`ChunkInv`). A deletion
  past its lookup that met no ingestion and no error knows every chunk there is (`DeletionInv`), and
  a document whose row is gone is not ingested any more unless its deletion met it (`RowInv`), so
  nothing comes back after it.

- **Runs of agents.** `RunInv` says of each run where its row, its results and its digest are by the
  stage of its handler: while it works, the row says "running" unless it was deleted, and the stored
  results are those the handler has counted. That a completed row is true is not inductive alone:
  it rests on what the handler's locals say just before it writes (`DigestIsTracked`), and
  on the results of a row being gone only with the row (`cascaded`). A step of one handler leaves the
  others alone (`Untouched`); a deletion or a late edit touches all rows at once. The gauge of a
  process is the number of its handlers past the increment and of those it has leaked (`GaugesFollow`).
- **Chunks.** The loops of `chunk_document` are recursive functions on an interval of numbers. Neither
  that such a function exists (`Recursion`) nor induction along it (`UpTo`) can be had from the library's
  theorems with an operator as parameter; both are derived here for sets instead, from the least element that
  the well-foundedness of the naturals gives (`Least`). The loop invariant `Told(st, n, page)` says that the chunks done
  and the open one hold the first n sentences, each chunk begins inside or right behind the one before
  it, and what it repeats fits into the overlap (`Chunked`); one lemma for each of the four ways a chunk
  grows or begins (`Opened`, `Fitted`, `Overlapped`, `Flushed`). From one page to the collection:
  the chunks of the pages stand one behind the other (`PartsOfFlatten`), their new numbers are
  distinct, so none hides another in the store (`StoredIs`), and those of a page can be told (`TextsOfPage`).
- **Answers.** `AnswerInv` adds to the well-formedness of the stream what the generator may still send
  at each step, and what the requests made so far were built from. A cut takes the last of the
  parts first (`CutTakesTheLast`): the labels that survive are those of the first k hits, and k is at least 1 since
  a label fits (`LabelsFit`). A hit is lost from the first request only behind one that exceeds its size: if all
  before it are of the intended size, `AnswersAssumption` leaves room for its label (`NextFits`, `FirstShows`);
  the retry loses more only if it has cut (`CutShows`).

- **Collected items.** `Told(st, n)` is the loop invariant of deduplication: after n items, the kept ones have no
  text in common, what has been seen is made of texts of the first n, and each of those is kept or accounted for.
  To order a list is to number its places by how many come before them (`InOrder`); since who comes before is
  counted again for who comes after, different items have different numbers, and an injection of a finite set into as
  many numbers meets each (`RanksAre`). `RankInv` then says where each item to be stored stands in `kept` and with which score, whichever
  pipeline ranked it. That the score can be found again by URL or title rests on deduplication: no two kept items
  have a text in common, so that no two have the same key (`Key` is one of the two texts).

Assumptions beside those: pages consist of paragraphs whose sentences are numbered through
(`CorporaAssumption`, `IsPage`: the shape that splitting a text has), `max_tokens` is an integer
(`QuestionsAssumption`), sizes and limits are natural numbers, and so are scores, of which only the order counts (`ChunkerAssumption`,
`RagCompletionAssumption`, `CollectionAssumption`), and the
second request keeps at least the text before the context and one label (`RetryChars >= Preamble + Label`, 2000
against the template's first lines and one `[Source: ...]`).

**Only model-checked**: liveness under fairness, which is outside what the provers handle
(`EveryWaiterPasses`, `EveryRequestIsAnswered`, `EveryRequestEnds`, `EveryRunSettles`,
`EveryUploadSettles`, `EveryStreamEnds`).

## What the checks found

Two runs end in a counterexample to what a comment or document promises:

- `chat_charge`: a stream that breaks off, or whose client leaves while a chunk is being
  sent, has an empty `error_kind` and is charged as a success (`chat_completion.py:483`).
- `rag_deleted`: a document deleted while it is ingested, or while ChromaDB fails, leaves
  its chunks behind (`vector_store.py:150`). No row names them any more, and searches, which
  look at no row, still find and cite them.

Disagreements met while modelling for which there is no run:

- a client that leaves while its request is queued in Django stays counted in `QUEUE_DEPTH`, which
  is the queue's count: `CancelledError` passes by the `except TimeoutError`
  (`inference/services/concurrency.py:61`, against the docstring at its lines 3-6). After enough of
  them every request that finds no free slot is refused. `DepthIsOffByTheCancelled` states
  and proves the exact extent;
- a client of the gateway that leaves while a chunk is being sent is logged as a success:
  the generator is closed with `GeneratorExit`, which is not the `CancelledError` caught at
  `main.py:432` (against `README.md:510` and `docs/load-testing.md:143-152`);
- the dashboard uses a user's default key without asking whether it has been revoked or has expired
  (`inference/views.py:28-31`), which `crypto_auth.py:70` does at the gateway;
- `revoke_api_key` and `delete_api_key` have no callers: keys end in the admin site, whose
  form saves all of the row, so that a form opened earlier takes back a revocation made meanwhile, or
  inserts a deleted key again (`NoAccessAfterRevocation` names this as the only exception);
- `_stream_sse owns release` (`chat_completion.py:257`), but a generator that Django never starts owns nothing:
  if the client leaves between the view's return and the first step of the stream, while response middleware runs
  or the headers are sent, its slot and its count in `ACTIVE_INFERENCE_REQUESTS` are lost until the process ends.
  `HandlersAreFollowed` and `EveryRequestEnds` name it as their exception, and `LoadIsLimited` counts the lost slot;
- without stream, an exception that is no `httpx.RequestError` leaves the gateway's gauge up and writes no log
  record: both stand behind the `try`, not in a `finally` (`main.py:576, 603`). `HandlersAreFollowed` names it;
- the report that a run has failed may never arrive: `run_agent` swallows an exception of `send_error`
  (`runner.py:90-94`), which gives up on any answer but 200 and on any network error (`telegram/service.py:71-86`).
  `HandlersSettleTheirRows` tells the runs that failed unheard of from those reported;
- the second request of a RAG answer cuts the system prompt to 2000 characters, and the
  instructions stand at its end (`rag_completion.py:185-191`): the model is no longer told to answer
  from the context only, which `docs/rag-architecture.md:287` promises; and it loses sources that the client was
  told of, though line 288 says that the model sees the source for every fact. `AnswersAreGrounded` and
  `BestSourcesAreShown` state what is left of both promises;
- what the second request cuts is the system prompt only; the client's own messages are forwarded
  whole (`rag_completion.py:193-194`), however long. A request whose prompt had no more than 2000 characters, and
  which asked for no more than 128 tokens, is sent again as it was rejected;
- an upstream that times out or cannot be reached ends a RAG answer with an error event in a stream whose status
  is 200 (`rag/views.py:183-187`), where `docs/rag-architecture.md:513-514` speaks of a 504 and a 502;
- a deletion of a document whose file cannot be removed has removed its chunks by then: the row stays, and
  says "ready" (`rag/views.py:206-210`);
- a research digest is assembled before the run's summary and counts are set (`research.py:203`,
  then `:220-226`), so that it never shows them;
- items without a URL, or with the same empty one, are duplicates of each other, and an item whose URL
  or title is null ends the run with an error (`dedup/service.py`); entries of an Atom feed lose
  their titles and with them themselves, since an XML element without children is false (`rss.py`);
- `rank_batch` cuts its input to the maximum of results before it ranks, so that "best" is
  best among the first;
- the gateway refuses a request (503) with a full queue while a slot is free, if the slot
  was released and the woken waiter has yet to run: `locked()` is true then
  (`gateway/concurrency.py:27`);
- a refused request is counted twice in `REJECTED_OVERLOAD`, in the limiter
  and in the handler, in the gateway (`main.py:378` with `concurrency.py:33, 44`) and in Django
  (`chat_completion.py:218` with `concurrency.py:48, 63`);
- a flush task that outlives its batch releases the next one before it is full and before its
  window has elapsed (`batcher.py:88`, against the docstring at `batcher.py:41-44`);
- nothing is reserved between the quota check and the charge, so all requests that pass the check
  together are served: the daily limit (`users/models.py:15`) is exceeded (`api_keys/services/limits.py:80`);
- max_instances=1 "to prevent overlapping runs" (`README.md:867`) holds within the scheduler;
  a run-now overlaps with a scheduled run;
- a run whose `last_run_at` cannot be saved after its pipeline has completed becomes failed,
  though its digest is out (`runner.py:56`); a run-now whose client leaves stays "running"
  for ever (`runner.py:73` catches `Exception`, which `CancelledError` is not), and so does one
  that a crash interrupts: nothing sets the status "timeout";
- an edit that saves after a deletion brings the agent back, and the runs in progress then
  insert their rows again, without their results (`views.py:86`, `research.py:228`);
- sources are fetched one after the other, with clients that block the event loop, where
  `README.md:854` says in parallel; the semantic similarity of `README.md:856` is never computed;
- a chunk can be longer than the chunk size: a long paragraph that meets an open chunk is not split
  into sentences (`chunker.py:61-73`), and a sentence is never split (`chunker.py:77-86`), where
  `docs/rag-architecture.md:58, 180-182, 215, 317` promises a fallback by sentences for oversized paragraphs and by
  words as the last resort. `ChunksAreBounded` states how far a chunk may go, and its run has sentences that do;
- with fewer slots than a batch has places (`config.py:24, 29`: 4 and 8; `docker-compose.yml:128, 131`: 48
  and 128) no batch is ever full, as a request takes its slot first (`main.py:375-384`): every batch waits for
  its window to elapse, whatever the load (`BatchesFit`);
- a batch can exceed `max_batch_size` (`README.md:138`): requests that arrive before the
  flush task runs join it;
- one barrier serves all backends (`main.py:384`), where `README.md:172` says batching is
  per backend;
- the header `X-Inference-Backend` is looked up with its capitals among header names that
  arrive in lower case (`backend_router.py:29`);
- the rate limit is a fixed window of a minute, where `README.md:136` says sliding;
- the token quota counts prompt and completion, where `users/models.py:20` says completion;
- the Django queue admits one request fewer than `INFERENCE_QUEUE_SIZE` (`concurrency.py:47`).

## What is not modelled

- The gateway's router, configuration and metrics, its list of models and readiness: pure, or
  one query, with no state that interacts. Django's users and accounts: one profile, whose limits
  are constants of `UserQuota`.
- `resolve_bearer_api_key`, `is_semantic_duplicate`, the `should_deduplicate_...` functions and
  `run_scheduled_agents`, which nothing calls.
- Of the agents: the admin pages that delete single runs or results, metrics other than the gauge of
  active runs, two runs that store the same item: each has its own deduplicator, and nothing
  relates them. Of the documents: the gauge of ready documents, which is wrong after a restart until a
  health check sets it. Of the upstream clients: whether a POST that is sent again is computed twice.
- Parsing, embedding, prompts and digests as texts, the HTTP of sources.
- Observability, dashboard, benchmarks, templates, static files, deployment, load tests:
  presentation, configuration and logging.
- Log tasks of the gateway that are garbage-collected or lost at shutdown; the restart of a worker.
  They depend on the server and the interpreter rather than on this code. The same may happen to a key's update
  (`TouchLost`): it is then no use that `UsesAreCounted` counts, so that no property notices the loss.
- Of RAG's events: which of the upstream's pieces holds its own `[DONE]` (an error event may follow it), and for
  which value a request is refused (`BuildRaises`). Of an agent: a negative `max_results`, which the view accepts
  (`agents/views.py:59, 85`) and the pipelines take as a slice from the end. Of the admin site's form of a key: `expires_at`.

## The plan

Done: limiter, barrier and gateway; Django's limiter, quota and chat service; documents, chunks and
answers; keys and rate limits; agents and what they collect; theorems about all of them.
What would add most from here:

1. An abstract specification of a document's life and of a key's, implemented by `RagIngestion` and `ApiKeys`.
2. The gauge of ready documents next to what it counts, with the health check that resets it.
