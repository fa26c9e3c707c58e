------------------------------ MODULE AgentRuns ------------------------------
(***************************************************************************)
(* apps/agents: the runs of one agent.  The scheduler's process and the    *)
(* web process both call AgentRunner.run_agent, which runs the agent's     *)
(* pipeline, while the views change or delete the agent.                   *)
(*                                                                         *)
(* A handler r is one call of run_agent.  An action is one of its accesses *)
(* to the database or the network with the code up to the next one.  Any   *)
(* access to the database may raise.  The two pipelines take the same      *)
(* steps: what they collect, rank and summarise is chosen freely, as is    *)
(* what Telegram makes of a message, and whether the agent's digests are   *)
(* enabled, which an edit may change before each run.  last_run_at is      *)
(* saved like the rest, but its value is left out: nothing reads it.       *)
(***************************************************************************)
EXTENDS Integers, FiniteSets

CONSTANTS
  Runs,        \* the calls of run_agent
  Scheduled,   \* those made by the scheduler; the others are "run now"
  MaxItems,    \* results of a run at most
  MaxParts     \* messages of a digest at most

ASSUME AgentAssumption ==
  /\ IsFiniteSet(Runs) /\ Scheduled \subseteq Runs
  /\ MaxItems \in Nat /\ MaxParts \in Nat \ {0}

VARIABLES
  agent,      \* the Agent row, or NoAgent
  edit,       \* what an edit that is not saved yet has read as the agent's enabled
  rows,       \* the AgentRun row of each run, or NoRow
  results,    \* how many AgentResult rows each run has
  stage,      \* what each handler does next
  local,      \* its local variables
  chats,      \* the handlers that found a Telegram chat configured
  missing,    \* how many messages of its digest have not reached that chat
  gauge,      \* agent_active_runs of each process
  cascaded,   \* the runs deleted with their agent
  abandoned,  \* the runs whose handler was cut short
  leaked,     \* the runs that count in a gauge for ever
  reported,   \* the runs whose failure report has reached the chat
  unheard     \* the runs whose failure report was tried and has not

dbVars == <<agent, edit, rows, results, cascaded>>
chatVars == <<chats, missing>>
reportVars == <<reported, unheard>>
endVars == <<gauge, abandoned, leaked, reported, unheard>>
vars == <<dbVars, stage, local, chatVars, endVars>>

-----------------------------------------------------------------------------

Processes == {"web", "scheduler"}
Process(r) == IF r \in Scheduled THEN "scheduler" ELSE "web"

NoAgent == [exists |-> FALSE, enabled |-> FALSE]
NoRow == [status |-> "absent", discovered |-> 0, sent |-> 0]
NewRow == [NoRow EXCEPT !.status = "running"]

Agents == {NoAgent} \cup [exists : {TRUE}, enabled : BOOLEAN]
Rows == [status : {"absent", "running", "completed", "failed"},
         discovered : 0..MaxItems, sent : 0..MaxItems]

(***************************************************************************)
(* The items to store and those a handler has stored, the messages it has  *)
(* not sent yet, and send_digest's "success".                              *)
(***************************************************************************)
Locals == [items : 0..MaxItems, stored : 0..MaxItems, todo : 0..MaxParts, success : BOOLEAN]

NoLocals == [items |-> 0, stored |-> 0, todo |-> 0, success |-> FALSE]

\* In the try block of run_agent, or on the way to it with the gauge raised.
Counted == {"configure", "collect", "persist", "send", "complete", "stamp",
            "fail", "failstamp", "notify"}
Stages == {"idle", "create", "done"} \cup Counted

Init ==
  /\ agent = [exists |-> TRUE, enabled |-> TRUE]
  /\ edit = {}
  /\ rows = [r \in Runs |-> NoRow]
  /\ results = [r \in Runs |-> 0]
  /\ stage = [r \in Runs |-> "idle"]
  /\ local = [r \in Runs |-> NoLocals]
  /\ chats = {} /\ missing = [r \in Runs |-> MaxParts]
  /\ gauge = [p \in Processes |-> 0]
  /\ cascaded = {} /\ abandoned = {} /\ leaked = {} /\ reported = {} /\ unheard = {}

Goes(r, from, to) == stage[r] = from /\ stage' = [stage EXCEPT ![r] = to]
Forgets(r) == local' = [local EXCEPT ![r] = NoLocals]

Ends(r, from) == Goes(r, from, "done") /\ Forgets(r)

\* The end of a handler through the finally block.
Leaves(r, from) ==
  /\ Ends(r, from)
  /\ gauge' = [gauge EXCEPT ![Process(r)] = @ - 1]

\* An exception in the try block.
Raise(r, from) ==
  /\ Goes(r, from, "fail") /\ Forgets(r)
  /\ UNCHANGED <<dbVars, chatVars, endVars>>

-----------------------------------------------------------------------------

\* max_instances=1 keeps the scheduler from overlapping its own runs.
SchedulerAllows(r) ==
  r \in Scheduled => \A s \in Scheduled : stage[s] \in {"idle", "done"}

\* Agent.objects.get; a disabled agent is skipped.
Start(r) ==
  /\ SchedulerAllows(r)
  /\ \/ /\ agent.enabled
        /\ Goes(r, "idle", "create") /\ UNCHANGED local
     \/ Ends(r, "idle")
  /\ UNCHANGED <<dbVars, chatVars, endVars>>

\* The row refers to the agent, which may be gone by now.  A creation whose
\* answer is lost ends the call before the try block.
Create(r) ==
  \/ /\ agent.exists
     /\ Goes(r, "create", "configure")
     /\ rows' = [rows EXCEPT ![r] = NewRow]
     /\ gauge' = [gauge EXCEPT ![Process(r)] = @ + 1]
     /\ UNCHANGED <<agent, edit, results, cascaded, local, chatVars, abandoned, leaked, reportVars>>
  \/ /\ Ends(r, "create")
     /\ UNCHANGED <<dbVars, chatVars, endVars>>
  \/ /\ agent.exists
     /\ Ends(r, "create")
     /\ rows' = [rows EXCEPT ![r] = NewRow]
     /\ abandoned' = abandoned \cup {r}
     /\ UNCHANGED <<agent, edit, results, cascaded, chatVars, gauge, leaked, reportVars>>

(***************************************************************************)
(* The TelegramConfig row is read after the run is created and counted,    *)
(* but before the try block: an exception here settles nothing.            *)
(***************************************************************************)
Configure(r) ==
  \/ /\ Goes(r, "configure", "collect")
     /\ chats' \in {chats, chats \cup {r}}
     /\ UNCHANGED <<dbVars, local, missing, endVars>>
  \/ /\ Ends(r, "configure")
     /\ leaked' = leaked \cup {r}
     /\ abandoned' = abandoned \cup {r}
     /\ UNCHANGED <<dbVars, chatVars, gauge, reportVars>>

(***************************************************************************)
(* Fetching, deduplication, ranking, embedding and summaries.  A source,   *)
(* the ranking or the model that fails is skipped or replaced; an unknown  *)
(* agent type or a malformed item raises.                                  *)
(***************************************************************************)
Collect(r) ==
  \/ /\ Goes(r, "collect", "persist")
     /\ \E n \in 0..MaxItems : local' = [local EXCEPT ![r].items = n]
     /\ UNCHANGED <<dbVars, chatVars, endVars>>
  \/ Raise(r, "collect")

\* Faulty variant of Persist: a result that cannot be stored still counts.
PersistAnyway(r) ==
  /\ local[r].stored < local[r].items
  /\ Goes(r, "persist", "persist")
  /\ local' = [local EXCEPT ![r].stored = @ + 1]
  /\ results' \in {results, [results EXCEPT ![r] = IF rows[r] # NoRow THEN @ + 1 ELSE @]}
  /\ UNCHANGED <<agent, edit, rows, cascaded, chatVars, endVars>>

\* One AgentResult row, which refers to the run and the agent.
Persist(r) ==
  /\ local[r].stored < local[r].items
  /\ \/ /\ rows[r] # NoRow
        /\ Goes(r, "persist", "persist")
        /\ results' = [results EXCEPT ![r] = @ + 1]
        /\ local' = [local EXCEPT ![r].stored = @ + 1]
        /\ UNCHANGED <<agent, edit, rows, cascaded, chatVars, endVars>>
     \/ Raise(r, "persist")

\* Nothing to send or nobody to send it to; or a digest of n messages.
Digest(r) ==
  /\ local[r].stored = local[r].items
  /\ \/ Goes(r, "persist", "complete") /\ UNCHANGED <<local, missing>>
     \/ /\ r \in chats
        /\ Goes(r, "persist", "send")
        /\ \E n \in 1..MaxParts :
             /\ local' = [local EXCEPT ![r].todo = n, ![r].success = TRUE]
             /\ missing' = [missing EXCEPT ![r] = n]
  /\ UNCHANGED <<dbVars, chats, endVars>>

\* Faulty variant of SendPart: a message is sent again until it is answered.
SendPartAgain(r) ==
  /\ \E answered \in BOOLEAN :
       IF answered
         THEN /\ Goes(r, "send", IF local[r].todo = 1 THEN "complete" ELSE "send")
              /\ missing' = [missing EXCEPT ![r] = @ - 1]
              /\ local' = [local EXCEPT ![r].todo = @ - 1]
         ELSE /\ Goes(r, "send", "send")
              /\ missing' = missing
              /\ local' = [local EXCEPT ![r].success = ~@]
  /\ UNCHANGED <<dbVars, chats, endVars>>

(***************************************************************************)
(* One message of send_digest: sent; refused or lost; or sent, and the     *)
(* answer is lost.  The rest is sent whatever becomes of it, unless an     *)
(* exception that is not httpx.RequestError ends the delivery.             *)
(***************************************************************************)
SendPart(r) ==
  /\ \/ /\ Goes(r, "send", IF local[r].todo = 1 THEN "complete" ELSE "send")
        /\ \E arrives, answered \in BOOLEAN :
             /\ answered => arrives
             /\ missing' = [missing EXCEPT ![r] = IF arrives THEN @ - 1 ELSE @]
             /\ local' = [local EXCEPT ![r].todo = @ - 1, ![r].success = @ /\ answered]
     \/ /\ Goes(r, "send", "complete")
        /\ local' = [local EXCEPT ![r].success = FALSE]
        /\ UNCHANGED missing
  /\ UNCHANGED <<dbVars, chats, endVars>>

\* Faulty variant of Complete: update_fields forgets the status.
CompleteKeepsStatus(r) ==
  \/ /\ rows[r] # NoRow
     /\ Goes(r, "complete", "stamp") /\ Forgets(r)
     /\ rows' = [rows EXCEPT ![r].discovered = local[r].stored]
     /\ UNCHANGED <<agent, edit, results, cascaded, chatVars, endVars>>
  \/ Raise(r, "complete")

(***************************************************************************)
(* run.save() without update_fields updates the row or, when it is gone,   *)
(* inserts it again, which fails unless the agent exists.                  *)
(***************************************************************************)
Complete(r) ==
  \/ /\ agent.exists
     /\ Goes(r, "complete", "stamp") /\ Forgets(r)
     /\ rows' = [rows EXCEPT ![r] =
                   [status |-> "completed", discovered |-> local[r].stored,
                    sent |-> IF local[r].success THEN local[r].stored ELSE 0]]
     /\ UNCHANGED <<agent, edit, results, cascaded, chatVars, endVars>>
  \/ Raise(r, "complete")

\* agent.save(update_fields=["last_run_at"]) raises when the agent is gone.
Stamp(r) ==
  \/ /\ agent.exists
     /\ Leaves(r, "stamp")
     /\ UNCHANGED <<dbVars, chatVars, abandoned, leaked, reportVars>>
  \/ Raise(r, "stamp")

\* Faulty variant of Fail: the finally block does not cover the except block.
FailSkipsFinally(r) ==
  \/ /\ rows[r] # NoRow
     /\ Goes(r, "fail", "failstamp")
     /\ rows' = [rows EXCEPT ![r].status = "failed"]
     /\ UNCHANGED <<agent, edit, results, cascaded, local, chatVars, endVars>>
  \/ /\ Ends(r, "fail")
     /\ abandoned' = abandoned \cup {r}
     /\ UNCHANGED <<dbVars, chatVars, gauge, leaked, reportVars>>

\* Faulty variant of FailStamp: the run is tried again under the same row.
FailStampRetries(r) ==
  /\ Goes(r, "failstamp", "collect")
  /\ UNCHANGED <<dbVars, local, chatVars, endVars>>

\* The except block; what it raises ends the call.
Fail(r) ==
  \/ /\ rows[r] # NoRow
     /\ Goes(r, "fail", "failstamp")
     /\ rows' = [rows EXCEPT ![r].status = "failed"]
     /\ UNCHANGED <<agent, edit, results, cascaded, local, chatVars, endVars>>
  \/ /\ Leaves(r, "fail")
     /\ abandoned' = abandoned \cup {r}
     /\ UNCHANGED <<dbVars, chatVars, leaked, reportVars>>

FailStamp(r) ==
  \/ /\ agent.exists
     /\ Goes(r, "failstamp", "notify")
     /\ UNCHANGED <<dbVars, local, chatVars, endVars>>
  \/ /\ Leaves(r, "failstamp")
     /\ abandoned' = abandoned \cup {r}
     /\ UNCHANGED <<dbVars, chatVars, leaked, reportVars>>

(***************************************************************************)
(* send_error, if there is a chat: the report reaches it or is lost on the *)
(* way (a refusal, a network error, an exception that run_agent swallows). *)
(* It is not tried again.                                                  *)
(***************************************************************************)
Notify(r) ==
  /\ Leaves(r, "notify")
  /\ \/ r \notin chats /\ UNCHANGED reportVars
     \/ r \in chats /\ reported' = reported \cup {r} /\ UNCHANGED unheard
     \/ r \in chats /\ unheard' = unheard \cup {r} /\ UNCHANGED reported
  /\ UNCHANGED <<dbVars, chatVars, abandoned, leaked>>

-----------------------------------------------------------------------------

(***************************************************************************)
(* The client of a "run now" leaves: the coroutine is cancelled at the     *)
(* await it is suspended in, and except Exception does not catch that.     *)
(* The access it waits for has happened or not: if it has, its next await  *)
(* stands for it, save for the creation of the row, after which the gauge  *)
(* is raised.  Sources, models and Telegram are called without an await.   *)
(***************************************************************************)
ClientLeaves(r) ==
  /\ r \notin Scheduled
  /\ \/ /\ Ends(r, "create")
        /\ agent.exists
        /\ rows' = [rows EXCEPT ![r] = NewRow]
        /\ UNCHANGED <<gauge, leaked>>
     \/ /\ Ends(r, "configure")
        /\ leaked' = leaked \cup {r}
        /\ UNCHANGED <<rows, gauge>>
     \/ /\ \E from \in {"persist", "complete", "stamp", "fail", "failstamp"} : Leaves(r, from)
        /\ UNCHANGED <<rows, leaked>>
  /\ abandoned' = abandoned \cup {r}
  /\ UNCHANGED <<agent, edit, results, cascaded, chatVars, reportVars>>

\* A process ends and starts again: its handlers and its gauge are lost.
Crash(p) ==
  LET mine == {r \in Runs : Process(r) = p}
      running == {r \in mine : stage[r] \notin {"idle", "done"}}
  IN /\ running # {} \/ gauge[p] # 0
     /\ stage' = [r \in Runs |-> IF r \in running THEN "done" ELSE stage[r]]
     /\ local' = [r \in Runs |-> IF r \in running THEN NoLocals ELSE local[r]]
     /\ gauge' = [gauge EXCEPT ![p] = 0]
     /\ abandoned' = abandoned \cup running
     /\ leaked' = leaked \ mine
     /\ edit' = IF p = "web" THEN {} ELSE edit
     /\ UNCHANGED <<agent, rows, results, cascaded, chatVars, reportVars>>

-----------------------------------------------------------------------------

Toggle ==
  /\ agent.exists
  /\ \E enabled \in BOOLEAN : agent' = [agent EXCEPT !.enabled = enabled]
  /\ UNCHANGED <<edit, rows, results, cascaded, stage, local, chatVars, endVars>>

\* AgentUpdateView reads the row and saves all of it, with the enabled it has
\* read; a row that is gone by then is inserted again.
EditReads ==
  /\ agent.exists /\ edit = {}
  /\ edit' = {agent.enabled}
  /\ UNCHANGED <<agent, rows, results, cascaded, stage, local, chatVars, endVars>>

EditSaves ==
  /\ \E enabled \in edit : agent' = [exists |-> TRUE, enabled |-> enabled]
  /\ edit' = {}
  /\ UNCHANGED <<rows, results, cascaded, stage, local, chatVars, endVars>>

\* The agent with its runs and their results.
Delete ==
  /\ agent.exists
  /\ agent' = NoAgent
  /\ cascaded' = cascaded \cup {r \in Runs : rows[r] # NoRow}
  /\ rows' = [r \in Runs |-> NoRow]
  /\ results' = [r \in Runs |-> 0]
  /\ UNCHANGED <<edit, stage, local, chatVars, endVars>>

-----------------------------------------------------------------------------

\* ResearchPipeline.run and JobDiscoveryWorkflow.run.
Pipeline(r) == Collect(r) \/ Persist(r) \/ Digest(r) \/ SendPart(r) \/ Complete(r)

Step(r) ==
  \/ Create(r) \/ Configure(r) \/ Pipeline(r)
  \/ Stamp(r) \/ Fail(r) \/ FailStamp(r) \/ Notify(r)

Next ==
  \/ \E r \in Runs : Start(r) \/ Step(r) \/ ClientLeaves(r)
  \/ \E p \in Processes : Crash(p)
  \/ Toggle \/ EditReads \/ EditSaves \/ Delete

Spec == Init /\ [][Next]_vars

\* A handler that has started goes on; every call it makes has a timeout.
FairSpec == Spec /\ \A r \in Runs : WF_vars(Step(r))

-----------------------------------------------------------------------------

Status(r) == rows[r].status
InRun(p) == {r \in Runs : Process(r) = p /\ stage[r] \in Counted}

TypeOK ==
  /\ agent \in Agents /\ edit \subseteq BOOLEAN
  /\ rows \in [Runs -> Rows]
  /\ results \in [Runs -> 0..MaxItems]
  /\ stage \in [Runs -> Stages]
  /\ local \in [Runs -> Locals]
  /\ chats \subseteq Runs /\ missing \in [Runs -> 0..MaxParts]
  /\ gauge \in [Processes -> Nat]
  /\ cascaded \subseteq Runs /\ abandoned \subseteq Runs
  /\ leaked \subseteq Runs /\ reported \subseteq Runs /\ unheard \subseteq Runs

\* A run that completed has stored all the results it says it discovered,
\* unless its agent was deleted meanwhile: then an edit that brings the agent
\* back lets the run's row be inserted again, without results.  Results that
\* count as sent are those that were discovered, and every message of their
\* digest has reached a chat that was configured.
CompletedRowsAreTrue ==
  /\ \A r \in Runs \ cascaded :
       Status(r) = "completed" => results[r] = rows[r].discovered
  /\ \A r \in Runs : rows[r].sent > 0 =>
       rows[r].sent = rows[r].discovered /\ r \in chats /\ missing[r] = 0

\* agent_active_runs of a process counts the handlers it is running and the
\* runs that failed between the increment and the try block (runner.py:38-47).
GaugesAreRight ==
  \A p \in Processes :
    gauge[p] = Cardinality(InRun(p)) + Cardinality({r \in leaked : Process(r) = p})

\* A row says "running" only while its handler runs, or after a crash, a
\* cancellation, or a database that failed while the run was set up or settled.
\* A failure is reported to the chat only if the run failed.  Every failure of
\* a run with a chat whose handler was not cut short is reported, but not every
\* report arrives: the runs that failed unheard of are those whose one report
\* Telegram did not take (runner.py:90-94, telegram/service.py:71-86).
HandlersSettleTheirRows ==
  /\ \A r \in Runs \ abandoned : Status(r) = "running" => stage[r] \in Counted
  /\ \A r \in reported \cup unheard : Status(r) \in {"failed", "absent"}
  /\ reported \cap unheard = {}
  /\ \A r \in Runs \ (abandoned \cup reported) :
       Status(r) = "failed" /\ stage[r] = "done" => (r \in chats <=> r \in unheard)

\* A failed run stays failed, and a completed one completed unless the handler
\* could not save last_run_at: nothing else rewrites a settled row.
SettledStaysSettled ==
  [][\A r \in Runs :
       /\ Status(r) = "failed" => Status(r)' \in {"failed", "absent"}
       /\ Status(r) = "completed" /\ stage[r] # "fail"
            => Status(r)' \in {"completed", "absent"}]_vars

\* Every run that is created settles, is deleted, or is cut short, whatever
\* becomes of the agent, the sources and the chat.
EveryRunSettles ==
  \A r \in Runs : Status(r) = "running" ~> Status(r) # "running" \/ r \in abandoned

=============================================================================
