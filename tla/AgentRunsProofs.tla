--------------------------- MODULE AgentRunsProofs ---------------------------
(***************************************************************************)
(* Theorems about AgentRuns, for any number of runs, scheduled or not, and *)
(* any number of results and messages; and about Collection, for any       *)
(* sources and their answers, any scores and any limits.  The two speak of *)
(* different variables.                                                    *)
(***************************************************************************)
EXTENDS AgentRuns, Collection, FiniteSetTheorems, FunctionTheorems, SequenceTheorems,
        WellFoundedInduction, TLAPS

(***************************************************************************)
(* The inductive invariant: for each run, where its row, its results and   *)
(* its digest are by the time its handler is at a stage.                   *)
(***************************************************************************)

\* Before the handler has created its row there is nothing to be found of it.
Unborn(r) ==
  /\ rows[r] = NoRow /\ results[r] = 0 /\ local[r] = NoLocals
  /\ r \notin cascaded \cup abandoned \cup leaked \cup reported \cup unheard

\* While it works its row says "running", unless it was deleted; the results
\* that are stored are those the handler has counted.
Working(r) ==
  /\ rows[r] = IF r \in cascaded THEN NoRow ELSE NewRow
  /\ r \notin abandoned \cup leaked \cup reported \cup unheard
  /\ local[r].stored <= local[r].items
  /\ results[r] = IF r \in cascaded THEN 0 ELSE local[r].stored

\* What the handler's locals say of the digest.
DigestIsTracked(r) ==
  /\ stage[r] \in {"configure", "collect"} => local[r] = NoLocals
  /\ stage[r] = "persist" => ~local[r].success
  /\ stage[r] \in {"send", "complete"} => local[r].stored = local[r].items
  /\ stage[r] = "send" =>
       /\ r \in chats /\ local[r].todo \in 1..missing[r]
       /\ local[r].success => missing[r] = local[r].todo
  /\ stage[r] = "complete" /\ local[r].success => r \in chats /\ missing[r] = 0

\* Where the row of a handler that does not work any more may be.
RowFollows(r) ==
  /\ stage[r] = "stamp" => Status(r) \in {"completed", "absent"}
  /\ stage[r] = "fail" => Status(r) \in {"running", "completed", "absent"}
  /\ stage[r] \in {"failstamp", "notify"} => Status(r) \in {"failed", "absent"}
  /\ stage[r] = "done" /\ r \notin abandoned => Status(r) # "running"
  /\ stage[r] \in {"stamp", "fail", "failstamp", "notify"} =>
       r \notin abandoned \cup leaked \cup reported \cup unheard
  /\ stage[r] = "done" /\ r \notin abandoned \cup reported \cup unheard /\ Status(r) = "failed" =>
       r \notin chats

\* What a row says, whoever wrote it.
RowIsTrue(r) ==
  /\ Status(r) = "absent" => rows[r] = NoRow
  /\ Status(r) = "running" => rows[r] = NewRow
  /\ Status(r) = "completed" /\ r \notin cascaded => results[r] = rows[r].discovered
  /\ rows[r].sent > 0 => rows[r].sent = rows[r].discovered /\ r \in chats /\ missing[r] = 0
  /\ r \in reported \cup unheard => Status(r) \in {"failed", "absent"}
  /\ r \in unheard => r \in chats /\ r \notin reported

RunInv(r) ==
  /\ stage[r] \in {"idle", "create"} => Unborn(r)
  /\ stage[r] \in {"configure", "collect", "persist", "send", "complete"} => Working(r)
  /\ DigestIsTracked(r)
  /\ RowFollows(r)
  /\ RowIsTrue(r)
  /\ r \in leaked => stage[r] = "done"

InvType ==
  /\ agent \in Agents /\ edit \subseteq BOOLEAN
  /\ rows \in [Runs -> Rows]
  /\ results \in [Runs -> 0..MaxItems]
  /\ stage \in [Runs -> Stages]
  /\ local \in [Runs -> Locals]
  /\ chats \subseteq Runs /\ missing \in [Runs -> 0..MaxParts]
  /\ cascaded \subseteq Runs /\ abandoned \subseteq Runs
  /\ leaked \subseteq Runs /\ reported \subseteq Runs /\ unheard \subseteq Runs

GaugesFollow == gauge \in [Processes -> Nat] /\ GaugesAreRight

IInv ==
  /\ InvType
  /\ \A r \in Runs : RunInv(r)
  /\ GaugesFollow

-----------------------------------------------------------------------------
(* The gauges.                                                             *)

LeakedOf(p) == {r \in leaked : Process(r) = p}

LEMMA ProcessesAre == \A r : Process(r) \in Processes
BY DEF Process, Processes

LEMMA CountsAreFinite ==
  ASSUME InvType, NEW p
  PROVE  /\ IsFiniteSet(InRun(p)) /\ Cardinality(InRun(p)) \in Nat
         /\ IsFiniteSet(LeakedOf(p)) /\ Cardinality(LeakedOf(p)) \in Nat
<1>1. InRun(p) \subseteq Runs /\ LeakedOf(p) \subseteq Runs
  BY DEF InvType, InRun, LeakedOf
<1> QED BY <1>1, AgentAssumption, FS_Subset, FS_CardinalityType

\* A handler that stays on its side of the increment leaves the gauge alone.
LEMMA GaugeStays ==
  ASSUME InvType, GaugesFollow, NEW r \in Runs, NEW to \in Stages,
         stage' = [stage EXCEPT ![r] = to], to \in Counted <=> stage[r] \in Counted,
         UNCHANGED <<gauge, leaked>>
  PROVE  GaugesFollow'
<1>1. \A q \in Runs : stage'[q] \in Counted <=> stage[q] \in Counted
  BY DEF InvType
<1>2. \A p : InRun(p)' = InRun(p)
  BY <1>1 DEF InRun
<1> QED BY <1>2 DEF GaugesFollow, GaugesAreRight

\* The increment.
LEMMA GaugeRises ==
  ASSUME InvType, GaugesFollow, NEW r \in Runs, NEW to \in Counted,
         stage' = [stage EXCEPT ![r] = to], stage[r] \notin Counted,
         gauge' = [gauge EXCEPT ![Process(r)] = @ + 1], leaked' = leaked
  PROVE  GaugesFollow'
<1>0. Process(r) \in Processes
  BY ProcessesAre
<1>1. stage'[r] \in Counted /\ \A q \in Runs \ {r} : stage'[q] = stage[q]
  BY DEF InvType
<1>2. ASSUME NEW p \in Processes
      PROVE  gauge'[p] = Cardinality(InRun(p)') + Cardinality(LeakedOf(p)')
  <2>1. LeakedOf(p)' = LeakedOf(p)
    BY DEF LeakedOf
  <2>2. gauge[p] \in Nat /\ gauge[p] = Cardinality(InRun(p)) + Cardinality(LeakedOf(p))
    BY DEF GaugesFollow, GaugesAreRight, LeakedOf
  <2>3. CASE p = Process(r)
    <3>1. InRun(p)' = InRun(p) \cup {r} /\ r \notin InRun(p)
      BY <1>1, <2>3 DEF InRun
    <3>2. Cardinality(InRun(p)') = Cardinality(InRun(p)) + 1
      BY <3>1, CountsAreFinite, FS_AddElement
    <3>3. gauge'[p] = gauge[p] + 1
      BY <2>3 DEF GaugesFollow
    <3> QED BY <2>1, <2>2, <3>2, <3>3, CountsAreFinite
  <2>4. CASE p # Process(r)
    <3>1. InRun(p)' = InRun(p)
      BY <1>1, <2>4 DEF InRun
    <3>2. gauge'[p] = gauge[p]
      BY <2>4 DEF GaugesFollow
    <3> QED BY <2>1, <2>2, <3>1, <3>2
  <2> QED BY <2>3, <2>4
<1>3. gauge' \in [Processes -> Nat]
  BY <1>0 DEF GaugesFollow
<1> QED BY <1>2, <1>3 DEF GaugesFollow, GaugesAreRight, LeakedOf

\* The decrement: there is something to take away, as the handler is counted.
LEMMA GaugeFalls ==
  ASSUME InvType, GaugesFollow, NEW r \in Runs, stage[r] \in Counted,
         stage' = [stage EXCEPT ![r] = "done"],
         gauge' = [gauge EXCEPT ![Process(r)] = @ - 1], leaked' = leaked
  PROVE  GaugesFollow'
<1>0. Process(r) \in Processes
  BY ProcessesAre
<1>1. stage'[r] \notin Counted /\ \A q \in Runs \ {r} : stage'[q] = stage[q]
  BY DEF InvType, Counted
<1>2. ASSUME NEW p \in Processes
      PROVE  gauge'[p] \in Nat /\ gauge'[p] = Cardinality(InRun(p)') + Cardinality(LeakedOf(p)')
  <2>1. LeakedOf(p)' = LeakedOf(p)
    BY DEF LeakedOf
  <2>2. gauge[p] \in Nat /\ gauge[p] = Cardinality(InRun(p)) + Cardinality(LeakedOf(p))
    BY DEF GaugesFollow, GaugesAreRight, LeakedOf
  <2>3. CASE p = Process(r)
    <3>1. InRun(p)' = InRun(p) \ {r} /\ r \in InRun(p)
      BY <1>1, <2>3 DEF InRun
    <3>2. Cardinality(InRun(p)') = Cardinality(InRun(p)) - 1
      BY <3>1, CountsAreFinite, FS_RemoveElement
    <3>3. Cardinality(InRun(p)') \in Nat
      BY <3>1, CountsAreFinite, FS_RemoveElement, FS_CardinalityType
    <3>4. gauge'[p] = gauge[p] - 1
      BY <2>3 DEF GaugesFollow
    <3> QED BY <2>1, <2>2, <3>2, <3>3, <3>4, CountsAreFinite
  <2>4. CASE p # Process(r)
    <3>1. InRun(p)' = InRun(p)
      BY <1>1, <2>4 DEF InRun
    <3>2. gauge'[p] = gauge[p]
      BY <2>4 DEF GaugesFollow
    <3> QED BY <2>1, <2>2, <3>1, <3>2
  <2> QED BY <2>3, <2>4
<1>3. gauge' \in [Processes -> Nat]
  BY <1>0, <1>2 DEF GaugesFollow
<1> QED BY <1>2, <1>3 DEF GaugesFollow, GaugesAreRight, LeakedOf

\* A handler that ends without the decrement is counted for ever.
LEMMA GaugeLeaks ==
  ASSUME InvType, GaugesFollow, NEW r \in Runs, stage[r] \in Counted, r \notin leaked,
         stage' = [stage EXCEPT ![r] = "done"], leaked' = leaked \cup {r}, gauge' = gauge
  PROVE  GaugesFollow'
<1>1. stage'[r] \notin Counted /\ \A q \in Runs \ {r} : stage'[q] = stage[q]
  BY DEF InvType, Counted
<1>2. ASSUME NEW p \in Processes
      PROVE  gauge[p] = Cardinality(InRun(p)') + Cardinality(LeakedOf(p)')
  <2>1. gauge[p] \in Nat /\ gauge[p] = Cardinality(InRun(p)) + Cardinality(LeakedOf(p))
    BY DEF GaugesFollow, GaugesAreRight, LeakedOf
  <2>2. CASE p = Process(r)
    <3>1. /\ InRun(p)' = InRun(p) \ {r} /\ r \in InRun(p)
          /\ LeakedOf(p)' = LeakedOf(p) \cup {r} /\ r \notin LeakedOf(p)
      BY <1>1, <2>2 DEF InRun, LeakedOf
    <3>2. Cardinality(InRun(p)') = Cardinality(InRun(p)) - 1
      BY <3>1, CountsAreFinite, FS_RemoveElement
    <3>3. Cardinality(LeakedOf(p)') = Cardinality(LeakedOf(p)) + 1
      BY <3>1, CountsAreFinite, FS_AddElement
    <3> QED BY <2>1, <3>2, <3>3, CountsAreFinite
  <2>3. CASE p # Process(r)
    <3>1. InRun(p)' = InRun(p) /\ LeakedOf(p)' = LeakedOf(p)
      BY <1>1, <2>3 DEF InRun, LeakedOf
    <3> QED BY <2>1, <3>1
  <2> QED BY <2>2, <2>3
<1> QED BY <1>2 DEF GaugesFollow, GaugesAreRight, LeakedOf

-----------------------------------------------------------------------------
(* What a step of one handler leaves alone.                                *)

Untouched(q) ==
  /\ stage'[q] = stage[q] /\ rows'[q] = rows[q] /\ results'[q] = results[q]
  /\ local'[q] = local[q] /\ missing'[q] = missing[q]
  /\ q \in chats' <=> q \in chats
  /\ q \in cascaded' <=> q \in cascaded
  /\ q \in abandoned' <=> q \in abandoned
  /\ q \in leaked' <=> q \in leaked
  /\ q \in reported' <=> q \in reported
  /\ q \in unheard' <=> q \in unheard

LEMMA UntouchedKeeps ==
  ASSUME NEW q \in Runs, RunInv(q), Untouched(q)
  PROVE  RunInv(q)'
BY DEF RunInv, Untouched, Unborn, Working, DigestIsTracked, RowFollows, RowIsTrue, Status

LEMMA OthersKeep ==
  ASSUME IInv, NEW r \in Runs, \A q \in Runs \ {r} : Untouched(q), RunInv(r)'
  PROVE  \A q \in Runs : RunInv(q)'
BY UntouchedKeeps DEF IInv

\* A handler that goes on, with its row and its results as they are, changes
\* its stage and its locals only.
LEMMA LocalStep ==
  ASSUME IInv, NEW r \in Runs, NEW to \in Stages, NEW l \in Locals,
         stage' = [stage EXCEPT ![r] = to],
         local' = [local EXCEPT ![r] = l], UNCHANGED <<dbVars, chatVars>>,
         UNCHANGED abandoned, UNCHANGED leaked, UNCHANGED reported, UNCHANGED unheard
  PROVE  /\ InvType'
         /\ stage'[r] = to /\ local'[r] = l
         /\ \A q \in Runs \ {r} : Untouched(q)
<1> USE DEF IInv, InvType, dbVars, chatVars
<1>1. InvType'
  OBVIOUS
<1>2. stage'[r] = to /\ local'[r] = l
  OBVIOUS
<1>3. \A q \in Runs \ {r} : Untouched(q)
  BY DEF Untouched
<1> QED BY <1>1, <1>2, <1>3

LEMMA LocalsTyped ==
  /\ NoLocals \in Locals
  /\ NoLocals.stored = 0 /\ NoLocals.items = 0 /\ ~NoLocals.success
BY AgentAssumption DEF NoLocals, Locals

LEMMA RowsTyped ==
  /\ NoRow \in Rows /\ NewRow \in Rows /\ NoRow # NewRow
  /\ NoRow.status = "absent" /\ NoRow.sent = 0 /\ NoRow.discovered = 0
  /\ NewRow.status = "running" /\ NewRow.sent = 0 /\ NewRow.discovered = 0
BY AgentAssumption DEF NoRow, NewRow, Rows

LEMMA RaiseKeeps ==
  ASSUME IInv, NEW r \in Runs, NEW from \in Counted \ {"fail", "failstamp", "notify"}, Raise(r, from)
  PROVE  IInv'
<1>1. stage[r] = from /\ stage' = [stage EXCEPT ![r] = "fail"]
      /\ local' = [local EXCEPT ![r] = NoLocals] /\ UNCHANGED <<dbVars, chatVars, endVars>>
  BY DEF Raise, Goes, Forgets
<1>2. "fail" \in Stages /\ "fail" \in Counted
  BY DEF Stages, Counted
<1>3. /\ InvType'
      /\ stage'[r] = "fail" /\ local'[r] = NoLocals
      /\ \A q \in Runs \ {r} : Untouched(q)
  BY <1>1, <1>2, LocalStep, LocalsTyped DEF endVars
<1>4. RunInv(r)'
  BY <1>1, <1>3, RowsTyped DEF IInv, RunInv, Working, DigestIsTracked, RowFollows, RowIsTrue,
     Status, dbVars, chatVars, endVars, Counted
<1>5. GaugesFollow'
  BY <1>1, <1>2, GaugeStays DEF IInv, endVars
<1> QED BY <1>3, <1>4, <1>5, OthersKeep DEF IInv

LEMMA StartKeeps ==
  ASSUME IInv, NEW r \in Runs, Start(r)
  PROVE  IInv'
<1>1. PICK to \in {"create", "done"} :
        /\ stage[r] = "idle" /\ stage' = [stage EXCEPT ![r] = to]
        /\ local' = [local EXCEPT ![r] = NoLocals]
        /\ UNCHANGED <<dbVars, chatVars, endVars>>
  <2>1. stage[r] = "idle" => local = [local EXCEPT ![r] = NoLocals]
    BY DEF IInv, InvType, RunInv, Unborn
  <2>2. CASE Ends(r, "idle")
    BY <2>2 DEF Start, Ends, Goes, Forgets
  <2>3. CASE Goes(r, "idle", "create") /\ UNCHANGED local
    BY <2>1, <2>3 DEF Start, Goes
  <2> QED BY <2>2, <2>3 DEF Start
<1>2. to \in Stages /\ to \notin Counted /\ stage[r] \notin Counted
  BY <1>1 DEF Stages, Counted
<1>3. /\ InvType'
      /\ stage'[r] = to /\ local'[r] = NoLocals
      /\ \A q \in Runs \ {r} : Untouched(q)
  BY <1>1, <1>2, LocalStep, LocalsTyped DEF endVars
<1>4. RunInv(r)'
  BY <1>1, <1>3, RowsTyped DEF IInv, RunInv, Unborn, Working, DigestIsTracked, RowFollows,
     RowIsTrue, Status, dbVars, chatVars, endVars
<1>5. GaugesFollow'
  BY <1>1, <1>2, GaugeStays DEF IInv, endVars
<1> QED BY <1>3, <1>4, <1>5, OthersKeep DEF IInv

\* A handler that ends with its row created, but before the gauge is raised.
LEMMA LosingKeeps ==
  ASSUME IInv, NEW r \in Runs, Ends(r, "create"), rows' = [rows EXCEPT ![r] = NewRow],
         abandoned' = abandoned \cup {r},
         UNCHANGED <<agent, edit, results, cascaded, chatVars, gauge, leaked, reported, unheard>>
  PROVE  IInv'
<1>1. /\ stage[r] = "create" /\ stage' = [stage EXCEPT ![r] = "done"]
      /\ local' = [local EXCEPT ![r] = NoLocals]
  BY DEF Ends, Goes, Forgets
<1>2. "done" \in Stages /\ "done" \notin Counted /\ stage[r] \notin Counted
  BY <1>1 DEF Stages, Counted
<1>3. InvType'
  BY <1>1, <1>2, RowsTyped, LocalsTyped DEF IInv, InvType, chatVars
<1>4. stage'[r] = "done" /\ rows'[r] = NewRow /\ local'[r] = NoLocals
  BY <1>1 DEF IInv, InvType
<1>5. \A q \in Runs \ {r} : Untouched(q)
  BY <1>1 DEF Untouched, IInv, InvType, chatVars
<1>6. RunInv(r)'
  BY <1>1, <1>4, RowsTyped, LocalsTyped DEF IInv, RunInv, Unborn, DigestIsTracked,
     RowFollows, RowIsTrue, Status, chatVars
<1>7. GaugesFollow'
  BY <1>1, <1>2, GaugeStays DEF IInv
<1> QED BY <1>3, <1>5, <1>6, <1>7, OthersKeep DEF IInv

LEMMA CreateKeeps ==
  ASSUME IInv, NEW r \in Runs, Create(r)
  PROVE  IInv'
<1>1. CASE Ends(r, "create") /\ UNCHANGED <<dbVars, chatVars, endVars>>
  <2>1. /\ stage[r] = "create" /\ stage' = [stage EXCEPT ![r] = "done"]
        /\ local' = [local EXCEPT ![r] = NoLocals]
    BY <1>1 DEF Ends, Goes, Forgets
  <2>2. "done" \in Stages /\ "done" \notin Counted /\ stage[r] \notin Counted
    BY <2>1 DEF Stages, Counted
  <2>3. /\ InvType'
        /\ stage'[r] = "done" /\ local'[r] = NoLocals
        /\ \A q \in Runs \ {r} : Untouched(q)
    BY <1>1, <2>1, <2>2, LocalStep, LocalsTyped DEF endVars
  <2>4. RunInv(r)'
    BY <1>1, <2>1, <2>3, RowsTyped DEF IInv, RunInv, Unborn, Working, DigestIsTracked, RowFollows,
       RowIsTrue, Status, dbVars, chatVars, endVars
  <2>5. GaugesFollow'
    BY <1>1, <2>1, <2>2, GaugeStays DEF IInv, endVars
  <2> QED BY <2>3, <2>4, <2>5, OthersKeep DEF IInv
<1>2. CASE /\ Ends(r, "create") /\ rows' = [rows EXCEPT ![r] = NewRow]
           /\ abandoned' = abandoned \cup {r}
           /\ UNCHANGED <<agent, edit, results, cascaded, chatVars, gauge, leaked, reported, unheard>>
  BY <1>2, LosingKeeps
<1>3. CASE /\ Goes(r, "create", "configure")
           /\ rows' = [rows EXCEPT ![r] = NewRow]
           /\ gauge' = [gauge EXCEPT ![Process(r)] = @ + 1]
           /\ UNCHANGED <<agent, edit, results, cascaded, local, chatVars, abandoned, leaked,
                          reported, unheard>>
  <2>1. /\ stage[r] = "create" /\ stage' = [stage EXCEPT ![r] = "configure"]
        /\ rows' = [rows EXCEPT ![r] = NewRow]
        /\ gauge' = [gauge EXCEPT ![Process(r)] = @ + 1]
        /\ UNCHANGED <<agent, edit, results, cascaded, local, chatVars, abandoned, leaked,
                       reported, unheard>>
    BY <1>3 DEF Goes
  <2>2. "configure" \in Stages /\ "configure" \in Counted /\ stage[r] \notin Counted
    BY <2>1 DEF Stages, Counted
  <2>3. InvType'
    BY <2>1, <2>2, RowsTyped DEF IInv, InvType, chatVars
  <2>4. stage'[r] = "configure" /\ rows'[r] = NewRow
    BY <2>1 DEF IInv, InvType
  <2>5. \A q \in Runs \ {r} : Untouched(q)
    BY <2>1 DEF Untouched, IInv, InvType, chatVars
  <2>6. RunInv(r)'
    BY <2>1, <2>4, RowsTyped, LocalsTyped DEF IInv, RunInv, Unborn, Working, DigestIsTracked,
       RowFollows, RowIsTrue, Status, chatVars
  <2>7. GaugesFollow'
    BY <2>1, <2>2, GaugeRises DEF IInv
  <2> QED BY <2>3, <2>5, <2>6, <2>7, OthersKeep DEF IInv
<1> QED BY <1>1, <1>2, <1>3 DEF Create, reportVars

\* A handler that ends with its row as it is and is counted no more.
LEMMA LeavingKeeps ==
  ASSUME IInv, NEW r \in Runs, NEW from \in Counted, Leaves(r, from),
         UNCHANGED <<dbVars, chatVars, leaked>>,
         abandoned' \in {abandoned, abandoned \cup {r}},
         reported' \in {reported, reported \cup {r}}, unheard' \in {unheard, unheard \cup {r}},
         r \in reported' \cup unheard' => Status(r) \in {"failed", "absent"},
         r \in unheard' => r \in chats /\ r \notin reported',
         r \notin abandoned' => Status(r) # "running",
         r \notin abandoned' \cup reported' \cup unheard' /\ Status(r) = "failed" => r \notin chats
  PROVE  IInv'
<1>1. /\ stage[r] = from /\ stage' = [stage EXCEPT ![r] = "done"]
      /\ local' = [local EXCEPT ![r] = NoLocals]
      /\ gauge' = [gauge EXCEPT ![Process(r)] = @ - 1]
  BY DEF Leaves, Ends, Goes, Forgets
<1>2. "done" \in Stages
  BY DEF Stages
<1>3. InvType'
  BY <1>1, <1>2, LocalsTyped DEF IInv, InvType, dbVars, chatVars
<1>4. stage'[r] = "done" /\ local'[r] = NoLocals
  BY <1>1 DEF IInv, InvType
<1>5. \A q \in Runs \ {r} : Untouched(q)
  BY <1>1 DEF Untouched, IInv, InvType, dbVars, chatVars
<1>6. RunInv(r)'
  BY <1>1, <1>4 DEF IInv, RunInv, DigestIsTracked, RowFollows, RowIsTrue, Status, dbVars, chatVars
<1>7. GaugesFollow'
  BY <1>1, GaugeFalls DEF IInv
<1> QED BY <1>3, <1>5, <1>6, <1>7, OthersKeep DEF IInv

\* A handler that ends before the try block.
LEMMA LeakingKeeps ==
  ASSUME IInv, NEW r \in Runs, Ends(r, "configure"), leaked' = leaked \cup {r},
         abandoned' = abandoned \cup {r}, UNCHANGED <<dbVars, chatVars, gauge, reported, unheard>>
  PROVE  IInv'
<1>1. /\ stage[r] = "configure" /\ stage' = [stage EXCEPT ![r] = "done"]
      /\ local' = [local EXCEPT ![r] = NoLocals]
  BY DEF Ends, Goes, Forgets
<1>2. "done" \in Stages /\ stage[r] \in Counted
  BY <1>1 DEF Stages, Counted
<1>3. InvType'
  BY <1>1, <1>2, LocalsTyped DEF IInv, InvType, dbVars, chatVars
<1>4. stage'[r] = "done" /\ local'[r] = NoLocals
  BY <1>1 DEF IInv, InvType
<1>5. \A q \in Runs \ {r} : Untouched(q)
  BY <1>1 DEF Untouched, IInv, InvType, dbVars, chatVars
<1>6. RunInv(r)'
  BY <1>1, <1>4 DEF IInv, RunInv, Working, DigestIsTracked, RowFollows, RowIsTrue, Status,
     dbVars, chatVars
<1>7. r \notin leaked
  BY <1>1 DEF IInv, RunInv
<1>8. GaugesFollow'
  BY <1>1, <1>2, <1>7, GaugeLeaks DEF IInv
<1> QED BY <1>3, <1>5, <1>6, <1>8, OthersKeep DEF IInv

LEMMA ConfigureKeeps ==
  ASSUME IInv, NEW r \in Runs, Configure(r)
  PROVE  IInv'
<1>1. CASE Ends(r, "configure") /\ leaked' = leaked \cup {r} /\ abandoned' = abandoned \cup {r}
           /\ UNCHANGED <<dbVars, chatVars, gauge, reported, unheard>>
  BY <1>1, LeakingKeeps
<1>2. CASE /\ Goes(r, "configure", "collect") /\ chats' \in {chats, chats \cup {r}}
           /\ UNCHANGED <<dbVars, local, missing, endVars>>
  <2>1. stage[r] = "configure" /\ stage' = [stage EXCEPT ![r] = "collect"]
    BY <1>2 DEF Goes
  <2>2. "collect" \in Stages /\ "collect" \in Counted /\ stage[r] \in Counted
    BY <2>1 DEF Stages, Counted
  <2>3. InvType'
    BY <1>2, <2>1, <2>2 DEF IInv, InvType, dbVars, endVars
  <2>4. stage'[r] = "collect"
    BY <2>1 DEF IInv, InvType
  <2>5. \A q \in Runs \ {r} : Untouched(q)
    BY <1>2, <2>1 DEF Untouched, IInv, InvType, dbVars, endVars
  <2>6. RunInv(r)'
    BY <1>2, <2>1, <2>4, RowsTyped DEF IInv, RunInv, Working, DigestIsTracked, RowFollows,
       RowIsTrue, Status, dbVars, endVars
  <2>7. GaugesFollow'
    BY <1>2, <2>1, <2>2, GaugeStays DEF IInv, endVars
  <2> QED BY <2>3, <2>5, <2>6, <2>7, OthersKeep DEF IInv
<1> QED BY <1>1, <1>2 DEF Configure, reportVars

LEMMA CollectKeeps ==
  ASSUME IInv, NEW r \in Runs, Collect(r)
  PROVE  IInv'
<1>1. CASE Raise(r, "collect")
  BY <1>1, RaiseKeeps DEF Counted
<1>2. CASE /\ Goes(r, "collect", "persist")
           /\ \E n \in 0..MaxItems : local' = [local EXCEPT ![r].items = n]
           /\ UNCHANGED <<dbVars, chatVars, endVars>>
  <2>0. stage[r] = "collect" /\ stage' = [stage EXCEPT ![r] = "persist"]
    BY <1>2 DEF Goes
  <2>1. PICK n \in 0..MaxItems : local' = [local EXCEPT ![r].items = n]
    BY <1>2
  <2> DEFINE l == [local[r] EXCEPT !.items = n]
  <2>2. local[r] = NoLocals /\ local[r] \in Locals /\ local' = [local EXCEPT ![r] = l]
    BY <2>0, <2>1 DEF IInv, InvType, RunInv, DigestIsTracked
  <2>3. l \in Locals /\ l.stored = 0 /\ l.items = n /\ ~l.success
    <3>1. l \in Locals /\ l.items = n /\ l.stored = local[r].stored /\ l.success = local[r].success
      BY <2>2 DEF Locals
    <3> QED BY <2>2, <3>1, LocalsTyped
  <2>4. "persist" \in Stages /\ "persist" \in Counted /\ stage[r] \in Counted
    BY <2>0 DEF Stages, Counted
  <2> HIDE DEF l
  <2>5. /\ InvType'
        /\ stage'[r] = "persist" /\ local'[r] = l
        /\ \A q \in Runs \ {r} : Untouched(q)
    BY <1>2, <2>0, <2>2, <2>3, <2>4, LocalStep DEF endVars
  <2>6. RunInv(r)'
    BY <1>2, <2>0, <2>2, <2>3, <2>5, RowsTyped, LocalsTyped DEF IInv, RunInv, Working, DigestIsTracked,
       RowFollows, RowIsTrue, Status, dbVars, chatVars, endVars
  <2>7. GaugesFollow'
    BY <1>2, <2>0, <2>4, GaugeStays DEF IInv, endVars
  <2> QED BY <2>5, <2>6, <2>7, OthersKeep DEF IInv
<1> QED BY <1>1, <1>2 DEF Collect

LEMMA PersistKeeps ==
  ASSUME IInv, NEW r \in Runs, Persist(r)
  PROVE  IInv'
<1>1. CASE Raise(r, "persist")
  BY <1>1, RaiseKeeps DEF Counted
<1>2. CASE ~Raise(r, "persist")
  <2>1. /\ stage[r] = "persist" /\ stage' = [stage EXCEPT ![r] = "persist"]
        /\ local[r].stored < local[r].items /\ rows[r] # NoRow
        /\ results' = [results EXCEPT ![r] = @ + 1]
        /\ local' = [local EXCEPT ![r].stored = @ + 1]
        /\ UNCHANGED <<agent, edit, rows, cascaded, chatVars, endVars>>
    BY <1>2 DEF Persist, Goes
  <2>2. local[r] \in Locals
    BY DEF IInv, InvType
  <2>3. /\ local[r].stored \in Nat /\ local[r].items \in 0..MaxItems
        /\ local[r].stored + 1 \in 0..MaxItems /\ local[r].stored + 1 <= local[r].items
    BY <2>1, <2>2, AgentAssumption DEF Locals
  <2>4. [local[r] EXCEPT !.stored = @ + 1] \in Locals
    BY <2>2, <2>3 DEF Locals
  <2>5. /\ local' \in [Runs -> Locals]
        /\ local'[r].stored = local[r].stored + 1 /\ local'[r].items = local[r].items
        /\ local'[r].success = local[r].success
    BY <2>1, <2>2, <2>4 DEF IInv, InvType, Locals
  <2>6. r \notin cascaded /\ results[r] = local[r].stored
    BY <2>1 DEF IInv, RunInv, Working
  <2>7. stage' = stage
    BY <2>1 DEF IInv, InvType
  <2>8. InvType'
    BY <2>1, <2>3, <2>5, <2>6, <2>7 DEF IInv, InvType, chatVars, endVars
  <2>9. \A q \in Runs \ {r} : Untouched(q)
    BY <2>1, <2>7 DEF Untouched, IInv, InvType, chatVars, endVars
  <2>10. results'[r] = local'[r].stored
    BY <2>1, <2>5, <2>6 DEF IInv, InvType
  <2>11. RunInv(r)'
    BY <2>1, <2>3, <2>5, <2>6, <2>7, <2>10, RowsTyped DEF IInv, RunInv, Working, DigestIsTracked,
       RowFollows, RowIsTrue, Status, chatVars, endVars
  <2>12. GaugesFollow'
    BY <2>1, <2>7, GaugeStays DEF IInv, InvType, endVars
  <2> QED BY <2>8, <2>9, <2>11, <2>12, OthersKeep DEF IInv
<1> QED BY <1>1, <1>2

LEMMA DigestKeeps ==
  ASSUME IInv, NEW r \in Runs, Digest(r)
  PROVE  IInv'
<1>0. stage[r] = "persist" /\ stage[r] \in Counted
  BY DEF Digest, Goes, Counted
<1>1. CASE Goes(r, "persist", "complete") /\ UNCHANGED <<local, missing>>
  <2>1. /\ stage' = [stage EXCEPT ![r] = "complete"] /\ local[r].stored = local[r].items
        /\ UNCHANGED <<dbVars, local, chatVars, endVars>>
    BY <1>1 DEF Digest, Goes, chatVars
  <2>2. "complete" \in Stages /\ "complete" \in Counted
    BY DEF Stages, Counted
  <2>3. local[r] \in Locals /\ local' = [local EXCEPT ![r] = local[r]]
    BY <2>1 DEF IInv, InvType
  <2>4. /\ InvType'
        /\ stage'[r] = "complete" /\ local'[r] = local[r]
        /\ \A q \in Runs \ {r} : Untouched(q)
    BY <2>1, <2>2, <2>3, LocalStep DEF endVars
  <2>5. RunInv(r)'
    BY <1>0, <2>1, <2>4, RowsTyped DEF IInv, RunInv, Working, DigestIsTracked, RowFollows,
       RowIsTrue, Status, dbVars, chatVars, endVars
  <2>6. GaugesFollow'
    BY <1>0, <2>1, <2>2, GaugeStays DEF IInv, endVars
  <2> QED BY <2>4, <2>5, <2>6, OthersKeep DEF IInv
<1>2. CASE ~(Goes(r, "persist", "complete") /\ UNCHANGED <<local, missing>>)
  <2>0. PICK n \in 1..MaxParts :
          /\ local' = [local EXCEPT ![r].todo = n, ![r].success = TRUE]
          /\ missing' = [missing EXCEPT ![r] = n]
    BY <1>2 DEF Digest
  <2>1. /\ stage' = [stage EXCEPT ![r] = "send"] /\ r \in chats
        /\ local[r].stored = local[r].items
        /\ UNCHANGED <<dbVars, chats, endVars>>
    BY <1>2 DEF Digest, Goes
  <2>2. "send" \in Stages /\ "send" \in Counted
    BY DEF Stages, Counted
  <2>3. n \in 0..MaxParts /\ local[r] \in Locals
    BY DEF IInv, InvType
  <2>4. [local[r] EXCEPT !.todo = n, !.success = TRUE] \in Locals
    BY <2>3 DEF Locals
  <2>5. /\ local' \in [Runs -> Locals]
        /\ local'[r].stored = local[r].stored /\ local'[r].items = local[r].items
        /\ local'[r].success /\ local'[r].todo = n
    BY <2>0, <2>3, <2>4 DEF IInv, InvType, Locals
  <2>6. stage'[r] = "send" /\ missing'[r] = n
    BY <2>0, <2>1 DEF IInv, InvType
  <2>7. InvType'
    BY <2>0, <2>1, <2>2, <2>3, <2>5 DEF IInv, InvType, dbVars, endVars
  <2>8. \A q \in Runs \ {r} : Untouched(q)
    BY <2>0, <2>1 DEF Untouched, IInv, InvType, dbVars, endVars
  <2>9. RunInv(r)'
    BY <1>0, <2>1, <2>5, <2>6, RowsTyped DEF IInv, RunInv, Working, DigestIsTracked, RowFollows,
       RowIsTrue, Status, dbVars, endVars
  <2>10. GaugesFollow'
    BY <1>0, <2>1, <2>2, GaugeStays DEF IInv, endVars
  <2> QED BY <2>7, <2>8, <2>9, <2>10, OthersKeep DEF IInv
<1> QED BY <1>1, <1>2

LEMMA SendPartKeeps ==
  ASSUME IInv, NEW r \in Runs, SendPart(r)
  PROVE  IInv'
<1>0. stage[r] = "send" /\ stage[r] \in Counted
  BY DEF SendPart, Goes, Counted
<1>1. PICK to \in {"send", "complete"} : stage' = [stage EXCEPT ![r] = to]
  BY DEF SendPart, Goes
<1>2. to \in Stages /\ to \in Counted /\ stage'[r] = to
  BY <1>1 DEF Stages, Counted, IInv, InvType
<1>3. UNCHANGED <<dbVars, chats, endVars>>
  BY DEF SendPart
<1>4. /\ local[r] \in Locals /\ missing[r] \in 0..MaxParts
      /\ local[r].todo \in 1..missing[r] /\ local[r].success \in BOOLEAN
  BY <1>0 DEF IInv, InvType, RunInv, DigestIsTracked, Locals
<1>5. GaugesFollow'
  BY <1>0, <1>1, <1>2, <1>3, GaugeStays DEF IInv, endVars
<1>6. CASE Goes(r, "send", IF local[r].todo = 1 THEN "complete" ELSE "send")
           /\ \E arrives, answered \in BOOLEAN :
                /\ answered => arrives
                /\ missing' = [missing EXCEPT ![r] = IF arrives THEN @ - 1 ELSE @]
                /\ local' = [local EXCEPT ![r].todo = @ - 1, ![r].success = @ /\ answered]
  <2>1. PICK arrives \in BOOLEAN, answered \in BOOLEAN :
          /\ answered => arrives
          /\ missing' = [missing EXCEPT ![r] = IF arrives THEN @ - 1 ELSE @]
          /\ local' = [local EXCEPT ![r].todo = @ - 1, ![r].success = @ /\ answered]
    BY <1>6
  <2> DEFINE l == [local[r] EXCEPT !.todo = @ - 1, !.success = @ /\ answered]
             m == IF arrives THEN missing[r] - 1 ELSE missing[r]
  <2>2. local' = [local EXCEPT ![r] = l] /\ missing' = [missing EXCEPT ![r] = m]
    BY <2>1
  <2>3. local[r].todo - 1 \in 0..MaxParts /\ m \in 0..MaxParts /\ local[r].todo - 1 <= m
    BY <1>4, AgentAssumption
  <2>4. (local[r].success /\ answered) \in BOOLEAN
    OBVIOUS
  <2>5. l \in Locals
    BY <1>4, <2>3, <2>4 DEF Locals
  <2>6. /\ l.items = local[r].items /\ l.stored = local[r].stored /\ l.todo = local[r].todo - 1
        /\ l.success = (local[r].success /\ answered)
    BY <1>4 DEF Locals
  <2>7. l.success => local[r].success /\ answered
    BY <2>6
  <2>8. l.success => arrives /\ m = missing[r] - 1
    BY <2>1, <2>7
  <2> HIDE DEF l, m
  <2>9. to = "send" => local[r].todo # 1
    BY <1>1, <1>2, <1>6 DEF Goes, IInv, InvType
  <2>10. to = "complete" => local[r].todo = 1
    BY <1>1, <1>2, <1>6 DEF Goes, IInv, InvType
  <2>11. local'[r] = l /\ missing'[r] = m
    BY <2>2 DEF IInv, InvType
  <2>12. InvType'
    BY <1>1, <1>2, <1>3, <2>2, <2>3, <2>5 DEF IInv, InvType, dbVars, endVars
  <2>13. \A q \in Runs \ {r} : Untouched(q)
    BY <1>1, <1>3, <2>2 DEF Untouched, IInv, InvType, dbVars, endVars
  <2>14. DigestIsTracked(r)'
    <3>1. stage[r] = "send" /\ local[r].success => missing[r] = local[r].todo
      BY DEF IInv, RunInv, DigestIsTracked
    <3>2. r \in chats' /\ local'[r].stored = local'[r].items
      BY <1>0, <1>3, <2>6, <2>11 DEF IInv, RunInv, DigestIsTracked
    <3>3. CASE to = "send"
      <4>1. l.todo \in 1..m
        BY <1>4, <2>3, <2>6, <2>9, <3>3
      <4>2. l.success => m = l.todo
        BY <1>0, <2>6, <2>7, <2>8, <3>1
      <4> QED BY <1>2, <2>11, <3>2, <3>3, <4>1, <4>2 DEF DigestIsTracked
    <3>4. CASE to = "complete"
      <4>1. l.success => m = 0
        BY <1>0, <1>4, <2>6, <2>7, <2>8, <2>10, <3>1, <3>4
      <4> QED BY <1>2, <2>11, <3>2, <3>4, <4>1 DEF DigestIsTracked
    <3> QED BY <3>3, <3>4
  <2>15. RunInv(r)'
    BY <1>0, <1>2, <1>3, <2>6, <2>11, <2>14, RowsTyped DEF IInv, RunInv, Working, RowFollows, RowIsTrue,
       Status, dbVars, endVars
  <2> QED BY <1>5, <2>12, <2>13, <2>15, OthersKeep DEF IInv
<1>7. CASE /\ Goes(r, "send", "complete")
           /\ local' = [local EXCEPT ![r].success = FALSE]
           /\ UNCHANGED missing
  <2> DEFINE l == [local[r] EXCEPT !.success = FALSE]
  <2>1. local' = [local EXCEPT ![r] = l]
    BY <1>7
  <2>2. l \in Locals /\ l.items = local[r].items /\ l.stored = local[r].stored /\ ~l.success
    BY <1>4 DEF Locals
  <2> HIDE DEF l
  <2>3. "complete" \in Stages /\ stage' = [stage EXCEPT ![r] = "complete"]
    BY <1>7 DEF Goes, Stages, Counted
  <2>4. /\ InvType'
        /\ stage'[r] = "complete" /\ local'[r] = l
        /\ \A q \in Runs \ {r} : Untouched(q)
    BY <1>3, <1>7, <2>1, <2>2, <2>3, LocalStep DEF endVars, chatVars
  <2>5. RunInv(r)'
    BY <1>0, <1>3, <1>7, <2>2, <2>4, RowsTyped DEF IInv, RunInv, Working, DigestIsTracked, RowFollows,
       RowIsTrue, Status, dbVars, endVars
  <2> QED BY <1>5, <2>4, <2>5, OthersKeep DEF IInv
<1> QED BY <1>6, <1>7 DEF SendPart

LEMMA CompleteKeeps ==
  ASSUME IInv, NEW r \in Runs, Complete(r)
  PROVE  IInv'
<1>1. CASE Raise(r, "complete")
  BY <1>1, RaiseKeeps DEF Counted
<1>2. CASE ~Raise(r, "complete")
  <2> DEFINE n == local[r].stored
             row == [status |-> "completed", discovered |-> n,
                     sent |-> IF local[r].success THEN n ELSE 0]
  <2>1. /\ stage[r] = "complete" /\ stage' = [stage EXCEPT ![r] = "stamp"]
        /\ local' = [local EXCEPT ![r] = NoLocals] /\ rows' = [rows EXCEPT ![r] = row]
        /\ UNCHANGED <<agent, edit, results, cascaded, chatVars, endVars>>
    BY <1>2 DEF Complete, Goes, Forgets
  <2>2. n \in 0..MaxItems /\ 0 \in 0..MaxItems
    BY AgentAssumption DEF IInv, InvType, Locals
  <2>3. /\ row \in Rows /\ row.status = "completed" /\ row.discovered = n
        /\ row.sent > 0 => row.sent = n /\ local[r].success
    BY <2>2 DEF Rows
  <2>4. local[r].success => r \in chats /\ missing[r] = 0
    BY <2>1 DEF IInv, RunInv, DigestIsTracked
  <2>5. r \notin cascaded => results[r] = n
    BY <2>1 DEF IInv, RunInv, Working
  <2> HIDE DEF n, row
  <2>6. "stamp" \in Stages /\ "stamp" \in Counted /\ stage[r] \in Counted
    BY <2>1 DEF Stages, Counted
  <2>7. stage'[r] = "stamp" /\ local'[r] = NoLocals /\ rows'[r] = row
    BY <2>1 DEF IInv, InvType
  <2>8. InvType'
    BY <2>1, <2>3, <2>6, LocalsTyped DEF IInv, InvType, chatVars, endVars
  <2>9. \A q \in Runs \ {r} : Untouched(q)
    BY <2>1 DEF Untouched, IInv, InvType, chatVars, endVars
  <2>10. RunInv(r)'
    BY <2>1, <2>3, <2>4, <2>5, <2>7 DEF IInv, RunInv, Working, DigestIsTracked, RowFollows,
       RowIsTrue, Status, chatVars, endVars
  <2>11. GaugesFollow'
    BY <2>1, <2>6, GaugeStays DEF IInv, endVars
  <2> QED BY <2>8, <2>9, <2>10, <2>11, OthersKeep DEF IInv
<1> QED BY <1>1, <1>2

LEMMA StampKeeps ==
  ASSUME IInv, NEW r \in Runs, Stamp(r)
  PROVE  IInv'
<1>0. "stamp" \in Counted /\ stage[r] = "stamp"
  BY DEF Stamp, Leaves, Ends, Raise, Goes, Counted
<1>1. CASE Raise(r, "stamp")
  BY <1>0, <1>1, RaiseKeeps
<1>2. CASE Leaves(r, "stamp") /\ UNCHANGED <<dbVars, chatVars, abandoned, leaked, reported, unheard>>
  <2>1. Status(r) \in {"completed", "absent"} /\ r \notin reported \cup unheard
    BY <1>0 DEF IInv, RunInv, RowFollows
  <2> QED BY <1>0, <1>2, <2>1, LeavingKeeps
<1> QED BY <1>1, <1>2 DEF Stamp, reportVars

LEMMA FailKeeps ==
  ASSUME IInv, NEW r \in Runs, Fail(r)
  PROVE  IInv'
<1>0. "fail" \in Counted /\ stage[r] = "fail"
  BY DEF Fail, Leaves, Ends, Goes, Counted
<1>1. CASE Leaves(r, "fail") /\ abandoned' = abandoned \cup {r}
           /\ UNCHANGED <<dbVars, chatVars, leaked, reported, unheard>>
  <2>1. r \notin reported \cup unheard /\ r \in abandoned'
    BY <1>0, <1>1 DEF IInv, RunInv, RowFollows
  <2> QED BY <1>0, <1>1, <2>1, LeavingKeeps
<1>2. CASE /\ rows[r] # NoRow
           /\ Goes(r, "fail", "failstamp")
           /\ rows' = [rows EXCEPT ![r].status = "failed"]
           /\ UNCHANGED <<agent, edit, results, cascaded, local, chatVars, endVars>>
  <2> DEFINE row == [rows[r] EXCEPT !.status = "failed"]
  <2>1. stage' = [stage EXCEPT ![r] = "failstamp"] /\ rows' = [rows EXCEPT ![r] = row]
    BY <1>2 DEF Goes
  <2>2. /\ row \in Rows /\ row.status = "failed" /\ row.discovered = rows[r].discovered
        /\ row.sent = rows[r].sent
    BY DEF IInv, InvType, Rows
  <2> HIDE DEF row
  <2>3. "failstamp" \in Stages /\ "failstamp" \in Counted
    BY DEF Stages, Counted
  <2>4. stage'[r] = "failstamp" /\ rows'[r] = row
    BY <2>1 DEF IInv, InvType
  <2>5. InvType'
    BY <1>2, <2>1, <2>2, <2>3 DEF IInv, InvType, chatVars, endVars
  <2>6. \A q \in Runs \ {r} : Untouched(q)
    BY <1>2, <2>1 DEF Untouched, IInv, InvType, chatVars, endVars
  <2>7. RunInv(r)'
    BY <1>0, <1>2, <2>2, <2>4 DEF IInv, RunInv, DigestIsTracked, RowFollows, RowIsTrue, Status,
       chatVars, endVars
  <2>8. GaugesFollow'
    BY <1>0, <1>2, <2>1, <2>3, GaugeStays DEF IInv, endVars
  <2> QED BY <2>5, <2>6, <2>7, <2>8, OthersKeep DEF IInv
<1> QED BY <1>1, <1>2 DEF Fail, reportVars

LEMMA FailStampKeeps ==
  ASSUME IInv, NEW r \in Runs, FailStamp(r)
  PROVE  IInv'
<1>0. "failstamp" \in Counted /\ stage[r] = "failstamp"
  BY DEF FailStamp, Leaves, Ends, Goes, Counted
<1>1. CASE Leaves(r, "failstamp") /\ abandoned' = abandoned \cup {r}
           /\ UNCHANGED <<dbVars, chatVars, leaked, reported, unheard>>
  <2>1. r \notin reported \cup unheard /\ r \in abandoned'
    BY <1>0, <1>1 DEF IInv, RunInv, RowFollows
  <2> QED BY <1>0, <1>1, <2>1, LeavingKeeps
<1>2. CASE Goes(r, "failstamp", "notify") /\ UNCHANGED <<dbVars, local, chatVars, endVars>>
  <2>1. stage' = [stage EXCEPT ![r] = "notify"]
    BY <1>2 DEF Goes
  <2>2. "notify" \in Stages /\ "notify" \in Counted
    BY DEF Stages, Counted
  <2>3. local[r] \in Locals /\ local' = [local EXCEPT ![r] = local[r]]
    BY <1>2 DEF IInv, InvType
  <2>4. /\ InvType'
        /\ stage'[r] = "notify"
        /\ \A q \in Runs \ {r} : Untouched(q)
    BY <1>2, <2>1, <2>2, <2>3, LocalStep DEF endVars
  <2>5. RunInv(r)'
    BY <1>0, <1>2, <2>4 DEF IInv, RunInv, DigestIsTracked, RowFollows, RowIsTrue, Status,
       dbVars, chatVars, endVars
  <2>6. GaugesFollow'
    BY <1>0, <1>2, <2>1, <2>2, GaugeStays DEF IInv, endVars
  <2> QED BY <2>4, <2>5, <2>6, OthersKeep DEF IInv
<1> QED BY <1>1, <1>2 DEF FailStamp, reportVars

LEMMA NotifyKeeps ==
  ASSUME IInv, NEW r \in Runs, Notify(r)
  PROVE  IInv'
<1>1. /\ "notify" \in Counted /\ stage[r] = "notify" /\ Leaves(r, "notify")
      /\ UNCHANGED <<dbVars, chatVars, abandoned, leaked>>
      /\ \/ r \notin chats /\ reported' = reported /\ unheard' = unheard
         \/ r \in chats /\ reported' = reported \cup {r} /\ unheard' = unheard
         \/ r \in chats /\ unheard' = unheard \cup {r} /\ reported' = reported
  BY DEF Notify, Leaves, Ends, Goes, Counted, reportVars
<1>2. Status(r) \in {"failed", "absent"} /\ r \notin abandoned \cup reported \cup unheard
  BY <1>1 DEF IInv, RunInv, RowFollows
<1>3. /\ reported' \in {reported, reported \cup {r}} /\ unheard' \in {unheard, unheard \cup {r}}
      /\ r \in unheard' => r \in chats /\ r \notin reported'
      /\ r \notin reported' \cup unheard' => r \notin chats
  BY <1>1, <1>2
<1> QED BY <1>1, <1>2, <1>3, LeavingKeeps

LEMMA ClientLeavesKeeps ==
  ASSUME IInv, NEW r \in Runs, ClientLeaves(r)
  PROVE  IInv'
<1>0. abandoned' = abandoned \cup {r}
      /\ UNCHANGED <<agent, edit, results, cascaded, chatVars, reported, unheard>>
  BY DEF ClientLeaves, reportVars
<1>1. CASE Ends(r, "create") /\ agent.exists /\ rows' = [rows EXCEPT ![r] = NewRow]
           /\ UNCHANGED <<gauge, leaked>>
  BY <1>0, <1>1, LosingKeeps
<1>2. CASE Ends(r, "configure") /\ leaked' = leaked \cup {r} /\ UNCHANGED <<rows, gauge>>
  BY <1>0, <1>2, LeakingKeeps DEF dbVars
<1>3. CASE (\E from \in {"persist", "complete", "stamp", "fail", "failstamp"} : Leaves(r, from))
           /\ UNCHANGED <<rows, leaked>>
  <2>1. PICK from \in {"persist", "complete", "stamp", "fail", "failstamp"} : Leaves(r, from)
    BY <1>3
  <2>2. from \in Counted /\ stage[r] = from
    BY <2>1 DEF Leaves, Ends, Goes, Counted
  <2>3. r \in abandoned' /\ r \notin reported' \cup unheard'
    BY <1>0, <2>2 DEF IInv, RunInv, Working, RowFollows
  <2> QED BY <1>0, <1>3, <2>1, <2>2, <2>3, LeavingKeeps DEF dbVars
<1> QED BY <1>1, <1>2, <1>3 DEF ClientLeaves

LEMMA CrashKeeps ==
  ASSUME IInv, NEW p \in Processes, Crash(p)
  PROVE  IInv'
<1> DEFINE mine == {r \in Runs : Process(r) = p}
           running == {r \in mine : stage[r] \notin {"idle", "done"}}
<1>1. /\ stage' = [r \in Runs |-> IF r \in running THEN "done" ELSE stage[r]]
      /\ local' = [r \in Runs |-> IF r \in running THEN NoLocals ELSE local[r]]
      /\ gauge' = [gauge EXCEPT ![p] = 0]
      /\ abandoned' = abandoned \cup running
      /\ leaked' = leaked \ mine
      /\ edit' \in {{}, edit}
      /\ UNCHANGED <<agent, rows, results, cascaded, chatVars, reported, unheard>>
  BY DEF Crash, reportVars
<1>2. "done" \in Stages /\ "done" \notin Counted /\ "idle" \notin Counted
  BY DEF Stages, Counted
<1>3. InvType'
  BY <1>1, <1>2, LocalsTyped DEF IInv, InvType, chatVars
<1>4. ASSUME NEW r \in Runs PROVE RunInv(r)'
  <2>0. RunInv(r)
    BY DEF IInv
  <2>1. CASE r \in running
    <3>1. /\ stage'[r] = "done" /\ local'[r] = NoLocals /\ r \in abandoned' /\ r \notin leaked'
          /\ stage[r] \notin {"idle", "done"}
      BY <1>1, <2>1
    <3> QED BY <1>1, <2>0, <3>1 DEF RunInv, DigestIsTracked, RowFollows, RowIsTrue, Status, chatVars
  <2>2. CASE r \notin running
    <3>1. /\ stage'[r] = stage[r] /\ local'[r] = local[r] /\ (r \in abandoned' <=> r \in abandoned)
          /\ (r \in leaked' => r \in leaked)
      BY <1>1, <2>2
    <3> QED BY <1>1, <2>0, <3>1 DEF RunInv, Unborn, Working, DigestIsTracked, RowFollows, RowIsTrue,
            Status, chatVars
  <2> QED BY <2>1, <2>2
<1>5. GaugesFollow'
  <2>1. ASSUME NEW q \in Processes
        PROVE  gauge'[q] \in Nat /\ gauge'[q] = Cardinality(InRun(q)') + Cardinality(LeakedOf(q)')
    <3>1. CASE q = p
      <4>1. InRun(q)' = {}
        BY <1>1, <1>2, <3>1 DEF InRun
      <4>2. LeakedOf(q)' = {}
        BY <1>1, <3>1 DEF LeakedOf, IInv, InvType
      <4>3. gauge'[q] = 0
        BY <1>1, <3>1 DEF IInv, GaugesFollow
      <4> QED BY <4>1, <4>2, <4>3, FS_EmptySet
    <3>2. CASE q # p
      <4>1. InRun(q)' = InRun(q)
        BY <1>1, <3>2 DEF InRun
      <4>2. LeakedOf(q)' = LeakedOf(q)
        BY <1>1, <3>2 DEF LeakedOf, IInv, InvType
      <4>3. gauge'[q] = gauge[q]
        BY <1>1, <3>2 DEF IInv, GaugesFollow
      <4> QED BY <4>1, <4>2, <4>3 DEF IInv, GaugesFollow, GaugesAreRight, LeakedOf
    <3> QED BY <3>1, <3>2
  <2>2. gauge' \in [Processes -> Nat]
    BY <1>1, <2>1 DEF IInv, GaugesFollow
  <2> QED BY <2>1, <2>2 DEF GaugesFollow, GaugesAreRight, LeakedOf
<1> QED BY <1>3, <1>4, <1>5 DEF IInv

\* The views change the agent, which no handler's progress depends on.
LEMMA AgentChangesKeep ==
  ASSUME IInv, agent' \in Agents, edit' \subseteq BOOLEAN,
         UNCHANGED <<rows, results, cascaded, stage, local, chatVars, endVars>>
  PROVE  IInv'
<1>1. InvType'
  BY DEF IInv, InvType, chatVars, endVars
<1>2. \A q \in Runs : Untouched(q)
  BY DEF Untouched, chatVars, endVars
<1>3. \A q \in Runs : RunInv(q)'
  BY <1>2, UntouchedKeeps DEF IInv
<1>4. GaugesFollow'
  BY DEF IInv, GaugesFollow, GaugesAreRight, InRun, endVars
<1> QED BY <1>1, <1>3, <1>4 DEF IInv

LEMMA ViewsKeep ==
  ASSUME IInv, Toggle \/ EditReads \/ EditSaves
  PROVE  IInv'
<1>1. agent \in Agents /\ edit \subseteq BOOLEAN
  BY DEF IInv, InvType
<1>2. CASE Toggle
  <2>1. agent.exists /\ \E enabled \in BOOLEAN : agent' = [agent EXCEPT !.enabled = enabled]
    BY <1>2 DEF Toggle
  <2>2. agent \in [exists : {TRUE}, enabled : BOOLEAN]
    <3>1. ~NoAgent.exists
      BY DEF NoAgent
    <3> QED BY <1>1, <2>1, <3>1 DEF Agents
  <2>3. agent' \in Agents
    BY <2>1, <2>2 DEF Agents
  <2> QED BY <1>1, <1>2, <2>3, AgentChangesKeep DEF Toggle
<1>3. CASE EditReads
  <2>1. agent.exists /\ edit' = {agent.enabled}
    BY <1>3 DEF EditReads
  <2>2. agent.enabled \in BOOLEAN
    <3>1. CASE agent = NoAgent
      BY <3>1 DEF NoAgent
    <3>2. CASE agent # NoAgent
      BY <1>1, <3>2 DEF Agents
    <3> QED BY <3>1, <3>2
  <2> QED BY <1>1, <1>3, <2>1, <2>2, AgentChangesKeep DEF EditReads
<1>4. CASE EditSaves
  <2>1. PICK enabled \in edit : agent' = [exists |-> TRUE, enabled |-> enabled]
    BY <1>4 DEF EditSaves
  <2>2. agent' \in Agents
    BY <1>1, <2>1 DEF Agents
  <2> QED BY <1>1, <1>4, <2>2, AgentChangesKeep DEF EditSaves
<1> QED BY <1>2, <1>3, <1>4

LEMMA DeleteKeeps ==
  ASSUME IInv, Delete
  PROVE  IInv'
<1>1. /\ agent' = NoAgent
      /\ cascaded' = cascaded \cup {r \in Runs : rows[r] # NoRow}
      /\ rows' = [r \in Runs |-> NoRow] /\ results' = [r \in Runs |-> 0]
      /\ UNCHANGED <<edit, stage, local, chatVars, endVars>>
  BY DEF Delete
<1>2. InvType'
  BY <1>1, RowsTyped, AgentAssumption DEF IInv, InvType, Agents, chatVars, endVars
<1>3. ASSUME NEW r \in Runs PROVE RunInv(r)'
  <2>0. RunInv(r)
    BY DEF IInv
  <2>1. /\ rows'[r] = NoRow /\ results'[r] = 0
        /\ r \in cascaded' <=> r \in cascaded \/ rows[r] # NoRow
    BY <1>1
  <2> QED BY <1>1, <2>0, <2>1, RowsTyped DEF RunInv, Unborn, Working, DigestIsTracked, RowFollows,
          RowIsTrue, Status, chatVars, endVars
<1>4. GaugesFollow'
  BY <1>1 DEF IInv, GaugesFollow, GaugesAreRight, InRun, endVars
<1> QED BY <1>2, <1>3, <1>4 DEF IInv

-----------------------------------------------------------------------------

LEMMA InitHolds == Init => IInv
<1> SUFFICES ASSUME Init PROVE IInv
  OBVIOUS
<1> USE DEF Init
<1>1. InvType
  <2>1. 0 \in 0..MaxItems /\ MaxParts \in 0..MaxParts
    BY AgentAssumption
  <2> QED BY <2>1, LocalsTyped, RowsTyped DEF InvType, Agents, Stages
<1>2. ASSUME NEW r \in Runs PROVE RunInv(r)
  BY RowsTyped, LocalsTyped DEF RunInv, Unborn, DigestIsTracked, RowFollows, RowIsTrue, Status
<1>3. GaugesFollow
  <2>1. \A p \in Processes : InRun(p) = {} /\ {r \in leaked : Process(r) = p} = {}
    BY DEF InRun, Counted
  <2> QED BY <2>1, FS_EmptySet DEF GaugesFollow, GaugesAreRight
<1> QED BY <1>1, <1>2, <1>3 DEF IInv

LEMMA StepKeeps == IInv /\ [Next]_vars => IInv'
<1> SUFFICES ASSUME IInv, [Next]_vars PROVE IInv'
  OBVIOUS
<1>1. CASE \E r \in Runs : Start(r) \/ Step(r) \/ ClientLeaves(r)
  <2>1. PICK r \in Runs : Start(r) \/ Step(r) \/ ClientLeaves(r)
    BY <1>1
  <2>2. CASE Start(r)
    BY <2>2, StartKeeps
  <2>3. CASE ClientLeaves(r)
    BY <2>3, ClientLeavesKeeps
  <2>4. CASE Pipeline(r)
    BY <2>4, CollectKeeps, PersistKeeps, DigestKeeps, SendPartKeeps, CompleteKeeps DEF Pipeline
  <2>5. CASE Create(r) \/ Configure(r) \/ Stamp(r) \/ Fail(r) \/ FailStamp(r) \/ Notify(r)
    BY <2>5, CreateKeeps, ConfigureKeeps, StampKeeps, FailKeeps, FailStampKeeps, NotifyKeeps
  <2> QED BY <2>1, <2>2, <2>3, <2>4, <2>5 DEF Step
<1>2. CASE \E p \in Processes : Crash(p)
  BY <1>2, CrashKeeps
<1>3. CASE Toggle \/ EditReads \/ EditSaves
  BY <1>3, ViewsKeep
<1>4. CASE Delete
  BY <1>4, DeleteKeeps
<1>5. CASE UNCHANGED vars
  <2>1. agent \in Agents /\ edit \subseteq BOOLEAN
    BY DEF IInv, InvType
  <2> QED BY <1>5, <2>1, AgentChangesKeep DEF vars, dbVars
<1> QED BY <1>1, <1>2, <1>3, <1>4, <1>5 DEF Next

THEOREM Invariance == Spec => []IInv
BY InitHolds, StepKeeps, PTL DEF Spec

\* The variables have their types: in particular no gauge goes below zero, no
\* run stores more results than MaxItems, and no digest owes a message less
\* than none.
THEOREM TypeCorrect == Spec => []TypeOK
<1>1. IInv => TypeOK
  BY DEF IInv, InvType, GaugesFollow, TypeOK
<1> QED BY <1>1, Invariance, PTL

\* What _complete_run writes (pipeline.py) is true of the database and of the
\* chat, whatever failed, crashed or was deleted on the way.
THEOREM CompletedRowsTell == Spec => []CompletedRowsAreTrue
<1>1. IInv => CompletedRowsAreTrue
  BY DEF IInv, RunInv, RowIsTrue, CompletedRowsAreTrue
<1> QED BY <1>1, Invariance, PTL

\* agent_active_runs is raised by run_agent and lowered by its finally block
\* (runner.py): a process' gauge is the number of its handlers in between and
\* of those that ended between the increment and the try.
THEOREM GaugesCount == Spec => []GaugesAreRight
<1>1. IInv => GaugesAreRight
  BY DEF IInv, GaugesFollow
<1> QED BY <1>1, Invariance, PTL

\* run_agent leaves no row "running" behind unless it was cut short, and makes
\* one report to the chat of a failure and of nothing else: a failed run the
\* chat does not hear of is one whose report Telegram did not take, or one
\* that was cut short (runner.py, the except block).
THEOREM HandlersSettle == Spec => []HandlersSettleTheirRows
<1>1. ASSUME IInv PROVE HandlersSettleTheirRows
  <2>1. ASSUME NEW r \in Runs \ abandoned, Status(r) = "running"
        PROVE  stage[r] \in Counted
    <3>1. stage[r] \in Stages /\ RunInv(r)
      BY <1>1 DEF IInv, InvType
    <3>2. stage[r] # "done" /\ stage[r] \notin {"idle", "create"}
      BY <2>1, <3>1, RowsTyped DEF RunInv, Unborn, RowFollows, Status
    <3> QED BY <3>1, <3>2 DEF Stages
  <2>2. /\ \A r \in reported \cup unheard : Status(r) \in {"failed", "absent"}
        /\ reported \cap unheard = {}
    BY <1>1 DEF IInv, InvType, RunInv, RowIsTrue
  <2>3. \A r \in Runs \ (abandoned \cup reported) :
          Status(r) = "failed" /\ stage[r] = "done" => (r \in chats <=> r \in unheard)
    BY <1>1 DEF IInv, RunInv, RowFollows, RowIsTrue
  <2> QED BY <2>1, <2>2, <2>3 DEF HandlersSettleTheirRows
<1> QED BY <1>1, Invariance, PTL

-----------------------------------------------------------------------------
(* The status of a row from one state to the next.                         *)

Settles(r) ==
  /\ Status(r) = "failed" => Status(r)' \in {"failed", "absent"}
  /\ Status(r) = "completed" /\ stage[r] # "fail" => Status(r)' \in {"completed", "absent"}

\* Four steps write a row: a handler's row is not settled yet when it writes
\* it, save for the failure of a run that could not save last_run_at.
LEMMA WritersOfRows ==
  ASSUME IInv, NEW r \in Runs, Start(r) \/ Step(r) \/ ClientLeaves(r)
  PROVE  \A q \in Runs : Settles(q)
<1>0. /\ rows \in [Runs -> Rows] /\ RunInv(r)
  BY DEF IInv, InvType
<1>1. CASE UNCHANGED rows
  BY <1>1 DEF Settles, Status
<1>2. CASE stage[r] = "create" /\ rows' = [rows EXCEPT ![r] = NewRow]
  BY <1>0, <1>2, RowsTyped DEF RunInv, Unborn, Settles, Status
<1>3. CASE Complete(r) /\ ~UNCHANGED rows
  <2>1. /\ stage[r] = "complete"
        /\ rows' = [rows EXCEPT ![r] =
                      [status |-> "completed", discovered |-> local[r].stored,
                       sent |-> IF local[r].success THEN local[r].stored ELSE 0]]
    BY <1>3 DEF Complete, Goes, Raise, dbVars
  <2>2. Status(r) \in {"running", "absent"}
    BY <1>0, <2>1, RowsTyped DEF RunInv, Working, Status
  <2>3. rows'[r].status = "completed" /\ \A q \in Runs \ {r} : rows'[q] = rows[q]
    BY <1>0, <2>1
  <2> QED BY <2>2, <2>3 DEF Settles, Status
<1>4. CASE Fail(r) /\ ~UNCHANGED rows
  <2>1. stage[r] = "fail" /\ rows' = [rows EXCEPT ![r].status = "failed"]
    BY <1>4 DEF Fail, Goes, Leaves, Ends, dbVars
  <2>2. rows'[r].status = "failed" /\ \A q \in Runs \ {r} : rows'[q] = rows[q]
    BY <1>0, <2>1 DEF Rows
  <2>3. Status(r) # "failed"
    BY <1>0, <2>1 DEF RunInv, RowFollows
  <2> QED BY <2>1, <2>2, <2>3 DEF Settles, Status
<1>5. CASE Create(r) \/ ClientLeaves(r)
  BY <1>1, <1>2, <1>5 DEF Create, ClientLeaves, Ends, Goes, dbVars
<1>6. CASE Start(r) \/ Configure(r) \/ Collect(r) \/ Persist(r) \/ Digest(r) \/ SendPart(r)
           \/ Stamp(r) \/ FailStamp(r) \/ Notify(r)
  BY <1>1, <1>6 DEF Start, Configure, Collect, Persist, Digest, SendPart, Stamp, FailStamp, Notify,
     Raise, dbVars
<1> QED BY <1>1, <1>3, <1>4, <1>5, <1>6 DEF Step, Pipeline

\* A settled run is settled for good, in whatever order the handlers, the
\* views and the crashes come: the except block of run_agent is the only code
\* that overwrites "completed", when last_run_at could not be saved.
THEOREM SettledForGood == Spec => SettledStaysSettled
<1>1. ASSUME IInv, [Next]_vars
      PROVE  [\A r \in Runs : Settles(r)]_vars
  <2>1. CASE \E r \in Runs : Start(r) \/ Step(r) \/ ClientLeaves(r)
    BY <1>1, <2>1, WritersOfRows
  <2>2. CASE Delete
    BY <2>2, RowsTyped DEF Delete, Settles, Status
  <2>3. CASE UNCHANGED rows
    BY <2>3 DEF Settles, Status
  <2>4. (\E p \in Processes : Crash(p)) \/ Toggle \/ EditReads \/ EditSaves => UNCHANGED rows
    BY DEF Crash, Toggle, EditReads, EditSaves
  <2> QED BY <1>1, <2>1, <2>2, <2>3, <2>4 DEF Next
<1> QED BY <1>1, Invariance, PTL DEF Spec, SettledStaysSettled, Settles

-----------------------------------------------------------------------------
(* Collection: what a run collects, drops, ranks and stores.               *)

AnyItem == Items(AnyUrl, AnyTitle)
ScoredItem == [item : AnyItem, score : Nat]
StoredItem == [item : AnyItem, score : Nat, summary : AnyItem]

CollectionTypeOK ==
  /\ pipeline \in Pipelines
  /\ step \in {"collect", "rank", "summarise", "store", "done", "failed"}
  /\ items \in Seq(AnyItem) /\ kept \in Seq(AnyItem) /\ ranked \in Seq(AnyItem)
  /\ scores \in Seq(Scores) /\ scored \in Seq(ScoredItem)
  /\ summaries \in Seq(AnyItem) /\ stored \in Seq(StoredItem) /\ digest \in Seq(StoredItem)

\* Nothing is there before it is made.
NothingYet ==
  /\ step = "collect" => kept = <<>>
  /\ step \in {"collect", "rank"} =>
       scores = <<>> /\ scored = <<>> /\ ranked = <<>>
  /\ step \in {"collect", "rank", "summarise"} => summaries = <<>> /\ stored = <<>>
  /\ step # "done" => digest = <<>>

\* No two of the items of s have a text in common.
Distinct(s) == \A m, n \in DOMAIN s : m # n => Texts(s[m]) \cap Texts(s[n]) = {}

\* Item n is in the list, or has no text of its own, or shares one with an
\* item before it.
Accounted(list, n) ==
  \/ \E m \in DOMAIN list : list[m] = items[n]
  \/ items[n].url = items[n].title
  \/ \E m \in 1..n-1 : Texts(items[m]) \cap Texts(items[n]) # {}

DedupInv ==
  /\ Distinct(kept)
  /\ Deduplicated => \A n \in DOMAIN items : Accounted(kept, n)

Wanted == IF pipeline = "jobs" THEN Matching ELSE Relevant

\* The score that an item is to be stored with.
Own(m) == IF m \in DOMAIN scores THEN scores[m] ELSE IF pipeline = "jobs" THEN Neutral ELSE 0

\* The score that Store gives to the n-th.
Stores(n) == IF pipeline = "research" THEN ScoreByKey(ranked[n]) ELSE scored[n].score

\* Place o[n] of kept is what the n-th to be stored is found at.
RankedBy(o) ==
  /\ o \in [DOMAIN ranked -> DOMAIN kept]
  /\ \A n \in DOMAIN ranked : ranked[n] = kept[o[n]] /\ Stores(n) = Own(o[n])
  /\ \A m, n \in DOMAIN ranked : m < n => Own(o[m]) >= Own(o[n])
  /\ \A m \in DOMAIN scores : (\A n \in DOMAIN ranked : ranked[n] # kept[m]) =>
       /\ \A n \in DOMAIN ranked : Own(o[n]) >= scores[m]
       /\ scores[m] < Wanted \/ Len(ranked) = MaxResults

RankInv ==
  /\ DOMAIN scores \subseteq DOMAIN kept
  /\ Len(ranked) <= MaxResults
  /\ \E o \in [DOMAIN ranked -> DOMAIN kept] : RankedBy(o)

SummaryInv ==
  /\ Len(summaries) <= Len(ranked)
  /\ \A n \in DOMAIN summaries : summaries[n] \in {ranked[n], NoSummary}

RowsInv ==
  /\ Len(stored) <= Len(ranked)
  /\ \A n \in DOMAIN stored :
       /\ stored[n].item = ranked[n] /\ stored[n].score = Stores(n)
       /\ stored[n].summary \in {ranked[n], NoSummary}
  /\ step = "done" => Len(stored) = Len(ranked) /\ digest \in {<<>>, Take(stored, MaxShown)}

\* The inductive invariant of what a run collects.
CollectionInv ==
  CollectionTypeOK /\ NothingYet /\ DedupInv /\ RankInv /\ SummaryInv /\ RowsInv

-----------------------------------------------------------------------------
(* Induction and recursion over numbers, from the order of the naturals.   *)

\* Every set of naturals that is not empty has a least element.
LEMMA Least ==
  ASSUME NEW T \in SUBSET Nat, T # {}
  PROVE  \E n \in T : \A m \in T : n <= m
<1>1. PICK n \in T : \A m \in T : ~ (<<m, n>> \in OpToRel(<, Nat))
  BY WFMin, NatLessThanWellFounded
<1>2. \A m \in T : ~ (m < n)
  BY <1>1 DEF OpToRel
<1> QED BY <1>2

\* Induction up to n over a set of numbers.
LEMMA UpTo ==
  ASSUME NEW n \in Nat, NEW P, 0 \in P, \A i \in 1..n : i - 1 \in P => i \in P
  PROVE  \A i \in 0..n : i \in P
<1> DEFINE T == 0..n \ P
<1> SUFFICES ASSUME T # {} PROVE FALSE
  OBVIOUS
<1>0. T \in SUBSET Nat
  OBVIOUS
<1>1. PICK m \in T : \A k \in T : m <= k
  <2> HIDE DEF T
  <2> QED BY <1>0, Least
<1>2. m \in 1..n /\ m - 1 \in 0..n /\ ~ (m <= m - 1)
  BY <1>1
<1>3. m - 1 \in P
  BY <1>1, <1>2
<1> QED BY <1>1, <1>2, <1>3

\* A function may be defined by recursion up to n.
IsRecursive(f, n, b, g) == f = [i \in 0..n |-> IF i = 0 THEN b ELSE g[i][f[i - 1]]]

LEMMA Recursion ==
  ASSUME NEW n \in Nat, NEW S, NEW b \in S, NEW g \in [1..n -> [S -> S]]
  PROVE  \E f \in [0..n -> S] : IsRecursive(f, n, b, g)
<1> DEFINE Reaches(m) == \E f \in [0..m -> S] : IsRecursive(f, m, b, g)
           P == {m \in 0..n : Reaches(m)}
<1>1. Reaches(0)
  <2> DEFINE f == [i \in 0..0 |-> b]
  <2>1. f \in [0..0 -> S] /\ IsRecursive(f, 0, b, g)
    BY DEF IsRecursive
  <2> QED BY <2>1
<1>2. ASSUME NEW m \in 1..n, Reaches(m - 1) PROVE Reaches(m)
  <2>1. PICK f \in [0..m-1 -> S] : IsRecursive(f, m - 1, b, g)
    BY <1>2
  <2> DEFINE h == [i \in 0..m |-> IF i = m THEN g[m][f[m - 1]] ELSE f[i]]
  <2>2. g[m][f[m - 1]] \in S
    BY <1>2, <2>1
  <2>3. h \in [0..m -> S]
    BY <2>1, <2>2
  <2>4. ASSUME NEW i \in 0..m PROVE h[i] = IF i = 0 THEN b ELSE g[i][h[i - 1]]
    <3>1. CASE i = m
      BY <1>2, <3>1
    <3>2. CASE i # m
      <4>1. i \in 0..m-1 /\ h[i] = f[i] /\ (i # 0 => i - 1 \in 0..m-1 /\ h[i - 1] = f[i - 1])
        BY <1>2, <3>2
      <4>2. f[i] = IF i = 0 THEN b ELSE g[i][f[i - 1]]
        BY <2>1, <4>1 DEF IsRecursive
      <4> QED BY <4>1, <4>2
    <3> QED BY <3>1, <3>2
  <2> HIDE DEF h
  <2>5. IsRecursive(h, m, b, g)
    BY <2>3, <2>4 DEF IsRecursive
  <2> QED BY <2>3, <2>5
<1> HIDE DEF Reaches
<1>3. 0 \in P /\ \A i \in 1..n : i - 1 \in P => i \in P
  BY <1>1, <1>2
<1> HIDE DEF P
<1>4. \A i \in 0..n : i \in P
  BY <1>3, UpTo
<1>5. n \in 0..n
  OBVIOUS
<1> QED BY <1>4, <1>5 DEF P, Reaches

-----------------------------------------------------------------------------
(* The members of a set in an order.                                       *)

IsOrder(S, R) ==
  /\ \A i \in S : <<i, i>> \notin R
  /\ \A i, j \in S : i # j => <<i, j>> \in R \/ <<j, i>> \in R
  /\ \A i, j, k \in S : <<i, j>> \in R /\ <<j, k>> \in R => <<i, k>> \in R

Below(S, R, i) == {j \in S : <<j, i>> \in R}
Rank(S, R, i) == Cardinality(Below(S, R, i)) + 1

\* Different members have different ranks, and every rank is taken.
LEMMA RanksAre ==
  ASSUME NEW S, IsFiniteSet(S), NEW R, IsOrder(S, R)
  PROVE  /\ \A i \in S : Rank(S, R, i) \in 1..Cardinality(S)
         /\ \A i, j \in S : <<i, j>> \in R => Rank(S, R, i) < Rank(S, R, j)
         /\ \A i, j \in S : Rank(S, R, i) = Rank(S, R, j) => i = j
         /\ \A n \in 1..Cardinality(S) : \E i \in S : Rank(S, R, i) = n
<1> DEFINE N == Cardinality(S)
           rank == [i \in S |-> Rank(S, R, i)]
<1>0. N \in Nat
  BY FS_CardinalityType
<1>1. ASSUME NEW i \in S
      PROVE  IsFiniteSet(Below(S, R, i)) /\ Cardinality(Below(S, R, i)) \in Nat /\ Rank(S, R, i) \in 1..N
  <2>1. Below(S, R, i) \subseteq S /\ i \notin Below(S, R, i)
    BY DEF IsOrder, Below
  <2>2. /\ IsFiniteSet(Below(S, R, i)) /\ Cardinality(Below(S, R, i)) <= N
        /\ Cardinality(Below(S, R, i)) # N
    BY <2>1, FS_Subset
  <2>3. Cardinality(Below(S, R, i)) \in Nat
    BY <2>2, FS_CardinalityType
  <2> HIDE DEF N
  <2> QED BY <2>2, <2>3, <1>0 DEF Rank
<1>2. ASSUME NEW i \in S, NEW j \in S, <<i, j>> \in R PROVE Rank(S, R, i) < Rank(S, R, j)
  <2>1. Below(S, R, i) \subseteq Below(S, R, j) /\ i \in Below(S, R, j) /\ i \notin Below(S, R, i)
    BY <1>2 DEF IsOrder, Below
  <2>2. /\ Cardinality(Below(S, R, i)) <= Cardinality(Below(S, R, j))
        /\ Cardinality(Below(S, R, i)) # Cardinality(Below(S, R, j))
    BY <2>1, <1>1, FS_Subset
  <2> QED BY <2>2, <1>1 DEF Rank
<1>3. \A i, j \in S : Rank(S, R, i) = Rank(S, R, j) => i = j
  <2> SUFFICES ASSUME NEW i \in S, NEW j \in S, i # j PROVE Rank(S, R, i) # Rank(S, R, j)
    OBVIOUS
  <2>1. /\ <<i, j>> \in R \/ <<j, i>> \in R
        /\ Rank(S, R, i) \in Int /\ Rank(S, R, j) \in Int
    BY <1>1 DEF IsOrder
  <2> QED BY <2>1, <1>2
<1>4. rank \in [S -> 1..N] /\ \A i \in S : rank[i] = Rank(S, R, i)
  BY <1>1
<1>5. \A n \in 1..N : \E i \in S : rank[i] = n
  <2> HIDE DEF rank
  <2>1. rank \in Injection(S, 1..N)
    BY <1>3, <1>4, Fun_IsInj
  <2>2. IsFiniteSet(1..N) /\ Cardinality(1..N) = N
    BY <1>0, FS_Interval
  <2>3. rank \in Surjection(S, 1..N)
    BY <2>1, <2>2, FS_Injection
  <2> QED BY <2>3, Fun_SurjectionProperties
<1>6. \A n \in 1..N : \E i \in S : Rank(S, R, i) = n
  <2> HIDE DEF rank
  <2> QED BY <1>4, <1>5
<1> QED BY <1>1, <1>2, <1>3, <1>6

\* A strict order that decides between any two puts a finite set in a row.
LEMMA InOrderIs ==
  ASSUME NEW S, IsFiniteSet(S), NEW R, IsOrder(S, R)
  PROVE  /\ InOrder(S, R) \in Bijection(1..Cardinality(S), S)
         /\ \A m, n \in 1..Cardinality(S) :
              m < n => <<InOrder(S, R)[m], InOrder(S, R)[n]>> \in R
<1> DEFINE N == Cardinality(S)
           o == InOrder(S, R)
<1>0. N \in Nat
  BY FS_CardinalityType
<1>1. o = [n \in 1..N |-> CHOOSE i \in S : Cardinality(Below(S, R, i)) = n - 1]
  BY DEF InOrder, Below
<1> HIDE DEF o, N
<1>2. ASSUME NEW n \in 1..N PROVE o[n] \in S /\ Rank(S, R, o[n]) = n
  <2>1. PICK i \in S : Rank(S, R, i) = n
    BY RanksAre DEF N
  <2>2. IsFiniteSet(Below(S, R, i)) /\ \A k \in S : IsFiniteSet(Below(S, R, k))
    <3>1. \A k \in S : Below(S, R, k) \subseteq S
      BY DEF Below
    <3> QED BY <3>1, FS_Subset
  <2>3. \A k \in S : Cardinality(Below(S, R, k)) \in Nat
    BY <2>2, FS_CardinalityType
  <2>4. Cardinality(Below(S, R, i)) = n - 1
    BY <2>1, <2>3, <1>0 DEF Rank
  <2>5. o[n] \in S /\ Cardinality(Below(S, R, o[n])) = n - 1
    BY <1>1, <2>4
  <2> QED BY <2>5, <2>3, <1>0 DEF Rank
<1>3. o \in [1..N -> S]
  BY <1>1, <1>2
<1>4. o \in Bijection(1..N, S)
  <2>1. \A m, n \in 1..N : o[m] = o[n] => m = n
    BY <1>2
  <2>2. \A i \in S : \E n \in 1..N : o[n] = i
    <3> TAKE i \in S
    <3>1. Rank(S, R, i) \in 1..N
      BY RanksAre DEF N
    <3>2. o[Rank(S, R, i)] = i
      BY <3>1, <1>2, RanksAre
    <3> QED BY <3>1, <3>2
  <2> QED BY <1>3, <2>1, <2>2, Fun_IsBij
<1>5. ASSUME NEW m \in 1..N, NEW n \in 1..N, m < n PROVE <<o[m], o[n]>> \in R
  <2>1. o[m] \in S /\ o[n] \in S /\ Rank(S, R, o[m]) = m /\ Rank(S, R, o[n]) = n
    BY <1>2
  <2>2. o[m] # o[n] /\ ~ (<<o[n], o[m]>> \in R)
    BY <2>1, <1>5, RanksAre
  <2> QED BY <2>1, <2>2 DEF IsOrder
<1> QED BY <1>4, <1>5 DEF o, N

\* The numbers up to N are in order.
LEMMA InOrderOfNumbers ==
  ASSUME NEW N \in Nat, NEW R, \A i, j \in 1..N : <<i, j>> \in R <=> i < j
  PROVE  InOrder(1..N, R) = [n \in 1..N |-> n]
<1>1. Cardinality(1..N) = N
  BY FS_Interval
<1>2. ASSUME NEW i \in 1..N PROVE Cardinality({j \in 1..N : <<j, i>> \in R}) = i - 1
  <2>1. {j \in 1..N : <<j, i>> \in R} = 1..i - 1
    OBVIOUS
  <2>2. Cardinality(1..i - 1) = i - 1
    BY FS_Interval
  <2> QED BY <2>1, <2>2
<1>3. ASSUME NEW n \in 1..N
      PROVE  (CHOOSE i \in 1..N : Cardinality({j \in 1..N : <<j, i>> \in R}) = n - 1) = n
  <2> DEFINE Less(i) == Cardinality({j \in 1..N : <<j, i>> \in R})
  <2>1. \A i \in 1..N : Less(i) = i - 1
    BY <1>2
  <2> HIDE DEF Less
  <2>2. (CHOOSE i \in 1..N : Less(i) = n - 1) = n
    BY <2>1
  <2> QED BY <2>2 DEF Less
<1> QED BY <1>1, <1>3 DEF InOrder

-----------------------------------------------------------------------------
(* Sorting, filtering and cutting.                                         *)

LEMMA SequencesAre ==
  ASSUME NEW S, NEW s \in Seq(S)
  PROVE  /\ Len(s) \in Nat /\ DOMAIN s = 1..Len(s)
         /\ s \in [1..Len(s) -> S] /\ \A i \in 1..Len(s) : s[i] \in S
BY LenProperties

LEMMA FunctionsAreSequences ==
  ASSUME NEW S, NEW n \in Nat, NEW f \in [1..n -> S]
  PROVE  f \in Seq(S) /\ Len(f) = n
BY IsASeq, LenProperties

\* Taking the first n of s.
LEMMA TakeIs ==
  ASSUME NEW S, NEW s \in Seq(S), NEW n \in Nat
  PROVE  /\ Lesser(n, Len(s)) \in 0..Len(s) /\ Lesser(n, Len(s)) <= n
         /\ Lesser(n, Len(s)) = n \/ Lesser(n, Len(s)) = Len(s)
         /\ Take(s, n) = [i \in 1..Lesser(n, Len(s)) |-> s[i]]
         /\ Take(s, n) \in Seq(S) /\ Len(Take(s, n)) = Lesser(n, Len(s))
<1> DEFINE l == Lesser(n, Len(s))
<1>1. Len(s) \in Nat /\ DOMAIN s = 1..Len(s)
  BY SequencesAre
<1>2. l \in 0..Len(s) /\ l <= n /\ (l = n \/ l = Len(s))
  BY <1>1 DEF Lesser
<1> HIDE DEF l
<1>3. /\ SubSeq(s, 1, l) \in Seq(S) /\ Len(SubSeq(s, 1, l)) = l
      /\ \A i \in 1..l : SubSeq(s, 1, l)[i] = s[i]
  <2>1. \A i \in 1..Len(s) : s[i] \in S
    BY SequencesAre
  <2>0. l \in Nat /\ \A i \in 1..l : i \in 1..Len(s)
    <3>1. l \in 0..Len(s) /\ Len(s) \in Nat
      BY <1>1, <1>2
    <3> QED BY <3>1
  <2>2. l \in Int /\ \A i \in 1..l : s[i] \in S
    BY <2>0, <2>1
  <2>3. /\ SubSeq(s, 1, l) \in Seq(S)
        /\ Len(SubSeq(s, 1, l)) = IF 1 <= l THEN l - 1 + 1 ELSE 0
        /\ \A i \in 1..l - 1 + 1 : SubSeq(s, 1, l)[i] = s[1 + i - 1]
    BY <2>2, SubSeqProperties
  <2>4. /\ \A i \in 1..l : i \in 1..l - 1 + 1 /\ 1 + i - 1 = i
        /\ (IF 1 <= l THEN l - 1 + 1 ELSE 0) = l
    BY <2>0
  <2> QED BY <2>3, <2>4
<1>4. SubSeq(s, 1, l) = [i \in 1..l |-> s[i]]
  BY <1>3, SequencesAre
<1> QED BY <1>2, <1>3, <1>4 DEF l, Take

\* A list of numbers is sorted, the largest first; equals stay in order.
LEMMA OrderIs ==
  ASSUME NEW given \in Seq(Nat)
  PROVE  /\ Order(given) \in Bijection(1..Len(given), 1..Len(given))
         /\ \A m, n \in 1..Len(given) :
              m < n => given[Order(given)[m]] >= given[Order(given)[n]]
<1> DEFINE N == Len(given)
           o == Order(given)
<1>1. N \in Nat /\ DOMAIN given = 1..N /\ \A i \in 1..N : given[i] \in Nat
  BY SequencesAre
<1>2. \A i, j \in 1..N : <<i, j>> \in Better(given)
                           <=> given[i] > given[j] \/ (given[i] = given[j] /\ i < j)
  BY <1>1 DEF Better
<1> HIDE DEF N
<1>3. IsOrder(1..N, Better(given))
  BY <1>1, <1>2 DEF IsOrder
<1>4. IsFiniteSet(1..N) /\ Cardinality(1..N) = N
  BY <1>1, FS_Interval
<1>5. o = InOrder(1..N, Better(given))
  BY <1>1 DEF Order
<1> HIDE DEF o
<1>6. /\ o \in Bijection(1..N, 1..N)
      /\ \A m, n \in 1..N : m < n => <<o[m], o[n]>> \in Better(given)
  BY <1>3, <1>4, <1>5, InOrderIs
<1>7. ASSUME NEW m \in 1..N, NEW n \in 1..N, m < n PROVE given[o[m]] >= given[o[n]]
  <2>1. o \in [1..N -> 1..N]
    BY <1>6, Fun_BijectionProperties
  <2>2. PICK i \in 1..N, j \in 1..N : i = o[m] /\ j = o[n] /\ <<i, j>> \in Better(given)
    BY <2>1, <1>6, <1>7
  <2>3. given[i] > given[j] \/ given[i] = given[j]
    BY <2>2, <1>2
  <2> QED BY <2>2, <2>3, <1>1
<1> QED BY <1>6, <1>7 DEF N, o

\* What is sorted stays as it is.
LEMMA OrderOfSorted ==
  ASSUME NEW given \in Seq(Nat), \A m, n \in 1..Len(given) : m < n => given[m] >= given[n]
  PROVE  Order(given) = [n \in 1..Len(given) |-> n]
<1>1. /\ Len(given) \in Nat /\ DOMAIN given = 1..Len(given)
      /\ \A i \in 1..Len(given) : given[i] \in Nat
  BY SequencesAre
<1>2. \A i, j \in 1..Len(given) :
        <<i, j>> \in Better(given) <=> given[i] > given[j] \/ (given[i] = given[j] /\ i < j)
  BY <1>1 DEF Better
<1>3. ASSUME NEW i \in 1..Len(given), NEW j \in 1..Len(given)
      PROVE  <<i, j>> \in Better(given) <=> i < j
  <2>1. /\ given[i] \in Nat /\ given[j] \in Nat
        /\ i < j => given[i] >= given[j]
        /\ j < i => given[j] >= given[i]
    BY <1>1
  <2>2. <<i, j>> \in Better(given) <=> given[i] > given[j] \/ (given[i] = given[j] /\ i < j)
    BY <1>2
  <2>3. i \in Int /\ j \in Int
    BY <1>1
  <2> QED BY <2>1, <2>2, <2>3
<1> QED BY <1>1, <1>3, InOrderOfNumbers DEF Order

\* Of scored items, the best first, those that reach a score are the first ones.
LEMMA ReachingIs ==
  ASSUME NEW S, NEW s \in Seq([item : S, score : Nat]), NEW wanted \in Nat,
         \A m, n \in 1..Len(s) : m < n => s[m].score >= s[n].score
  PROVE  \E k \in 0..Len(s) : /\ Reaching(s, wanted) = [n \in 1..k |-> s[n]]
                              /\ \A n \in 1..Len(s) : n <= k <=> s[n].score >= wanted
<1> DEFINE N == Len(s)
           good == {n \in DOMAIN s : s[n].score >= wanted}
           R == {p \in good \X good : p[1] < p[2]}
           T == {n \in 1..N + 1 : n \notin good}
<1>1. N \in Nat /\ DOMAIN s = 1..N /\ \A n \in 1..N : s[n].score \in Nat
  <2>1. \A e \in [item : S, score : Nat] : e.score \in Nat
    OBVIOUS
  <2> QED BY <2>1, SequencesAre
<1>2. PICK t \in T : \A n \in T : t <= n
  <2>1. T \in SUBSET Nat /\ N + 1 \in T
    BY <1>1
  <2> HIDE DEF T
  <2> QED BY <2>1, Least
<1> DEFINE k == t - 1
<1>3. k \in 0..N /\ \A n \in 1..N : n <= k <=> s[n].score >= wanted
  <2>1. t \in 1..N + 1 /\ k \in 0..N
    BY <1>1, <1>2
  <2>2. ASSUME NEW n \in 1..N, n <= k PROVE s[n].score >= wanted
    BY <1>1, <1>2, <2>1, <2>2
  <2>3. ASSUME NEW n \in 1..N, n > k PROVE ~ (s[n].score >= wanted)
    <3>1. t \in 1..N /\ ~ (s[t].score >= wanted)
      BY <1>1, <1>2, <2>1, <2>3
    <3>2. s[t].score >= s[n].score
      <4>1. CASE t = n
        BY <4>1, <1>1
      <4>2. CASE t # n
        BY <4>2, <3>1, <2>1, <2>3, <1>1
      <4> QED BY <4>1, <4>2
    <3> QED BY <3>1, <3>2, <1>1
  <2> QED BY <1>1, <2>1, <2>2, <2>3
<1>4. good = 1..k
  BY <1>1, <1>3
<1>5. \A i, j \in 1..k : <<i, j>> \in R <=> i < j
  BY <1>4
<1>6. Reaching(s, wanted) = [n \in DOMAIN InOrder(good, R) |-> s[InOrder(good, R)[n]]]
  BY DEF Reaching
<1>7. InOrder(1..k, R) = [n \in 1..k |-> n]
  <2> HIDE DEF R, k
  <2> QED BY <1>3, <1>5, InOrderOfNumbers
<1>8. Reaching(s, wanted) = [n \in 1..k |-> s[n]]
  <2> HIDE DEF R, good, k
  <2> QED BY <1>4, <1>6, <1>7
<1> QED BY <1>3, <1>8

LEMMA FieldsAre ==
  ASSUME NEW e \in ScoredItem
  PROVE  e.item \in AnyItem /\ e.score \in Nat
BY DEF ScoredItem

\* The items with their scores, the best first.
LEMMA BestFirstIs ==
  ASSUME kept \in Seq(AnyItem), NEW given \in Seq(Nat), Len(given) <= Len(kept)
  PROVE  \E o \in Bijection(1..Len(given), 1..Len(given)) :
           /\ BestFirst(given) = [n \in 1..Len(given) |-> [item |-> kept[o[n]], score |-> given[o[n]]]]
           /\ \A m, n \in 1..Len(given) : m < n => given[o[m]] >= given[o[n]]
           /\ BestFirst(given) \in Seq(ScoredItem) /\ Len(BestFirst(given)) = Len(given)
<1> DEFINE N == Len(given)
           o == Order(given)
           best == [n \in 1..N |-> [item |-> kept[o[n]], score |-> given[o[n]]]]
<1>1. /\ o \in Bijection(1..N, 1..N)
      /\ \A m, n \in 1..N : m < n => given[o[m]] >= given[o[n]]
  BY OrderIs
<1>2. N \in Nat /\ Len(kept) \in Nat /\ \A i \in 1..N : given[i] \in Nat
  BY SequencesAre
<1>3. \A i \in 1..N : kept[i] \in AnyItem
  <2>1. \A i \in 1..Len(kept) : kept[i] \in AnyItem
    BY SequencesAre
  <2> QED BY <2>1, <1>2
<1> HIDE DEF N, o
<1>4. o \in [1..N -> 1..N] /\ DOMAIN o = 1..N
  BY <1>1, Fun_BijectionProperties
<1>5. BestFirst(given) = best
  BY <1>4 DEF BestFirst, o
<1>6. best \in [1..N -> ScoredItem]
  BY <1>2, <1>3, <1>4 DEF ScoredItem
<1> HIDE DEF best
<1>7. best \in Seq(ScoredItem) /\ Len(best) = N
  BY <1>2, <1>6, FunctionsAreSequences
<1> QED BY <1>1, <1>5, <1>7 DEF best, N

LEMMA PermutationsAre ==
  ASSUME NEW S, NEW o \in Bijection(S, S)
  PROVE  /\ o \in [S -> S] /\ \A i \in S : o[i] \in S
         /\ \A i, j \in S : o[i] = o[j] => i = j
         /\ \A i \in S : \E j \in S : o[j] = i
<1>1. o \in [S -> S]
  BY Fun_BijectionProperties
<1>2. \A i, j \in S : o[i] = o[j] => i = j
  BY Fun_BijectionProperties
<1>3. \A i \in S : \E j \in S : o[j] = i
  BY Fun_BijectionProperties
<1> QED BY <1>1, <1>2, <1>3

\* What Selected takes of items with the best first is the first of them, and
\* no relevant one is left out while there is room.
LEMMA SelectedIs ==
  ASSUME NEW best \in Seq(ScoredItem),
         \A m, n \in 1..Len(best) : m < n => best[m].score >= best[n].score
  PROVE  \E l \in 0..Len(best) :
           /\ l <= MaxResults
           /\ Selected(best) = [n \in 1..l |-> best[n].item]
           /\ \A n \in 1..Len(best) : n > l => best[n].score < Relevant \/ l = MaxResults
<1> DEFINE N == Len(best)
           relevant == Reaching(best, Relevant)
           some == IF relevant = <<>> THEN Take(best, 1) ELSE relevant
<1>0. /\ N \in Nat /\ best \in [1..N -> ScoredItem] /\ \A n \in 1..N : best[n] \in ScoredItem
      /\ MaxResults \in Nat /\ Relevant \in Nat
  BY SequencesAre, CollectionAssumption
<1>1. PICK k \in 0..N : /\ relevant = [n \in 1..k |-> best[n]]
                        /\ \A n \in 1..N : n <= k <=> best[n].score >= Relevant
  BY <1>0, ReachingIs DEF ScoredItem
<1>2. \A n \in 1..N : n > k => best[n].score < Relevant
  BY <1>0, <1>1, FieldsAre
<1> DEFINE c == IF k = 0 THEN Lesser(1, N) ELSE k
<1>3. c \in 0..N /\ some = [n \in 1..c |-> best[n]] /\ (k # 0 => c = k)
  <2>1. Take(best, 1) = [n \in 1..Lesser(1, N) |-> best[n]] /\ Lesser(1, N) \in 0..N
    BY TakeIs
  <2>2. relevant = <<>> <=> k = 0
    BY <1>1
  <2> HIDE DEF relevant
  <2> QED BY <2>1, <2>2, <1>1
<1> HIDE DEF some, relevant, c
<1>4. some \in Seq(ScoredItem) /\ Len(some) = c
  <2>1. \A n \in 1..c : n \in 1..N
    BY <1>0, <1>3
  <2>2. some \in [1..c -> ScoredItem]
    BY <1>0, <1>3, <2>1
  <2> QED BY <1>0, <1>3, <2>2, FunctionsAreSequences
<1> DEFINE l == Lesser(MaxResults, c)
<1>5. /\ l \in 0..c /\ l <= MaxResults /\ (l = MaxResults \/ l = c)
      /\ Take(some, MaxResults) = [i \in 1..l |-> some[i]]
  <2>1. /\ l \in 0..Len(some) /\ l <= MaxResults /\ (l = MaxResults \/ l = Len(some))
        /\ Take(some, MaxResults) = [i \in 1..l |-> some[i]]
    <3> HIDE DEF l
    <3>1. l = Lesser(MaxResults, Len(some))
      BY <1>4 DEF l
    <3>2. /\ Lesser(MaxResults, Len(some)) \in 0..Len(some)
          /\ Lesser(MaxResults, Len(some)) <= MaxResults
          /\ \/ Lesser(MaxResults, Len(some)) = MaxResults
             \/ Lesser(MaxResults, Len(some)) = Len(some)
          /\ Take(some, MaxResults) = [i \in 1..Lesser(MaxResults, Len(some)) |-> some[i]]
      <4>1. MaxResults \in Nat /\ some \in Seq(ScoredItem)
        BY <1>0, <1>4
      <4> QED BY <4>1, TakeIs, Zenon
    <3> QED BY <3>1, <3>2
  <2> HIDE DEF l
  <2> QED BY <2>1, <1>4
<1>6. Selected(best) = [n \in 1..l |-> best[n].item]
  <2>1. Selected(best) = ItemsOf(Take(some, MaxResults))
    BY DEF Selected, some, relevant
  <2>2. \A i \in 1..l : i \in 1..c /\ some[i] = best[i]
    BY <1>0, <1>3, <1>5
  <2> HIDE DEF l
  <2>3. Take(some, MaxResults) = [i \in 1..l |-> best[i]]
    BY <1>5, <2>2
  <2> QED BY <2>1, <2>3 DEF ItemsOf
<1> HIDE DEF l
<1>7. \A n \in 1..N : n > l => best[n].score < Relevant \/ l = MaxResults
  <2> SUFFICES ASSUME NEW n \in 1..N, n > l, l # MaxResults PROVE best[n].score < Relevant
    OBVIOUS
  <2>1. l = c
    BY <1>5
  <2>2. n > k
    BY <2>1, <1>0, <1>1, <1>3
  <2> QED BY <2>2, <1>2
<1>8. l \in 0..N
  BY <1>0, <1>3, <1>5
<1> QED BY <1>5, <1>6, <1>7, <1>8

-----------------------------------------------------------------------------
(* Deduplication.                                                          *)

AnyText == AnyUrl \cup AnyTitle
Sifting == [kept : Seq(AnyItem), seen : SUBSET AnyText, raised : BOOLEAN]

LEMMA SiftType ==
  ASSUME NEW st \in Sifting, NEW item \in AnyItem
  PROVE  Sift(st, item) \in Sifting
<1>1. item.url \in AnyText /\ item.title \in AnyText
  BY DEF AnyItem, Items, AnyText
<1>2. Append(st.kept, item) \in Seq(AnyItem)
  BY AppendProperties DEF Sifting
<1> QED BY <1>1, <1>2 DEF Sift, Sifting

\* What is known when n items have been sifted.
Told(st, n) ==
  /\ Distinct(st.kept)
  /\ \A m \in DOMAIN st.kept : Texts(st.kept[m]) \subseteq st.seen
  /\ \A x \in st.seen : \E m \in 1..n : x \in Texts(items[m])
  /\ ~st.raised => \A m \in 1..n : Accounted(st.kept, m)

LEMMA SiftTells ==
  ASSUME items \in Seq(AnyItem), NEW n \in 1..Len(items), NEW st \in Sifting, Told(st, n - 1)
  PROVE  Told(Sift(st, items[n]), n)
<1> DEFINE item == items[n]
           next == Sift(st, item)
           withUrl == st.seen \cup {item.url}
<1>0. Len(items) \in Nat /\ item \in AnyItem /\ st.kept \in Seq(AnyItem) /\ st.raised \in BOOLEAN
  BY SequencesAre DEF Sifting
<1>1. \A m \in 1..n : m \in 1..n-1 \/ m = n
  BY <1>0
<1>2. \A x \in st.seen : \E m \in 1..n - 1 : x \in Texts(items[m])
  BY DEF Told
<1>a. \A m \in 1..n-1 : m \in 1..n
  BY <1>0
<1>3. CASE st.raised \/ item.url = Null
  <2>1. next = [st EXCEPT !.raised = TRUE]
    BY <1>3 DEF Sift
  <2>2. next.kept = st.kept /\ next.seen = st.seen /\ next.raised
    BY <2>1 DEF Sifting
  <2> HIDE DEF next
  <2> QED BY <2>2, <1>2, <1>a DEF Told, next
<1>4. CASE ~st.raised /\ item.url # Null /\ item.url \in st.seen
  <2>1. next = st
    BY <1>4 DEF Sift
  <2>2. Accounted(st.kept, n)
    BY <1>4, <1>2 DEF Accounted, Texts
  <2> HIDE DEF next
  <2> QED BY <1>4, <2>1, <2>2, <1>1, <1>2, <1>a DEF Told, next
<1>5. CASE ~st.raised /\ item.url # Null /\ item.url \notin st.seen
  <2>0. next = IF item.title = Null THEN [st EXCEPT !.raised = TRUE]
               ELSE IF item.title \in withUrl THEN [st EXCEPT !.seen = withUrl]
               ELSE [st EXCEPT !.kept = Append(@, item), !.seen = withUrl \cup {item.title}]
    BY <1>5 DEF Sift
  <2>1. CASE item.title = Null
    <3>1. next.kept = st.kept /\ next.seen = st.seen /\ next.raised
      BY <2>0, <2>1 DEF Sifting
    <3> HIDE DEF next
    <3> QED BY <3>1, <1>2, <1>a DEF Told, next
  <2>2. CASE item.title # Null /\ item.title \in withUrl
    <3>1. next.kept = st.kept /\ next.seen = withUrl /\ next.raised = st.raised
      BY <2>0, <2>2 DEF Sifting
    <3>2. Accounted(st.kept, n)
      BY <2>2, <1>2 DEF Accounted, Texts
    <3>3. n \in 1..n /\ item.url \in Texts(item)
      BY <1>0 DEF Texts
    <3>4. \A x \in withUrl : \E m \in 1..n : x \in Texts(items[m])
      BY <3>3, <1>2, <1>a
    <3>5. \A m \in 1..n : Accounted(st.kept, m)
      BY <3>2, <1>1, <1>5 DEF Told
    <3>6. Distinct(st.kept) /\ \A m \in DOMAIN st.kept : Texts(st.kept[m]) \subseteq withUrl
      BY DEF Told
    <3> HIDE DEF next
    <3> QED BY <3>1, <3>4, <3>5, <3>6 DEF Told, next
  <2>3. CASE item.title # Null /\ item.title \notin withUrl
    <3> DEFINE list == Append(st.kept, item)
               seen == withUrl \cup {item.title}
               k == Len(st.kept)
    <3>1. next.kept = list /\ next.seen = seen /\ next.raised = st.raised
      BY <2>0, <2>3 DEF Sifting
    <3>2. /\ k \in Nat /\ DOMAIN st.kept = 1..k /\ DOMAIN list = 1..k + 1
          /\ \A m \in 1..k : list[m] = st.kept[m]
          /\ list[k + 1] = item
      BY <1>0, SequencesAre, AppendProperties
    <3>3. \A m \in DOMAIN list : (m \in DOMAIN st.kept /\ list[m] = st.kept[m]) \/ (m = k + 1 /\ list[m] = item)
      BY <3>2
    <3>4. \A m \in DOMAIN st.kept : m \in DOMAIN list /\ m # k + 1
      BY <3>2
    <3>5. Texts(item) = {item.url, item.title}
      BY DEF Texts
    <3> HIDE DEF list, k, next
    <3>6. \A m \in DOMAIN list : Texts(list[m]) \subseteq seen
      BY <3>3, <3>5 DEF Told
    <3>7. Distinct(list)
      <4>1. \A m \in DOMAIN st.kept : Texts(st.kept[m]) \cap Texts(item) = {}
        BY <3>5, <1>5, <2>3 DEF Told
      <4>2. \A m, j \in DOMAIN st.kept : m # j => Texts(st.kept[m]) \cap Texts(st.kept[j]) = {}
        BY DEF Told, Distinct
      <4> QED BY <4>1, <4>2, <3>3 DEF Distinct
    <3>8. \A x \in seen : \E m \in 1..n : x \in Texts(items[m])
      <4>1. n \in 1..n
        BY <1>0
      <4> QED BY <4>1, <3>5, <1>2, <1>a
    <3>9. \A m \in 1..n : Accounted(list, m)
      <4>1. Accounted(list, n)
        BY <3>2 DEF Accounted, k
      <4>2. \A m \in 1..n - 1 : Accounted(list, m)
        BY <3>3, <3>4, <1>5 DEF Told, Accounted
      <4> QED BY <4>1, <4>2, <1>1
    <3> QED BY <3>1, <3>6, <3>7, <3>8, <3>9 DEF Told, next
  <2> QED BY <2>1, <2>2, <2>3
<1> QED BY <1>3, <1>4, <1>5, <1>0

\* Deduplication as a whole.
LEMMA SiftedIs ==
  ASSUME items \in Seq(AnyItem)
  PROVE  Sifted \in Sifting /\ Told(Sifted, Len(items))
<1> DEFINE N == Len(items)
           none == [kept |-> <<>>, seen |-> {}, raised |-> FALSE]
           g == [n \in 1..N |-> [st \in Sifting |-> Sift(st, items[n])]]
           Meets(f) == f = [n \in 0..N |-> IF n = 0 THEN none ELSE Sift(f[n - 1], items[n])]
<1>0. N \in Nat /\ \A n \in 1..N : items[n] \in AnyItem
  BY SequencesAre
<1>1. none \in Sifting
  BY EmptySeq DEF Sifting
<1>2. g \in [1..N -> [Sifting -> Sifting]]
  <2>1. \A n \in 1..N : [st \in Sifting |-> Sift(st, items[n])] \in [Sifting -> Sifting]
    BY <1>0, SiftType
  <2> QED BY <2>1
<1>3. PICK f \in [0..N -> Sifting] : IsRecursive(f, N, none, g)
  <2> HIDE DEF g, N, none
  <2> QED BY <1>0, <1>1, <1>2, Recursion
<1>4. ASSUME NEW n \in 0..N PROVE f[n] = IF n = 0 THEN none ELSE Sift(f[n - 1], items[n])
  <2>1. CASE n = 0
    BY <1>3, <2>1 DEF IsRecursive
  <2>2. CASE n # 0
    <3>1. n \in 1..N /\ n - 1 \in 0..N
      BY <1>0, <2>2
    <3>2. f[n] = g[n][f[n - 1]]
      BY <1>3, <2>2 DEF IsRecursive
    <3> QED BY <2>2, <3>1, <3>2
  <2> QED BY <2>1, <2>2
<1>5. Meets(f)
  <2> HIDE DEF none, N
  <2> QED BY <1>3, <1>4
<1>6. Sifted = (CHOOSE h : Meets(h))[N]
  BY DEF Sifted
<1>7. PICK h : Meets(h) /\ Sifted = h[N]
  <2> HIDE DEF Meets
  <2> QED BY <1>5, <1>6
<1>8. h[0] = none /\ \A n \in 1..N : h[n] = Sift(h[n - 1], items[n])
  <2> HIDE DEF none, N
  <2> QED BY <1>7, <1>0
<1> DEFINE P == {n \in 0..N : h[n] \in Sifting /\ Told(h[n], n)}
<1>9. 0 \in P
  BY <1>8, <1>1, <1>0 DEF Told, Distinct
<1>10. ASSUME NEW n \in 1..N, n - 1 \in P PROVE n \in P
  <2>1. h[n - 1] \in Sifting /\ Told(h[n - 1], n - 1) /\ h[n] = Sift(h[n - 1], items[n])
    BY <1>8, <1>10
  <2>2. h[n] \in Sifting /\ Told(h[n], n)
    BY <2>1, <1>0, SiftType, SiftTells
  <2> QED BY <2>2, <1>0
<1> HIDE DEF P
<1>11. \A n \in 0..N : n \in P
  BY <1>0, <1>9, <1>10, UpTo
<1> QED BY <1>0, <1>7, <1>11 DEF P

-----------------------------------------------------------------------------
(* Ranking.                                                                *)

\* ScoreByKey, of a list.
ByKey(s, item) ==
  LET found == {n \in DOMAIN s : Key(s[n].item) = Key(item)}
  IN  IF found = {} THEN 0 ELSE s[CHOOSE n \in found : \A m \in found : n <= m].score

\* Where no two items share a text, an item's key finds its own score.
LEMMA KeysFindTheirOwn ==
  ASSUME kept \in Seq(AnyItem), Distinct(kept), NEW given, NEW N \in Nat, N <= Len(kept),
         NEW o \in Bijection(1..N, 1..N), NEW n \in 1..N
  PROVE  ByKey([i \in 1..N |-> [item |-> kept[o[i]], score |-> given[o[i]]]], kept[o[n]]) = given[o[n]]
<1> DEFINE s == [i \in 1..N |-> [item |-> kept[o[i]], score |-> given[o[i]]]]
           found == {i \in DOMAIN s : Key(s[i].item) = Key(kept[o[n]])}
<1>1. /\ DOMAIN s = 1..N
      /\ \A i \in 1..N : s[i].item = kept[o[i]] /\ s[i].score = given[o[i]]
  OBVIOUS
<1>2. \A item : Key(item) \in Texts(item)
  BY DEF Key, Texts
<1>3. (\A i \in 1..N : o[i] \in 1..N) /\ \A i, j \in 1..N : o[i] = o[j] => i = j
  <2> DEFINE D == 1..N
  <2>1. o \in Bijection(D, D)
    OBVIOUS
  <2> HIDE DEF D
  <2>2. (\A i \in D : o[i] \in D) /\ \A i, j \in D : o[i] = o[j] => i = j
    BY <2>1, PermutationsAre
  <2> QED BY <2>2 DEF D
<1>4. 1..N \subseteq DOMAIN kept
  BY SequencesAre
<1> HIDE DEF s
<1>5. found = {n}
  <2>1. n \in found
    BY <1>1
  <2>2. ASSUME NEW i \in found PROVE i = n
    <3>1. i \in 1..N /\ Key(kept[o[i]]) = Key(kept[o[n]])
      BY <1>1
    <3>2. Texts(kept[o[i]]) \cap Texts(kept[o[n]]) # {}
      BY <3>1, <1>2
    <3>3. o[i] \in DOMAIN kept /\ o[n] \in DOMAIN kept
      BY <3>1, <1>3, <1>4
    <3>4. o[i] = o[n]
      BY <3>2, <3>3 DEF Distinct
    <3> QED BY <3>1, <3>4, <1>3
  <2> HIDE DEF found
  <2> QED BY <2>1, <2>2
<1>6. ByKey(s, kept[o[n]]) = IF found = {} THEN 0
                             ELSE s[CHOOSE i \in found : \A m \in found : i <= m].score
  BY DEF ByKey
<1> HIDE DEF found
<1>7. (CHOOSE i \in found : \A m \in found : i <= m) = n
  BY <1>5
<1>8. ByKey(s, kept[o[n]]) = given[o[n]]
  BY <1>1, <1>5, <1>6, <1>7
<1> QED BY <1>8 DEF s

\* What has been ranked by the scores that were given.
LEMMA RankedByScores ==
  ASSUME kept \in Seq(AnyItem), kept' = kept, pipeline' = pipeline,
         NEW given \in Seq(Scores), scores' = given, Len(given) <= Len(kept),
         NEW o \in Bijection(1..Len(given), 1..Len(given)),
         \A m, n \in 1..Len(given) : m < n => given[o[m]] >= given[o[n]],
         NEW l \in 0..Len(given), l <= MaxResults,
         ranked' = [n \in 1..l |-> kept[o[n]]],
         \A n \in 1..l : Stores(n)' = given[o[n]],
         \A n \in 1..Len(given) : n > l => given[o[n]] < Wanted \/ l = MaxResults
  PROVE  RankInv'
<1> DEFINE N == Len(given)
           p == [n \in 1..l |-> o[n]]
<1>1. /\ N \in Nat /\ DOMAIN given = 1..N /\ \A i \in 1..N : given[i] \in Nat
      /\ Len(kept) \in Nat /\ DOMAIN kept = 1..Len(kept) /\ \A i \in 1..Len(kept) : kept[i] \in AnyItem
  BY SequencesAre, CollectionAssumption
<1>2. (\A i \in 1..N : o[i] \in 1..N) /\ \A i \in 1..N : \E j \in 1..N : o[j] = i
  <2> DEFINE D == 1..N
  <2>1. o \in Bijection(D, D)
    OBVIOUS
  <2> HIDE DEF D
  <2>2. (\A i \in D : o[i] \in D) /\ \A i \in D : \E j \in D : o[j] = i
    BY <2>1, PermutationsAre
  <2> QED BY <2>2 DEF D
<1>3. l \in Nat /\ (\A n \in 1..l : n \in 1..N) /\ \A n \in 1..N : n \in 1..Len(kept)
  BY <1>1
<1>4. p \in [1..l -> DOMAIN kept] /\ \A n \in 1..l : p[n] = o[n] /\ o[n] \in 1..N
  BY <1>1, <1>2, <1>3
<1>5. ranked' \in Seq(AnyItem) /\ Len(ranked') = l /\ DOMAIN ranked' = 1..l
  <2>1. ranked' \in [1..l -> AnyItem]
    BY <1>1, <1>2, <1>3
  <2> QED BY <2>1, <1>3, FunctionsAreSequences
<1>6. \A m \in 1..N : Own(m)' = given[m]
  BY <1>1 DEF Own
<1> HIDE DEF N, p
<1>7. RankedBy(p)'
  <2>1. \A n \in 1..l : ranked'[n] = kept[p[n]] /\ Stores(n)' = Own(p[n])'
    BY <1>4, <1>6
  <2>2. \A m, n \in 1..l : m < n => Own(p[m])' >= Own(p[n])'
    <3>1. \A m, n \in 1..l : m < n => given[o[m]] >= given[o[n]]
      BY <1>3 DEF N
    <3> QED BY <3>1, <1>4, <1>6
  <2>3. ASSUME NEW m \in 1..N, \A n \in 1..l : ranked'[n] # kept[m]
        PROVE  /\ \A n \in 1..l : Own(p[n])' >= given[m]
               /\ given[m] < Wanted \/ l = MaxResults
    <3>1. PICK j \in 1..N : o[j] = m
      BY <1>2
    <3>2. j > l
      <4>1. j \notin 1..l
        BY <2>3, <3>1
      <4> QED BY <4>1, <1>3, <1>1 DEF N
    <3>3. ASSUME NEW n \in 1..l PROVE given[o[n]] >= given[m]
      <4>1. n \in 1..N /\ n < j
        BY <3>2, <1>3
      <4> QED BY <4>1, <3>1 DEF N
    <3> QED BY <3>1, <3>2, <3>3, <1>4, <1>6 DEF N
  <2>4. Wanted' = Wanted
    BY DEF Wanted
  <2> QED BY <2>1, <2>2, <2>3, <2>4, <1>1, <1>4, <1>5 DEF RankedBy, N
<1>8. DOMAIN scores' \subseteq DOMAIN kept'
  BY <1>1, <1>3 DEF N
<1> QED BY <1>4, <1>5, <1>7, <1>8 DEF RankInv

\* What passes without a score of its own.
LEMMA RankedAsCollected ==
  ASSUME kept \in Seq(AnyItem), kept' = kept, pipeline' = pipeline, scores' = <<>>,
         NEW l \in 0..Len(kept), l <= MaxResults,
         ranked' = [n \in 1..l |-> kept[n]],
         \A n \in 1..l : Stores(n)' = IF pipeline = "jobs" THEN Neutral ELSE 0
  PROVE  RankInv'
<1> DEFINE p == [n \in 1..l |-> n]
           same == IF pipeline = "jobs" THEN Neutral ELSE 0
<1>1. /\ Len(kept) \in Nat /\ DOMAIN kept = 1..Len(kept)
      /\ \A i \in 1..Len(kept) : kept[i] \in AnyItem
  BY SequencesAre
<1>2. l \in Nat /\ \A n \in 1..l : n \in 1..Len(kept)
  BY <1>1
<1>3. p \in [1..l -> DOMAIN kept] /\ \A n \in 1..l : p[n] = n
  BY <1>1, <1>2
<1>4. ranked' \in Seq(AnyItem) /\ Len(ranked') = l /\ DOMAIN ranked' = 1..l
  <2>1. ranked' \in [1..l -> AnyItem]
    BY <1>1, <1>2
  <2> QED BY <2>1, <1>2, FunctionsAreSequences
<1>5. DOMAIN scores' = {}
  OBVIOUS
<1>6. \A m : Own(m)' = same
  BY <1>5 DEF Own
<1>7. same \in Nat
  BY CollectionAssumption
<1> HIDE DEF p, same
<1>8. RankedBy(p)'
  <2>1. \A n \in 1..l : ranked'[n] = kept[p[n]] /\ Stores(n)' = Own(p[n])'
    BY <1>3, <1>6 DEF same
  <2>2. \A m, n \in 1..l : m < n => Own(p[m])' >= Own(p[n])'
    BY <1>6, <1>7
  <2> QED BY <2>1, <2>2, <1>3, <1>4, <1>5 DEF RankedBy
<1> QED BY <1>3, <1>4, <1>5, <1>8 DEF RankInv

\* The research pipeline's scores (research.py:93-123).
LEMMA RelevanceRanks ==
  ASSUME CollectionTypeOK, NothingYet, Distinct(kept), Relevance
  PROVE  RankInv' /\ scores' \in Seq(Scores) /\ scored' \in Seq(ScoredItem) /\ ranked' \in Seq(AnyItem)
<1>0. /\ kept \in Seq(AnyItem) /\ pipeline = "research" /\ UNCHANGED <<pipeline, kept>>
      /\ scores = <<>> /\ scored = <<>> /\ Wanted = Relevant
      /\ MaxResults \in Nat /\ Scores \subseteq Nat
  BY CollectionAssumption DEF CollectionTypeOK, NothingYet, Relevance, Wanted
<1>1. CASE /\ scores' \in [1..Len(kept) -> Scores]
           /\ scored' = BestFirst(scores')
           /\ ranked' = Chosen(scores')
  <2> DEFINE N == Len(kept)
  <2>1. PICK given \in Seq(Scores) : scores' = given /\ Len(given) = N
    BY <1>0, <1>1, SequencesAre, FunctionsAreSequences
  <2>2. given \in Seq(Nat) /\ N \in Nat /\ N <= Len(kept)
    <3>1. N \in Nat
      BY <1>0, SequencesAre
    <3>2. given \in [1..N -> Nat]
      BY <1>0, <2>1, SequencesAre
    <3> QED BY <3>1, <3>2, FunctionsAreSequences
  <2> DEFINE best == BestFirst(given)
  <2>3. PICK o \in Bijection(1..N, 1..N) :
           /\ best = [n \in 1..N |-> [item |-> kept[o[n]], score |-> given[o[n]]]]
           /\ \A m, n \in 1..N : m < n => given[o[m]] >= given[o[n]]
           /\ best \in Seq(ScoredItem) /\ Len(best) = N
    BY <1>0, <2>1, <2>2, BestFirstIs
  <2> HIDE DEF N, best
  <2>4. \A n \in 1..N : best[n].item = kept[o[n]] /\ best[n].score = given[o[n]]
    BY <2>3
  <2>5. PICK l \in 0..N :
           /\ l <= MaxResults
           /\ Selected(best) = [n \in 1..l |-> best[n].item]
           /\ \A n \in 1..N : n > l => best[n].score < Relevant \/ l = MaxResults
    BY <2>3, <2>4, SelectedIs
  <2>6. \A n \in 1..l : n \in 1..N
    BY <2>2
  <2>7. ranked' = [n \in 1..l |-> kept[o[n]]]
    <3>1. ranked' = [n \in 1..l |-> best[n].item]
      BY <1>1, <2>1, <2>5 DEF Chosen, best
    <3> QED BY <3>1, <2>4, <2>6
  <2>8. ASSUME NEW n \in 1..l PROVE Stores(n)' = given[o[n]]
    <3>1. Stores(n)' = ByKey(scored', ranked'[n])
      BY <1>0 DEF Stores, ScoreByKey, ByKey
    <3>2. scored' = [i \in 1..N |-> [item |-> kept[o[i]], score |-> given[o[i]]]]
      BY <1>1, <2>1, <2>3 DEF best
    <3>3. ranked'[n] = kept[o[n]] /\ n \in 1..N
      BY <2>6, <2>7
    <3>4. ByKey(scored', kept[o[n]]) = given[o[n]]
      BY <3>2, <3>3, <1>0, <2>2, KeysFindTheirOwn
    <3> QED BY <3>1, <3>3, <3>4
  <2>9. \A n \in 1..N : n > l => given[o[n]] < Wanted \/ l = MaxResults
    BY <2>4, <2>5, <1>0
  <2>10. RankInv'
    BY <1>0, <2>1, <2>2, <2>3, <2>5, <2>7, <2>8, <2>9, RankedByScores
  <2>11. ranked' \in Seq(AnyItem)
    <3>1. \A n \in 1..l : best[n].item \in AnyItem
      BY <2>3, <2>6, SequencesAre, FieldsAre
    <3>2. ranked' \in [1..l -> AnyItem]
      BY <3>1, <2>4, <2>6, <2>7
    <3> QED BY <3>2, <2>2, FunctionsAreSequences
  <2>12. scored' \in Seq(ScoredItem)
    BY <1>1, <2>1, <2>3 DEF best
  <2> QED BY <2>1, <2>10, <2>11, <2>12
<1>2. CASE ranked' = Take(kept, MaxResults) /\ UNCHANGED <<scores, scored>>
  <2> DEFINE l == Lesser(MaxResults, Len(kept))
  <2>1. /\ l \in 0..Len(kept) /\ l <= MaxResults /\ ranked' = [n \in 1..l |-> kept[n]]
        /\ ranked' \in Seq(AnyItem)
    BY <1>0, <1>2, TakeIs
  <2> HIDE DEF l
  <2>2. ASSUME NEW n \in 1..l PROVE Stores(n)' = 0
    <3>1. Stores(n)' = ByKey(scored', ranked'[n])
      BY <1>0 DEF Stores, ScoreByKey, ByKey
    <3>2. {m \in DOMAIN scored' : Key(scored'[m].item) = Key(ranked'[n])} = {}
      BY <1>0, <1>2
    <3> QED BY <3>1, <3>2 DEF ByKey
  <2>3. scores' = <<>> /\ scored' = <<>>
    BY <1>0, <1>2
  <2>4. RankInv'
    BY <1>0, <2>1, <2>2, <2>3, RankedAsCollected
  <2> QED BY <2>1, <2>3, <2>4, EmptySeq
<1> QED BY <1>1, <1>2 DEF Relevance

\* The job discovery's scores (ranking/service.py:71-79).
LEMMA RankingRanks ==
  ASSUME CollectionTypeOK, NothingYet, Ranking
  PROVE  RankInv' /\ scores' \in Seq(Scores) /\ scored' \in Seq(ScoredItem) /\ ranked' \in Seq(AnyItem)
<1> DEFINE N == Lesser(Len(kept), MaxResults)
<1>0. /\ kept \in Seq(AnyItem) /\ pipeline = "jobs" /\ UNCHANGED <<pipeline, kept>>
      /\ scores = <<>> /\ Wanted = Matching /\ ranked' = ItemsOf(scored')
      /\ MaxResults \in Nat /\ Scores \subseteq Nat /\ Matching \in Nat /\ Neutral \in Nat
  BY CollectionAssumption DEF CollectionTypeOK, NothingYet, Ranking, Wanted
<1>1. N \in 0..Len(kept) /\ N <= MaxResults /\ N \in Nat /\ N <= Len(kept)
  <2>1. Len(kept) \in Nat
    BY <1>0, SequencesAre
  <2> QED BY <2>1, <1>0 DEF Lesser
<1>2. \A n : Stores(n)' = scored'[n].score
  BY <1>0 DEF Stores
<1>3. CASE scores' \in [1..N -> Scores] /\ scored' = Reaching(BestFirst(scores'), Matching)
  <2> HIDE DEF N
  <2>1. PICK given \in Seq(Scores) : scores' = given /\ Len(given) = N
    BY <1>1, <1>3, FunctionsAreSequences
  <2>2. given \in Seq(Nat)
    <3>1. given \in [1..N -> Nat]
      BY <1>0, <2>1, SequencesAre
    <3> QED BY <3>1, <1>1, FunctionsAreSequences
  <2> DEFINE best == BestFirst(given)
  <2>3. PICK o \in Bijection(1..N, 1..N) :
           /\ best = [n \in 1..N |-> [item |-> kept[o[n]], score |-> given[o[n]]]]
           /\ \A m, n \in 1..N : m < n => given[o[m]] >= given[o[n]]
           /\ best \in Seq(ScoredItem) /\ Len(best) = N
    BY <1>0, <1>1, <2>1, <2>2, BestFirstIs
  <2> HIDE DEF best
  <2>4. \A n \in 1..N : best[n].item = kept[o[n]] /\ best[n].score = given[o[n]]
    BY <2>3
  <2>5. PICK l \in 0..N : /\ Reaching(best, Matching) = [n \in 1..l |-> best[n]]
                          /\ \A n \in 1..N : n <= l <=> best[n].score >= Matching
    <3>1. \A m, n \in 1..Len(best) : m < n => best[m].score >= best[n].score
      BY <2>3, <2>4
    <3>2. Matching \in Nat /\ best \in Seq([item : AnyItem, score : Nat]) /\ Len(best) = N
      BY <1>0, <2>3 DEF ScoredItem
    <3>3. \E k \in 0..Len(best) : /\ Reaching(best, Matching) = [n \in 1..k |-> best[n]]
                                  /\ \A n \in 1..Len(best) : n <= k <=> best[n].score >= Matching
      BY <3>1, <3>2, ReachingIs
    <3> QED BY <3>2, <3>3
  <2>6. (\A n \in 1..l : n \in 1..N) /\ l <= MaxResults /\ l \in Nat
    BY <1>0, <1>1
  <2>7. scored' = [n \in 1..l |-> best[n]]
    BY <1>3, <2>1, <2>5 DEF best
  <2>8. ranked' = [n \in 1..l |-> kept[o[n]]]
    BY <1>0, <2>4, <2>6, <2>7 DEF ItemsOf
  <2>9. \A n \in 1..l : Stores(n)' = given[o[n]]
    BY <1>2, <2>4, <2>6, <2>7
  <2>10. \A n \in 1..N : n > l => given[o[n]] < Wanted \/ l = MaxResults
    <3>1. \A n \in 1..N : best[n].score \in Nat
      BY <2>3, SequencesAre, FieldsAre
    <3>2. ASSUME NEW n \in 1..N, n > l PROVE given[o[n]] < Matching
      <4>1. ~(n <= l)
        BY <3>2, <2>6, <1>1
      <4>2. ~(best[n].score >= Matching)
        BY <4>1, <2>5
      <4> QED BY <4>2, <3>1, <2>4, <1>0
    <3> QED BY <3>2, <1>0
  <2>11. RankInv'
    BY <1>0, <1>1, <2>1, <2>3, <2>6, <2>8, <2>9, <2>10, RankedByScores
  <2>12. \A n \in 1..l : best[n] \in ScoredItem /\ best[n].item \in AnyItem
    BY <2>3, <2>6, SequencesAre, FieldsAre
  <2>13. scored' \in Seq(ScoredItem)
    <3>1. scored' \in [1..l -> ScoredItem]
      BY <2>7, <2>12
    <3> QED BY <3>1, <2>6, FunctionsAreSequences
  <2>14. ranked' \in Seq(AnyItem)
    <3>1. ranked' \in [1..l -> AnyItem]
      BY <2>4, <2>6, <2>8, <2>12
    <3> QED BY <3>1, <2>6, FunctionsAreSequences
  <2> QED BY <2>1, <2>11, <2>13, <2>14
<1>4. CASE /\ scored' = [n \in 1..N |-> [item |-> kept[n], score |-> Neutral]]
           /\ UNCHANGED scores
  <2> HIDE DEF N
  <2>1. ranked' = [n \in 1..N |-> kept[n]]
    BY <1>0, <1>4 DEF ItemsOf
  <2>2. \A n \in 1..N : kept[n] \in AnyItem
    BY <1>0, <1>1, SequencesAre
  <2>3. \A n \in 1..N : Stores(n)' = Neutral
    BY <1>2, <1>4
  <2>4. scores' = <<>>
    BY <1>0, <1>4
  <2>5. RankInv'
    BY <1>0, <1>1, <2>1, <2>3, <2>4, RankedAsCollected
  <2>6. scored' \in Seq(ScoredItem)
    <3>1. scored' \in [1..N -> ScoredItem]
      BY <1>0, <1>4, <2>2 DEF ScoredItem
    <3> QED BY <3>1, <1>1, FunctionsAreSequences
  <2>7. ranked' \in Seq(AnyItem)
    <3>1. ranked' \in [1..N -> AnyItem]
      BY <2>1, <2>2
    <3> QED BY <3>1, <1>1, FunctionsAreSequences
  <2> QED BY <2>4, <2>5, <2>6, <2>7, EmptySeq
<1> QED BY <1>3, <1>4 DEF Ranking

-----------------------------------------------------------------------------
(* The steps.                                                              *)

LEMMA NoRanks == scores = <<>> /\ ranked = <<>> => RankInv
<1> SUFFICES ASSUME scores = <<>>, ranked = <<>> PROVE RankInv
  OBVIOUS
<1>1. DOMAIN ranked = {} /\ DOMAIN scores = {} /\ Len(ranked) = 0 /\ MaxResults \in Nat
  BY CollectionAssumption
<1>2. ranked \in [DOMAIN ranked -> DOMAIN kept]
  BY <1>1
<1>3. RankedBy(ranked)
  BY <1>1, <1>2 DEF RankedBy
<1>4. \E o \in [DOMAIN ranked -> DOMAIN kept] : RankedBy(o)
  BY <1>2, <1>3
<1>5. DOMAIN scores \subseteq DOMAIN kept /\ Len(ranked) <= MaxResults
  BY <1>1
<1> QED BY <1>4, <1>5 DEF RankInv

LEMMA NoRanksNext == (scores = <<>> /\ ranked = <<>>)' => RankInv'
BY NoRanks, PTL

LEMMA RanksStay ==
  ASSUME RankInv, UNCHANGED <<pipeline, kept, scores, scored, ranked>>
  PROVE  RankInv' /\ \A n : Stores(n)' = Stores(n)
<1>1. \A n : Stores(n)' = Stores(n)
  BY DEF Stores, ScoreByKey
<1>2. \A m : Own(m)' = Own(m)
  BY DEF Own
<1>3. Wanted' = Wanted
  BY DEF Wanted
<1>4. \A o : RankedBy(o) => RankedBy(o)'
  BY <1>1, <1>2, <1>3 DEF RankedBy
<1> QED BY <1>1, <1>4 DEF RankInv

LEMMA InitInv == CollectionInit => CollectionInv
<1> SUFFICES ASSUME CollectionInit PROVE CollectionInv
  OBVIOUS
<1>1. /\ \A S : <<>> \in Seq(S)
      /\ Len(<<>>) = 0
  BY EmptySeq
<1>2. CollectionTypeOK /\ NothingYet
  BY <1>1 DEF CollectionInit, CollectionTypeOK, NothingYet
<1>3. DedupInv
  BY DEF CollectionInit, DedupInv, Distinct, Deduplicated
<1>4. RankInv
  BY NoRanks DEF CollectionInit
<1>5. SummaryInv /\ RowsInv
  BY <1>1 DEF CollectionInit, SummaryInv, RowsInv
<1> QED BY <1>2, <1>3, <1>4, <1>5 DEF CollectionInv

\* Whatever a source answers is a list of items.
LEMMA AnswersAreItems ==
  ASSUME NEW source, NEW answer \in Answers(source)
  PROVE  answer \in Seq(AnyItem)
<1>1. CASE source \in DOMAIN SourceMap
  <2>1. SourceMap[source] \subseteq AnyItem
    <3>1. /\ HackerNews \subseteq AnyItem /\ Reddit \subseteq AnyItem /\ GitHubTrending \subseteq AnyItem
          /\ Arxiv \subseteq AnyItem /\ RemoteOK \subseteq AnyItem /\ Greenhouse \subseteq AnyItem
          /\ Lever \subseteq AnyItem /\ YCJobs \subseteq AnyItem /\ Rss \subseteq AnyItem
      BY DEF HackerNews, Reddit, GitHubTrending, Arxiv, RemoteOK, Greenhouse, Lever, YCJobs, Rss,
             AnyItem, Items, AnyUrl, AnyTitle
    <3> QED BY <1>1, <3>1 DEF SourceMap
  <2> DEFINE most == Lesser(AnswerLimit(source), MaxAnswer)
  <2>2. most \in Int
    BY CollectionAssumption DEF Lesser, AnswerLimit
  <2>3. PICK n \in 0..most : answer \in [1..n -> SourceMap[source]]
    BY <1>1 DEF Answers
  <2> HIDE DEF most
  <2>4. n \in Nat /\ answer \in [1..n -> AnyItem]
    BY <2>1, <2>2, <2>3
  <2> QED BY <2>4, FunctionsAreSequences
<1>2. CASE source \notin DOMAIN SourceMap
  BY <1>2, EmptySeq DEF Answers
<1> QED BY <1>1, <1>2

LEMMA FetchKeeps ==
  ASSUME CollectionInv, Fetch
  PROVE  CollectionInv'
<1>0. /\ step = "collect" /\ step' = "collect"
      /\ UNCHANGED <<pipeline, kept, scores, scored, ranked, summaries, stored, digest>>
      /\ CollectionTypeOK /\ NothingYet /\ DedupInv /\ RankInv /\ SummaryInv /\ RowsInv
  BY DEF Fetch, CollectionInv
<1>1. items' \in Seq(AnyItem)
  <2>1. PICK answer \in Answers(Head(todo)) : items' = items \o answer
    BY DEF Fetch
  <2>2. answer \in Seq(AnyItem)
    BY <2>1, AnswersAreItems
  <2> QED BY <1>0, <2>1, <2>2, ConcatProperties DEF CollectionTypeOK
<1>2. CollectionTypeOK' /\ NothingYet'
  BY <1>0, <1>1 DEF CollectionTypeOK, NothingYet
<1>3. DedupInv'
  BY <1>0 DEF DedupInv, Distinct, Deduplicated
<1>4. RankInv' /\ \A n : Stores(n)' = Stores(n)
  BY <1>0, RanksStay
<1>5. SummaryInv' /\ RowsInv'
  BY <1>0, <1>4 DEF SummaryInv, RowsInv
<1> QED BY <1>2, <1>3, <1>4, <1>5 DEF CollectionInv

LEMMA DeduplicateKeeps ==
  ASSUME CollectionInv, Deduplicate
  PROVE  CollectionInv'
<1>0. /\ step = "collect" /\ step' = (IF Sifted.raised THEN "failed" ELSE "rank") /\ kept' = Sifted.kept
      /\ UNCHANGED <<pipeline, items, scores, scored, ranked, summaries, stored, digest>>
      /\ CollectionTypeOK /\ NothingYet
  BY DEF Deduplicate, CollectionInv
<1>1. Sifted \in Sifting /\ Told(Sifted, Len(items)) /\ items \in Seq(AnyItem)
  BY <1>0, SiftedIs DEF CollectionTypeOK
<1>2. CollectionTypeOK' /\ NothingYet'
  BY <1>0, <1>1 DEF CollectionTypeOK, NothingYet, Sifting
<1>3. DedupInv'
  <2>1. Distinct(kept')
    BY <1>0, <1>1 DEF Told
  <2>2. Deduplicated' => \A n \in DOMAIN items : Accounted(Sifted.kept, n)
    BY <1>0, <1>1, SequencesAre DEF Told, Deduplicated
  <2> QED BY <1>0, <2>1, <2>2 DEF DedupInv, Distinct, Accounted
<1>4. scores' = <<>> /\ ranked' = <<>> /\ summaries' = <<>> /\ stored' = <<>> /\ step' # "done"
  BY <1>0 DEF NothingYet
<1>5. RankInv'
  BY <1>4, NoRanksNext
<1>6. SummaryInv' /\ RowsInv'
  BY <1>4 DEF SummaryInv, RowsInv
<1> QED BY <1>2, <1>3, <1>5, <1>6 DEF CollectionInv

LEMMA RankKeeps ==
  ASSUME CollectionInv, Relevance \/ Ranking
  PROVE  CollectionInv'
<1>0. /\ step = "rank" /\ step' \in {"summarise", "store"}
      /\ UNCHANGED <<pipeline, items, kept, summaries, stored, digest>>
      /\ CollectionTypeOK /\ NothingYet /\ DedupInv
  BY DEF Relevance, Ranking, CollectionInv
<1>1. RankInv' /\ scores' \in Seq(Scores) /\ scored' \in Seq(ScoredItem) /\ ranked' \in Seq(AnyItem)
  BY <1>0, RelevanceRanks, RankingRanks DEF DedupInv
<1>2. CollectionTypeOK' /\ NothingYet'
  BY <1>0, <1>1 DEF CollectionTypeOK, NothingYet
<1>3. DedupInv'
  BY <1>0 DEF DedupInv, Distinct, Deduplicated, Accounted
<1>4. summaries' = <<>> /\ stored' = <<>> /\ step' # "done" /\ Len(ranked') \in Nat
  BY <1>0, <1>1, SequencesAre DEF NothingYet
<1>5. SummaryInv' /\ RowsInv'
  BY <1>4 DEF SummaryInv, RowsInv
<1> QED BY <1>1, <1>2, <1>3, <1>5 DEF CollectionInv

LEMMA SummariseKeeps ==
  ASSUME CollectionInv, Summarise
  PROVE  CollectionInv'
<1>0. /\ step = "summarise" /\ step' = "store"
      /\ UNCHANGED <<pipeline, items, kept, scores, scored, ranked, stored, digest>>
      /\ CollectionTypeOK /\ NothingYet /\ DedupInv /\ RankInv /\ RowsInv
  BY DEF Summarise, CollectionInv
<1> DEFINE l == Lesser(Len(ranked), MaxSummaries)
<1>1. l \in Nat /\ l <= Len(ranked) /\ \A n \in 1..l : ranked[n] \in AnyItem
  <2>1. Len(ranked) \in Nat /\ \A n \in 1..Len(ranked) : ranked[n] \in AnyItem
    BY <1>0, SequencesAre DEF CollectionTypeOK
  <2>2. l \in Nat /\ l <= Len(ranked)
    BY <2>1, CollectionAssumption DEF Lesser
  <2> HIDE DEF l
  <2> QED BY <2>1, <2>2
<1>2. PICK failed : summaries' = [n \in 1..l |-> IF n \in failed THEN NoSummary ELSE ranked[n]]
  BY DEF Summarise
<1> HIDE DEF l
<1>3. NoSummary \in AnyItem
  BY DEF NoSummary, AnyItem, Items, AnyUrl, AnyTitle
<1>4. summaries' \in Seq(AnyItem) /\ Len(summaries') = l /\ DOMAIN summaries' = 1..l
  <2>1. summaries' \in [1..l -> AnyItem]
    BY <1>1, <1>2, <1>3
  <2> QED BY <2>1, <1>1, FunctionsAreSequences
<1>5. CollectionTypeOK' /\ NothingYet'
  BY <1>0, <1>4 DEF CollectionTypeOK, NothingYet
<1>6. DedupInv'
  BY <1>0 DEF DedupInv, Distinct, Deduplicated, Accounted
<1>7. RankInv' /\ \A n : Stores(n)' = Stores(n)
  BY <1>0, RanksStay
<1>8. SummaryInv'
  BY <1>0, <1>1, <1>2, <1>4 DEF SummaryInv
<1>9. RowsInv'
  BY <1>0, <1>7 DEF RowsInv
<1> QED BY <1>5, <1>6, <1>7, <1>8, <1>9 DEF CollectionInv

\* A stored score is a natural number.
LEMMA StoresAreNumbers ==
  ASSUME CollectionTypeOK, RankInv
  PROVE  \A n \in DOMAIN ranked : Stores(n) \in Nat
<1>1. \A m : Own(m) \in Nat
  <2>1. \A m \in DOMAIN scores : scores[m] \in Nat
    BY SequencesAre, CollectionAssumption DEF CollectionTypeOK
  <2> QED BY <2>1, CollectionAssumption DEF Own
<1> QED BY <1>1 DEF RankInv, RankedBy

LEMMA StoreKeeps ==
  ASSUME CollectionInv, Store
  PROVE  CollectionInv'
<1> DEFINE n == Len(stored) + 1
<1>0. /\ step = "store" /\ n <= Len(ranked)
      /\ UNCHANGED <<pipeline, step, items, kept, scores, scored, ranked, summaries, digest>>
      /\ CollectionTypeOK /\ NothingYet /\ DedupInv /\ RankInv /\ SummaryInv /\ RowsInv
  BY DEF Store, CollectionInv
<1>1. /\ Len(stored) \in Nat /\ DOMAIN stored = 1..Len(stored) /\ Len(ranked) \in Nat
      /\ DOMAIN ranked = 1..Len(ranked) /\ \A i \in 1..Len(ranked) : ranked[i] \in AnyItem
      /\ DOMAIN summaries = 1..Len(summaries) /\ Len(summaries) \in Nat
      /\ stored \in Seq(StoredItem)
  BY <1>0, SequencesAre DEF CollectionTypeOK
<1>2. PICK row : /\ stored' = Append(stored, row)
                 /\ row.item = ranked[n] /\ row.score = Stores(n)
                 /\ row.summary \in {ranked[n], NoSummary}
                 /\ row = [item |-> row.item, score |-> row.score, summary |-> row.summary]
  <2>1. CASE /\ pipeline = "research"
             /\ stored' = Append(stored, [item |-> ranked[n], score |-> ScoreByKey(ranked[n]),
                                            summary |-> IF n <= Len(summaries) THEN summaries[n] ELSE NoSummary])
    <3>1. n <= Len(summaries) => summaries[n] \in {ranked[n], NoSummary}
      <4>1. n <= Len(summaries) => n \in DOMAIN summaries
        BY <1>1
      <4> QED BY <4>1, <1>0 DEF SummaryInv
    <3>2. Stores(n) = ScoreByKey(ranked[n])
      BY <2>1 DEF Stores
    <3> HIDE DEF n
    <3> QED BY <2>1, <3>1, <3>2
  <2>2. CASE /\ pipeline = "jobs"
             /\ \E summary \in {ranked[n], NoSummary} :
                  stored' = Append(stored, [item |-> ranked[n], score |-> scored[n].score,
                                              summary |-> summary])
    <3>1. Stores(n) = scored[n].score
      BY <2>2 DEF Stores
    <3> HIDE DEF n
    <3> QED BY <2>2, <3>1
  <2> QED BY <2>1, <2>2 DEF Store
<1>3. row \in StoredItem
  <2>1. n \in DOMAIN ranked
    BY <1>0, <1>1
  <2>2. NoSummary \in AnyItem
    BY DEF NoSummary, AnyItem, Items, AnyUrl, AnyTitle
  <2>3. row.item \in AnyItem /\ row.score \in Nat /\ row.summary \in AnyItem
    BY <1>0, <1>1, <1>2, <2>1, <2>2, StoresAreNumbers
  <2> HIDE DEF n
  <2> QED BY <2>3, <1>2 DEF StoredItem
<1>4. /\ stored' \in Seq(StoredItem) /\ Len(stored') = n /\ DOMAIN stored' = 1..n
      /\ \A i \in 1..Len(stored) : stored'[i] = stored[i]
      /\ stored'[n] = row
  BY <1>1, <1>2, <1>3, AppendProperties, SequencesAre
<1>5. CollectionTypeOK' /\ NothingYet'
  BY <1>0, <1>4 DEF CollectionTypeOK, NothingYet
<1>6. DedupInv'
  BY <1>0 DEF DedupInv, Distinct, Deduplicated, Accounted
<1>7. RankInv' /\ \A i : Stores(i)' = Stores(i)
  BY <1>0, RanksStay
<1>8. SummaryInv'
  BY <1>0 DEF SummaryInv
<1>9. RowsInv'
  <2>1. \A i \in 1..n : i \in 1..Len(stored) \/ i = n
    BY <1>1
  <2>2. \A i \in 1..n : /\ stored'[i].item = ranked[i] /\ stored'[i].score = Stores(i)
                        /\ stored'[i].summary \in {ranked[i], NoSummary}
    <3> HIDE DEF n
    <3> QED BY <2>1, <1>0, <1>1, <1>2, <1>4 DEF RowsInv
  <2>3. step' # "done"
    BY <1>0
  <2> HIDE DEF n
  <2> QED BY <2>2, <2>3, <1>0, <1>4, <1>7 DEF RowsInv
<1> QED BY <1>5, <1>6, <1>7, <1>8, <1>9 DEF CollectionInv

LEMMA StoreFailsKeeps ==
  ASSUME CollectionInv, StoreFails
  PROVE  CollectionInv'
<1>0. /\ step = "store" /\ step' = "failed"
      /\ UNCHANGED <<pipeline, items, kept, scores, scored, ranked, summaries, stored, digest>>
      /\ CollectionTypeOK /\ NothingYet /\ DedupInv /\ RankInv /\ SummaryInv /\ RowsInv
  BY DEF StoreFails, CollectionInv
<1>1. CollectionTypeOK' /\ NothingYet'
  BY <1>0 DEF CollectionTypeOK, NothingYet
<1>2. DedupInv' /\ SummaryInv'
  BY <1>0 DEF DedupInv, Distinct, Deduplicated, SummaryInv
<1>3. RankInv' /\ \A n : Stores(n)' = Stores(n)
  BY <1>0, RanksStay
<1>4. RowsInv'
  BY <1>0, <1>3 DEF RowsInv
<1> QED BY <1>1, <1>2, <1>3, <1>4 DEF CollectionInv

\* The results are stored the best first.
LEMMA ResultsAreSorted ==
  ASSUME CollectionInv
  PROVE  /\ Len(stored) \in Nat /\ DOMAIN stored = 1..Len(stored)
         /\ \A n \in 1..Len(stored) : stored[n].score \in Nat
         /\ \A m, n \in 1..Len(stored) : m < n => stored[m].score >= stored[n].score
<1>1. /\ Len(stored) \in Nat /\ DOMAIN stored = 1..Len(stored) /\ Len(ranked) \in Nat
      /\ DOMAIN ranked = 1..Len(ranked)
  BY SequencesAre DEF CollectionInv, CollectionTypeOK
<1>2. Len(stored) <= Len(ranked) /\ \A n \in 1..Len(stored) : stored[n].score = Stores(n)
  BY <1>1 DEF CollectionInv, RowsInv
<1>3. \A n \in 1..Len(stored) : n \in DOMAIN ranked
  BY <1>1, <1>2
<1>4. \A n \in DOMAIN ranked : Stores(n) \in Nat
  BY StoresAreNumbers DEF CollectionInv
<1>5. \A m, n \in DOMAIN ranked : m < n => Stores(m) >= Stores(n)
  <2>1. PICK o : RankedBy(o)
    BY DEF CollectionInv, RankInv
  <2>2. \A n \in DOMAIN ranked : Stores(n) = Own(o[n])
    BY <2>1 DEF RankedBy
  <2>3. \A m, n \in DOMAIN ranked : m < n => Own(o[m]) >= Own(o[n])
    BY <2>1 DEF RankedBy
  <2> QED BY <2>2, <2>3
<1>6. ASSUME NEW m \in 1..Len(stored), NEW n \in 1..Len(stored), m < n
      PROVE  stored[m].score >= stored[n].score
  BY <1>2, <1>3, <1>5, <1>6
<1> QED BY <1>1, <1>2, <1>3, <1>4, <1>6

LEMMA AssembleKeeps ==
  ASSUME CollectionInv, Assemble
  PROVE  CollectionInv'
<1> DEFINE N == Len(stored)
           given == [n \in DOMAIN stored |-> stored[n].score]
           order == Order(given)
           template == Take([n \in DOMAIN order |-> stored[order[n]]], MaxShown)
<1>0. /\ step = "store" /\ step' = "done" /\ N = Len(ranked)
      /\ digest' \in {template, Take(stored, MaxShown), <<>>}
      /\ UNCHANGED <<pipeline, items, kept, scores, scored, ranked, summaries, stored>>
      /\ CollectionTypeOK /\ NothingYet /\ DedupInv /\ RankInv /\ SummaryInv /\ RowsInv
  BY DEF Assemble, CollectionInv
<1>1. /\ N \in Nat /\ DOMAIN stored = 1..N /\ stored \in Seq(StoredItem)
      /\ \A n \in 1..N : stored[n].score \in Nat
      /\ \A m, n \in 1..N : m < n => stored[m].score >= stored[n].score
  BY <1>0, ResultsAreSorted DEF CollectionTypeOK
<1>2. template = Take(stored, MaxShown)
  <2>1. given \in [1..N -> Nat] /\ \A n \in 1..N : given[n] = stored[n].score
    BY <1>1
  <2> HIDE DEF given
  <2>2. given \in Seq(Nat) /\ Len(given) = N
    BY <1>1, <2>1, FunctionsAreSequences
  <2>3. \A m, n \in 1..N : m < n => given[m] >= given[n]
    BY <1>1, <2>1
  <2> HIDE DEF N
  <2>4. order = [n \in 1..N |-> n]
    BY <2>2, <2>3, OrderOfSorted
  <2> HIDE DEF order
  <2>5. [n \in DOMAIN order |-> stored[order[n]]] = [n \in 1..N |-> stored[n]]
    BY <2>4
  <2>6. [n \in 1..N |-> stored[n]] = stored
    BY <1>1, SequencesAre DEF N
  <2> QED BY <2>5, <2>6
<1> HIDE DEF N, template
<1>3. digest' \in {<<>>, Take(stored, MaxShown)}
  BY <1>0, <1>2
<1>4. digest' \in Seq(StoredItem)
  <2>1. Take(stored, MaxShown) \in Seq(StoredItem)
    BY <1>1, TakeIs, CollectionAssumption
  <2> QED BY <2>1, <1>3, EmptySeq
<1>5. CollectionTypeOK' /\ NothingYet'
  BY <1>0, <1>4 DEF CollectionTypeOK, NothingYet
<1>6. DedupInv' /\ SummaryInv'
  BY <1>0 DEF DedupInv, Distinct, Deduplicated, Accounted, SummaryInv
<1>7. RankInv' /\ \A n : Stores(n)' = Stores(n)
  BY <1>0, RanksStay
<1>8. RowsInv'
  BY <1>0, <1>3, <1>7 DEF RowsInv, N
<1> QED BY <1>5, <1>6, <1>7, <1>8 DEF CollectionInv

-----------------------------------------------------------------------------
(* The theorems.                                                           *)

\* Every reachable state satisfies the inductive invariant.
THEOREM CollectionInvariance == CollectionSpec => []CollectionInv
<1>1. CollectionInit => CollectionInv
  BY InitInv
<1>2. CollectionInv /\ [CollectionNext]_collectionVars => CollectionInv'
  <2> SUFFICES ASSUME CollectionInv, [CollectionNext]_collectionVars PROVE CollectionInv'
    OBVIOUS
  <2>1. CASE UNCHANGED collectionVars
    <3>1. UNCHANGED <<pipeline, step, items, kept, scores, scored, ranked, summaries, stored, digest>>
      BY <2>1 DEF collectionVars
    <3>2. RankInv' /\ \A n : Stores(n)' = Stores(n)
      BY <3>1, RanksStay DEF CollectionInv
    <3>3. CollectionTypeOK' /\ NothingYet' /\ SummaryInv'
      BY <3>1 DEF CollectionInv, CollectionTypeOK, NothingYet, SummaryInv
    <3>4. DedupInv'
      BY <3>1 DEF CollectionInv, DedupInv, Distinct, Deduplicated, Accounted
    <3>5. RowsInv'
      BY <3>1, <3>2 DEF CollectionInv, RowsInv
    <3> QED BY <3>2, <3>3, <3>4, <3>5 DEF CollectionInv
  <2>2. CASE Fetch
    BY <2>2, FetchKeeps
  <2>3. CASE Deduplicate
    BY <2>3, DeduplicateKeeps
  <2>4. CASE Relevance \/ Ranking
    BY <2>4, RankKeeps
  <2>5. CASE Summarise
    BY <2>5, SummariseKeeps
  <2>6. CASE Store
    BY <2>6, StoreKeeps
  <2>7. CASE StoreFails
    BY <2>7, StoreFailsKeeps
  <2>8. CASE Assemble
    BY <2>8, AssembleKeeps
  <2> QED BY <2>1, <2>2, <2>3, <2>4, <2>5, <2>6, <2>7, <2>8 DEF CollectionNext
<1> QED BY <1>1, <1>2, PTL DEF CollectionSpec

\* The lists of a run consist of items, whatever sources and models answer, and
\* no score, nor any lookup of one, is ever undefined (research.py, job_discovery.py).
THEOREM CollectionTypeCorrect == CollectionSpec => []CollectionTypeOK
<1>1. CollectionInv => CollectionTypeOK
  BY DEF CollectionInv
<1> QED BY <1>1, CollectionInvariance, PTL

\* For any sources and any answers: deduplication leaves no two items with a text
\* in common, and drops only what shares one with an item before it, or has none
\* of its own (dedup/service.py:24-39).
THEOREM NothingElseIsDropped == CollectionSpec => []OnlyDuplicatesAreDropped
<1>1. CollectionInv => OnlyDuplicatesAreDropped
  BY DEF CollectionInv, DedupInv, Distinct, Accounted, OnlyDuplicatesAreDropped
<1> QED BY <1>1, CollectionInvariance, PTL

\* Summary and score are found again by position and by key, and are the result's
\* own, whatever failed on the way (research.py:166-175).
THEOREM ResultsOwnTheirScores == CollectionSpec => []ResultsCarryTheirOwn
<1>1. CollectionInv => ResultsCarryTheirOwn
  <2> SUFFICES ASSUME CollectionInv, NEW n \in DOMAIN stored
               PROVE  /\ stored[n].summary \in {stored[n].item, NoSummary}
                      /\ \E m \in DOMAIN kept :
                           /\ kept[m] = stored[n].item
                           /\ stored[n].score = IF m \in DOMAIN scores THEN scores[m]
                                                 ELSE IF pipeline = "jobs" THEN Neutral ELSE 0
    BY DEF ResultsCarryTheirOwn
  <2>1. /\ stored[n].item = ranked[n] /\ stored[n].score = Stores(n)
        /\ stored[n].summary \in {ranked[n], NoSummary}
    BY DEF CollectionInv, RowsInv
  <2>2. n \in DOMAIN ranked
    <3>1. DOMAIN stored = 1..Len(stored) /\ DOMAIN ranked = 1..Len(ranked)
          /\ Len(stored) \in Nat /\ Len(ranked) \in Nat
      BY SequencesAre DEF CollectionInv, CollectionTypeOK
    <3>2. Len(stored) <= Len(ranked)
      BY DEF CollectionInv, RowsInv
    <3> QED BY <3>1, <3>2
  <2>3. PICK o \in [DOMAIN ranked -> DOMAIN kept] : RankedBy(o)
    BY DEF CollectionInv, RankInv
  <2>4. o[n] \in DOMAIN kept /\ kept[o[n]] = ranked[n] /\ Stores(n) = Own(o[n])
    BY <2>2, <2>3 DEF RankedBy
  <2> QED BY <2>1, <2>4 DEF Own
<1> QED BY <1>1, CollectionInvariance, PTL

\* A run that ends has stored the best first, no more than it may, nothing worse
\* than what it left out, and left out nothing good enough while there was
\* room; its digest shows the first of them (research.py:110-114, 166-198;
\* ranking/service.py:71-79; digest/service.py:36).
THEOREM TheBestAreStored == CollectionSpec => []ResultsAreTheBest
<1>1. CollectionInv => ResultsAreTheBest
  <2> SUFFICES ASSUME CollectionInv, step = "done" PROVE ResultsAreTheBest
    BY DEF ResultsAreTheBest
  <2>1. /\ Len(stored) = Len(ranked) /\ digest \in {<<>>, Take(stored, MaxShown)}
        /\ \A n \in DOMAIN stored : stored[n].item = ranked[n] /\ stored[n].score = Stores(n)
    BY DEF CollectionInv, RowsInv
  <2>2. DOMAIN stored = DOMAIN ranked
    BY <2>1, SequencesAre DEF CollectionInv, CollectionTypeOK
  <2>3. Len(stored) <= MaxResults
    BY <2>1 DEF CollectionInv, RankInv
  <2>4. \A m, n \in DOMAIN stored : m < n => stored[m].score >= stored[n].score
    BY ResultsAreSorted
  <2>5. PICK o : RankedBy(o)
    BY DEF CollectionInv, RankInv
  <2>6. ASSUME NEW m \in DOMAIN scores, \A n \in DOMAIN stored : stored[n].item # kept[m]
        PROVE  /\ \A n \in DOMAIN stored : stored[n].score >= scores[m]
               /\ scores[m] < Wanted \/ Len(stored) = MaxResults
    <3>1. \A n \in DOMAIN ranked : ranked[n] # kept[m]
      BY <2>1, <2>2, <2>6
    <3>2. \A n \in DOMAIN ranked : stored[n].score = Own(o[n])
      BY <2>1, <2>2, <2>5 DEF RankedBy
    <3>3. /\ \A n \in DOMAIN ranked : Own(o[n]) >= scores[m]
          /\ scores[m] < Wanted \/ Len(ranked) = MaxResults
      BY <2>5, <3>1 DEF RankedBy
    <3> QED BY <3>2, <3>3, <2>1, <2>2
  <2> QED BY <2>1, <2>3, <2>4, <2>6 DEF ResultsAreTheBest, Wanted
<1> QED BY <1>1, CollectionInvariance, PTL

=============================================================================
