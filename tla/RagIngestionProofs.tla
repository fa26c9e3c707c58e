-------------------------- MODULE RagIngestionProofs --------------------------
(***************************************************************************)
(* Theorems about RagIngestion, for any number of documents and deletions. *)
(***************************************************************************)
EXTENDS RagIngestion, TLAPS

-----------------------------------------------------------------------------

(***************************************************************************)
(* What a step makes of the worker and of a deletion, field by field.      *)
(***************************************************************************)
LEMMA WorkerTyped ==
  ASSUME RagAssumption, worker \in Workers, worker.step # "idle"
  PROVE  /\ worker.doc \in Documents /\ worker.step \in WorkerSteps \ {"idle"}
         /\ worker.stored \in 0..MaxBatches /\ worker # Idle
BY DEF Workers, Idle

LEMMA WorkerMoved ==
  ASSUME RagAssumption, worker \in Workers, worker.step # "idle",
         NEW to \in WorkerSteps \ {"idle"}, worker' = [worker EXCEPT !.step = to]
  PROVE  /\ worker' \in Workers
         /\ worker'.doc = worker.doc /\ worker'.step = to /\ worker'.stored = worker.stored
<1>1. worker \in [doc : Documents, step : WorkerSteps \ {"idle"}, stored : 0..MaxBatches]
  BY DEF Workers, Idle
<1>2. worker' = [doc |-> worker.doc, step |-> to, stored |-> worker.stored]
  BY <1>1
<1> QED BY <1>1, <1>2 DEF Workers

LEMMA WorkerStored ==
  ASSUME RagAssumption, worker \in Workers, worker.step # "idle", worker.stored < MaxBatches,
         NEW to \in WorkerSteps \ {"idle"},
         worker' = [worker EXCEPT !.stored = @ + 1, !.step = to]
  PROVE  /\ worker' \in Workers
         /\ worker'.doc = worker.doc /\ worker'.step = to
         /\ worker'.stored = worker.stored + 1
<1>1. worker \in [doc : Documents, step : WorkerSteps \ {"idle"}, stored : 0..MaxBatches]
  BY DEF Workers, Idle
<1>2. worker' = [doc |-> worker.doc, step |-> to, stored |-> worker.stored + 1]
  BY <1>1
<1>3. worker.stored + 1 \in 0..MaxBatches
  BY <1>1, RagAssumption
<1> QED BY <1>1, <1>2, <1>3 DEF Workers

LEMMA WorkerTook ==
  ASSUME RagAssumption, NEW d \in Documents,
         worker' = [doc |-> d, step |-> "mark", stored |-> 0]
  PROVE  /\ worker' \in Workers
         /\ worker'.doc = d /\ worker'.step = "mark" /\ worker'.stored = 0
<1>1. 0 \in 0..MaxBatches
  BY RagAssumption
<1> QED BY <1>1 DEF Workers, WorkerSteps

LEMMA DeletionTyped ==
  ASSUME deletion \in [Deletions -> DeletionStates], NEW x \in Deletions,
         deletion[x].step # "idle"
  PROVE  deletion[x] \in [doc : Documents, step : DeletionSteps \ {"idle"},
                          ids : SUBSET (1..MaxBatches)]
BY DEF DeletionStates, NoDeletion

\* A deletion goes on to another step, with the ids found or the same.
LEMMA DeletionRecorded ==
  ASSUME deletion \in [Deletions -> DeletionStates], NEW x \in Deletions,
         deletion[x].step # "idle", NEW to \in DeletionSteps \ {"idle"},
         NEW found \in SUBSET (1..MaxBatches), DeletionKeeps(x, to, found)
  PROVE  /\ deletion' \in [Deletions -> DeletionStates]
         /\ \A y \in Deletions \ {x} : deletion'[y] = deletion[y]
         /\ deletion'[x].doc = deletion[x].doc /\ deletion'[x].step = to
         /\ deletion'[x].ids = found
<1>1. deletion[x].doc \in Documents
  BY DeletionTyped
<1>2. [doc |-> deletion[x].doc, step |-> to, ids |-> found] \in DeletionStates
  BY <1>1 DEF DeletionStates
<1> QED BY <1>2 DEF DeletionKeeps

LEMMA DeletionMoved ==
  ASSUME deletion \in [Deletions -> DeletionStates], NEW x \in Deletions,
         deletion[x].step # "idle", NEW to, to \in DeletionSteps \ {"idle"},
         deletion' = [deletion EXCEPT ![x].step = to]
  PROVE  /\ deletion' \in [Deletions -> DeletionStates]
         /\ \A y \in Deletions \ {x} : deletion'[y] = deletion[y]
         /\ deletion'[x].doc = deletion[x].doc /\ deletion'[x].step = to
         /\ deletion'[x].ids = deletion[x].ids
<1>1. deletion[x] \in [doc : Documents, step : DeletionSteps \ {"idle"},
                       ids : SUBSET (1..MaxBatches)]
  BY DeletionTyped
<1>2. deletion'[x] = [doc |-> deletion[x].doc, step |-> to, ids |-> deletion[x].ids]
  BY <1>1
<1>3. deletion'[x] \in DeletionStates
  BY <1>1, <1>2 DEF DeletionStates
<1> QED BY <1>2, <1>3

LEMMA DeletionBegun ==
  ASSUME deletion \in [Deletions -> DeletionStates], NEW x \in Deletions, NEW d \in Documents,
         deletion' = [deletion EXCEPT ![x] = [doc |-> d, step |-> "lookup", ids |-> {}]]
  PROVE  /\ deletion' \in [Deletions -> DeletionStates]
         /\ \A y \in Deletions \ {x} : deletion'[y] = deletion[y]
         /\ deletion'[x].doc = d /\ deletion'[x].step = "lookup" /\ deletion'[x].ids = {}
BY DEF DeletionStates, DeletionSteps

LEMMA DeletionEnded ==
  ASSUME deletion \in [Deletions -> DeletionStates], NEW x \in Deletions,
         deletion' = [deletion EXCEPT ![x] = NoDeletion]
  PROVE  /\ deletion' \in [Deletions -> DeletionStates]
         /\ \A y \in Deletions \ {x} : deletion'[y] = deletion[y]
         /\ deletion'[x].step = "idle"
BY DEF DeletionStates, NoDeletion

-----------------------------------------------------------------------------

LEMMA TypeInit == Init => TypeOK
BY RagAssumption DEF Init, TypeOK, Statuses, UploadStages, Workers, DeletionStates, Idle

LEMMA TypeStep == TypeOK /\ [Next]_vars => TypeOK'
<1> SUFFICES ASSUME TypeOK, [Next]_vars PROVE TypeOK'
  OBVIOUS
<1> USE RagAssumption DEF TypeOK, Statuses, UploadStages
<1>0. worker \in Workers /\ deletion \in [Deletions -> DeletionStates]
  OBVIOUS
<1>1. ASSUME NEW d \in Documents, WriteFile(d) PROVE TypeOK'
  BY <1>1 DEF WriteFile, historyVars
<1>2. ASSUME NEW d \in Documents, CreateRow(d) PROVE TypeOK'
  BY <1>2 DEF CreateRow
<1>3. ASSUME NEW d \in Documents, Enqueue(d) PROVE TypeOK'
  BY <1>3 DEF Enqueue, storeVars, historyVars
<1>4. CASE Take
  <2>1. Head(queue) \in Documents /\ Tail(queue) \in Seq(Documents)
    BY <1>4 DEF Take
  <2>2. worker' \in Workers
    BY <1>4, <2>1, <1>0, WorkerTook DEF Take
  <2> QED BY <1>4, <2>1, <2>2 DEF Take, storeVars
<1>5. ASSUME NEW from, from # "idle", WorkerRaises(from) PROVE TypeOK'
  <2>1. worker' \in Workers
    BY <1>5, <1>0, WorkerMoved DEF WorkerRaises, WorkerGoes, WorkerSteps
  <2> QED BY <1>5, <2>1 DEF WorkerRaises, storeVars, historyVars
<1>6. ASSUME NEW from, from # "idle", NEW to \in WorkerSteps \ {"idle"}, WorkerGoes(from, to)
      PROVE  worker' \in Workers /\ worker.doc \in Documents
  BY <1>6, <1>0, WorkerMoved, WorkerTyped DEF WorkerGoes
<1>7. CASE Mark
  <2>1. CASE WorkerRaises("mark")
    BY <2>1, <1>5
  <2>2. CASE WorkerGoes("mark", "extract") /\ ~WorkerRaises("mark")
    BY <2>2, <1>7, <1>6 DEF Mark, WorkerSteps, historyVars
  <2> QED BY <2>1, <2>2, <1>7 DEF Mark
<1>8. CASE Extract
  BY <1>8, <1>5, <1>6 DEF Extract, storeVars, historyVars, WorkerSteps
<1>9. CASE SavePages
  BY <1>9, <1>5, <1>6 DEF SavePages, storeVars, historyVars, WorkerSteps
<1>10. CASE Clear
  BY <1>10, <1>5, <1>6 DEF Clear, historyVars, WorkerSteps
<1>11. CASE StoreBatch
  <2>1. CASE WorkerRaises("store")
    BY <2>1, <1>5
  <2>2. CASE ~WorkerRaises("store")
    <3>1. worker.stored + 1 \in 1..MaxBatches /\ worker.doc \in Documents
      BY <2>2, <1>11, <1>0, WorkerTyped DEF StoreBatch
    <3>2. worker' \in Workers
      BY <2>2, <1>11, <1>0, WorkerStored DEF StoreBatch, WorkerSteps
    <3>3. chunks[worker.doc] \cup {worker.stored + 1} \in SUBSET (1..MaxBatches)
      BY <3>1
    <3>4. chunks' = [chunks EXCEPT ![worker.doc] = chunks[worker.doc] \cup {worker.stored + 1}]
      BY <2>2, <1>11 DEF StoreBatch
    <3>5. chunks' \in [Documents -> SUBSET (1..MaxBatches)]
      BY <3>3, <3>4
    <3> QED BY <2>2, <1>11, <3>2, <3>5 DEF StoreBatch, historyVars
  <2> QED BY <2>1, <2>2
<1>12. CASE Finish
  <2>1. CASE WorkerRaises("finish")
    BY <2>1, <1>5
  <2>2. CASE ~WorkerRaises("finish")
    <3>1. worker.stored \in 0..MaxBatches /\ worker.doc \in Documents
      BY <2>2, <1>12, <1>0, WorkerTyped DEF Finish
    <3> QED BY <2>2, <1>12, <3>1 DEF Finish, historyVars, Workers
  <2> QED BY <2>1, <2>2
<1>13. CASE Fail
  BY <1>13, <1>0, WorkerTyped DEF Fail, Workers
<1>14. ASSUME NEW x \in Deletions, DeleteReads(x) PROVE TypeOK'
  BY <1>14, DeletionBegun DEF DeleteReads, storeVars
<1>15. ASSUME NEW x \in Deletions, LookUp(x) PROVE TypeOK'
  <2>1. deletion[x].doc \in Documents /\ deletion[x].ids \in SUBSET (1..MaxBatches)
    BY <1>15, <1>0, DeletionTyped DEF LookUp
  <2>2. chunks[deletion[x].doc] \in SUBSET (1..MaxBatches)
    BY <2>1
  <2>3. deletion' \in [Deletions -> DeletionStates]
    <3>1. deletion[x].step # "idle"
      BY <1>15 DEF LookUp
    <3>2. CASE \E step \in {"check", "remove"} : DeletionKeeps(x, step, chunks[deletion[x].doc])
      <4>1. PICK to \in DeletionSteps \ {"idle"} : DeletionKeeps(x, to, chunks[deletion[x].doc])
        BY <3>2 DEF DeletionSteps
      <4> QED BY <4>1, <3>1, <2>2, <1>0, DeletionRecorded
    <3>3. CASE DeletionGoes(x, "lookup", "check")
      <4>1. deletion' = [deletion EXCEPT ![x].step = "check"]
        BY <3>3 DEF DeletionGoes
      <4>2. "check" \in DeletionSteps \ {"idle"}
        BY DEF DeletionSteps
      <4> QED BY <4>1, <4>2, <3>1, <2>1, <1>0, DeletionMoved
    <3>4. CASE DeletionEnds(x, "lookup")
      BY <3>4, <1>0, DeletionEnded DEF DeletionEnds
    <3> QED BY <3>2, <3>3, <3>4, <1>15 DEF LookUp
  <2> QED BY <1>15, <2>1, <2>3 DEF LookUp, storeVars
<1>16. ASSUME NEW x \in Deletions, RemoveChunks(x) PROVE TypeOK'
  <2>1. deletion[x].doc \in Documents
    BY <1>16, <1>0, DeletionTyped DEF RemoveChunks
  <2>2. {} \in SUBSET (1..MaxBatches) /\ "check" \in DeletionSteps \ {"idle"}
    BY DEF DeletionSteps
  <2>3. deletion' \in [Deletions -> DeletionStates]
    <3>1. deletion[x].step # "idle" /\ DeletionKeeps(x, "check", {})
      BY <1>16 DEF RemoveChunks
    <3> QED BY <3>1, <2>2, <1>0, DeletionRecorded
  <2>4. chunks' \in [Documents -> SUBSET (1..MaxBatches)]
    <3>1. chunks[deletion[x].doc] \ deletion[x].ids \in SUBSET (1..MaxBatches)
      BY <2>1
    <3>2. \/ chunks' = chunks
          \/ chunks' = [chunks EXCEPT ![deletion[x].doc] =
                           chunks[deletion[x].doc] \ deletion[x].ids]
      BY <1>16 DEF RemoveChunks
    <3> QED BY <3>1, <3>2
  <2> QED BY <1>16, <2>1, <2>3, <2>4 DEF RemoveChunks
<1>17. ASSUME NEW x \in Deletions, CheckFile(x) PROVE TypeOK'
  <2>1. deletion[x].ids \in SUBSET (1..MaxBatches)
    BY <1>17, <1>0, DeletionTyped DEF CheckFile, DeletionGoes
  <2>2. deletion' \in [Deletions -> DeletionStates]
    BY <1>17, <2>1, DeletionMoved DEF CheckFile, DeletionGoes, DeletionSteps
  <2> QED BY <1>17, <2>2 DEF CheckFile, storeVars, historyVars
<1>18. ASSUME NEW x \in Deletions, RemoveFile(x) PROVE TypeOK'
  <2>1. deletion[x].ids \in SUBSET (1..MaxBatches)
    BY <1>18, <1>0, DeletionTyped DEF RemoveFile, DeletionGoes, DeletionEnds
  <2>2. deletion' \in [Deletions -> DeletionStates]
    BY <1>18, <2>1, DeletionMoved, DeletionEnded
       DEF RemoveFile, DeletionGoes, DeletionEnds, DeletionSteps
  <2> QED BY <1>18, <2>2 DEF RemoveFile, historyVars
<1>19. ASSUME NEW x \in Deletions, EraseRow(x) PROVE TypeOK'
  <2>1. deletion' \in [Deletions -> DeletionStates]
    BY <1>19, DeletionEnded DEF EraseRow, DeletionEnds
  <2>2. 0 \in 0..MaxBatches
    OBVIOUS
  <2>3. \/ row' = row /\ count' = count
        \/ /\ row' = [row EXCEPT ![deletion[x].doc] = "absent"]
           /\ count' = [count EXCEPT ![deletion[x].doc] = 0]
    BY <1>19 DEF EraseRow
  <2>4. row' \in [Documents -> Statuses]
    BY <2>3 DEF Statuses
  <2>5. count' \in [Documents -> 0..MaxBatches]
    <3>1. CASE count' = count
      BY <3>1
    <3>2. CASE count' = [count EXCEPT ![deletion[x].doc] = 0]
      BY <3>2, <2>2
    <3> QED BY <2>3, <3>1, <3>2
  <2> QED BY <1>19, <2>1, <2>4, <2>5 DEF EraseRow
<1>20. CASE Crash
  BY <1>20 DEF Crash, storeVars, Workers, DeletionStates
<1>21. CASE UNCHANGED vars
  BY <1>21 DEF vars, storeVars, actorVars, historyVars
<1> QED
  BY <1>1, <1>2, <1>3, <1>4, <1>7, <1>8, <1>9, <1>10, <1>11, <1>12, <1>13, <1>14,
     <1>15, <1>16, <1>17, <1>18, <1>19, <1>20, <1>21 DEF Next, Uploads, Works, Deletes

\* The variables of the model keep their types (rag/models.py, views.py,
\* document_processor.py).
THEOREM TypeCorrect == Spec => []TypeOK
BY TypeInit, TypeStep, PTL DEF Spec

-----------------------------------------------------------------------------

(***************************************************************************)
(* The inductive invariant.  A document is ingested once, so nothing of it *)
(* is stored before the worker stores its first batch, and what the worker *)
(* has stored is all there is until somebody deletes it.                   *)
(***************************************************************************)

\* The steps of the worker before it stores the first batch.
Early == {"mark", "extract", "pages", "clear"}

InQueue(d) == \E i \in 1..Len(queue) : queue[i] = d

\* Nobody is in the queue twice, or while the worker has it, or before it is
\* uploaded.
QueueInv ==
  /\ \A i, j \in 1..Len(queue) : queue[i] = queue[j] => i = j
  /\ \A d \in Documents : InQueue(d) => worker.doc # d /\ upload[d] = "done"
  /\ \A d \in Documents : worker.doc = d => upload[d] = "done"

UploadInv ==
  \A d \in Documents :
    /\ upload[d] \in {"idle", "creating"} => row[d] = "absent" /\ d \notin begun
    /\ upload[d] # "idle" => d \in file \cup begun

Untouched(d) ==
  upload[d] # "done" \/ InQueue(d) \/ (worker.doc = d /\ worker.step \in Early)

ChunkInv ==
  /\ \A d \in Documents : Untouched(d) => chunks[d] = {}
  /\ worker.step \in Early => worker.stored = 0
  /\ worker.step \in {"store", "finish"} /\ worker.doc \notin begun
       => chunks[worker.doc] = 1..worker.stored
  /\ worker.step = "finish" => worker.stored > 0

\* Past the lookup, a deletion that met no ingestion and no error knows of all
\* the chunks there are.
DeletionInv ==
  \A x \in Deletions : deletion[x].step # "idle" =>
    /\ deletion[x].doc \in begun
    /\ deletion[x].step # "remove" => deletion[x].ids = {}
    /\ deletion[x].step # "lookup" /\ deletion[x].doc \notin raced =>
         ~Ingesting(deletion[x].doc) /\ chunks[deletion[x].doc] \subseteq deletion[x].ids

RowInv ==
  \A d \in Documents :
    /\ row[d] = "ready" => ~Ingesting(d)
    /\ row[d] = "absent" /\ d \notin raced => chunks[d] = {} /\ ~Ingesting(d)

IInv == QueueInv /\ UploadInv /\ ChunkInv /\ DeletionInv /\ RowInv /\ ReadyIsComplete

LEMMA InvInit == Init => IInv
<1> SUFFICES ASSUME Init PROVE IInv
  OBVIOUS
<1>1. /\ queue = <<>> /\ Len(queue) = 0
      /\ worker.doc = NoDocument /\ worker.step = "idle" /\ worker.stored = 0
      /\ \A x \in Deletions : deletion[x].step = "idle"
  BY DEF Init, Idle, NoDeletion
<1>2. \A d \in Documents : ~InQueue(d) /\ ~Ingesting(d)
  <2>1. \A d \in Documents : upload[d] # "queueing" /\ worker.doc # d
    BY <1>1, RagAssumption DEF Init
  <2>2. 1..Len(queue) = {}
    BY <1>1
  <2> QED BY <2>1, <2>2 DEF InQueue, Ingesting
<1>3. QueueInv /\ UploadInv
  BY <1>1, <1>2, RagAssumption DEF Init, QueueInv, UploadInv
<1>4. ChunkInv /\ DeletionInv
  BY <1>1, <1>2, RagAssumption DEF Init, ChunkInv, DeletionInv, Untouched, Early
<1>5. RowInv /\ ReadyIsComplete
  BY <1>1, <1>2 DEF Init, RowInv, ReadyIsComplete
<1> QED BY <1>3, <1>4, <1>5 DEF IInv

LEMMA UploadStep ==
  ASSUME TypeOK, IInv, NEW e \in Documents, WriteFile(e) \/ Uploads(e)
  PROVE  IInv'
<1> USE RagAssumption DEF IInv, QueueInv, UploadInv, ChunkInv, DeletionInv, RowInv,
                          ReadyIsComplete, Ingesting, Untouched, InQueue, TypeOK
<1>1. CASE WriteFile(e)
  BY <1>1 DEF WriteFile, historyVars
<1>2. CASE CreateRow(e)
  <2>1. /\ upload[e] = "creating" /\ row[e] = "absent" /\ e \notin begun /\ worker.doc # e
        /\ ~InQueue(e) /\ chunks[e] = {} /\ e \in file
    BY <1>2 DEF CreateRow
  <2>2. /\ upload'[e] \in {"queueing", "done"} /\ row'[e] \in {"absent", "uploaded"}
        /\ upload'[e] = "queueing" => row'[e] = "uploaded"
        /\ \A d \in Documents \ {e} : upload'[d] = upload[d] /\ row'[d] = row[d]
        /\ UNCHANGED <<count, chunks, file, queue, worker, deletion, begun, raced>>
    BY <1>2 DEF CreateRow
  <2>3. QueueInv'
    BY <2>1, <2>2
  <2>4. UploadInv'
    BY <2>1, <2>2
  <2>5. ChunkInv'
    <3>1. ASSUME NEW d \in Documents, Untouched(d)' PROVE chunks'[d] = {}
      <4>1. CASE d = e
        BY <4>1, <2>1, <2>2
      <4>2. CASE d # e
        <5>1. Untouched(d)
          BY <4>2, <3>1, <2>2
        <5> QED BY <5>1, <2>2
      <4> QED BY <4>1, <4>2
    <3> QED BY <3>1, <2>2
  <2>6. DeletionInv'
    <3>3. SUFFICES ASSUME NEW x \in Deletions, deletion[x].step # "idle"
                 PROVE  /\ deletion[x].doc \in begun
                        /\ deletion[x].step # "remove" => deletion[x].ids = {}
                        /\ deletion[x].step # "lookup" /\ deletion[x].doc \notin raced =>
                             /\ ~Ingesting(deletion[x].doc)'
                             /\ chunks[deletion[x].doc] \subseteq deletion[x].ids
      BY <2>2
    <3>1. \A d \in Documents \ {e} : Ingesting(d)' <=> Ingesting(d)
      BY ONLY <2>2 DEF Ingesting
    <3>2. deletion[x].doc \in Documents \ {e}
      BY <3>3, <2>1, DeletionTyped
    <3>4. DeletionInv
      OBVIOUS
    <3>5. deletion' = deletion
      BY <2>2
    <3> QED BY ONLY <3>1, <3>2, <3>3, <3>4, <3>5 DEF DeletionInv
  <2>7. RowInv' /\ ReadyIsComplete'
    BY <2>1, <2>2
  <2> QED BY ONLY <2>3, <2>4, <2>5, <2>6, <2>7 DEF IInv
<1>3. CASE Enqueue(e)
  <2>1. /\ upload[e] = "queueing" /\ upload'[e] = "done" /\ queue' = Append(queue, e)
        /\ \A d \in Documents \ {e} : upload'[d] = upload[d]
        /\ UNCHANGED <<row, count, chunks, file, worker, deletion, begun, raced>>
    BY <1>3 DEF Enqueue, storeVars, historyVars
  <2>2. /\ Len(queue') = Len(queue) + 1 /\ Len(queue) \in Nat /\ queue'[Len(queue')] = e
        /\ \A i \in 1..Len(queue) : queue'[i] = queue[i]
    BY <2>1
  <2>3. ASSUME NEW d \in Documents
        PROVE  InQueue(d)' <=> InQueue(d) \/ d = e
    <3>1. 1..Len(queue') = 1..Len(queue) \cup {Len(queue')}
      BY <2>2
    <3> QED BY <3>1, <2>2
  <2> HIDE DEF InQueue
  <2>4. ASSUME NEW d \in Documents PROVE Ingesting(d)' <=> Ingesting(d)
    <3>1. Ingesting(d) <=> upload[d] = "queueing" \/ worker.doc = d \/ InQueue(d)
      BY DEF InQueue
    <3>2. Ingesting(d)' <=> upload'[d] = "queueing" \/ worker'.doc = d \/ InQueue(d)'
      BY DEF InQueue
    <3> HIDE DEF Ingesting
    <3> QED BY <3>1, <3>2, <2>1, <2>3
  <2> HIDE DEF Ingesting
  <2>5. QueueInv'
    <3>1. ~InQueue(e) /\ worker.doc # e
      BY <2>1
    <3>2. \A i \in 1..Len(queue) : queue[i] # e
      BY <3>1 DEF InQueue
    <3>3. ASSUME NEW i \in 1..Len(queue'), NEW j \in 1..Len(queue'), queue'[i] = queue'[j]
          PROVE  i = j
      <4>1. CASE i \in 1..Len(queue) /\ j \in 1..Len(queue)
        <5>1. queue'[i] = queue[i] /\ queue'[j] = queue[j]
          BY ONLY <4>1, <2>2
        <5>2. queue[i] = queue[j]
          BY ONLY <5>1, <3>3
        <5>3. \A m, n \in 1..Len(queue) : queue[m] = queue[n] => m = n
          OBVIOUS
        <5> QED BY ONLY <5>2, <5>3, <4>1
      <4>2. \A k \in 1..Len(queue') : k \in 1..Len(queue) \/ k = Len(queue')
        BY ONLY <2>2
      <4>3. \A k \in 1..Len(queue) : queue'[k] # e
        BY ONLY <3>2, <2>2
      <4>4. CASE i = Len(queue') \/ j = Len(queue')
        BY ONLY <4>4, <4>2, <4>3, <3>3, <2>2
      <4> QED BY <4>1, <4>2, <4>4
    <3>4. \A d \in Documents : InQueue(d)' => worker'.doc # d /\ upload'[d] = "done"
      BY <3>1, <2>1, <2>3
    <3>5. \A d \in Documents : worker'.doc = d => upload'[d] = "done"
      BY <2>1
    <3> QED BY <3>3, <3>4, <3>5
  <2>6. UploadInv'
    BY <2>1
  <2>7. ChunkInv'
    BY <2>1, <2>3
  <2>8. DeletionInv'
    BY <2>1, <2>4
  <2>9. RowInv' /\ ReadyIsComplete'
    BY <2>1, <2>4
  <2> QED BY ONLY <2>5, <2>6, <2>7, <2>8, <2>9 DEF IInv
<1> QED BY <1>1, <1>2, <1>3 DEF Uploads

\* A step of the worker that changes what it does next, and a status at most.
LEMMA WorkerGoesOn ==
  ASSUME TypeOK, IInv, worker.step # "idle", worker'.step \notin {"idle", "finish"},
         worker'.step \in Early \cup {"store"} => worker.step \in Early,
         worker'.doc = worker.doc, worker'.stored = worker.stored,
         UNCHANGED <<count, chunks, file, upload, queue, deletion, begun, raced>>,
         \A d \in Documents :
           row'[d] = row[d] \/ (row[d] # "absent" /\ row'[d] = "processing"),
         worker'.step = "store" => chunks[worker.doc] = {}
  PROVE  IInv'
<1>1. /\ \A d \in Documents : Untouched(d)' => Untouched(d)
      /\ \A d \in Documents : Ingesting(d)' <=> Ingesting(d)
      /\ \A d \in Documents : InQueue(d)' <=> InQueue(d)
  BY DEF Untouched, Ingesting, InQueue
<1>2. QueueInv' /\ UploadInv'
  BY <1>1 DEF IInv, QueueInv, UploadInv
<1>3. ChunkInv'
  <2>1. worker'.step = "store" => chunks'[worker'.doc] = 1..worker'.stored
    <3>1. 1..0 = {}
      OBVIOUS
    <3> QED BY <3>1 DEF IInv, ChunkInv
  <2>2. \A d \in Documents : Untouched(d)' => chunks'[d] = {}
    BY <1>1 DEF IInv, ChunkInv
  <2>3. worker'.step \in Early => worker'.stored = 0
    BY DEF IInv, ChunkInv
  <2> QED BY <2>1, <2>2, <2>3 DEF ChunkInv
<1>4. DeletionInv'
  <2>1. \A x \in Deletions : deletion[x].step # "idle" => deletion[x].doc \in Documents
    BY DeletionTyped DEF TypeOK
  <2> QED BY <1>1, <2>1 DEF IInv, DeletionInv
<1>5. RowInv' /\ ReadyIsComplete'
  BY <1>1 DEF IInv, RowInv, ReadyIsComplete
<1> QED BY <1>2, <1>3, <1>4, <1>5 DEF IInv


LEMMA WorkerStep ==
  ASSUME TypeOK, IInv, Works
  PROVE  IInv'
<1>0. worker \in Workers
  BY DEF TypeOK
<1>1. ASSUME NEW from, from # "idle", WorkerRaises(from) PROVE IInv'
  <2>1. worker.step = from /\ worker'.doc = worker.doc /\ worker'.step = "fail"
        /\ worker'.stored = worker.stored
    BY <1>1, <1>0, RagAssumption, WorkerMoved DEF WorkerRaises, WorkerGoes, WorkerSteps
  <2> QED BY <1>1, <2>1, WorkerGoesOn DEF WorkerRaises, storeVars, historyVars, Early
<1>2. ASSUME NEW from, from # "idle", NEW to \in WorkerSteps \ {"idle"}, WorkerGoes(from, to)
      PROVE  /\ worker.step = from /\ worker.doc \in Documents
             /\ worker'.doc = worker.doc /\ worker'.step = to /\ worker'.stored = worker.stored
  BY <1>2, <1>0, RagAssumption, WorkerMoved, WorkerTyped DEF WorkerGoes
<1>3. CASE Take
  <2> DEFINE e == Head(queue)
  <2>1. /\ worker = Idle /\ Len(queue) > 0 /\ queue[1] = e /\ e \in Documents
        /\ Len(queue') = Len(queue) - 1
        /\ \A i \in 1..Len(queue') : i + 1 \in 1..Len(queue) /\ queue'[i] = queue[i + 1]
        /\ UNCHANGED <<row, count, chunks, file, upload, deletion, begun, raced>>
    BY <1>3 DEF Take, TypeOK, storeVars
  <2>2. \/ worker' = Idle
        \/ worker'.doc = e /\ worker'.step = "mark" /\ worker'.stored = 0 /\ row[e] # "absent"
    BY <1>3, <2>1, WorkerTook, RagAssumption DEF Take
  <2>3. \A d \in Documents : worker.doc # d
    BY <2>1, RagAssumption DEF Idle
  <2>4. \A d \in Documents : InQueue(d)' => InQueue(d) /\ d # e
    BY <2>1 DEF IInv, QueueInv, InQueue
  <2>5. InQueue(e)
    BY <2>1 DEF InQueue
  <2> HIDE DEF e
  <2>6. \A d \in Documents : worker'.doc = d => d = e
    BY <2>2, RagAssumption DEF Idle
  <2>7. /\ \A d \in Documents : Untouched(d)' => Untouched(d)
        /\ \A d \in Documents : Ingesting(d)' => Ingesting(d)
    BY <2>1, <2>4, <2>5, <2>6 DEF Untouched, Ingesting, InQueue
  <2>8. QueueInv'
    <3>1. \A i, j \in 1..Len(queue') : queue'[i] = queue'[j] => i = j
      BY <2>1 DEF IInv, QueueInv
    <3>2. \A d \in Documents : InQueue(d)' => worker'.doc # d /\ upload'[d] = "done"
      BY <2>1, <2>4, <2>6 DEF IInv, QueueInv
    <3>3. \A d \in Documents : worker'.doc = d => upload'[d] = "done"
      BY <2>1, <2>5, <2>6 DEF IInv, QueueInv
    <3> QED BY <3>1, <3>2, <3>3 DEF QueueInv
  <2>9. UploadInv'
    BY <2>1 DEF IInv, UploadInv
  <2>10. ChunkInv'
    BY <2>1, <2>2, <2>7 DEF IInv, ChunkInv, Idle, Early
  <2>11. DeletionInv'
    <3>1. \A x \in Deletions : deletion[x].step # "idle" => deletion[x].doc \in Documents
      BY DeletionTyped DEF TypeOK
    <3> QED BY <2>1, <2>7, <3>1 DEF IInv, DeletionInv
  <2>12. RowInv' /\ ReadyIsComplete'
    BY <2>1, <2>7 DEF IInv, RowInv, ReadyIsComplete
  <2> QED BY <2>8, <2>9, <2>10, <2>11, <2>12 DEF IInv
<1>4. CASE Mark
  <2>1. CASE WorkerRaises("mark")
    BY <2>1, <1>1
  <2>2. CASE ~WorkerRaises("mark")
    <3>1. /\ worker.step = "mark" /\ worker'.doc = worker.doc /\ worker'.step = "extract"
          /\ worker'.stored = worker.stored
      BY <2>2, <1>4, <1>2 DEF Mark, WorkerSteps
    <3>2. \A d \in Documents :
            row'[d] = row[d] \/ (row[d] # "absent" /\ row'[d] = "processing")
      BY <2>2, <1>4 DEF Mark, TypeOK
    <3>3. UNCHANGED <<count, chunks, file, upload, queue, deletion, begun, raced>>
      BY <2>2, <1>4 DEF Mark, historyVars
    <3> QED BY <3>1, <3>2, <3>3, WorkerGoesOn DEF Early
  <2> QED BY <2>1, <2>2
<1>5. CASE Extract \/ SavePages
  <2>1. CASE WorkerRaises("extract") \/ WorkerRaises("pages")
    BY <2>1, <1>1
  <2>2. CASE ~(WorkerRaises("extract") \/ WorkerRaises("pages"))
    <3>1. /\ worker.step \in Early /\ worker'.doc = worker.doc
          /\ worker'.step \in {"pages", "clear"} /\ worker'.stored = worker.stored
      BY <2>2, <1>5, <1>2 DEF Extract, SavePages, WorkerSteps, Early
    <3>2. UNCHANGED <<row, count, chunks, file, upload, queue, deletion, begun, raced>>
      BY <2>2, <1>5 DEF Extract, SavePages, historyVars, storeVars
    <3> QED BY <3>1, <3>2, WorkerGoesOn DEF Early
  <2> QED BY <2>1, <2>2
<1>6. CASE Clear
  <2>1. CASE WorkerRaises("clear")
    BY <2>1, <1>1
  <2>2. CASE ~WorkerRaises("clear")
    <3>1. /\ worker.step = "clear" /\ worker.doc \in Documents /\ worker'.doc = worker.doc
          /\ worker'.step = "store" /\ worker'.stored = worker.stored
      BY <2>2, <1>6, <1>2 DEF Clear, WorkerSteps
    <3>2. chunks[worker.doc] = {}
      BY <3>1 DEF IInv, ChunkInv, Untouched, Early
    <3>3. chunks' = chunks
      <4>1. CASE chunks' = [chunks EXCEPT ![worker.doc] = {}]
        BY <4>1, <3>2 DEF TypeOK
      <4>2. chunks' = [chunks EXCEPT ![worker.doc] = {}] \/ chunks' = chunks
        BY <2>2, <1>6 DEF Clear
      <4> QED BY <4>1, <4>2
    <3>4. UNCHANGED <<row, count, file, upload, queue, deletion, begun, raced>>
      BY <2>2, <1>6 DEF Clear, historyVars
    <3>5. worker.step # "idle" /\ worker'.step \notin {"idle", "finish"}
      BY <3>1
    <3>6. worker'.step \in Early \cup {"store"} => worker.step \in Early
      BY <3>1 DEF Early
    <3>7. \A d \in Documents :
            row'[d] = row[d] \/ (row[d] # "absent" /\ row'[d] = "processing")
      BY <3>4
    <3>8. worker'.step = "store" => chunks[worker.doc] = {}
      BY <3>2
    <3>9. /\ UNCHANGED <<count, chunks, file, upload, queue, deletion, begun, raced>>
          /\ worker'.doc = worker.doc /\ worker'.stored = worker.stored
      BY <3>1, <3>3, <3>4
    <3>10. TypeOK /\ IInv
      OBVIOUS
    <3> QED BY ONLY <3>5, <3>6, <3>7, <3>8, <3>9, <3>10, WorkerGoesOn, ZenonT(30)
  <2> QED BY <2>1, <2>2
<1>7. CASE StoreBatch
  <2>1. CASE WorkerRaises("store")
    BY <2>1, <1>1
  <2>2. CASE ~WorkerRaises("store")
    <3>0. PICK e \in Documents : e = worker.doc
      BY <2>2, <1>7, <1>0, WorkerTyped, RagAssumption DEF StoreBatch
    <3>1. /\ worker.step = "store" /\ e \in Documents /\ worker'.doc = e
          /\ worker'.step \in {"store", "finish", "fail"}
          /\ worker'.stored = worker.stored + 1 /\ worker.stored \in Nat
      <4>1. PICK step \in {"store", "finish", "fail"} :
              worker' = [worker EXCEPT !.stored = worker.stored + 1, !.step = step]
        BY <2>2, <1>7 DEF StoreBatch
      <4>2. worker.step = "store" /\ worker.stored < MaxBatches
        BY <2>2, <1>7 DEF StoreBatch
      <4>3. worker.doc \in Documents /\ worker.stored \in 0..MaxBatches
        BY <4>2, <1>0, RagAssumption, WorkerTyped
      <4>4. step \in WorkerSteps \ {"idle"}
        BY DEF WorkerSteps
      <4>5. /\ worker'.doc = worker.doc /\ worker'.step = step
            /\ worker'.stored = worker.stored + 1
        BY <4>1, <4>2, <4>4, <1>0, RagAssumption, WorkerStored
      <4> QED BY <4>2, <4>3, <4>5, <3>0
    <3>2. /\ chunks'[e] = chunks[e] \cup {worker.stored + 1}
          /\ \A d \in Documents \ {e} : chunks'[d] = chunks[d]
          /\ UNCHANGED <<row, count, file, upload, queue, deletion, begun, raced>>
      BY <2>2, <1>7, <3>0, <3>1 DEF StoreBatch, historyVars, TypeOK
    <3>3. /\ ~Untouched(e)' /\ \A d \in Documents \ {e} : Untouched(d)' => Untouched(d)
          /\ Ingesting(e) /\ \A d \in Documents : Ingesting(d)' <=> Ingesting(d)
          /\ \A d \in Documents : InQueue(d)' <=> InQueue(d)
      BY <3>0, <3>1, <3>2 DEF IInv, QueueInv, Untouched, Ingesting, InQueue, Early
    <3>4. e \notin begun => chunks'[e] = 1..(worker.stored + 1)
      <4>1. e \notin begun => chunks[e] = 1..worker.stored
        BY <3>0, <3>1 DEF IInv, ChunkInv
      <4> QED BY <4>1, <3>1, <3>2
    <3>5. QueueInv' /\ UploadInv'
      BY <3>0, <3>1, <3>2, <3>3 DEF IInv, QueueInv, UploadInv
    <3>6. ChunkInv'
      <4>1. \A d \in Documents : Untouched(d)' => chunks'[d] = {}
        BY <3>2, <3>3 DEF IInv, ChunkInv
      <4>2. worker'.step \notin Early
        BY <3>1 DEF Early
      <4>3. worker'.doc \notin begun' => chunks'[worker'.doc] = 1..worker'.stored
        BY <3>1, <3>2, <3>4
      <4>4. worker'.stored > 0
        BY <3>1
      <4> QED BY <4>1, <4>2, <4>3, <4>4 DEF ChunkInv
    <3>7. DeletionInv'
      <4>1. \A x \in Deletions : deletion[x].step # "idle" => deletion[x].doc \in Documents
        BY DeletionTyped DEF TypeOK
      <4> QED BY <3>2, <3>3, <4>1 DEF IInv, DeletionInv
    <3>8. RowInv' /\ ReadyIsComplete'
      BY <3>2, <3>3 DEF IInv, RowInv, ReadyIsComplete
    <3> QED BY <3>5, <3>6, <3>7, <3>8 DEF IInv
  <2> QED BY <2>1, <2>2
<1>8. ASSUME NEW e \in Documents, worker.doc = e, worker.step \in {"finish", "fail"},
             worker' = Idle,
             UNCHANGED <<chunks, file, upload, queue, deletion, begun, raced>>,
             \A d \in Documents \ {e} : row'[d] = row[d] /\ count'[d] = count[d],
             \/ row'[e] = row[e] /\ count'[e] = count[e]
             \/ row[e] # "absent" /\ row'[e] = "failed"
             \/ /\ row[e] # "absent" /\ row'[e] = "ready" /\ count'[e] = worker.stored
                /\ worker.step = "finish"
      PROVE  IInv'
  <2>1. worker'.doc = NoDocument /\ worker'.step = "idle"
    BY <1>8 DEF Idle
  <2>2. /\ \A d \in Documents : Untouched(d)' => Untouched(d)
        /\ ~Ingesting(e)' /\ \A d \in Documents : Ingesting(d)' => Ingesting(d)
        /\ \A d \in Documents : InQueue(d)' <=> InQueue(d)
        /\ \A d \in Documents : worker'.doc # d
    BY <1>8, <2>1, RagAssumption DEF IInv, QueueInv, Untouched, Ingesting, InQueue
  <2>3. QueueInv' /\ UploadInv'
    BY <1>8, <2>2 DEF IInv, QueueInv, UploadInv
  <2>4. ChunkInv'
    BY <1>8, <2>1, <2>2 DEF IInv, ChunkInv, Early
  <2>5. DeletionInv'
    <3>1. \A x \in Deletions : deletion[x].step # "idle" => deletion[x].doc \in Documents
      BY DeletionTyped DEF TypeOK
    <3> QED BY <1>8, <2>2, <3>1 DEF IInv, DeletionInv
  <2>6. RowInv'
    BY <1>8, <2>2 DEF IInv, RowInv
  <2>7. ReadyIsComplete'
    <3>1. ASSUME worker.step = "finish", e \notin begun
          PROVE  e \in file /\ worker.stored > 0 /\ chunks[e] = 1..worker.stored
      <4>1. upload[e] = "done"
        BY <1>8 DEF IInv, QueueInv
      <4> QED BY <1>8, <3>1, <4>1 DEF IInv, ChunkInv, UploadInv
    <3> QED BY <1>8, <3>1 DEF IInv, ReadyIsComplete
  <2> QED BY <2>3, <2>4, <2>5, <2>6, <2>7 DEF IInv
<1>9. CASE Finish
  <2>1. CASE WorkerRaises("finish")
    BY <2>1, <1>1
  <2>2. CASE ~WorkerRaises("finish")
    <3>1. worker.doc \in Documents
      BY <2>2, <1>9, <1>0, WorkerTyped, RagAssumption DEF Finish
    <3> QED BY <2>2, <1>9, <3>1, <1>8 DEF Finish, historyVars, TypeOK
  <2> QED BY <2>1, <2>2
<1>10. CASE Fail
  <2>1. worker.doc \in Documents
    BY <1>10, <1>0, WorkerTyped, RagAssumption DEF Fail
  <2> QED BY <1>10, <2>1, <1>8 DEF Fail, TypeOK
<1> QED
  BY <1>3, <1>4, <1>5, <1>6, <1>7, <1>9, <1>10 DEF Works

LEMMA DeletionStep ==
  ASSUME TypeOK, IInv, NEW x \in Deletions, DeleteReads(x) \/ Deletes(x)
  PROVE  IInv'
<1>0. deletion \in [Deletions -> DeletionStates]
  BY DEF TypeOK
<1>1. \A y \in Deletions : deletion[y].step # "idle" => deletion[y].doc \in Documents
  BY <1>0, DeletionTyped
<1>2. ASSUME UNCHANGED <<upload, queue, worker>>
      PROVE  /\ \A d \in Documents : Untouched(d)' <=> Untouched(d)
             /\ \A d \in Documents : Ingesting(d)' <=> Ingesting(d)
             /\ \A d \in Documents : InQueue(d)' <=> InQueue(d)
  BY <1>2 DEF Untouched, Ingesting, InQueue
<1>3. CASE DeleteReads(x)
  <2>1. PICK d \in Documents :
          /\ row[d] # "absent"
          /\ deletion' = [deletion EXCEPT ![x] = [doc |-> d, step |-> "lookup", ids |-> {}]]
          /\ begun' = begun \cup {d}
    BY <1>3 DEF DeleteReads
  <2>2. UNCHANGED <<row, count, chunks, file, upload, queue, worker, raced>>
    BY <1>3 DEF DeleteReads, storeVars
  <2>3. /\ \A y \in Deletions \ {x} : deletion'[y] = deletion[y]
        /\ deletion'[x].doc = d /\ deletion'[x].step = "lookup" /\ deletion'[x].ids = {}
    BY <2>1, <1>0, DeletionBegun
  <2>4. QueueInv' /\ UploadInv'
    BY <2>1, <2>2, <1>2 DEF IInv, QueueInv, UploadInv
  <2>5. ChunkInv'
    BY <2>1, <2>2, <1>2 DEF IInv, ChunkInv
  <2>6. DeletionInv'
    BY <2>1, <2>2, <2>3, <1>1, <1>2 DEF IInv, DeletionInv
  <2>7. RowInv' /\ ReadyIsComplete'
    BY <2>1, <2>2, <1>2 DEF IInv, RowInv, ReadyIsComplete
  <2> QED BY <2>4, <2>5, <2>6, <2>7 DEF IInv
(***************************************************************************)
(* The other steps: a deletion of document e past DeleteReads, which takes *)
(* away chunks of e, its file, or its row.                                 *)
(***************************************************************************)
<1>4. ASSUME deletion[x].step # "idle", NEW e \in Documents, e = deletion[x].doc,
             UNCHANGED <<upload, queue, worker, begun>>,
             \A y \in Deletions \ {x} : deletion'[y] = deletion[y],
             \/ deletion'[x].step = "idle"
             \/ /\ deletion'[x].doc = e
                /\ deletion'[x].step # "remove" => deletion'[x].ids = {}
                /\ deletion'[x].step # "lookup" /\ e \notin raced' =>
                     ~Ingesting(e) /\ chunks'[e] \subseteq deletion'[x].ids,
             chunks'[e] \subseteq chunks[e], raced \subseteq raced', file \ {e} \subseteq file',
             \A d \in Documents \ {e} :
               row'[d] = row[d] /\ count'[d] = count[d] /\ chunks'[d] = chunks[d],
             \/ row'[e] = row[e]
             \/ row'[e] = "absent" /\ (e \notin raced' => ~Ingesting(e) /\ chunks'[e] = {})
      PROVE  IInv'
  <2>1. e \in begun
    BY <1>4 DEF IInv, DeletionInv
  <2>2. QueueInv'
    BY <1>4, <1>2 DEF IInv, QueueInv
  <2>3. UploadInv'
    BY <1>4, <2>1 DEF IInv, UploadInv
  <2>4. ChunkInv'
    <3>1. \A d \in Documents : Untouched(d)' => chunks'[d] = {}
      BY <1>4, <1>2 DEF IInv, ChunkInv
    <3>2. worker'.step \in Early => worker'.stored = 0
      BY <1>4 DEF IInv, ChunkInv
    <3>3. worker'.step = "finish" => worker'.stored > 0
      BY <1>4 DEF IInv, ChunkInv
    <3>4. ASSUME worker'.step \in {"store", "finish"}, worker'.doc \notin begun'
          PROVE  chunks'[worker'.doc] = 1..worker'.stored
      <4>1. worker.doc \in Documents \ {e}
        BY <3>4, <1>4, <2>1, RagAssumption, WorkerTyped DEF TypeOK
      <4>2. chunks[worker.doc] = 1..worker.stored
        BY <3>4, <1>4 DEF IInv, ChunkInv
      <4> QED BY <4>1, <4>2, <1>4
    <3> QED BY <3>1, <3>2, <3>3, <3>4 DEF ChunkInv
  <2>5. DeletionInv'
    <3> SUFFICES ASSUME NEW y \in Deletions, deletion'[y].step # "idle"
                 PROVE  /\ deletion'[y].doc \in begun'
                        /\ deletion'[y].step # "remove" => deletion'[y].ids = {}
                        /\ deletion'[y].step # "lookup" /\ deletion'[y].doc \notin raced' =>
                             /\ ~Ingesting(deletion[y].doc)'
                             /\ chunks'[deletion'[y].doc] \subseteq deletion'[y].ids
      BY DEF DeletionInv
    <3>1. CASE y = x
      BY <3>1, <1>4, <1>2, <2>1
    <3>2. CASE y # x
      <4>1. deletion'[y] = deletion[y] /\ deletion[y].doc \in Documents
        BY <3>2, <1>4, <1>1
      <4>2. chunks'[deletion[y].doc] \subseteq chunks[deletion[y].doc]
        BY <4>1, <1>4, <2>1
      <4> QED BY <4>1, <4>2, <1>4, <1>2 DEF IInv, DeletionInv
    <3> QED BY <3>1, <3>2
  <2>6. RowInv'
    BY <1>4, <1>2, <2>1 DEF IInv, RowInv
  <2>7. ReadyIsComplete'
    BY <1>4, <2>1 DEF IInv, ReadyIsComplete
  <2> QED BY <2>2, <2>3, <2>4, <2>5, <2>6, <2>7 DEF IInv
<1>5. ASSUME deletion[x].step # "idle", NEW e \in Documents, e = deletion[x].doc, Deletes(x)
      PROVE  IInv'
  <2>1. /\ deletion[x].ids \in SUBSET (1..MaxBatches) /\ {} \in SUBSET (1..MaxBatches)
        /\ chunks[e] \in SUBSET (1..MaxBatches)
    BY <1>5, <1>0, DeletionTyped DEF TypeOK
  <2>2. /\ deletion[x].step # "remove" => deletion[x].ids = {}
        /\ deletion[x].step # "lookup" /\ e \notin raced =>
             ~Ingesting(e) /\ chunks[e] \subseteq deletion[x].ids
    BY <1>5 DEF IInv, DeletionInv
  <2>3. ASSUME NEW from \in DeletionSteps, from \notin {"idle", "remove"},
               NEW to \in DeletionSteps \ {"idle", "remove"}, DeletionGoes(x, from, to)
        PROVE  /\ \A y \in Deletions \ {x} : deletion'[y] = deletion[y]
               /\ deletion'[x].doc = e /\ deletion'[x].step = to /\ deletion'[x].ids = {}
               /\ deletion[x].step = from
    BY <2>3, <2>1, <2>2, <1>5, <1>0, DeletionMoved DEF DeletionGoes
  <2>4. ASSUME NEW from, DeletionEnds(x, from)
        PROVE  /\ \A y \in Deletions \ {x} : deletion'[y] = deletion[y]
               /\ deletion'[x].step = "idle" /\ deletion[x].step = from
    BY <2>4, <1>0, DeletionEnded DEF DeletionEnds
  <2>5. CASE LookUp(x)
    <3>1. /\ deletion[x].step = "lookup"
          /\ UNCHANGED <<row, count, chunks, file, upload, queue, worker, begun>>
      BY <2>5 DEF LookUp, storeVars
    <3>2. CASE /\ \E step \in {"check", "remove"} :
                    /\ step = "check" <=> chunks[e] = {}
                    /\ DeletionKeeps(x, step, chunks[e])
               /\ raced' = IF Ingesting(e) THEN raced \cup {e} ELSE raced
      <4>1. PICK to \in {"check", "remove"} :
              (to = "check" <=> chunks[e] = {}) /\ DeletionKeeps(x, to, chunks[e])
        BY <3>2
      <4>2. to \in DeletionSteps \ {"idle"}
        BY DEF DeletionSteps
      <4>3. deletion[x].step # "idle" /\ chunks[e] \in SUBSET (1..MaxBatches)
        BY <1>5, <2>1
      <4>4. /\ \A y \in Deletions \ {x} : deletion'[y] = deletion[y]
            /\ deletion'[x].doc = e /\ deletion'[x].step = to /\ deletion'[x].ids = chunks[e]
        BY <4>1, <4>2, <4>3, <1>0, <1>5, DeletionRecorded
      <4>5. e \notin raced' => ~Ingesting(e) /\ chunks'[e] \subseteq deletion'[x].ids
        BY <4>4, <3>1, <3>2
      <4>6. deletion'[x].step # "remove" => deletion'[x].ids = {}
        BY <4>1, <4>4
      <4>7. raced \subseteq raced' /\ (e \notin raced' => e \notin raced)
        BY <3>2
      <4>8. deletion'[x].step \in {"check", "remove"}
        BY <4>4
      <4> QED BY <4>4, <4>5, <4>6, <4>7, <4>8, <3>1, <1>4, <1>5
    <3>3. CASE DeletionGoes(x, "lookup", "check") /\ raced' = raced \cup {e}
      <4>1. /\ \A y \in Deletions \ {x} : deletion'[y] = deletion[y]
            /\ deletion'[x].doc = e /\ deletion'[x].step = "check" /\ deletion'[x].ids = {}
        BY <3>3, <2>3 DEF DeletionSteps
      <4> QED BY <4>1, <3>1, <3>3, <1>4, <1>5
    <3>4. CASE DeletionEnds(x, "lookup") /\ UNCHANGED raced
      BY <3>4, <2>4, <3>1, <1>4, <1>5
    <3> QED BY <3>2, <3>3, <3>4, <2>5, <1>5 DEF LookUp
  <2>6. CASE RemoveChunks(x)
    <3>1. /\ deletion[x].step = "remove"
          /\ UNCHANGED <<row, count, file, upload, queue, worker, begun>>
          /\ DeletionKeeps(x, "check", {})
          /\ \/ /\ chunks' = [chunks EXCEPT ![e] = chunks[e] \ deletion[x].ids]
                /\ raced' = raced
             \/ raced' = raced \cup {e} /\ chunks' = chunks
      BY <2>6, <1>5 DEF RemoveChunks
    <3>2. /\ \A y \in Deletions \ {x} : deletion'[y] = deletion[y]
          /\ deletion'[x].doc = e /\ deletion'[x].step = "check" /\ deletion'[x].ids = {}
      <4>1. "check" \in DeletionSteps \ {"idle"} /\ {} \in SUBSET (1..MaxBatches)
        BY DEF DeletionSteps
      <4>2. deletion[x].step # "idle"
        BY <1>5
      <4> QED BY <4>1, <4>2, <3>1, <1>0, <1>5, DeletionRecorded
    <3>3. /\ \A d \in Documents \ {e} : chunks'[d] = chunks[d]
          /\ chunks'[e] \subseteq chunks[e] /\ raced \subseteq raced'
          /\ e \notin raced' => e \notin raced /\ chunks'[e] = chunks[e] \ deletion[x].ids
      BY <3>1 DEF TypeOK
    <3>4. e \notin raced' => ~Ingesting(e) /\ chunks'[e] \subseteq {}
      BY <3>1, <3>3, <2>2
    <3> QED BY <3>1, <3>2, <3>3, <3>4, <1>4, <1>5
  <2>7. CASE CheckFile(x)
    <3>1. /\ deletion[x].step = "check"
          /\ UNCHANGED <<row, count, chunks, file, upload, queue, worker, begun, raced>>
      BY <2>7 DEF CheckFile, DeletionGoes, storeVars, historyVars
    <3>2. PICK to \in {"unlink", "erase"} : DeletionGoes(x, "check", to)
      BY <2>7 DEF CheckFile
    <3>3. /\ \A y \in Deletions \ {x} : deletion'[y] = deletion[y]
          /\ deletion'[x].doc = e /\ deletion'[x].step = to /\ deletion'[x].ids = {}
      BY <3>2, <2>3 DEF DeletionSteps
    <3> QED BY <3>1, <3>3, <2>2, <1>4, <1>5
  <2>8. CASE RemoveFile(x)
    <3>1. /\ deletion[x].step = "unlink" /\ file \ {e} \subseteq file' /\ file' \subseteq file
          /\ UNCHANGED <<row, count, chunks, upload, queue, worker, begun, raced>>
      BY <2>8, <1>5 DEF RemoveFile, DeletionGoes, DeletionEnds, historyVars
    <3>2. CASE DeletionGoes(x, "unlink", "erase")
      <4>1. /\ \A y \in Deletions \ {x} : deletion'[y] = deletion[y]
            /\ deletion'[x].doc = e /\ deletion'[x].step = "erase" /\ deletion'[x].ids = {}
        BY <3>2, <2>3 DEF DeletionSteps
      <4> QED BY <4>1, <3>1, <2>2, <1>4, <1>5
    <3>3. CASE DeletionEnds(x, "unlink")
      BY <3>3, <3>1, <2>4, <1>4, <1>5
    <3> QED BY <3>2, <3>3, <2>8 DEF RemoveFile
  <2>9. CASE EraseRow(x)
    <3>1. /\ deletion[x].step = "erase"
          /\ UNCHANGED <<chunks, file, upload, queue, worker, begun, raced>>
          /\ \A y \in Deletions \ {x} : deletion'[y] = deletion[y]
          /\ deletion'[x].step = "idle"
      BY <2>9, <2>4 DEF EraseRow
    <3>2. /\ \A d \in Documents \ {e} : row'[d] = row[d] /\ count'[d] = count[d]
          /\ row'[e] = row[e] \/ row'[e] = "absent"
      BY <2>9, <1>5 DEF EraseRow, TypeOK
    <3>3. e \notin raced' => ~Ingesting(e) /\ chunks'[e] = {}
      BY <3>1, <2>2
    <3> QED BY <3>1, <3>2, <3>3, <1>4, <1>5
  <2> QED BY <2>5, <2>6, <2>7, <2>8, <2>9, <1>5 DEF Deletes
<1>6. ASSUME Deletes(x) PROVE deletion[x].step # "idle"
  BY <1>6 DEF Deletes, LookUp, RemoveChunks, CheckFile, RemoveFile, EraseRow,
              DeletionGoes, DeletionEnds
<1> QED
  BY <1>1, <1>3, <1>5, <1>6

LEMMA CrashStep ==
  ASSUME TypeOK, IInv, Crash
  PROVE  IInv'
<1>1. /\ UNCHANGED <<row, count, chunks, file, begun, raced>>
      /\ Len(queue') = 0 /\ worker'.doc = NoDocument /\ worker'.step = "idle"
      /\ worker'.stored = 0
      /\ \A x \in Deletions : deletion'[x].step = "idle"
      /\ \A d \in Documents : upload'[d] = IF upload[d] = "idle" THEN "idle" ELSE "done"
  BY DEF Crash, storeVars, Idle, NoDeletion
<1>2. 1..Len(queue') = {}
  BY <1>1
<1>3. \A d \in Documents :
        /\ ~InQueue(d)' /\ ~Ingesting(d)' /\ worker'.doc # d
        /\ Untouched(d)' => Untouched(d)
  BY <1>1, <1>2, RagAssumption DEF InQueue, Ingesting, Untouched
<1>4. QueueInv' /\ DeletionInv'
  BY <1>1, <1>2, <1>3 DEF QueueInv, DeletionInv
<1>5. UploadInv'
  BY <1>1 DEF IInv, UploadInv
<1>6. ChunkInv'
  BY <1>1, <1>3 DEF IInv, ChunkInv
<1>7. RowInv' /\ ReadyIsComplete'
  BY <1>1, <1>3 DEF IInv, RowInv, ReadyIsComplete
<1> QED BY <1>4, <1>5, <1>6, <1>7 DEF IInv

LEMMA InvStep == TypeOK /\ IInv /\ [Next]_vars => IInv'
<1> SUFFICES ASSUME TypeOK, IInv, [Next]_vars PROVE IInv'
  OBVIOUS
<1>1. ASSUME NEW d \in Documents, WriteFile(d) \/ Uploads(d) PROVE IInv'
  BY <1>1, UploadStep
<1>2. CASE Works
  BY <1>2, WorkerStep
<1>3. ASSUME NEW x \in Deletions, DeleteReads(x) \/ Deletes(x) PROVE IInv'
  BY <1>3, DeletionStep
<1>4. CASE Crash
  BY <1>4, CrashStep
<1>5. CASE UNCHANGED vars
  BY <1>5 DEF vars, storeVars, actorVars, historyVars, IInv, QueueInv, UploadInv, ChunkInv,
              DeletionInv, RowInv, ReadyIsComplete, Untouched, Ingesting, InQueue
<1> QED BY <1>1, <1>2, <1>3, <1>4, <1>5 DEF Next

LEMMA InvAlways == Spec => []IInv
BY InvInit, InvStep, TypeCorrect, PTL DEF Spec

\* A document that says "ready", and of which no deletion has begun, has its
\* file and exactly the chunks it counts, whatever failed or crashed before
\* (_sync_process in document_processor.py, store_chunks in vector_store.py).
THEOREM ReadyDocumentsAreComplete == Spec => []ReadyIsComplete
<1>1. IInv => ReadyIsComplete
  BY DEF IInv
<1> QED BY <1>1, InvAlways, PTL

\* Chunks whose row is gone are left only by a deletion that met the ingestion
\* of its document or an error of ChromaDB (rag_document_delete in views.py,
\* delete_document_chunks in vector_store.py).
THEOREM OrphansHaveACause == Spec => []OrphansAreExplained
<1>1. IInv => OrphansAreExplained
  BY DEF IInv, RowInv, OrphansAreExplained
<1> QED BY <1>1, InvAlways, PTL

=============================================================================
