---------------------------- MODULE RagIngestion ----------------------------
(***************************************************************************)
(* apps/rag: documents from upload to deletion.  An upload writes the file *)
(* and creates the row; one worker thread ingests the documents in the     *)
(* order of the queue; deletions run meanwhile in threads of their own.    *)
(* The rows are in the database, the chunks in ChromaDB, the files on      *)
(* disk, and nothing spans two of them.                                    *)
(*                                                                         *)
(* An action is one access to one of the three with the code up to the     *)
(* next one.  An access to the database or to ChromaDB may raise.  Chunks  *)
(* are counted in batches: a batch is added whole or not at all.           *)
(***************************************************************************)
EXTENDS Integers, Sequences

CONSTANTS
  Documents,
  Deletions,     \* the threads that serve rag_document_delete
  MaxBatches     \* batches of a document at most

NoDocument == "none"

ASSUME RagAssumption ==
  /\ NoDocument \notin Documents
  /\ MaxBatches \in Nat \ {0}

VARIABLES
  row,        \* the status of each Document row, or "absent"
  count,      \* its chunk_count
  chunks,     \* the batches of each document in ChromaDB
  file,       \* the documents whose file is on disk
  upload,     \* what the upload of each document does next
  queue,      \* the executor's queue
  worker,     \* its thread
  deletion,   \* each thread that deletes
  begun,      \* the documents of which a deletion has begun
  raced,      \* those whose deletion met their ingestion or a ChromaDB error
  lost        \* those with a row that is not settled and nobody to settle it

storeVars == <<row, count, chunks, file>>
actorVars == <<upload, queue, worker, deletion>>
historyVars == <<begun, raced, lost>>
vars == <<storeVars, actorVars, historyVars>>

-----------------------------------------------------------------------------

Statuses == {"absent", "uploaded", "processing", "ready", "failed"}
UploadStages == {"idle", "creating", "queueing", "done"}
WorkerSteps == {"idle", "mark", "extract", "pages", "clear", "store", "finish", "fail"}
DeletionSteps == {"idle", "lookup", "remove", "check", "unlink", "erase"}

Idle == [doc |-> NoDocument, step |-> "idle", stored |-> 0]
NoDeletion == [doc |-> NoDocument, step |-> "idle", ids |-> {}]

Workers ==
  {Idle} \cup [doc : Documents, step : WorkerSteps \ {"idle"}, stored : 0..MaxBatches]
DeletionStates == {NoDeletion} \cup [doc : Documents, step : DeletionSteps \ {"idle"},
                                     ids : SUBSET (1..MaxBatches)]

Init ==
  /\ row = [d \in Documents |-> "absent"]
  /\ count = [d \in Documents |-> 0]
  /\ chunks = [d \in Documents |-> {}]
  /\ file = {}
  /\ upload = [d \in Documents |-> "idle"]
  /\ queue = <<>> /\ worker = Idle
  /\ deletion = [x \in Deletions |-> NoDeletion]
  /\ begun = {} /\ raced = {} /\ lost = {}

-----------------------------------------------------------------------------

(***************************************************************************)
(* rag_document_upload.  The thread that writes the file and creates the   *)
(* row is not interrupted when the client leaves, but its view is, and     *)
(* then nobody queues the document.                                        *)
(***************************************************************************)
WriteFile(d) ==
  /\ upload[d] = "idle"
  /\ upload' = [upload EXCEPT ![d] = "creating"]
  /\ file' = file \cup {d}
  /\ UNCHANGED <<row, count, chunks, queue, worker, deletion, historyVars>>

CreateRow(d) ==
  /\ upload[d] = "creating"
  /\ \/ /\ row' = [row EXCEPT ![d] = "uploaded"]
        /\ \/ upload' = [upload EXCEPT ![d] = "queueing"] /\ UNCHANGED lost
           \/ upload' = [upload EXCEPT ![d] = "done"] /\ lost' = lost \cup {d}
     \/ upload' = [upload EXCEPT ![d] = "done"] /\ UNCHANGED <<row, lost>>
  /\ UNCHANGED <<count, chunks, file, queue, worker, deletion, begun, raced>>

\* process_document, started by ensure_future.
Enqueue(d) ==
  /\ upload[d] = "queueing"
  /\ upload' = [upload EXCEPT ![d] = "done"]
  /\ queue' = Append(queue, d)
  /\ UNCHANGED <<storeVars, worker, deletion, historyVars>>

-----------------------------------------------------------------------------

WorkerGoes(from, to) == worker.step = from /\ worker' = [worker EXCEPT !.step = to]

\* An exception in the try block of _sync_process.
WorkerRaises(from) ==
  /\ WorkerGoes(from, "fail")
  /\ UNCHANGED <<storeVars, upload, queue, deletion, historyVars>>

\* The row is gone, or it is not, or the database does not say: then the
\* exception ends the task and nothing else happens to the document.
Take ==
  /\ worker = Idle /\ queue # <<>>
  /\ queue' = Tail(queue)
  /\ \/ /\ row[Head(queue)] # "absent"
        /\ worker' = [doc |-> Head(queue), step |-> "mark", stored |-> 0]
        /\ UNCHANGED lost
     \/ /\ UNCHANGED worker
        /\ lost' = lost \cup {d \in {Head(queue)} : row[d] # "absent"}
  /\ UNCHANGED <<storeVars, upload, deletion, begun, raced>>

\* save(update_fields) raises when there is no row to update.
Mark ==
  \/ /\ WorkerGoes("mark", "extract")
     /\ row[worker.doc] # "absent"
     /\ row' = [row EXCEPT ![worker.doc] = "processing"]
     /\ UNCHANGED <<count, chunks, file, upload, queue, deletion, historyVars>>
  \/ WorkerRaises("mark")

\* extract_text; the document may be no PDF, or have no text.
Extract ==
  \/ /\ WorkerGoes("extract", "pages")
     /\ worker.doc \in file
     /\ UNCHANGED <<storeVars, upload, queue, deletion, historyVars>>
  \/ WorkerRaises("extract")

SavePages ==
  \/ /\ WorkerGoes("pages", "clear")
     /\ row[worker.doc] # "absent"
     /\ UNCHANGED <<storeVars, upload, queue, deletion, historyVars>>
  \/ WorkerRaises("pages")

\* delete_document_chunks catches all but a failure to reach the collection;
\* then chunk_pages.
Clear ==
  \/ /\ WorkerGoes("clear", "store")
     /\ \/ chunks' = [chunks EXCEPT ![worker.doc] = {}]
        \/ UNCHANGED chunks
     /\ UNCHANGED <<row, count, file, upload, queue, deletion, historyVars>>
  \/ WorkerRaises("clear")

\* Faulty variant of StoreBatch: a batch that cannot be added is logged only.
StoreBatchAnyway ==
  /\ worker.step = "store" /\ worker.stored < MaxBatches
  /\ \E step \in {"store", "finish"} :
       worker' = [worker EXCEPT !.stored = @ + 1, !.step = step]
  /\ chunks' \in {chunks, [chunks EXCEPT ![worker.doc] = @ \cup {worker.stored + 1}]}
  /\ UNCHANGED <<row, count, file, upload, queue, deletion, historyVars>>

\* One batch of store_chunks, which may be the last, or whose answer is lost.
StoreBatch ==
  \/ /\ worker.step = "store" /\ worker.stored < MaxBatches
     /\ \E step \in {"store", "finish", "fail"} :
          worker' = [worker EXCEPT !.stored = @ + 1, !.step = step]
     /\ chunks' = [chunks EXCEPT ![worker.doc] = @ \cup {worker.stored + 1}]
     /\ UNCHANGED <<row, count, file, upload, queue, deletion, historyVars>>
  \/ WorkerRaises("store")

Finish ==
  \/ /\ worker.step = "finish" /\ row[worker.doc] # "absent"
     /\ worker' = Idle
     /\ row' = [row EXCEPT ![worker.doc] = "ready"]
     /\ count' = [count EXCEPT ![worker.doc] = worker.stored]
     /\ UNCHANGED <<chunks, file, upload, queue, deletion, historyVars>>
  \/ WorkerRaises("finish")

\* Faulty variant of Fail: the message is saved without the status.
FailKeepsStatus ==
  /\ worker.step = "fail"
  /\ worker' = Idle
  /\ UNCHANGED <<storeVars, upload, queue, deletion, historyVars>>

\* The except block; what it raises is logged.
Fail ==
  /\ worker.step = "fail"
  /\ worker' = Idle
  /\ \/ /\ row[worker.doc] # "absent"
        /\ row' = [row EXCEPT ![worker.doc] = "failed"]
        /\ UNCHANGED lost
     \/ lost' = lost \cup {d \in {worker.doc} : row[d] # "absent"} /\ UNCHANGED row
  /\ UNCHANGED <<count, chunks, file, upload, queue, deletion, begun, raced>>

-----------------------------------------------------------------------------

DeletionGoes(x, from, to) ==
  deletion[x].step = from /\ deletion' = [deletion EXCEPT ![x].step = to]
DeletionKeeps(x, to, ids) ==
  deletion' = [deletion EXCEPT ![x] = [doc |-> deletion[x].doc, step |-> to, ids |-> ids]]
DeletionEnds(x, from) ==
  deletion[x].step = from /\ deletion' = [deletion EXCEPT ![x] = NoDeletion]

\* The document will be ingested, or is.
Ingesting(d) ==
  upload[d] = "queueing" \/ worker.doc = d \/ \E i \in 1..Len(queue) : queue[i] = d

\* Faulty variant of DeleteReads: the chunks are left to the next ingestion.
DeleteReadsOnly(x) ==
  /\ deletion[x] = NoDeletion
  /\ \E d \in Documents :
       /\ row[d] # "absent"
       /\ deletion' = [deletion EXCEPT ![x] = [doc |-> d, step |-> "check", ids |-> {}]]
       /\ begun' = begun \cup {d}
  /\ UNCHANGED <<storeVars, upload, queue, worker, raced, lost>>

\* Document.objects.get
DeleteReads(x) ==
  /\ deletion[x] = NoDeletion
  /\ \E d \in Documents :
       /\ row[d] # "absent"
       /\ deletion' = [deletion EXCEPT ![x] = [doc |-> d, step |-> "lookup", ids |-> {}]]
       /\ begun' = begun \cup {d}
  /\ UNCHANGED <<storeVars, upload, queue, worker, raced, lost>>

\* delete_document_chunks: the ids first.  An error of ChromaDB is swallowed,
\* unless the collection cannot be had at all.
LookUp(x) ==
  LET d == deletion[x].doc
  IN /\ deletion[x].step = "lookup"
     /\ \/ /\ \E step \in {"check", "remove"} :
                /\ step = "check" <=> chunks[d] = {}
                /\ DeletionKeeps(x, step, chunks[d])
           /\ raced' = IF Ingesting(d) THEN raced \cup {d} ELSE raced
        \/ /\ DeletionGoes(x, "lookup", "check")
           /\ raced' = raced \cup {d}
        \/ DeletionEnds(x, "lookup") /\ UNCHANGED raced
     /\ UNCHANGED <<storeVars, upload, queue, worker, begun, lost>>

RemoveChunks(x) ==
  LET d == deletion[x].doc
  IN /\ deletion[x].step = "remove"
     /\ DeletionKeeps(x, "check", {})
     /\ \/ chunks' = [chunks EXCEPT ![d] = @ \ deletion[x].ids] /\ UNCHANGED raced
        \/ raced' = raced \cup {d} /\ UNCHANGED chunks
     /\ UNCHANGED <<row, count, file, upload, queue, worker, begun, lost>>

CheckFile(x) ==
  /\ DeletionGoes(x, "check", IF deletion[x].doc \in file THEN "unlink" ELSE "erase")
  /\ UNCHANGED <<storeVars, upload, queue, worker, historyVars>>

\* os.remove raises when another deletion was faster, or when the file may not
\* be removed: then the chunks are gone and the row stays.
RemoveFile(x) ==
  /\ \/ /\ deletion[x].doc \in file
        /\ DeletionGoes(x, "unlink", "erase")
        /\ file' = file \ {deletion[x].doc}
     \/ DeletionEnds(x, "unlink") /\ UNCHANGED file
  /\ UNCHANGED <<row, count, chunks, upload, queue, worker, historyVars>>

\* Deleting a row that is gone already is no error.
EraseRow(x) ==
  LET d == deletion[x].doc
  IN /\ DeletionEnds(x, "erase")
     /\ \/ /\ row' = [row EXCEPT ![d] = "absent"]
           /\ count' = [count EXCEPT ![d] = 0]
           /\ lost' = lost \ {d}
        \/ UNCHANGED <<row, count, lost>>
     /\ UNCHANGED <<chunks, file, upload, queue, worker, begun, raced>>

-----------------------------------------------------------------------------

\* The process ends and starts again.  Nothing looks for unfinished documents.
Crash ==
  /\ upload' = [d \in Documents |-> IF upload[d] = "idle" THEN "idle" ELSE "done"]
  /\ queue' = <<>> /\ worker' = Idle
  /\ deletion' = [x \in Deletions |-> NoDeletion]
  /\ lost' = {d \in Documents : row[d] \in {"uploaded", "processing"}}
  /\ UNCHANGED <<storeVars, begun, raced>>

-----------------------------------------------------------------------------

Uploads(d) == CreateRow(d) \/ Enqueue(d)
Works == Take \/ Mark \/ Extract \/ SavePages \/ Clear \/ StoreBatch \/ Finish \/ Fail
Deletes(x) ==
  LookUp(x) \/ RemoveChunks(x) \/ CheckFile(x) \/ RemoveFile(x) \/ EraseRow(x)

Next ==
  \/ \E d \in Documents : WriteFile(d) \/ Uploads(d)
  \/ Works
  \/ \E x \in Deletions : DeleteReads(x) \/ Deletes(x)
  \/ Crash

Spec == Init /\ [][Next]_vars

\* The loop and the threads run; ChromaDB, the database and the parser answer
\* or fail.
FairSpec == Spec /\ WF_vars(Works) /\ \A d \in Documents : WF_vars(Uploads(d))

-----------------------------------------------------------------------------

Settled == {"ready", "failed", "absent"}

TypeOK ==
  /\ row \in [Documents -> Statuses]
  /\ count \in [Documents -> 0..MaxBatches]
  /\ chunks \in [Documents -> SUBSET (1..MaxBatches)]
  /\ file \subseteq Documents
  /\ upload \in [Documents -> UploadStages]
  /\ queue \in Seq(Documents)
  /\ worker \in Workers
  /\ deletion \in [Deletions -> DeletionStates]
  /\ begun \subseteq Documents
  /\ raced \subseteq Documents /\ lost \subseteq Documents

\* A document that says "ready" has its file and exactly the chunks it counts,
\* unless somebody has started to delete it: a failed ingestion, a crash or a
\* cancelled upload never leaves it so.
ReadyIsComplete ==
  \A d \in Documents \ begun : row[d] = "ready" =>
    d \in file /\ count[d] > 0 /\ chunks[d] = 1..count[d]

\* Chunks without a row, which answers would still cite, are left only by a
\* deletion that met the ingestion of its document or an error of ChromaDB.
OrphansAreExplained ==
  \A d \in Documents \ raced : row[d] = "absent" => chunks[d] = {}

\* Every upload is ingested, fails or is deleted, whatever happens to the
\* documents before it, unless an error, a cancellation or a crash drops it.
EveryUploadSettles ==
  \A d \in Documents : row[d] = "uploaded" ~> row[d] \in Settled \/ d \in lost

\* What docs/rag-architecture.md says of the delete view: it deletes the
\* document and its chunks.
DeletedLeavesNoChunks ==
  \A d \in begun : row[d] = "absent" /\ ~Ingesting(d) => chunks[d] = {}

=============================================================================
