-------------------------- MODULE DocumentIngestion --------------------------
(***************************************************************************)
(* The life of a document: the API handlers of document_service.py, the    *)
(* arq job queue, the worker's IngestionService.run, the OrphanSweeper of  *)
(* the API process, and the three stores they share without a common       *)
(* transaction (the Postgres row, the MinIO object, the Qdrant points).    *)
(*                                                                         *)
(* One action is what happens between two points where another actor can   *)
(* run: a database transaction, one call to MinIO or Qdrant, one Redis     *)
(* command.  Time is not modelled: an age threshold passes (Expire), a job *)
(* times out (Timeout) at any moment the settings allow.                   *)
(***************************************************************************)
EXTENDS DocumentRepository, Naturals

CONSTANTS
  Workers,     (* arq job slots: max_jobs of every worker process             *)
  Chunks,      (* chunk_ids: hashes of chunk text, the same text in two       *)
               (* documents gives the same chunk_id                           *)
  ChunksOf,    (* ChunksOf[c]: the chunks the pipeline cuts content c into    *)
  BadContents, (* contents whose sniffed MIME type is not the declared one    *)
  MaxTries,    (* arq_max_tries                                               *)
  Faults,      (* the faults that may happen, see FaultKinds                  *)
  Expirable,   (* the statuses whose age threshold may pass                   *)
  NoDoc

FaultKinds == {
  "storage",   (* MinIO fails while the worker reads the object               *)
  "pipeline",  (* parsing, embedding or an upsert fails, or the dedup scroll  *)
  "cleanup",   (* a best-effort delete in Qdrant or MinIO fails               *)
  "timeout",   (* a run lasts job_timeout_seconds                             *)
  "interrupt", (* the worker process shuts down or crashes                    *)
  "evict",     (* Redis loses the keys of a job (allkeys-lru, no volume)      *)
  "queue",     (* Redis does not answer an enqueue                            *)
  "api"}       (* the API process restarts                                    *)

ASSUME IngestionAssumption ==
  /\ ChunksOf \in [Contents -> SUBSET Chunks]
  /\ BadContents \subseteq Contents
  /\ MaxTries \in Nat \ {0}
  /\ Faults \subseteq FaultKinds
  /\ Expirable \subseteq {"pending", "processing", "failed"}
  /\ NoDoc \notin Docs

VARIABLES
  documents,   (* the table                                                   *)
  objects,     (* the MinIO object under each document's s3_key               *)
  vectors,     (* the Qdrant points, as <<doc_id, chunk_id>>                  *)
  late,        (* upserts left running in a thread by a cancelled run         *)
  queue,       (* the arq job with _job_id = d                                *)
  tries,       (* arq's retry counter of that job                             *)
  admitted,    (* requests past their status check, about to enqueue          *)
  deleting,    (* the DELETE request of d and how far it has come             *)
  worker,      (* the run in each job slot                                    *)
  sweep        (* the OrphanSweeper's task                                    *)

queueVars  == <<queue, tries>>
apiVars    == <<admitted, deleting>>
storeVars  == <<objects, vectors, late>>
vars == <<documents, objects, vectors, late, queue, tries, admitted, deleting, worker, sweep>>

RunSteps == {"begin", "download", "probe", "claim", "filter", "upsert", "ready",
             "rollback", "purgeVectors", "purgeBlob", "hardDelete",
             "failPurge", "markFailed", "finish"}

IdleRun == [pc |-> "idle", doc |-> NoDoc, content |-> NoContent, todo |-> {}]
IdleSweep == [pass |-> "processing", step |-> "next", todo |-> {}, doc |-> NoDoc]

Init ==
  /\ documents = [d \in Docs |-> BlankRow("absent")]
  /\ objects = [d \in Docs |-> NoContent]
  /\ vectors = {}
  /\ late = {}
  /\ queue = [d \in Docs |-> "none"]
  /\ tries = [d \in Docs |-> 0]
  /\ admitted = {}
  /\ deleting = [d \in Docs |-> "no"]
  /\ worker = [w \in Workers |-> IdleRun]
  /\ sweep = IdleSweep

-----------------------------------------------------------------------------
(* The stores. *)

\* A DELETE request holds the row lock from its UPDATE to its commit; every
\* other writer of the row waits.  Readers do not.
Unlocked(d) == deleting[d] = "no"

WriteRow(d, row) ==
  /\ Unlocked(d)
  /\ documents' = [documents EXCEPT ![d] = row]

DeleteByDocId(d) == vectors' = {v \in vectors : v[1] # d}

\* "Best-effort ... delete; failures logged, never raised."
TryDeleteVectors(d) ==
  \/ DeleteByDocId(d)
  \/ "cleanup" \in Faults /\ UNCHANGED vectors

TryDeleteObject(d) ==
  \/ objects' = [objects EXCEPT ![d] = NoContent]
  \/ "cleanup" \in Faults /\ UNCHANGED objects

Stored(c) == \E v \in vectors : v[2] = c

-----------------------------------------------------------------------------
(* The API process: one request is one database transaction, committed when *)
(* the request ends.                                                        *)

CreateUploadSession(d) ==
  /\ documents[d].status = "absent"
  /\ WriteRow(d, Create(documents[d]))
  /\ UNCHANGED <<storeVars, queueVars, apiVars, worker, sweep>>

\* The browser PUTs the file; the presigned URL lives exactly as long as a
\* pending row may stay unswept (900 s each, both from the creation).
Put(d, c) ==
  /\ documents[d].status = "pending" /\ ~documents[d].expired
  /\ objects[d] = NoContent
  /\ objects' = [objects EXCEPT ![d] = c]
  /\ UNCHANGED <<documents, vectors, late, queueVars, apiVars, worker, sweep>>

Finalize(d) ==
  /\ Active(documents[d]) /\ documents[d].status = "pending"
  /\ admitted' = admitted \cup {d}
  /\ UNCHANGED <<documents, storeVars, queueVars, deleting, worker, sweep>>

Retry(d) ==
  /\ Active(documents[d]) /\ documents[d].status = "failed"
  /\ admitted' = admitted \cup {d}
  /\ UNCHANGED <<documents, storeVars, queueVars, deleting, worker, sweep>>

\* Mutant: every request gets a job id of its own.
EnqueueAgain(d) ==
  /\ d \in admitted
  /\ admitted' = admitted \ {d}
  /\ queue' = [queue EXCEPT ![d] = "queued"]
  /\ tries' = [tries EXCEPT ![d] = 0]
  /\ UNCHANGED <<documents, storeVars, deleting, worker, sweep>>

\* enqueue_job(_job_id = d) does nothing when the job exists; the API answers
\* "processing" all the same.  A Redis error answers 503.
EnqueueIngest(d) ==
  /\ d \in admitted
  /\ admitted' = admitted \ {d}
  /\ \/ /\ queue[d] = "none"
        /\ queue' = [queue EXCEPT ![d] = "queued"]
        /\ tries' = [tries EXCEPT ![d] = 0]
     \/ /\ queue[d] # "none" \/ "queue" \in Faults
        /\ UNCHANGED queueVars
  /\ UNCHANGED <<documents, storeVars, deleting, worker, sweep>>

\* DELETE: the UPDATE is sent and holds the row lock ...
SoftDeleteBegin(d) ==
  /\ Active(documents[d])
  /\ Unlocked(d)
  /\ deleting' = [deleting EXCEPT ![d] = "vectors"]
  /\ UNCHANGED <<documents, storeVars, queueVars, admitted, worker, sweep>>

\* ... then the vectors and the object are deleted ...
SoftDeleteVectors(d) ==
  /\ deleting[d] = "vectors"
  /\ TryDeleteVectors(d)
  /\ deleting' = [deleting EXCEPT ![d] = "blob"]
  /\ UNCHANGED <<documents, objects, late, queueVars, admitted, worker, sweep>>

SoftDeleteBlob(d) ==
  /\ deleting[d] = "blob"
  /\ TryDeleteObject(d)
  /\ deleting' = [deleting EXCEPT ![d] = "commit"]
  /\ UNCHANGED <<documents, vectors, late, queueVars, admitted, worker, sweep>>

\* ... and the transaction commits as the request ends.
SoftDeleteCommit(d) ==
  /\ deleting[d] = "commit"
  /\ documents' = [documents EXCEPT ![d] = SoftDelete(@)]
  /\ deleting' = [deleting EXCEPT ![d] = "no"]
  /\ UNCHANGED <<storeVars, queueVars, admitted, worker, sweep>>

\* Requests and the sweeper's tick are lost, open transactions roll back.
ApiRestart ==
  /\ "api" \in Faults
  /\ admitted' = {}
  /\ deleting' = [d \in Docs |-> "no"]
  /\ sweep' = IdleSweep
  /\ UNCHANGED <<documents, storeVars, queueVars, worker>>

-----------------------------------------------------------------------------
(* arq. *)

Running(w, step) == worker[w].pc = step

Goto(w, step) == worker' = [worker EXCEPT ![w].pc = step]

\* Mutant: max_tries is not looked at.
StartAlways(w, d) ==
  /\ Running(w, "idle")
  /\ queue[d] = "queued"
  /\ queue' = [queue EXCEPT ![d] = "running"]
  /\ tries' = [tries EXCEPT ![d] = @ + 1]
  /\ worker' = [worker EXCEPT ![w] = [IdleRun EXCEPT !.pc = "begin", !.doc = d]]
  /\ UNCHANGED <<documents, storeVars, apiVars, sweep>>

\* A slot takes the job: arq counts the try and drops a job that has used up
\* max_tries without running it.
Start(w, d) ==
  /\ Running(w, "idle")
  /\ queue[d] = "queued"
  /\ \/ /\ tries[d] < MaxTries
        /\ queue' = [queue EXCEPT ![d] = "running"]
        /\ tries' = [tries EXCEPT ![d] = @ + 1]
        /\ worker' = [worker EXCEPT ![w] = [IdleRun EXCEPT !.pc = "begin", !.doc = d]]
     \/ /\ tries[d] = MaxTries
        /\ queue' = [queue EXCEPT ![d] = "none"]
        /\ tries' = [tries EXCEPT ![d] = 0]
        /\ UNCHANGED worker
  /\ UNCHANGED <<documents, storeVars, apiVars, sweep>>

\* The job ends: keep_result = 0 leaves no key under this job id.
EndJob(w) ==
  /\ queue' = [queue EXCEPT ![worker[w].doc] = "none"]
  /\ tries' = [tries EXCEPT ![worker[w].doc] = 0]
  /\ worker' = [worker EXCEPT ![w] = IdleRun]

Finish(w) ==
  /\ Running(w, "finish")
  /\ EndJob(w)
  /\ UNCHANGED <<documents, storeVars, apiVars, sweep>>

\* asyncio.to_thread is not cancelled with its task: the batch in flight may
\* still reach Qdrant.
LeaveBatchBehind(w) ==
  \/ UNCHANGED late
  \/ /\ Running(w, "upsert")
     /\ \E c \in worker[w].todo : late' = late \cup {<<worker[w].doc, c>>}

\* CancelledError is not an Exception: run's handlers do not see it and the
\* row stays as it is.  After job_timeout the job is over ...
Timeout(w) ==
  /\ "timeout" \in Faults
  /\ worker[w].pc \notin {"idle", "finish"}
  /\ LeaveBatchBehind(w)
  /\ EndJob(w)
  /\ UNCHANGED <<documents, objects, vectors, apiVars, sweep>>

\* ... after a shutdown, or once a dead process's in-progress key expires, it
\* is delivered again.
Interrupt(w) ==
  /\ "interrupt" \in Faults
  /\ ~Running(w, "idle")
  /\ LeaveBatchBehind(w)
  /\ queue' = IF queue[worker[w].doc] = "running"
              THEN [queue EXCEPT ![worker[w].doc] = "queued"] ELSE queue
  /\ worker' = [worker EXCEPT ![w] = IdleRun]
  /\ UNCHANGED <<documents, objects, vectors, tries, apiVars, sweep>>

EvictJob(d) ==
  /\ "evict" \in Faults
  /\ queue[d] # "none"
  /\ queue' = [queue EXCEPT ![d] = "none"]
  /\ tries' = [tries EXCEPT ![d] = 0]
  /\ UNCHANGED <<documents, storeVars, apiVars, worker, sweep>>

LateUpsert ==
  \E v \in late :
    /\ late' = late \ {v}
    /\ vectors' = vectors \cup {v}
    /\ UNCHANGED <<documents, objects, queueVars, apiVars, worker, sweep>>

-----------------------------------------------------------------------------
(* IngestionService.run, one transaction or one remote call at a time. *)

Doc(w) == worker[w].doc
Content(w) == worker[w].content

\* find_by_id returns soft-deleted rows too; no row is a RuntimeError.
BeginRun(w) ==
  /\ Running(w, "begin")
  /\ \/ /\ Exists(documents[Doc(w)])
        /\ WriteRow(Doc(w), StartProcessing(documents[Doc(w)]))
        /\ Goto(w, "download")
     \/ /\ ~Exists(documents[Doc(w)])
        /\ Goto(w, "failPurge")
        /\ UNCHANGED documents
  /\ UNCHANGED <<storeVars, queueVars, apiVars, sweep>>

\* head_object, the streamed download and hash, and the MIME check on the file.
Download(w) ==
  /\ Running(w, "download")
  /\ \/ /\ objects[Doc(w)] # NoContent
        /\ objects[Doc(w)] \notin BadContents
        /\ worker' = [worker EXCEPT ![w].content = objects[Doc(w)], ![w].pc = "probe"]
     \/ /\ objects[Doc(w)] \in BadContents
        /\ Goto(w, "rollback")
     \/ /\ objects[Doc(w)] = NoContent \/ "storage" \in Faults
        /\ Goto(w, "failPurge")
  /\ UNCHANGED <<documents, storeVars, queueVars, apiVars, sweep>>

ProbeDuplicate(w) ==
  /\ Running(w, "probe")
  /\ Goto(w, IF ActiveCopies(documents, Doc(w), Content(w)) = {}
             THEN "claim" ELSE "purgeVectors")
  /\ UNCHANGED <<documents, storeVars, queueVars, apiVars, sweep>>

\* Mutant: the probe is trusted, no index backs it up.
ClaimHashUnchecked(w) ==
  /\ Running(w, "claim")
  /\ WriteRow(Doc(w), SetContentHash(documents[Doc(w)], Content(w)))
  /\ Goto(w, "filter")
  /\ UNCHANGED <<storeVars, queueVars, apiVars, sweep>>

\* set_content_hash; a unique violation goes to the DLQ.  PostgreSQL waits for
\* a transaction that is about to free the index entry.
ClaimHash(w) ==
  /\ Running(w, "claim")
  /\ \A e \in ActiveCopies(documents, Doc(w), Content(w)) : Unlocked(e)
  /\ \/ /\ ~ViolatesUniqueHash(documents, Doc(w), Content(w))
        /\ WriteRow(Doc(w), SetContentHash(documents[Doc(w)], Content(w)))
        /\ Goto(w, "filter")
     \/ /\ ViolatesUniqueHash(documents, Doc(w), Content(w))
        /\ Unlocked(Doc(w))
        /\ Goto(w, "failPurge")
        /\ UNCHANGED documents
  /\ UNCHANGED <<storeVars, queueVars, apiVars, sweep>>

\* add_documents skips the chunks stored already, whoever stored them; when
\* the scroll fails it skips none.
FilterExisting(w) ==
  /\ Running(w, "filter")
  /\ \E new \in {{c \in ChunksOf[Content(w)] : ~Stored(c)}}
                \cup (IF "pipeline" \in Faults THEN {ChunksOf[Content(w)]} ELSE {}) :
       worker' = [worker EXCEPT ![w].todo = new,
                                ![w].pc = IF new = {} THEN "ready" ELSE "upsert"]
  /\ UNCHANGED <<documents, storeVars, queueVars, apiVars, sweep>>

\* One batch reaches Qdrant.
UpsertBatch(w) ==
  /\ Running(w, "upsert")
  /\ \E c \in worker[w].todo :
       /\ vectors' = vectors \cup {<<Doc(w), c>>}
       /\ worker' = [worker EXCEPT ![w].todo = @ \ {c},
                                   ![w].pc = IF worker[w].todo = {c} THEN "ready" ELSE @]
  /\ UNCHANGED <<documents, objects, late, queueVars, apiVars, sweep>>

\* Mutant: a failed batch is logged and skipped.
IngestErrorSkipped(w) ==
  /\ "pipeline" \in Faults
  /\ worker[w].pc \in {"filter", "upsert"}
  /\ worker' = [worker EXCEPT ![w].pc = "ready", ![w].todo = {}]
  /\ UNCHANGED <<documents, storeVars, queueVars, apiVars, sweep>>

\* pipeline.ingest raises, before or after it stored a batch: _retry calls it
\* again, and after the last attempt the document goes to the DLQ.
IngestError(w) ==
  /\ "pipeline" \in Faults
  /\ worker[w].pc \in {"filter", "upsert"}
  /\ \E step \in {"filter", "failPurge"} :
       worker' = [worker EXCEPT ![w].pc = step, ![w].todo = {}]
  /\ UNCHANGED <<documents, storeVars, queueVars, apiVars, sweep>>

\* Rejected or not, the run is over; a rejected run leaves its vectors.
MarkReady(w) ==
  /\ Running(w, "ready")
  /\ WriteRow(Doc(w), MarkReadyIfProcessing(documents[Doc(w)]))
  /\ Goto(w, "finish")
  /\ UNCHANGED <<storeVars, queueVars, apiVars, sweep>>

\* DataLevelIngestionError
Rollback(w) ==
  /\ Running(w, "rollback")
  /\ Goto(w, IF Exists(documents[Doc(w)]) THEN "purgeVectors" ELSE "finish")
  /\ UNCHANGED <<documents, storeVars, queueVars, apiVars, sweep>>

\* _cascade_delete and hard_delete, for a duplicate and for a rollback
PurgeVectors(w) ==
  /\ Running(w, "purgeVectors")
  /\ TryDeleteVectors(Doc(w))
  /\ Goto(w, "purgeBlob")
  /\ UNCHANGED <<documents, objects, late, queueVars, apiVars, sweep>>

PurgeBlob(w) ==
  /\ Running(w, "purgeBlob")
  /\ TryDeleteObject(Doc(w))
  /\ Goto(w, "hardDelete")
  /\ UNCHANGED <<documents, vectors, late, queueVars, apiVars, sweep>>

RemoveRow(w) ==
  /\ Running(w, "hardDelete")
  /\ WriteRow(Doc(w), HardDelete(documents[Doc(w)]))
  /\ Goto(w, "finish")
  /\ UNCHANGED <<storeVars, queueVars, apiVars, sweep>>

\* _mark_failed_in_dlq
FailPurge(w) ==
  /\ Running(w, "failPurge")
  /\ TryDeleteVectors(Doc(w))
  /\ Goto(w, "markFailed")
  /\ UNCHANGED <<documents, objects, late, queueVars, apiVars, sweep>>

MarkDocFailed(w) ==
  /\ Running(w, "markFailed")
  /\ WriteRow(Doc(w), MarkFailed(documents[Doc(w)]))
  /\ Goto(w, "finish")
  /\ UNCHANGED <<storeVars, queueVars, apiVars, sweep>>

RunStep(w) ==
  \/ BeginRun(w) \/ Download(w) \/ ProbeDuplicate(w) \/ ClaimHash(w)
  \/ FilterExisting(w) \/ UpsertBatch(w) \/ MarkReady(w)
  \/ Rollback(w) \/ PurgeVectors(w) \/ PurgeBlob(w) \/ RemoveRow(w)
  \/ FailPurge(w) \/ MarkDocFailed(w) \/ Finish(w)

-----------------------------------------------------------------------------
(* OrphanSweeper._sweep_once: pending rows, failed rows, stuck leases, one    *)
(* pass after the other.  A pass lists its rows once and then works through   *)
(* the list, each row in its own transaction.                                 *)

\* Mutant: the DLQ is never swept.
NextPassWithoutDLQ == [pending |-> "processing", failed |-> "processing", processing |-> "pending"]

NextPass == [pending |-> "failed", failed |-> "processing", processing |-> "pending"]

SweepList ==
  /\ sweep.todo = {} /\ sweep.doc = NoDoc
  /\ LET pass == NextPass[sweep.pass]
     IN  sweep' = [sweep EXCEPT !.pass = pass,
                                !.todo = ListStaleByStatus(documents, pass)]
  /\ UNCHANGED <<documents, storeVars, queueVars, apiVars, worker>>

SweepTake(d, step) == sweep' = [sweep EXCEPT !.todo = @ \ {d}, !.doc = d, !.step = step]

SweepDone == sweep' = [sweep EXCEPT !.doc = NoDoc, !.step = "next"]

\* _reap_status: from here on the row's status is not looked at again.
SweepVectors(d) ==
  /\ sweep.pass # "processing" /\ sweep.step = "next" /\ d \in sweep.todo
  /\ TryDeleteVectors(d)
  /\ SweepTake(d, "blob")
  /\ UNCHANGED <<documents, objects, late, queueVars, apiVars, worker>>

SweepBlob ==
  /\ sweep.step = "blob"
  /\ TryDeleteObject(sweep.doc)
  /\ sweep' = [sweep EXCEPT !.step = "row"]
  /\ UNCHANGED <<documents, vectors, late, queueVars, apiVars, worker>>

SweepRow ==
  /\ sweep.step = "row"
  /\ WriteRow(sweep.doc, HardDelete(documents[sweep.doc]))
  /\ SweepDone
  /\ UNCHANGED <<storeVars, queueVars, apiVars, worker>>

\* _reap_stuck_processing: the UPDATE checks the lease again.
SweepMark(d) ==
  /\ sweep.pass = "processing" /\ sweep.step = "next" /\ d \in sweep.todo
  /\ WriteRow(d, MarkStuckFailed(documents[d]))
  /\ IF documents'[d] # documents[d]
     THEN SweepTake(d, "stuckVectors")
     ELSE sweep' = [sweep EXCEPT !.todo = @ \ {d}]
  /\ UNCHANGED <<storeVars, queueVars, apiVars, worker>>

\* Mutant: a stuck document is cascade-deleted like a reaped one.
SweepStuckCascade ==
  /\ sweep.step = "stuckVectors"
  /\ TryDeleteVectors(sweep.doc)
  /\ TryDeleteObject(sweep.doc)
  /\ SweepDone
  /\ UNCHANGED <<documents, late, queueVars, apiVars, worker>>

\* The object is preserved for POST /retry.
SweepStuckVectors ==
  /\ sweep.step = "stuckVectors"
  /\ TryDeleteVectors(sweep.doc)
  /\ SweepDone
  /\ UNCHANGED <<documents, objects, late, queueVars, apiVars, worker>>

SweepStep ==
  \/ SweepList \/ SweepBlob \/ SweepRow \/ SweepStuckVectors
  \/ \E d \in Docs : SweepVectors(d) \/ SweepMark(d)

\* The timestamp of d's row falls behind the threshold of its status.
Expire(d) ==
  /\ documents[d].status \in Expirable
  /\ ~documents[d].expired
  /\ documents' = [documents EXCEPT ![d].expired = TRUE]
  /\ UNCHANGED <<storeVars, queueVars, apiVars, worker, sweep>>

-----------------------------------------------------------------------------

DeleteStep(d) == SoftDeleteVectors(d) \/ SoftDeleteBlob(d) \/ SoftDeleteCommit(d)

ApiStep(d) ==
  \/ CreateUploadSession(d) \/ Finalize(d) \/ Retry(d) \/ EnqueueIngest(d)
  \/ SoftDeleteBegin(d) \/ DeleteStep(d)
  \/ \E c \in Contents : Put(d, c)

Next ==
  \/ \E d \in Docs : ApiStep(d) \/ EvictJob(d) \/ Expire(d)
  \/ \E w \in Workers :
       \/ RunStep(w) \/ IngestError(w) \/ Timeout(w) \/ Interrupt(w)
       \/ \E d \in Docs : Start(w, d)
  \/ LateUpsert
  \/ ApiRestart
  \/ SweepStep

Spec == Init /\ [][Next]_vars

(* Fairness: a run, a request past its first statement and the sweeper's     *)
(* task are coroutines their event loop keeps scheduling; a slot of the      *)
(* worker polls the queue; clocks move on.  Nothing obliges a client to      *)
(* call, or a fault to happen.                                               *)
Fairness ==
  /\ \A w \in Workers : WF_vars(RunStep(w))
  /\ \A d \in Docs : /\ WF_vars(\E w \in Workers : Start(w, d))
                     /\ WF_vars(EnqueueIngest(d))
                     /\ WF_vars(DeleteStep(d))
                     /\ WF_vars(Expire(d))
  /\ WF_vars(SweepStep)
  /\ WF_vars(LateUpsert)

FairSpec == Spec /\ Fairness

-----------------------------------------------------------------------------

TypeOK ==
  /\ documents \in [Docs -> Rows]
  /\ objects \in [Docs -> Contents \cup {NoContent}]
  /\ vectors \subseteq Docs \X Chunks
  /\ late \subseteq Docs \X Chunks
  /\ queue \in [Docs -> {"none", "queued", "running"}]
  /\ tries \in [Docs -> 0..MaxTries]
  /\ admitted \subseteq Docs
  /\ deleting \in [Docs -> {"no", "vectors", "blob", "commit"}]
  /\ worker \in [Workers -> [pc : RunSteps \cup {"idle"}, doc : Docs \cup {NoDoc},
                             content : Contents \cup {NoContent}, todo : SUBSET Chunks]]
  /\ sweep \in [pass : {"pending", "failed", "processing"},
                step : {"next", "blob", "row", "stuckVectors"},
                todo : SUBSET Docs, doc : Docs \cup {NoDoc}]

-----------------------------------------------------------------------------
(* Safety. *)

\* Dedup holds for what the owner can see: two visible ready documents of one
\* user never have the same content, although the probe and set_content_hash of
\* a run are separate transactions and two uploads of one file race.
OneActiveCopy ==
  \A d, e \in Docs :
    /\ d # e /\ Owner[d] = Owner[e]
    /\ \A f \in {d, e} : Active(documents[f]) /\ documents[f].status = "ready"
    => /\ documents[d].hash # NoContent
       /\ documents[d].hash # documents[e].hash

InFlight(w) == worker[w].pc \notin {"idle", "begin"}

\* OPT-61: a document the sweeper failed under a slow worker does not go back
\* to "processing" while that worker's run is in flight, so the guarded UPDATE
\* at its end cannot complete an attempt that is not its own.
NoTakeover ==
  [][\A d \in Docs :
       documents[d].status = "failed" /\ documents'[d].status = "processing"
       => ~\E w \in Workers : InFlight(w) /\ Doc(w) = d]_vars

\* POST /retry re-runs a DLQ document from its preserved object: a failed
\* document that once got as far as its content hash still has that content in
\* MinIO, unless the sweeper is already removing the document or the user is.
RetryableKeepsObject ==
  "api" \notin Faults =>
    \A d \in Docs :
      /\ Active(documents[d]) /\ documents[d].status = "failed"
      /\ documents[d].hash # NoContent
      /\ deleting[d] = "no" /\ sweep.doc # d
      => objects[d] = documents[d].hash

\* The rows behave as the owner is promised.
Lifecycle == INSTANCE DocumentLifecycle
ImplementsLifecycle == Lifecycle!Spec

\* A visible ready document is complete: every chunk of its content is in the
\* vector store under its own id, whatever attempts, batches and redeliveries
\* it took.  (True while no sweeper pass works on it and no other document
\* contains the same chunk; see the README.)
ReadyIsComplete ==
  \A d \in Docs :
    /\ Active(documents[d]) /\ documents[d].status = "ready" /\ deleting[d] = "no"
    => {d} \X ChunksOf[documents[d].hash] \subseteq vectors

-----------------------------------------------------------------------------
(* Liveness, under FairSpec. *)

\* A run that died or was cancelled does not leave its document in "processing".
ProcessingEnds ==
  \A d \in Docs : documents[d].status = "processing" ~> documents[d].status # "processing"

\* An upload nobody finalizes, or whose job was lost, is swept away.
PendingEnds ==
  \A d \in Docs : documents[d].status = "pending" ~> documents[d].status # "pending"

\* A DLQ document is retried or removed in the end.
FailedEnds ==
  \A d \in Docs : documents[d].status = "failed" ~> documents[d].status # "failed"

-----------------------------------------------------------------------------
(* What the documents of the repository say and the code does not keep. *)

\* Once a document is indexed and ready its owner can ask about it: a search,
\* which is filtered by user, finds every chunk of it in some document of that
\* user.
ReadyIsSearchable ==
  \A d \in Docs :
    Active(documents[d]) /\ documents[d].status = "ready" /\ deleting[d] = "no"
    => \A c \in ChunksOf[documents[d].hash] :
         \E v \in vectors : v[2] = c /\ Owner[v[1]] = Owner[d]

\* The sweeper's hard delete is for rows older than the cutoff: it never takes
\* away a document that has become ready.
ReadyNeverReaped ==
  [][\A d \in Docs : documents[d].status = "ready" => documents'[d].status # "removed"]_vars

\* A deleted document is purged from Qdrant and MinIO.
DeletedIsPurged ==
  \A d \in Docs :
    documents[d].deleted
    ~> [](objects[d] = NoContent /\ \A v \in vectors : v[1] # d)

=============================================================================
