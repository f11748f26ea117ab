----------------------- MODULE DocumentIngestion_proofs -----------------------
(***************************************************************************)
(* Proofs about DocumentIngestion for every set of documents, users,       *)
(* contents, chunks and workers, every bound on tries and every set of     *)
(* faults: the lost job keys and the API restarts included.                *)
(***************************************************************************)
EXTENDS DocumentIngestion, TLAPS

USE RepositoryAssumption, IngestionAssumption

-----------------------------------------------------------------------------
(* Rows. *)

LEMMA BlankRowType == \A s \in Statuses : BlankRow(s) \in Rows
  BY DEF BlankRow, Rows

\* Every statement of the repository leaves a well-formed row.
LEMMA RowType ==
  ASSUME NEW row \in Rows
  PROVE  /\ Create(row) \in Rows
         /\ StartProcessing(row) \in Rows
         /\ MarkReadyIfProcessing(row) \in Rows
         /\ MarkFailed(row) \in Rows
         /\ MarkStuckFailed(row) \in Rows
         /\ Touch(row) \in Rows
         /\ SoftDelete(row) \in Rows
         /\ \A c \in Contents : SetContentHash(row, c) \in Rows
         /\ HardDelete(row) \in Rows
  <1>1. \A r \in Rows : Touch(r) \in Rows
    BY DEF Touch, Rows
  <1>2. [row EXCEPT !.deleted = TRUE] \in Rows
    BY DEF Rows
  <1>3. \A c \in Contents : [row EXCEPT !.hash = c] \in Rows
    BY DEF Rows
  <1>4. "pending" \in Statuses /\ "removed" \in Statuses
    BY DEF Statuses
  <1>5. /\ StartProcessing(row) \in Rows
        /\ MarkReadyIfProcessing(row) \in Rows
        /\ MarkFailed(row) \in Rows
        /\ MarkStuckFailed(row) \in Rows
    BY DEF StartProcessing, MarkReadyIfProcessing, MarkFailed, MarkStuckFailed, Rows, Statuses
  <1> QED
    BY <1>1, <1>2, <1>3, <1>4, <1>5, BlankRowType
    DEF Create, SoftDelete, SetContentHash, HardDelete

-----------------------------------------------------------------------------
(* Types. *)

\* WriteRow and the SQL it runs keep the table well-formed.
LEMMA WriteRowType ==
  ASSUME TypeOK, NEW d \in Docs, NEW row \in Rows, WriteRow(d, row)
  PROVE  documents' \in [Docs -> Rows]
  BY DEF WriteRow, TypeOK

RunState == [pc : RunSteps \cup {"idle"}, doc : Docs \cup {NoDoc},
             content : Contents \cup {NoContent}, todo : SUBSET Chunks]

SweepState == [pass : {"pending", "failed", "processing"},
               step : {"next", "blob", "row", "stuckVectors"},
               todo : SUBSET Docs, doc : Docs \cup {NoDoc}]

LEMMA IdleTypes == IdleRun \in RunState /\ IdleSweep \in SweepState
  BY DEF IdleRun, IdleSweep, RunState, SweepState

LEMMA GotoType ==
  ASSUME TypeOK, NEW w \in Workers, NEW step \in RunSteps, Goto(w, step)
  PROVE  worker' \in [Workers -> RunState]
  BY DEF Goto, TypeOK, RunState

\* A run is at work on a document, the sweeper too.
Placed ==
  /\ \A w \in Workers : worker[w].pc # "idle" => worker[w].doc \in Docs
  /\ sweep.step # "next" => sweep.doc \in Docs

\* A run past its download knows its content.
Downloaded ==
  \A w \in Workers :
    worker[w].pc \in {"probe", "claim", "filter", "upsert"} => worker[w].content \in Contents

TypeInv == TypeOK /\ Placed /\ Downloaded

LEMMA TypeInit == Init => TypeInv
  <1> SUFFICES ASSUME Init PROVE TypeInv
    OBVIOUS
  <1>1. BlankRow("absent") \in Rows
    BY BlankRowType DEF Statuses
  <1>2. TypeOK
    BY <1>1, IdleTypes DEF Init, TypeOK, RunState, SweepState
  <1>3. Placed /\ Downloaded
    BY DEF Init, Placed, Downloaded, IdleRun, IdleSweep
  <1> QED
    BY <1>2, <1>3 DEF TypeInv

\* The API's actions.
LEMMA TypeApi ==
  ASSUME TypeInv, NEW d \in Docs, ApiStep(d)
  PROVE  TypeInv'
  <1> USE DEF TypeInv, Placed, Downloaded
  <1>1. CASE CreateUploadSession(d)
    <2>1. documents' \in [Docs -> Rows]
      BY <1>1, WriteRowType, RowType DEF CreateUploadSession, TypeOK
    <2> QED
      BY <1>1, <2>1 DEF CreateUploadSession, TypeOK, storeVars, queueVars, apiVars
  <1>2. CASE Finalize(d) \/ Retry(d)
    BY <1>2 DEF Finalize, Retry, TypeOK, storeVars, queueVars
  <1>3. CASE EnqueueIngest(d)
    BY <1>3 DEF EnqueueIngest, TypeOK, storeVars, queueVars
  <1>4. CASE SoftDeleteBegin(d)
    BY <1>4 DEF SoftDeleteBegin, TypeOK, storeVars, queueVars
  <1>5. CASE SoftDeleteVectors(d)
    BY <1>5 DEF SoftDeleteVectors, TryDeleteVectors, DeleteByDocId, TypeOK, queueVars
  <1>6. CASE SoftDeleteBlob(d)
    BY <1>6 DEF SoftDeleteBlob, TryDeleteObject, TypeOK, queueVars
  <1>7. CASE SoftDeleteCommit(d)
    <2>1. documents' \in [Docs -> Rows]
      BY <1>7, RowType DEF SoftDeleteCommit, TypeOK
    <2> QED
      BY <1>7, <2>1 DEF SoftDeleteCommit, TypeOK, storeVars, queueVars
  <1>8. CASE \E c \in Contents : Put(d, c)
    BY <1>8 DEF Put, TypeOK, queueVars, apiVars
  <1> QED
    BY <1>1, <1>2, <1>3, <1>4, <1>5, <1>6, <1>7, <1>8 DEF ApiStep, DeleteStep

\* arq's actions and the faults of a run.
LEMMA TypeQueue ==
  ASSUME TypeInv, NEW w \in Workers,
         \/ Finish(w) \/ Timeout(w) \/ Interrupt(w)
         \/ \E d \in Docs : Start(w, d) \/ EvictJob(d)
  PROVE  TypeInv'
  <1> USE DEF TypeInv, Placed, Downloaded
  <1>1. ASSUME NEW d \in Docs, Start(w, d)
        PROVE  TypeInv'
    <2> DEFINE r == [IdleRun EXCEPT !.pc = "begin", !.doc = d]
    <2>1. r \in RunState /\ r.pc = "begin" /\ r.doc = d
      <3>1. IdleRun \in RunState /\ "begin" \in RunSteps
        BY IdleTypes DEF RunSteps
      <3> QED
        BY <3>1 DEF RunState
    <2>2. /\ \/ /\ tries[d] < MaxTries
                /\ queue' = [queue EXCEPT ![d] = "running"]
                /\ tries' = [tries EXCEPT ![d] = @ + 1]
                /\ worker' = [worker EXCEPT ![w] = r]
             \/ /\ queue' = [queue EXCEPT ![d] = "none"]
                /\ tries' = [tries EXCEPT ![d] = 0]
                /\ UNCHANGED worker
          /\ UNCHANGED <<documents, storeVars, apiVars, sweep>>
      BY <1>1, Zenon DEF Start
    <2> HIDE DEF r
    <2>3. worker' \in [Workers -> RunState]
      BY <2>1, <2>2 DEF TypeOK, RunState
    <2>4. tries' \in [Docs -> 0..MaxTries] /\ queue' \in [Docs -> {"none", "queued", "running"}]
      BY <2>2 DEF TypeOK
    <2>5. TypeOK'
      BY <2>2, <2>3, <2>4 DEF TypeOK, storeVars, apiVars, RunState
    <2>6. \A v \in Workers : worker'[v] = worker[v] \/ worker'[v] = r
      BY <2>2 DEF TypeOK
    <2> QED
      BY <2>1, <2>2, <2>5, <2>6
  <1>2. ASSUME NEW d \in Docs, EvictJob(d)
        PROVE  TypeInv'
    BY <1>2 DEF EvictJob, TypeOK, storeVars, apiVars
  <1>3. ASSUME worker' = [worker EXCEPT ![w] = IdleRun]
        PROVE  worker' \in [Workers -> RunState]
    BY <1>3, IdleTypes DEF TypeOK, RunState
  <1>4. worker[w].pc # "idle" => worker[w].doc \in Docs
    OBVIOUS
  <1>5. CASE Finish(w)
    BY <1>3, <1>4, <1>5
    DEF Finish, Running, EndJob, TypeOK, RunState, IdleRun, storeVars, apiVars
  <1>6. ASSUME LeaveBatchBehind(w)
        PROVE  late' \subseteq Docs \X Chunks
    BY <1>4, <1>6 DEF LeaveBatchBehind, Running, TypeOK
  <1>7. CASE Timeout(w)
    BY <1>3, <1>4, <1>6, <1>7 DEF Timeout, EndJob, TypeOK, RunState, IdleRun, apiVars
  <1>8. CASE Interrupt(w)
    BY <1>3, <1>4, <1>6, <1>8 DEF Interrupt, Running, TypeOK, RunState, IdleRun, apiVars
  <1> QED
    BY <1>1, <1>2, <1>5, <1>7, <1>8

\* Actions of nobody in particular.
LEMMA TypeEnvironment ==
  ASSUME TypeInv, LateUpsert \/ ApiRestart \/ \E d \in Docs : Expire(d)
  PROVE  TypeInv'
  <1> USE DEF TypeInv, Placed, Downloaded
  <1>1. CASE LateUpsert
    BY <1>1 DEF LateUpsert, TypeOK, queueVars, apiVars
  <1>2. CASE ApiRestart
    BY <1>2, IdleTypes DEF ApiRestart, TypeOK, storeVars, queueVars, IdleSweep, SweepState
  <1>3. ASSUME NEW d \in Docs, Expire(d)
        PROVE  TypeInv'
    <2>0. \A row \in Rows : [row EXCEPT !.expired = TRUE] \in Rows
      BY DEF Rows
    <2>1. [documents[d] EXCEPT !.expired = TRUE] \in Rows
      BY <2>0 DEF TypeOK
    <2>2. documents' \in [Docs -> Rows]
      BY <1>3, <2>1 DEF Expire, TypeOK
    <2> QED
      BY <1>3, <2>2 DEF Expire, TypeOK, storeVars, queueVars, apiVars
  <1> QED
    BY <1>1, <1>2, <1>3

\* A step that replaces the state of one run, and keeps the stores well-formed.
LEMMA TypeOneRun ==
  ASSUME TypeInv, NEW w \in Workers, NEW r \in RunState,
         r.doc \in Docs,
         r.pc \in {"probe", "claim", "filter", "upsert"} => r.content \in Contents,
         worker' = [worker EXCEPT ![w] = r],
         documents' \in [Docs -> Rows],
         objects' \in [Docs -> Contents \cup {NoContent}],
         vectors' \subseteq Docs \X Chunks,
         UNCHANGED <<late, queueVars, apiVars, sweep>>
  PROVE  TypeInv'
  BY DEF TypeInv, TypeOK, Placed, Downloaded, RunState, queueVars, apiVars

\* The steps of a run.
LEMMA TypeRun ==
  ASSUME TypeInv, NEW w \in Workers, RunStep(w) \/ IngestError(w)
  PROVE  TypeInv'
  <1> DEFINE run == worker[w]
             d   == worker[w].doc
  <1>1. CASE run.pc = "idle"
    BY <1>1 DEF RunStep, BeginRun, Download, ProbeDuplicate, ClaimHash, FilterExisting,
                UpsertBatch, MarkReady, Rollback, PurgeVectors, PurgeBlob, RemoveRow,
                FailPurge, MarkDocFailed, Finish, IngestError, Running
  <1>2. CASE run.pc # "idle"
    <2>1. /\ run \in RunState /\ d \in Docs /\ documents[d] \in Rows
          /\ run.pc \in {"probe", "claim", "filter", "upsert"} => run.content \in Contents
          /\ TypeOK
      BY <1>2 DEF TypeInv, TypeOK, Placed, Downloaded, RunState
    <2>2. /\ documents \in [Docs -> Rows]
          /\ objects \in [Docs -> Contents \cup {NoContent}]
          /\ vectors \subseteq Docs \X Chunks
      BY <2>1 DEF TypeOK
    <2>3. \A step \in RunSteps :
            /\ [run EXCEPT !.pc = step] \in RunState
            /\ [run EXCEPT !.pc = step].doc = d
            /\ [run EXCEPT !.pc = step].pc = step
            /\ [run EXCEPT !.pc = step].content = run.content
      BY <2>1 DEF RunState
    \* what the steps that only move on have in common
    <2>4. ASSUME NEW step \in RunSteps, Goto(w, step),
                 step \in {"probe", "claim", "filter", "upsert"} => run.content \in Contents,
                 documents' \in [Docs -> Rows],
                 objects' \in [Docs -> Contents \cup {NoContent}],
                 vectors' \subseteq Docs \X Chunks,
                 UNCHANGED <<late, queueVars, apiVars, sweep>>
          PROVE  TypeInv'
      <3>1. worker' = [worker EXCEPT ![w] = [run EXCEPT !.pc = step]]
        BY <2>4 DEF Goto
      <3> QED
        BY <2>1, <2>3, <2>4, <3>1, TypeOneRun
    <2>5. CASE BeginRun(w)
      <3>1. documents' \in [Docs -> Rows]
        BY <2>1, <2>2, <2>5, WriteRowType, RowType DEF BeginRun, Doc
      <3> QED
        BY <2>2, <2>4, <2>5, <3>1 DEF BeginRun, RunSteps, storeVars
    <2>6. CASE Download(w)
      <3>1. CASE /\ objects[d] \in Contents
                 /\ worker' = [worker EXCEPT ![w].content = objects[d], ![w].pc = "probe"]
        <4>1. [run EXCEPT !.content = objects[d], !.pc = "probe"] \in RunState
          BY <2>1, <3>1 DEF RunState, RunSteps
        <4>2. [run EXCEPT !.content = objects[d], !.pc = "probe"].doc = d
          BY <2>1 DEF RunState
        <4>3. [run EXCEPT !.content = objects[d], !.pc = "probe"].content = objects[d]
          BY <2>1 DEF RunState
        <4>4. worker' = [worker EXCEPT ![w] = [run EXCEPT !.content = objects[d], !.pc = "probe"]]
          BY <3>1
        <4> QED
          BY <2>1, <2>2, <2>6, <3>1, <4>1, <4>2, <4>3, <4>4, TypeOneRun DEF Download, storeVars
      <3>2. CASE Goto(w, "rollback") \/ Goto(w, "failPurge")
        BY <2>2, <2>4, <2>6, <3>2 DEF Download, RunSteps, storeVars
      <3>3. objects[d] \in Contents \cup {NoContent}
        BY <2>1, <2>2
      <3> QED
        BY <2>6, <3>1, <3>2, <3>3 DEF Download, Doc
    <2>7. CASE ProbeDuplicate(w)
      BY <2>1, <2>2, <2>4, <2>7 DEF ProbeDuplicate, Running, RunSteps, storeVars
    <2>8. CASE ClaimHash(w)
      <3>1. documents' \in [Docs -> Rows]
        BY <2>1, <2>2, <2>8, WriteRowType, RowType DEF ClaimHash, Running, Doc, Content
      <3> QED
        BY <2>1, <2>2, <2>4, <2>8, <3>1 DEF ClaimHash, Running, RunSteps, storeVars
    <2>9. ASSUME NEW new \in SUBSET Chunks, NEW step \in RunSteps,
                 worker' = [worker EXCEPT ![w] = [run EXCEPT !.todo = new, !.pc = step]],
                 run.content \in Contents,
                 vectors' \subseteq Docs \X Chunks,
                 UNCHANGED <<documents, objects, late, queueVars, apiVars, sweep>>
          PROVE  TypeInv'
      <3>1. /\ [run EXCEPT !.todo = new, !.pc = step] \in RunState
            /\ [run EXCEPT !.todo = new, !.pc = step].doc = d
            /\ [run EXCEPT !.todo = new, !.pc = step].content = run.content
        BY <2>1 DEF RunState
      <3> QED
        BY <2>1, <2>2, <2>9, <3>1, TypeOneRun
    <2>10. CASE FilterExisting(w)
      <3>1. run.content \in Contents
        BY <2>1, <2>10 DEF FilterExisting, Running
      <3>2. PICK new \in SUBSET Chunks :
              worker' = [worker EXCEPT ![w].todo = new,
                                       ![w].pc = IF new = {} THEN "ready" ELSE "upsert"]
        BY <2>10, <3>1 DEF FilterExisting, Content
      <3>3. PICK step \in RunSteps : step = IF new = {} THEN "ready" ELSE "upsert"
        BY DEF RunSteps
      <3>4. worker' = [worker EXCEPT ![w] = [run EXCEPT !.todo = new, !.pc = step]]
        BY <3>2, <3>3
      <3> QED
        BY <2>2, <2>9, <2>10, <3>1, <3>4 DEF FilterExisting, storeVars
    <2>11. CASE UpsertBatch(w)
      <3>1. run.content \in Contents /\ run.pc = "upsert"
        BY <2>1, <2>11 DEF UpsertBatch, Running
      <3>2. PICK c \in run.todo :
              /\ vectors' = vectors \cup {<<d, c>>}
              /\ worker' = [worker EXCEPT ![w].todo = @ \ {c},
                                          ![w].pc = IF run.todo = {c} THEN "ready" ELSE @]
        BY <2>11 DEF UpsertBatch, Doc
      <3>3. PICK step \in RunSteps : step = IF run.todo = {c} THEN "ready" ELSE run.pc
        BY <3>1 DEF RunSteps
      <3>4. run.todo \ {c} \in SUBSET Chunks /\ c \in Chunks
        BY <2>1 DEF RunState
      <3>5. worker' = [worker EXCEPT ![w] = [run EXCEPT !.todo = run.todo \ {c}, !.pc = step]]
        BY <3>2, <3>3
      <3>6. vectors' \subseteq Docs \X Chunks
        BY <2>1, <2>2, <3>2, <3>4
      <3> QED
        BY <2>9, <2>11, <3>1, <3>4, <3>5, <3>6 DEF UpsertBatch
    <2>12. CASE IngestError(w)
      <3>1. run.content \in Contents
        BY <2>1, <2>12 DEF IngestError
      <3>2. PICK step \in {"filter", "failPurge"} :
              worker' = [worker EXCEPT ![w].pc = step, ![w].todo = {}]
        BY <2>12 DEF IngestError
      <3>3. worker' = [worker EXCEPT ![w] = [run EXCEPT !.todo = {}, !.pc = step]]
        BY <2>1, <3>2 DEF RunState
      <3> QED
        BY <2>2, <2>9, <2>12, <3>1, <3>3 DEF IngestError, RunSteps, storeVars
    <2>13. CASE MarkReady(w) \/ RemoveRow(w) \/ MarkDocFailed(w)
      <3>1. documents' \in [Docs -> Rows]
        BY <2>1, <2>2, <2>13, WriteRowType, RowType
        DEF MarkReady, RemoveRow, MarkDocFailed, Doc
      <3> QED
        BY <2>2, <2>4, <2>13, <3>1 DEF MarkReady, RemoveRow, MarkDocFailed, RunSteps, storeVars
    <2>14. CASE Rollback(w)
      BY <2>2, <2>4, <2>14 DEF Rollback, RunSteps, storeVars
    <2>15. CASE PurgeVectors(w) \/ FailPurge(w)
      <3>1. vectors' \subseteq Docs \X Chunks
        BY <2>2, <2>15 DEF PurgeVectors, FailPurge, TryDeleteVectors, DeleteByDocId
      <3> QED
        BY <2>2, <2>4, <2>15, <3>1 DEF PurgeVectors, FailPurge, RunSteps
    <2>16. CASE PurgeBlob(w)
      <3>1. objects' \in [Docs -> Contents \cup {NoContent}]
        BY <2>2, <2>16 DEF PurgeBlob, TryDeleteObject
      <3> QED
        BY <2>2, <2>4, <2>16, <3>1 DEF PurgeBlob, RunSteps
    <2> QED
      BY <2>5, <2>6, <2>7, <2>8, <2>10, <2>11, <2>12, <2>13, <2>14, <2>15, <2>16,
         TypeQueue DEF RunStep
  <1> QED
    BY <1>1, <1>2

\* The sweeper's steps.
LEMMA TypeSweep ==
  ASSUME TypeInv, SweepStep
  PROVE  TypeInv'
  <1> USE DEF TypeInv, Placed, Downloaded, TypeOK, queueVars, apiVars, storeVars
  <1>1. CASE SweepList
    <2>1. NextPass[sweep.pass] \in {"pending", "failed", "processing"}
      BY DEF NextPass
    <2>2. \A p : ListStaleByStatus(documents, p) \in SUBSET Docs
      BY DEF ListStaleByStatus
    <2>3. sweep' \in SweepState
      BY <1>1, <2>1, <2>2 DEF SweepList, SweepState
    <2> QED
      BY <1>1, <2>3 DEF SweepList, SweepState
  <1>2. CASE SweepBlob
    BY <1>2 DEF SweepBlob, TryDeleteObject
  <1>3. CASE SweepRow
    <2>1. documents' \in [Docs -> Rows]
      BY <1>3, WriteRowType, RowType DEF SweepRow
    <2> QED
      BY <1>3, <2>1 DEF SweepRow, SweepDone
  <1>4. CASE SweepStuckVectors
    BY <1>4 DEF SweepStuckVectors, TryDeleteVectors, DeleteByDocId, SweepDone
  <1>5. ASSUME NEW d \in Docs, SweepVectors(d)
        PROVE  TypeInv'
    BY <1>5 DEF SweepVectors, TryDeleteVectors, DeleteByDocId, SweepTake
  <1>6. ASSUME NEW d \in Docs, SweepMark(d)
        PROVE  TypeInv'
    <2>1. documents' \in [Docs -> Rows]
      BY <1>6, WriteRowType, RowType DEF SweepMark
    <2>2. CASE documents'[d] # documents[d]
      <3>1. SweepTake(d, "stuckVectors")
        BY <1>6, <2>2, Zenon DEF SweepMark
      <3>2. sweep' \in SweepState /\ sweep'.doc = d
        BY <3>1 DEF SweepTake, SweepState
      <3> QED
        BY <1>6, <2>1, <3>2 DEF SweepMark, SweepState
    <2>3. CASE documents'[d] = documents[d]
      <3>1. sweep' = [sweep EXCEPT !.todo = @ \ {d}]
        BY <1>6, <2>3 DEF SweepMark
      <3>2. sweep' \in SweepState /\ sweep'.doc = sweep.doc /\ sweep'.step = sweep.step
        BY <3>1 DEF SweepState
      <3> QED
        BY <1>6, <2>1, <3>2 DEF SweepMark, SweepState
    <2> QED
      BY <2>2, <2>3
  <1> QED
    BY <1>1, <1>2, <1>3, <1>4, <1>5, <1>6 DEF SweepStep

LEMMA TypeStep == TypeInv /\ [Next]_vars => TypeInv'
  <1> SUFFICES ASSUME TypeInv, [Next]_vars PROVE TypeInv'
    OBVIOUS
  <1>1. CASE UNCHANGED vars
    BY <1>1 DEF TypeInv, TypeOK, Placed, Downloaded, vars
  <1>2. ASSUME NEW d \in Docs, EvictJob(d)
        PROVE  TypeInv'
    BY <1>2 DEF EvictJob, TypeInv, TypeOK, Placed, Downloaded, storeVars, apiVars
  <1> QED
    BY <1>1, <1>2, TypeApi, TypeQueue, TypeEnvironment, TypeRun, TypeSweep DEF Next

\* Every reachable state is well-formed: rows only carry statuses of the CHECK
\* constraint, runs sit on documents, retry counters stay within max_tries.
THEOREM TypeCorrect == Spec => []TypeOK
  <1>1. TypeInv => TypeOK
    BY DEF TypeInv
  <1> QED
    BY TypeInit, TypeStep, <1>1, PTL DEF Spec

(***************************************************************************)
(* Dedup is exact for what an owner can see, whatever fails and however    *)
(* often a document is uploaded, cancelled, redelivered or retried: the    *)
(* proof of OneActiveCopy.                                                 *)
(*                                                                         *)
(* OneActiveCopy speaks of ready rows only, and is not inductive: a run    *)
(* about to mark its row ready has no constraint on the hash it left       *)
(* there.  DedupInv says what the unique index gives (UniqueHash), that a  *)
(* run past its claim did write the hash of an existing row (Claimed), and *)
(* that no row is inserted under a run that already works on it (Known).   *)
(***************************************************************************)
HIDE IngestionAssumption

\* A document somebody works on, or will, has been inserted.
Known ==
  /\ \A w \in Workers : worker[w].pc # "idle" => documents[worker[w].doc].status # "absent"
  /\ \A d \in Docs : queue[d] # "none" \/ d \in admitted => documents[d].status # "absent"

\* Past its claim, a run's row has a hash as long as it exists.
Claimed ==
  \A w \in Workers :
    worker[w].pc \in {"filter", "upsert", "ready"} /\ Exists(documents[worker[w].doc])
    => documents[worker[w].doc].hash # NoContent

HashKnown == \A d \in Docs : documents[d].status = "ready" => documents[d].hash # NoContent

\* The partial unique index.
UniqueHash ==
  \A d, e \in Docs :
    /\ d # e /\ Owner[d] = Owner[e]
    /\ Active(documents[d]) /\ Active(documents[e])
    /\ documents[d].hash # NoContent
    => documents[d].hash # documents[e].hash

DedupInv == TypeInv /\ Known /\ Claimed /\ HashKnown /\ UniqueHash

LEMMA DedupInit == Init => DedupInv
  <1> SUFFICES ASSUME Init PROVE DedupInv
    OBVIOUS
  <1>1. \A d \in Docs : documents[d].status = "absent"
    BY DEF Init, BlankRow
  <1>2. \A w \in Workers : worker[w].pc = "idle"
    BY DEF Init, IdleRun
  <1>3. Known /\ Claimed
    BY <1>2 DEF Init, Known, Claimed
  <1>4. HashKnown /\ UniqueHash
    BY <1>1 DEF HashKnown, UniqueHash, Active, Exists
  <1> QED
    BY <1>3, <1>4, TypeInit DEF DedupInv

-----------------------------------------------------------------------------
(* What a step does to the rows. *)

\* A statement that neither inserts a row nor changes a hash.
Quiet(row, new) ==
  /\ row.status # "absent" => new.status # "absent"
  /\ Exists(new) => Exists(row) /\ new.hash = row.hash
  /\ new.deleted = FALSE /\ Exists(new) => row.deleted = FALSE

\* A quiet statement that completes nothing.
Plain(row, new) == Quiet(row, new) /\ (new.status = "ready" => row.status = "ready")

LEMMA QuietStatements ==
  ASSUME NEW row \in Rows
  PROVE  /\ Plain(row, row)
         /\ Plain(row, StartProcessing(row))
         /\ Quiet(row, MarkReadyIfProcessing(row))
         /\ Plain(row, MarkFailed(row))
         /\ Plain(row, MarkStuckFailed(row))
         /\ Plain(row, SoftDelete(row))
         /\ Plain(row, HardDelete(row))
         /\ Plain(row, [row EXCEPT !.expired = TRUE])
  <1> USE DEF Plain, Quiet, Rows, Exists
  <1>1. Plain(row, row) /\ Plain(row, [row EXCEPT !.expired = TRUE])
    OBVIOUS
  <1>2. Plain(row, StartProcessing(row)) /\ Plain(row, MarkFailed(row))
    BY DEF StartProcessing, MarkFailed
  <1>3. Quiet(row, MarkReadyIfProcessing(row)) /\ Plain(row, MarkStuckFailed(row))
    BY DEF MarkReadyIfProcessing, MarkStuckFailed
  <1>4. Plain(row, SoftDelete(row))
    <2>1. Plain(row, [row EXCEPT !.deleted = TRUE])
      OBVIOUS
    <2>2. \A r \in Rows : Plain(row, r) => Plain(row, Touch(r))
      BY DEF Touch
    <2> QED
      BY <2>1, <2>2, <1>1 DEF SoftDelete
  <1>5. Plain(row, HardDelete(row))
    BY DEF HardDelete, BlankRow
  <1> QED
    BY <1>1, <1>2, <1>3, <1>4, <1>5

\* All steps but three leave the table plainly alone.
LEMMA PlainSteps ==
  ASSUME TypeInv, [Next]_vars,
         ~\E d \in Docs : CreateUploadSession(d),
         ~\E w \in Workers : ClaimHash(w) \/ MarkReady(w)
  PROVE  \A e \in Docs : Plain(documents[e], documents'[e])
  <1>1. documents \in [Docs -> Rows]
    BY DEF TypeInv, TypeOK
  <1>2. ASSUME UNCHANGED documents
        PROVE  \A e \in Docs : Plain(documents[e], documents'[e])
    BY <1>1, <1>2, QuietStatements
  <1>3. ASSUME NEW d \in Docs, NEW row, Plain(documents[d], row),
               documents' = [documents EXCEPT ![d] = row]
        PROVE  \A e \in Docs : Plain(documents[e], documents'[e])
    BY <1>1, <1>3, QuietStatements
  <1>4. ASSUME NEW d \in Docs, SoftDeleteCommit(d)
        PROVE  \A e \in Docs : Plain(documents[e], documents'[e])
    BY <1>1, <1>3, <1>4, QuietStatements DEF SoftDeleteCommit
  <1>5. ASSUME NEW d \in Docs, ApiStep(d) \/ EvictJob(d)
        PROVE  \A e \in Docs : Plain(documents[e], documents'[e])
    BY <1>2, <1>4, <1>5
    DEF ApiStep, DeleteStep, Finalize, Retry, EnqueueIngest, SoftDeleteBegin, SoftDeleteVectors,
        SoftDeleteBlob, Put, EvictJob
  <1>6. ASSUME NEW d \in Docs, Expire(d)
        PROVE  \A e \in Docs : Plain(documents[e], documents'[e])
    <2>1. documents' = [documents EXCEPT ![d] = [documents[d] EXCEPT !.expired = TRUE]]
      BY <1>6 DEF Expire
    <2> QED
      BY <1>1, <1>3, <2>1, QuietStatements
  <1>7. ASSUME NEW w \in Workers, \/ RunStep(w) \/ IngestError(w) \/ Timeout(w) \/ Interrupt(w)
                                  \/ \E d \in Docs : Start(w, d)
        PROVE  \A e \in Docs : Plain(documents[e], documents'[e])
    <2>1. CASE BeginRun(w) \/ RemoveRow(w) \/ MarkDocFailed(w)
      <3>1. Doc(w) \in Docs
        BY <2>1 DEF BeginRun, RemoveRow, MarkDocFailed, Running, Doc, TypeInv, Placed
      <3>2. \/ UNCHANGED documents
            \/ documents' = [documents EXCEPT ![Doc(w)] = StartProcessing(documents[Doc(w)])]
            \/ documents' = [documents EXCEPT ![Doc(w)] = HardDelete(documents[Doc(w)])]
            \/ documents' = [documents EXCEPT ![Doc(w)] = MarkFailed(documents[Doc(w)])]
        BY <2>1 DEF BeginRun, RemoveRow, MarkDocFailed, WriteRow
      <3> QED
        BY <1>1, <1>2, <1>3, <3>1, <3>2, QuietStatements
    <2>2. CASE UNCHANGED documents
      BY <1>2, <2>2
    <2> QED
      BY <1>7, <2>1, <2>2
      DEF RunStep, Download, ProbeDuplicate, FilterExisting, UpsertBatch, Rollback, PurgeVectors,
          PurgeBlob, FailPurge, Finish, IngestError, Timeout, Interrupt, Start
  <1>8. CASE SweepStep
    <2>1. CASE SweepRow
      <3>1. sweep.doc \in Docs
        BY <2>1 DEF SweepRow, TypeInv, Placed
      <3> QED
        BY <1>1, <1>3, <2>1, <3>1, QuietStatements DEF SweepRow, WriteRow
    <2>2. ASSUME NEW d \in Docs, SweepMark(d)
          PROVE  \A e \in Docs : Plain(documents[e], documents'[e])
      BY <1>1, <1>3, <2>2, QuietStatements DEF SweepMark, WriteRow
    <2>3. CASE UNCHANGED documents
      BY <1>2, <2>3
    <2> QED
      BY <1>8, <2>1, <2>2, <2>3
      DEF SweepStep, SweepList, SweepBlob, SweepStuckVectors, SweepVectors
  <1>9. CASE UNCHANGED vars \/ LateUpsert \/ ApiRestart
    BY <1>2, <1>9 DEF vars, LateUpsert, ApiRestart
  <1> QED
    BY <1>5, <1>6, <1>7, <1>8, <1>9 DEF Next

-----------------------------------------------------------------------------
(* What a step does to the runs and the queue. *)

Past == {"filter", "upsert", "ready"}

\* A run stays on its document, and gets past its claim by claiming.
Moves(w) ==
  \/ worker'[w] = worker[w]
  \/ worker'[w].pc = "idle"
  \/ worker'[w].pc = "begin" /\ \E d \in Docs : worker'[w].doc = d /\ queue[d] # "none"
  \/ /\ worker[w].pc # "idle"
     /\ worker'[w].doc = worker[w].doc
     /\ worker'[w].pc \in Past => worker[w].pc \in Past \/ ClaimHash(w)

LEMMA RunMoves ==
  ASSUME TypeInv, NEW w \in Workers, RunStep(w) \/ IngestError(w)
  PROVE  \A v \in Workers : Moves(v)
  <1> DEFINE run == worker[w]
  <1>1. worker \in [Workers -> RunState]
    BY DEF TypeInv, TypeOK, RunState
  <1>2. ASSUME NEW r, worker' = [worker EXCEPT ![w] = r], Moves(w)
        PROVE  \A v \in Workers : Moves(v)
    BY <1>1, <1>2 DEF Moves
  <1>3. CASE Finish(w)
    <2>1. worker' = [worker EXCEPT ![w] = IdleRun]
      BY <1>3 DEF Finish, EndJob
    <2>2. worker'[w].pc = "idle"
      BY <1>1, <2>1 DEF IdleRun
    <2> QED
      BY <1>2, <2>1, <2>2 DEF Moves
  <1>4. ASSUME NEW r, worker' = [worker EXCEPT ![w] = r],
               run.pc # "idle", r.doc = run.doc,
               r.pc \in Past => run.pc \in Past \/ ClaimHash(w)
        PROVE  \A v \in Workers : Moves(v)
    BY <1>1, <1>2, <1>4 DEF Moves
  <1>5. ASSUME NEW step, Goto(w, step), run.pc # "idle",
               step \in Past => run.pc \in Past \/ ClaimHash(w)
        PROVE  \A v \in Workers : Moves(v)
    <2> DEFINE r == [run EXCEPT !.pc = step]
    <2>1. r.pc = step /\ r.doc = run.doc /\ worker' = [worker EXCEPT ![w] = r]
      BY <1>1, <1>5 DEF RunState, Goto
    <2> HIDE DEF r
    <2> QED
      BY <1>4, <1>5, <2>1
  <1>6. CASE BeginRun(w)
    BY <1>5, <1>6 DEF BeginRun, Running, Past
  <1>7. CASE Download(w)
    <2>1. CASE worker' = [worker EXCEPT ![w].content = objects[Doc(w)], ![w].pc = "probe"]
      <3> DEFINE r == [run EXCEPT !.content = objects[Doc(w)], !.pc = "probe"]
      <3>1. r.pc = "probe" /\ r.doc = run.doc /\ worker' = [worker EXCEPT ![w] = r]
        BY <1>1, <2>1 DEF RunState
      <3> HIDE DEF r
      <3> QED
        BY <1>4, <1>7, <3>1 DEF Download, Running, Past
    <2> QED
      BY <1>5, <1>7, <2>1 DEF Download, Running, Past
  <1>8. CASE ProbeDuplicate(w)
    BY <1>5, <1>8 DEF ProbeDuplicate, Running, Past
  <1>9. CASE ClaimHash(w)
    BY <1>5, <1>9 DEF ClaimHash, Running, Past
  <1>10. ASSUME NEW step, NEW todo, run.pc \in Past,
                worker' = [worker EXCEPT ![w].todo = todo, ![w].pc = step]
         PROVE  \A v \in Workers : Moves(v)
    <2> DEFINE r == [run EXCEPT !.todo = todo, !.pc = step]
    <2>1. r.doc = run.doc /\ worker' = [worker EXCEPT ![w] = r]
      BY <1>1, <1>10 DEF RunState
    <2> HIDE DEF r
    <2> QED
      BY <1>4, <1>10, <2>1 DEF Past
  <1>11. CASE FilterExisting(w)
    BY <1>10, <1>11 DEF FilterExisting, Running, Past
  <1>12. CASE UpsertBatch(w)
    BY <1>10, <1>12 DEF UpsertBatch, Running, Past
  <1>13. CASE IngestError(w)
    <2>1. PICK step \in {"filter", "failPurge"} :
            worker' = [worker EXCEPT ![w].pc = step, ![w].todo = {}]
      BY <1>13 DEF IngestError
    <2> DEFINE r == [run EXCEPT !.pc = step, !.todo = {}]
    <2>2. r.doc = run.doc /\ worker' = [worker EXCEPT ![w] = r]
      BY <1>1, <2>1 DEF RunState
    <2> HIDE DEF r
    <2> QED
      BY <1>4, <1>13, <2>2 DEF IngestError, Past
  <1>14. CASE MarkReady(w) \/ Rollback(w) \/ PurgeVectors(w) \/ PurgeBlob(w)
              \/ RemoveRow(w) \/ FailPurge(w) \/ MarkDocFailed(w)
    BY <1>5, <1>14
    DEF MarkReady, Rollback, PurgeVectors, PurgeBlob, RemoveRow, FailPurge, MarkDocFailed,
        Running, Past
  <1> QED
    BY <1>3, <1>6, <1>7, <1>8, <1>9, <1>11, <1>12, <1>13, <1>14 DEF RunStep

LEMMA AllMoves ==
  ASSUME TypeInv, [Next]_vars
  PROVE  \A v \in Workers : Moves(v)
  <1>1. worker \in [Workers -> RunState]
    BY DEF TypeInv, TypeOK, RunState
  <1>2. CASE UNCHANGED worker
    BY <1>2 DEF Moves
  <1>3. ASSUME NEW w \in Workers, worker' = [worker EXCEPT ![w] = IdleRun]
        PROVE  \A v \in Workers : Moves(v)
    BY <1>1, <1>3 DEF Moves, IdleRun
  <1>4. ASSUME NEW w \in Workers, NEW d \in Docs, Start(w, d)
        PROVE  \A v \in Workers : Moves(v)
    <2> DEFINE r == [IdleRun EXCEPT !.pc = "begin", !.doc = d]
    <2>1. r.pc = "begin" /\ r.doc = d
      BY IdleTypes DEF RunState
    <2> HIDE DEF r
    <2>2. queue[d] = "queued" /\ (UNCHANGED worker \/ worker' = [worker EXCEPT ![w] = r])
      BY <1>4, Zenon DEF Start, r
    <2> QED
      BY <1>1, <2>1, <2>2 DEF Moves
  <1>5. ASSUME NEW w \in Workers, Timeout(w) \/ Interrupt(w)
        PROVE  \A v \in Workers : Moves(v)
    BY <1>3, <1>5 DEF Timeout, Interrupt, EndJob
  <1>6. ASSUME NEW d \in Docs, ApiStep(d) \/ EvictJob(d) \/ Expire(d)
        PROVE  UNCHANGED worker
    BY <1>6
    DEF ApiStep, DeleteStep, CreateUploadSession, Finalize, Retry, EnqueueIngest, SoftDeleteBegin,
        SoftDeleteVectors, SoftDeleteBlob, SoftDeleteCommit, Put, EvictJob, Expire
  <1>7. CASE SweepStep
    BY <1>2, <1>7
    DEF SweepStep, SweepList, SweepBlob, SweepRow, SweepStuckVectors, SweepVectors, SweepMark
  <1>8. CASE UNCHANGED vars \/ LateUpsert \/ ApiRestart
    BY <1>2, <1>8 DEF vars, LateUpsert, ApiRestart
  <1> QED
    BY <1>2, <1>4, <1>5, <1>6, <1>7, <1>8, RunMoves DEF Next

\* A job or an admitted request is for a row that was there.
LEMMA QueueMoves ==
  ASSUME TypeInv, [Next]_vars
  PROVE  \A d \in Docs :
           queue'[d] # "none" \/ d \in admitted'
           => queue[d] # "none" \/ d \in admitted \/ documents[d].status # "absent"
  <1>1. queue \in [Docs -> {"none", "queued", "running"}]
    BY DEF TypeInv, TypeOK
  <1> DEFINE Goal == \A d \in Docs :
                       queue'[d] # "none" \/ d \in admitted'
                       => queue[d] # "none" \/ d \in admitted \/ documents[d].status # "absent"
  <1>2. CASE UNCHANGED queue /\ admitted' \subseteq admitted
    BY <1>2
  <1>3. ASSUME NEW e, queue' = [queue EXCEPT ![e] = "none"], UNCHANGED admitted
        PROVE  Goal
    BY <1>1, <1>3
  <1>4. ASSUME NEW d \in Docs, Finalize(d) \/ Retry(d)
        PROVE  Goal
    BY <1>4 DEF Finalize, Retry, Active, Exists, queueVars
  <1>5. ASSUME NEW d \in Docs, EnqueueIngest(d)
        PROVE  Goal
    BY <1>1, <1>5 DEF EnqueueIngest, queueVars
  <1>6. ASSUME NEW d \in Docs, ApiStep(d) \/ EvictJob(d) \/ Expire(d)
        PROVE  Goal
    BY <1>2, <1>3, <1>4, <1>5, <1>6
    DEF ApiStep, DeleteStep, CreateUploadSession, SoftDeleteBegin, SoftDeleteVectors,
        SoftDeleteBlob, SoftDeleteCommit, Put, EvictJob, Expire, queueVars, apiVars
  <1>7. ASSUME NEW w \in Workers, NEW d \in Docs, Start(w, d)
        PROVE  Goal
    BY <1>1, <1>7 DEF Start, apiVars
  <1>8. ASSUME NEW w \in Workers, Interrupt(w)
        PROVE  Goal
    BY <1>1, <1>8 DEF Interrupt, apiVars
  <1>9. ASSUME NEW w \in Workers, RunStep(w) \/ IngestError(w) \/ Timeout(w)
        PROVE  Goal
    <2>1. CASE Finish(w) \/ Timeout(w)
      BY <1>3, <2>1 DEF Finish, Timeout, EndJob, apiVars
    <2>2. CASE UNCHANGED <<queueVars, apiVars>>
      BY <1>2, <2>2 DEF queueVars, apiVars
    <2> QED
      BY <1>9, <2>1, <2>2
      DEF RunStep, BeginRun, Download, ProbeDuplicate, ClaimHash, FilterExisting, UpsertBatch,
          MarkReady, Rollback, PurgeVectors, PurgeBlob, RemoveRow, FailPurge, MarkDocFailed,
          IngestError
  <1>10. CASE SweepStep
    BY <1>2, <1>10
    DEF SweepStep, SweepList, SweepBlob, SweepRow, SweepStuckVectors, SweepVectors, SweepMark,
        queueVars, apiVars
  <1>11. CASE UNCHANGED vars \/ LateUpsert \/ ApiRestart
    BY <1>2, <1>11 DEF vars, LateUpsert, ApiRestart, queueVars, apiVars
  <1> QED
    BY <1>6, <1>7, <1>8, <1>9, <1>10, <1>11 DEF Next

-----------------------------------------------------------------------------
(* DedupInv is inductive. *)

\* The three statements that are not plain.
LEMMA RowMoves ==
  ASSUME TypeInv, [Next]_vars
  PROVE  \/ \A e \in Docs : Plain(documents[e], documents'[e])
         \/ \E d \in Docs : CreateUploadSession(d)
         \/ \E w \in Workers : ClaimHash(w)
         \/ \E w \in Workers : MarkReady(w)
  BY PlainSteps

LEMMA CreateRow ==
  ASSUME TypeInv, NEW d \in Docs, CreateUploadSession(d)
  PROVE  /\ \A e \in Docs \ {d} : documents'[e] = documents[e]
         /\ documents'[d].status = "pending" /\ documents'[d].hash = NoContent
         /\ documents[d].status = "absent"
  BY DEF CreateUploadSession, WriteRow, Create, BlankRow, TypeInv, TypeOK

\* A claim writes the hash of one existing row, no active copy of which exists.
LEMMA ClaimRow ==
  ASSUME TypeInv, NEW w \in Workers, ClaimHash(w)
  PROVE  /\ Doc(w) \in Docs /\ Content(w) \in Contents
         /\ \/ UNCHANGED documents /\ worker'[w].pc \notin Past
            \/ /\ \A e \in Docs \ {Doc(w)} : documents'[e] = documents[e]
               /\ Active(documents[Doc(w)]) => ActiveCopies(documents, Doc(w), Content(w)) = {}
               /\ documents'[Doc(w)].status = documents[Doc(w)].status
               /\ documents'[Doc(w)].deleted = documents[Doc(w)].deleted
               /\ Exists(documents[Doc(w)]) => documents'[Doc(w)].hash = Content(w)
               /\ ~Exists(documents[Doc(w)]) => documents'[Doc(w)] = documents[Doc(w)]
  <1>1. Doc(w) \in Docs /\ Content(w) \in Contents
    BY DEF ClaimHash, Running, Doc, Content, TypeInv, Placed, Downloaded
  <1>2. documents \in [Docs -> Rows] /\ worker \in [Workers -> RunState]
    BY DEF TypeInv, TypeOK, RunState
  <1> DEFINE row == documents[Doc(w)]
             new == SetContentHash(row, Content(w))
  <1>3. /\ new.status = row.status /\ new.deleted = row.deleted
        /\ Exists(row) => new.hash = Content(w)
        /\ ~Exists(row) => new = row
    BY <1>1, <1>2 DEF SetContentHash, Touch, Rows
  <1>4. CASE ~ViolatesUniqueHash(documents, Doc(w), Content(w)) /\ WriteRow(Doc(w), new)
    BY <1>1, <1>2, <1>3, <1>4 DEF ViolatesUniqueHash, WriteRow
  <1>5. CASE Goto(w, "failPurge") /\ UNCHANGED documents
    BY <1>1, <1>2, <1>5 DEF Goto, Past, RunState
  <1> QED
    BY <1>4, <1>5, <1>1 DEF ClaimHash

LEMMA ReadyRow ==
  ASSUME TypeInv, NEW w \in Workers, MarkReady(w)
  PROVE  /\ Doc(w) \in Docs
         /\ \A e \in Docs \ {Doc(w)} : documents'[e] = documents[e]
         /\ Quiet(documents[Doc(w)], documents'[Doc(w)])
         /\ documents'[Doc(w)].status = "ready" => Exists(documents[Doc(w)])
  <1>1. Doc(w) \in Docs
    BY DEF MarkReady, Running, Doc, TypeInv, Placed
  <1> QED
    BY <1>1, QuietStatements
    DEF MarkReady, WriteRow, TypeInv, TypeOK, MarkReadyIfProcessing, Exists, Rows

\* A row stays inserted, and keeps the hash it has.
LEMMA RowsStay ==
  ASSUME TypeInv, [Next]_vars, NEW d \in Docs, documents[d].status # "absent"
  PROVE  /\ documents'[d].status # "absent"
         /\ Exists(documents'[d]) =>
              /\ Exists(documents[d])
              /\ documents[d].hash # NoContent => documents'[d].hash # NoContent
  <1>1. documents[d] \in Rows
    BY DEF TypeInv, TypeOK
  <1>2. CASE Quiet(documents[d], documents'[d])
    BY <1>2 DEF Quiet
  <1>3. CASE documents'[d] = documents[d]
    BY <1>3
  <1>4. ASSUME NEW w \in Workers, ClaimHash(w)
        PROVE  /\ documents'[d].status # "absent"
               /\ Exists(documents'[d]) =>
                    /\ Exists(documents[d])
                    /\ documents[d].hash # NoContent => documents'[d].hash # NoContent
    BY <1>4, ClaimRow DEF Exists
  <1> QED
    BY <1>2, <1>3, <1>4, RowMoves, CreateRow, ReadyRow DEF Plain

LEMMA KnownStep ==
  ASSUME DedupInv, [Next]_vars
  PROVE  Known'
  <1> USE DEF DedupInv
  <1>1. ASSUME NEW w \in Workers, worker'[w].pc # "idle"
        PROVE  documents'[worker'[w].doc].status # "absent"
    <2>1. worker'[w].doc \in Docs
      BY <1>1, TypeStep DEF TypeInv, Placed
    <2>2. documents[worker'[w].doc].status # "absent"
      BY <1>1, AllMoves DEF Moves, Known
    <2> QED
      BY <2>1, <2>2, RowsStay
  <1>2. ASSUME NEW d \in Docs, queue'[d] # "none" \/ d \in admitted'
        PROVE  documents'[d].status # "absent"
    BY <1>2, QueueMoves, RowsStay DEF Known
  <1> QED
    BY <1>1, <1>2 DEF Known

LEMMA ClaimedStep ==
  ASSUME DedupInv, [Next]_vars
  PROVE  Claimed'
  <1> USE DEF DedupInv
  <1> SUFFICES ASSUME NEW w \in Workers, worker'[w].pc \in Past,
                      Exists(documents'[worker'[w].doc])
               PROVE  documents'[worker'[w].doc].hash # NoContent
    BY DEF Claimed, Past
  <1>1. worker'[w].pc # "idle" /\ worker'[w].pc # "begin"
    BY DEF Past
  <1>2. /\ worker'[w].doc \in Docs /\ worker'[w].doc = worker[w].doc /\ worker[w].pc # "idle"
        /\ worker[w].pc \in Past \/ ClaimHash(w)
    BY <1>1, AllMoves, TypeStep DEF Moves, TypeInv, Placed
  <1>3. documents[worker[w].doc].status # "absent"
    BY <1>2 DEF Known
  <1>4. CASE worker[w].pc \in Past
    BY <1>2, <1>3, <1>4, RowsStay DEF Claimed, Past
  <1>5. CASE ClaimHash(w)
    <2>1. documents'[Doc(w)].hash = Content(w)
      BY <1>2, <1>5, ClaimRow DEF Doc, Exists
    <2> QED
      BY <1>2, <1>5, <2>1, ClaimRow DEF Doc
  <1> QED
    BY <1>2, <1>4, <1>5

LEMMA HashKnownStep ==
  ASSUME DedupInv, [Next]_vars
  PROVE  HashKnown'
  <1> USE DEF DedupInv
  <1> SUFFICES ASSUME NEW d \in Docs, documents'[d].status = "ready"
               PROVE  documents'[d].hash # NoContent
    BY DEF HashKnown
  <1>1. CASE documents[d].status = "ready"
    BY <1>1, RowsStay DEF HashKnown, Exists
  <1>2. ASSUME NEW w \in Workers, MarkReady(w), d = Doc(w)
        PROVE  documents'[d].hash # NoContent
    <2>1. documents[d].hash # NoContent
      BY <1>2, ReadyRow DEF MarkReady, Running, Doc, Claimed
    <2> QED
      BY <1>2, <2>1, ReadyRow DEF Quiet, Exists
  <1>3. ASSUME NEW w \in Workers, ClaimHash(w)
        PROVE  documents[d].status = "ready"
    BY <1>3, ClaimRow
  <1> QED
    BY <1>1, <1>2, <1>3, RowMoves, CreateRow, ReadyRow DEF Plain

LEMMA UniqueHashStep ==
  ASSUME DedupInv, [Next]_vars
  PROVE  UniqueHash'
  <1> USE DEF DedupInv
  <1> SUFFICES ASSUME NEW d \in Docs, NEW e \in Docs,
                      d # e, Owner[d] = Owner[e],
                      Active(documents'[d]), Active(documents'[e]),
                      documents'[d].hash # NoContent
               PROVE  documents'[d].hash # documents'[e].hash
    BY DEF UniqueHash
  <1>0. documents \in [Docs -> Rows] /\ documents' \in [Docs -> Rows]
    BY TypeStep DEF TypeInv, TypeOK
  <1>1. \A c \in Docs : Quiet(documents[c], documents'[c]) /\ Active(documents'[c])
                        => Active(documents[c]) /\ documents'[c].hash = documents[c].hash
    BY <1>0 DEF Quiet, Active, Rows
  <1>2. CASE Quiet(documents[d], documents'[d]) /\ Quiet(documents[e], documents'[e])
    BY <1>1, <1>2 DEF UniqueHash
  <1>3. \A c \in Docs : documents'[c] = documents[c] => Quiet(documents[c], documents'[c])
    BY <1>0, QuietStatements DEF Plain
  <1>4. ASSUME NEW c \in Docs, CreateUploadSession(c)
        PROVE  documents'[d].hash # documents'[e].hash
    BY <1>2, <1>3, <1>4, CreateRow
  <1>5. ASSUME NEW w \in Workers, ClaimHash(w)
        PROVE  documents'[d].hash # documents'[e].hash
    <2>1. CASE UNCHANGED documents
      BY <1>2, <1>3, <2>1
    <2>2. CASE ~UNCHANGED documents
      <3>1. Content(w) # NoContent
        BY <1>5, ClaimRow
      <3>2. \A c \in Docs : /\ Active(documents'[c]) => Active(documents[c])
                            /\ c # Doc(w) => documents'[c] = documents[c]
        BY <1>5, <2>2, ClaimRow DEF Active, Exists
      <3>3. \A c \in Docs : Active(documents'[c]) /\ c = Doc(w) => documents'[c].hash = Content(w)
        BY <1>5, <2>2, <3>2, ClaimRow DEF Active
      <3>4. \A c \in Docs \ {Doc(w)} :
              Active(documents[Doc(w)]) /\ Owner[c] = Owner[Doc(w)] /\ Active(documents[c])
              => documents[c].hash # Content(w)
        BY <1>5, <2>2, ClaimRow DEF ActiveCopies
      <3>5. CASE d = Doc(w)
        BY <3>2, <3>3, <3>4, <3>5
      <3>6. CASE e = Doc(w)
        BY <3>2, <3>3, <3>4, <3>6
      <3>7. CASE d # Doc(w) /\ e # Doc(w)
        BY <1>2, <1>3, <3>2, <3>7
      <3> QED
        BY <3>5, <3>6, <3>7
    <2> QED
      BY <2>1, <2>2
  <1>6. ASSUME NEW w \in Workers, MarkReady(w)
        PROVE  documents'[d].hash # documents'[e].hash
    BY <1>2, <1>3, <1>6, ReadyRow
  <1> QED
    BY <1>2, <1>4, <1>5, <1>6, RowMoves DEF Plain

LEMMA DedupStep == DedupInv /\ [Next]_vars => DedupInv'
  <1> SUFFICES ASSUME DedupInv, [Next]_vars PROVE DedupInv'
    OBVIOUS
  <1>1. TypeInv'
    BY TypeStep DEF DedupInv
  <1> QED
    BY <1>1, KnownStep, ClaimedStep, HashKnownStep, UniqueHashStep DEF DedupInv

\* No interleaving of uploads, runs, retries, deletes, sweeper passes, crashes
\* and lost jobs shows an owner two ready documents with the same content.
THEOREM DedupIsExact == Spec => []OneActiveCopy
  <1>1. DedupInv => OneActiveCopy
    BY DEF DedupInv, HashKnown, UniqueHash, OneActiveCopy
  <1> QED
    BY DedupInit, DedupStep, <1>1, PTL DEF Spec

=============================================================================
