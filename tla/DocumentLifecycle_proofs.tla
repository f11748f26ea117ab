----------------------- MODULE DocumentLifecycle_proofs -----------------------
(***************************************************************************)
(* The rows implement DocumentLifecycle, and no run of a document is taken *)
(* over by another: what both rest on is that a document has one run at a  *)
(* time.  arq gives that as long as Redis keeps the keys of its jobs, so   *)
(* the theorems assume that the fault "evict" does not happen; with it     *)
(* they are false (two runs of one document, of which one completes what   *)
(* the other then fails).                                                  *)
(*                                                                         *)
(* RunsInv adds to DedupInv that a running job has its own slot            *)
(* (Exclusive) and that the row under a run is not pending any more, and   *)
(* not completed before the run ends (UnderRun).                           *)
(***************************************************************************)
EXTENDS DocumentIngestion_proofs

USE RepositoryAssumption, IngestionAssumption

\* Two slots never work on one document: the job of a run is marked running
\* until that run is over.
Exclusive ==
  /\ \A w \in Workers : worker[w].pc # "idle" => queue[worker[w].doc] = "running"
  /\ \A v, w \in Workers :
       worker[v].pc # "idle" /\ worker[w].pc # "idle" /\ worker[v].doc = worker[w].doc => v = w

\* Between its first statement and its last a run finds its row, if it still
\* exists, as it left it, or failed by the sweeper.
UnderRun ==
  \A w \in Workers :
    worker[w].pc \notin {"idle", "begin", "finish"} /\ Exists(documents[worker[w].doc])
    => documents[worker[w].doc].status \in {"processing", "failed"}

RunsInv == DedupInv /\ Exclusive /\ UnderRun

LEMMA RunsInit == Init => RunsInv
  <1>1. Init => \A w \in Workers : worker[w].pc = "idle"
    BY DEF Init, IdleRun
  <1> QED
    BY <1>1, DedupInit DEF RunsInv, Exclusive, UnderRun

-----------------------------------------------------------------------------
(* What a step does to the runs. *)

\* The steps of a run, by the program counter before and after.
Edges == {
  <<"begin", "download">>, <<"begin", "failPurge">>,
  <<"download", "probe">>, <<"download", "rollback">>, <<"download", "failPurge">>,
  <<"probe", "claim">>, <<"probe", "purgeVectors">>,
  <<"claim", "filter">>, <<"claim", "failPurge">>,
  <<"filter", "ready">>, <<"filter", "upsert">>, <<"filter", "filter">>,
  <<"filter", "failPurge">>,
  <<"upsert", "upsert">>, <<"upsert", "ready">>, <<"upsert", "filter">>,
  <<"upsert", "failPurge">>,
  <<"ready", "finish">>, <<"rollback", "purgeVectors">>, <<"rollback", "finish">>,
  <<"purgeVectors", "purgeBlob">>, <<"purgeBlob", "hardDelete">>, <<"hardDelete", "finish">>,
  <<"failPurge", "markFailed">>, <<"markFailed", "finish">>}

\* A run ends, or follows an edge on the document it has, with the content it
\* has once that is downloaded.
Advances(w) ==
  /\ \A v \in Workers \ {w} : worker'[v] = worker[v]
  /\ \/ worker'[w].pc = "idle" /\ worker[w].pc = "finish"
     \/ /\ worker'[w].doc = worker[w].doc
        /\ <<worker[w].pc, worker'[w].pc>> \in Edges
        /\ worker'[w].content = worker[w].content \/ Download(w)

LEMMA RunAdvances ==
  ASSUME TypeInv, NEW w \in Workers, RunStep(w) \/ IngestError(w)
  PROVE  Advances(w)
  <1> DEFINE run == worker[w]
  <1>1. worker \in [Workers -> RunState] /\ run \in RunState
    BY DEF TypeInv, TypeOK, RunState
  <1>2. CASE Finish(w)
    BY <1>1, <1>2 DEF Finish, Running, EndJob, IdleRun, Advances
  <1>3. ASSUME NEW r, worker' = [worker EXCEPT ![w] = r], r.doc = run.doc,
               <<run.pc, r.pc>> \in Edges, r.content = run.content \/ Download(w)
        PROVE  Advances(w)
    BY <1>1, <1>3 DEF Advances
  <1>4. ASSUME NEW step, Goto(w, step), <<run.pc, step>> \in Edges
        PROVE  Advances(w)
    <2> DEFINE r == [run EXCEPT !.pc = step]
    <2>1. /\ r.pc = step /\ r.doc = run.doc /\ r.content = run.content
          /\ worker' = [worker EXCEPT ![w] = r]
      BY <1>1, <1>4 DEF RunState, Goto
    <2> HIDE DEF r
    <2> QED
      BY <1>3, <1>4, <2>1
  <1>5. CASE BeginRun(w)
    BY <1>4, <1>5 DEF BeginRun, Running, Edges
  <1>6. CASE Download(w)
    <2>1. CASE worker' = [worker EXCEPT ![w].content = objects[Doc(w)], ![w].pc = "probe"]
      <3> DEFINE r == [run EXCEPT !.content = objects[Doc(w)], !.pc = "probe"]
      <3>1. r.pc = "probe" /\ r.doc = run.doc /\ worker' = [worker EXCEPT ![w] = r]
        BY <1>1, <2>1 DEF RunState
      <3>2. run.pc = "download"
        BY <1>6 DEF Download, Running
      <3> HIDE DEF r
      <3>3. <<run.pc, r.pc>> \in Edges
        BY <3>1, <3>2 DEF Edges
      <3> QED
        BY <1>3, <1>6, <3>1, <3>3
    <2>2. CASE Goto(w, "rollback") \/ Goto(w, "failPurge")
      BY <1>4, <1>6, <2>2 DEF Download, Running, Edges
    <2> QED
      BY <1>6, <2>1, <2>2 DEF Download
  <1>7. CASE ProbeDuplicate(w) \/ ClaimHash(w)
    BY <1>4, <1>7 DEF ProbeDuplicate, ClaimHash, Running, Edges
  <1>8. ASSUME NEW step, NEW todo, <<run.pc, step>> \in Edges,
               worker' = [worker EXCEPT ![w].todo = todo, ![w].pc = step]
        PROVE  Advances(w)
    <2> DEFINE r == [run EXCEPT !.todo = todo, !.pc = step]
    <2>1. /\ r.pc = step /\ r.doc = run.doc /\ r.content = run.content
          /\ worker' = [worker EXCEPT ![w] = r]
      BY <1>1, <1>8 DEF RunState
    <2> HIDE DEF r
    <2> QED
      BY <1>3, <1>8, <2>1
  <1>9. CASE FilterExisting(w)
    <2>1. PICK new : worker' = [worker EXCEPT ![w].todo = new,
                                              ![w].pc = IF new = {} THEN "ready" ELSE "upsert"]
      BY <1>9 DEF FilterExisting
    <2>2. PICK step \in {"ready", "upsert"} : step = IF new = {} THEN "ready" ELSE "upsert"
      OBVIOUS
    <2>3. <<run.pc, step>> \in Edges
      BY <1>9, <2>2 DEF FilterExisting, Running, Edges
    <2> QED
      BY <1>8, <2>1, <2>2, <2>3
  <1>10. CASE UpsertBatch(w)
    <2>1. PICK c : worker' = [worker EXCEPT ![w].todo = @ \ {c},
                                            ![w].pc = IF run.todo = {c} THEN "ready" ELSE @]
      BY <1>10 DEF UpsertBatch
    <2>2. PICK step \in {"ready", run.pc} : step = IF run.todo = {c} THEN "ready" ELSE run.pc
      OBVIOUS
    <2>3. <<run.pc, step>> \in Edges
      BY <1>10, <2>2 DEF UpsertBatch, Running, Edges
    <2>4. worker' = [worker EXCEPT ![w].todo = run.todo \ {c}, ![w].pc = step]
      BY <1>1, <2>1, <2>2
    <2> QED
      BY <1>8, <2>3, <2>4
  <1>11. CASE IngestError(w)
    <2>1. PICK step \in {"filter", "failPurge"} :
            worker' = [worker EXCEPT ![w].pc = step, ![w].todo = {}]
      BY <1>11 DEF IngestError
    <2>2. <<run.pc, step>> \in Edges
      BY <1>11, <2>1 DEF IngestError, Edges
    <2> DEFINE r == [run EXCEPT !.pc = step, !.todo = {}]
    <2>3. /\ r.pc = step /\ r.doc = run.doc /\ r.content = run.content
          /\ worker' = [worker EXCEPT ![w] = r]
      BY <1>1, <2>1 DEF RunState
    <2> HIDE DEF r
    <2> QED
      BY <1>3, <2>2, <2>3
  <1>12. CASE MarkReady(w) \/ Rollback(w) \/ PurgeVectors(w) \/ PurgeBlob(w)
              \/ RemoveRow(w) \/ FailPurge(w) \/ MarkDocFailed(w)
    BY <1>4, <1>12
    DEF MarkReady, Rollback, PurgeVectors, PurgeBlob, RemoveRow, FailPurge, MarkDocFailed,
        Running, Edges
  <1> QED
    BY <1>2, <1>5, <1>6, <1>7, <1>9, <1>10, <1>11, <1>12 DEF RunStep

\* A slot takes the job of d.
Takes(w, d) ==
  /\ \A v \in Workers \ {w} : worker'[v] = worker[v]
  /\ worker[w].pc = "idle" /\ worker'[w].pc = "begin" /\ worker'[w].doc = d
  /\ queue[d] = "queued" /\ queue'[d] = "running"

LEMMA StartTakes ==
  ASSUME TypeInv, NEW w \in Workers, NEW d \in Docs, Start(w, d)
  PROVE  UNCHANGED worker \/ Takes(w, d)
  <1>1. worker \in [Workers -> RunState] /\ queue \in [Docs -> {"none", "queued", "running"}]
    BY DEF TypeInv, TypeOK, RunState
  <1> DEFINE r == [IdleRun EXCEPT !.pc = "begin", !.doc = d]
  <1>2. r.pc = "begin" /\ r.doc = d
    BY IdleTypes DEF RunState
  <1> HIDE DEF r
  <1>3. /\ queue[d] = "queued" /\ worker[w].pc = "idle"
        /\ \/ queue' = [queue EXCEPT ![d] = "running"] /\ worker' = [worker EXCEPT ![w] = r]
           \/ UNCHANGED worker
    BY Zenon DEF Start, Running, r
  <1> QED
    BY <1>1, <1>2, <1>3 DEF Takes

\* A run is over, or given up.
Stops(w) ==
  /\ worker' = [worker EXCEPT ![w] = IdleRun]
  /\ worker[w].pc # "idle"

\* Every step, as far as the runs are concerned.
LEMMA RunsMove ==
  ASSUME TypeInv, [Next]_vars
  PROVE  \/ UNCHANGED worker
         \/ \E w \in Workers : (RunStep(w) \/ IngestError(w)) /\ Advances(w)
         \/ \E w \in Workers : (Timeout(w) \/ Interrupt(w)) /\ Stops(w)
         \/ \E w \in Workers, d \in Docs : Start(w, d) /\ Takes(w, d)
  <1>1. ASSUME NEW d \in Docs, ApiStep(d) \/ EvictJob(d) \/ Expire(d)
        PROVE  UNCHANGED worker
    BY <1>1
    DEF ApiStep, DeleteStep, CreateUploadSession, Finalize, Retry, EnqueueIngest, SoftDeleteBegin,
        SoftDeleteVectors, SoftDeleteBlob, SoftDeleteCommit, Put, EvictJob, Expire
  <1>2. CASE SweepStep
    BY <1>2
    DEF SweepStep, SweepList, SweepBlob, SweepRow, SweepStuckVectors, SweepVectors, SweepMark
  <1>3. CASE UNCHANGED vars \/ LateUpsert \/ ApiRestart
    BY <1>3 DEF vars, LateUpsert, ApiRestart
  <1>4. ASSUME NEW w \in Workers, Timeout(w) \/ Interrupt(w)
        PROVE  Stops(w)
    BY <1>4 DEF Timeout, Interrupt, EndJob, Stops, Running
  <1> QED
    BY <1>1, <1>2, <1>3, <1>4, RunAdvances, StartTakes DEF Next

\* A job stays marked running while its run lasts.
LEMMA JobKept ==
  ASSUME TypeInv, [Next]_vars, "evict" \notin Faults,
         NEW d \in Docs, queue[d] = "running"
  PROVE  \/ queue'[d] = "running"
         \/ \E w \in Workers : worker[w].doc = d /\ worker[w].pc # "idle" /\ worker'[w].pc = "idle"
  <1> DEFINE Goal == \/ queue'[d] = "running"
                     \/ \E w \in Workers : /\ worker[w].doc = d
                                           /\ worker[w].pc # "idle" /\ worker'[w].pc = "idle"
  <1>1. /\ queue \in [Docs -> {"none", "queued", "running"}]
        /\ worker \in [Workers -> RunState]
    BY DEF TypeInv, TypeOK, RunState
  <1>2. CASE UNCHANGED queue
    BY <1>2
  <1>3. ASSUME NEW w \in Workers, worker[w].pc # "idle",
               worker' = [worker EXCEPT ![w] = IdleRun],
               \A e \in Docs \ {worker[w].doc} : queue'[e] = queue[e]
        PROVE  Goal
    BY <1>1, <1>3 DEF IdleRun
  <1>4. ASSUME NEW e \in Docs, EnqueueIngest(e)
        PROVE  Goal
    BY <1>1, <1>4 DEF EnqueueIngest, queueVars
  <1>5. ASSUME NEW e \in Docs, ApiStep(e) \/ EvictJob(e) \/ Expire(e)
        PROVE  Goal
    BY <1>2, <1>4, <1>5
    DEF ApiStep, DeleteStep, CreateUploadSession, Finalize, Retry, SoftDeleteBegin,
        SoftDeleteVectors, SoftDeleteBlob, SoftDeleteCommit, Put, EvictJob, Expire, queueVars
  <1>6. ASSUME NEW w \in Workers, NEW e \in Docs, Start(w, e)
        PROVE  Goal
    BY <1>1, <1>6 DEF Start
  <1>7. ASSUME NEW w \in Workers, Finish(w) \/ Timeout(w) \/ Interrupt(w)
        PROVE  Goal
    BY <1>1, <1>3, <1>7 DEF Finish, Timeout, Interrupt, EndJob, Running
  <1>8. ASSUME NEW w \in Workers, RunStep(w) \/ IngestError(w)
        PROVE  Goal
    BY <1>2, <1>7, <1>8
    DEF RunStep, BeginRun, Download, ProbeDuplicate, ClaimHash, FilterExisting, UpsertBatch,
        MarkReady, Rollback, PurgeVectors, PurgeBlob, RemoveRow, FailPurge, MarkDocFailed,
        IngestError, queueVars
  <1>9. CASE SweepStep
    BY <1>2, <1>9
    DEF SweepStep, SweepList, SweepBlob, SweepRow, SweepStuckVectors, SweepVectors, SweepMark,
        queueVars
  <1>10. CASE UNCHANGED vars \/ LateUpsert \/ ApiRestart
    BY <1>2, <1>10 DEF vars, LateUpsert, ApiRestart, queueVars
  <1> QED
    BY <1>5, <1>6, <1>7, <1>8, <1>9, <1>10 DEF Next

\* Where a run is after a step, it was before, unless it takes its job now.
LEMMA RunFrom ==
  ASSUME TypeInv, [Next]_vars, NEW v \in Workers, worker'[v].pc # "idle"
  PROVE  \/ worker'[v].doc = worker[v].doc /\ worker[v].pc # "idle"
         \/ \E d \in Docs : Takes(v, d)
  <1>1. worker \in [Workers -> RunState]
    BY DEF TypeInv, TypeOK, RunState
  <1>2. \A a, b \in STRING : <<a, b>> \in Edges => a # "idle"
    BY DEF Edges
  <1>3. ASSUME NEW w \in Workers, Advances(w)
        PROVE  worker'[v].doc = worker[v].doc /\ worker[v].pc # "idle"
    BY <1>3 DEF Advances, Edges
  <1>4. ASSUME NEW w \in Workers, Stops(w)
        PROVE  worker'[v].doc = worker[v].doc /\ worker[v].pc # "idle"
    BY <1>1, <1>4 DEF Stops, IdleRun
  <1>5. ASSUME NEW w \in Workers, NEW d \in Docs, Takes(w, d)
        PROVE  worker'[v] = worker[v] \/ Takes(v, d)
    BY <1>5 DEF Takes
  <1> QED
    BY <1>3, <1>4, <1>5, RunsMove

LEMMA ExclusiveStep ==
  ASSUME RunsInv, [Next]_vars, "evict" \notin Faults
  PROVE  Exclusive'
  <1> USE DEF RunsInv, DedupInv
  <1>1. worker \in [Workers -> RunState] /\ queue \in [Docs -> {"none", "queued", "running"}]
    BY DEF TypeInv, TypeOK, RunState
  <1>2. ASSUME NEW w \in Workers, worker'[w].pc # "idle"
        PROVE  queue'[worker'[w].doc] = "running"
    <2>1. CASE worker'[w].doc = worker[w].doc /\ worker[w].pc # "idle"
      <3>1. worker[w].doc \in Docs /\ queue[worker[w].doc] = "running"
        BY <2>1 DEF Exclusive, TypeInv, Placed
      <3>2. ASSUME NEW u \in Workers, worker[u].doc = worker[w].doc, worker[u].pc # "idle"
            PROVE  u = w
        BY <2>1, <3>2 DEF Exclusive
      <3> QED
        BY <1>2, <2>1, <3>1, <3>2, JobKept
    <2>2. CASE \E d \in Docs : Takes(w, d)
      BY <2>2 DEF Takes
    <2> QED
      BY <1>2, <2>1, <2>2, RunFrom
  <1>3. ASSUME NEW v \in Workers, NEW w \in Workers, worker'[v].pc # "idle",
               worker'[w].pc # "idle", worker'[v].doc = worker'[w].doc
        PROVE  v = w
    <2>1. ASSUME NEW a \in Workers, NEW b \in Workers, NEW d \in Docs, Takes(a, d),
                 worker'[b].pc # "idle", worker'[b].doc = d
          PROVE  a = b
      <3>1. SUFFICES ASSUME a # b PROVE FALSE
        OBVIOUS
      <3>2. worker[b].pc # "idle" /\ worker[b].doc = d
        BY <2>1, <3>1 DEF Takes
      <3> QED
        BY <2>1, <3>2 DEF Takes, Exclusive
    <2>2. CASE \E d \in Docs : Takes(v, d) \/ Takes(w, d)
      BY <1>3, <2>1, <2>2 DEF Takes
    <2>3. CASE ~\E d \in Docs : Takes(v, d) \/ Takes(w, d)
      BY <1>3, <2>3, RunFrom DEF Exclusive
    <2> QED
      BY <2>2, <2>3
  <1> QED
    BY <1>2, <1>3 DEF Exclusive

-----------------------------------------------------------------------------
(* What a step does to the rows. *)

\* The ten steps with a statement in them.
LEMMA RowWriters ==
  ASSUME [Next]_vars
  PROVE  \/ UNCHANGED documents
         \/ \E d \in Docs :
              CreateUploadSession(d) \/ SoftDeleteCommit(d) \/ SweepMark(d) \/ Expire(d)
         \/ SweepRow
         \/ \E w \in Workers :
              BeginRun(w) \/ ClaimHash(w) \/ MarkReady(w) \/ RemoveRow(w) \/ MarkDocFailed(w)
  <1>1. ASSUME NEW d \in Docs, ApiStep(d) \/ EvictJob(d)
        PROVE  UNCHANGED documents \/ CreateUploadSession(d) \/ SoftDeleteCommit(d)
    BY <1>1
    DEF ApiStep, DeleteStep, Finalize, Retry, EnqueueIngest, SoftDeleteBegin, SoftDeleteVectors,
        SoftDeleteBlob, Put, EvictJob
  <1>2. ASSUME NEW w \in Workers, \/ RunStep(w) \/ IngestError(w) \/ Timeout(w) \/ Interrupt(w)
                                  \/ \E d \in Docs : Start(w, d)
        PROVE  \/ UNCHANGED documents
               \/ BeginRun(w) \/ ClaimHash(w) \/ MarkReady(w) \/ RemoveRow(w) \/ MarkDocFailed(w)
    BY <1>2
    DEF RunStep, Download, ProbeDuplicate, FilterExisting, UpsertBatch, Rollback, PurgeVectors,
        PurgeBlob, FailPurge, Finish, IngestError, Timeout, Interrupt, Start
  <1>3. CASE SweepStep
    BY <1>3 DEF SweepStep, SweepList, SweepBlob, SweepStuckVectors, SweepVectors
  <1>4. CASE UNCHANGED vars \/ LateUpsert \/ ApiRestart
    BY <1>4 DEF vars, LateUpsert, ApiRestart
  <1> QED
    BY <1>1, <1>2, <1>3, <1>4 DEF Next

\* A step writes one row.
Writes(d, row) == documents' = [documents EXCEPT ![d] = row]

\* The row a run or the sweeper writes, and what it writes there.
LEMMA RunWrites ==
  ASSUME TypeInv, NEW w \in Workers
  PROVE  /\ BeginRun(w) =>
              /\ Doc(w) \in Docs
              /\ UNCHANGED documents \/ Writes(Doc(w), StartProcessing(documents[Doc(w)]))
         /\ ClaimHash(w) =>
              /\ Doc(w) \in Docs /\ Content(w) \in Contents
              /\ \/ UNCHANGED documents
                 \/ /\ Writes(Doc(w), SetContentHash(documents[Doc(w)], Content(w)))
                    /\ ~ViolatesUniqueHash(documents, Doc(w), Content(w))
         /\ MarkReady(w) =>
              Doc(w) \in Docs /\ Writes(Doc(w), MarkReadyIfProcessing(documents[Doc(w)]))
         /\ MarkDocFailed(w) =>
              Doc(w) \in Docs /\ Writes(Doc(w), MarkFailed(documents[Doc(w)]))
         /\ RemoveRow(w) =>
              Doc(w) \in Docs /\ Writes(Doc(w), HardDelete(documents[Doc(w)]))
  BY DEF TypeInv, Placed, Downloaded, BeginRun, ClaimHash, MarkReady, MarkDocFailed, RemoveRow,
         Running, Doc, Content, WriteRow, Writes

LEMMA SweepWrites ==
  ASSUME TypeInv
  PROVE  /\ SweepRow => /\ sweep.doc \in Docs
                        /\ Writes(sweep.doc, HardDelete(documents[sweep.doc]))
         /\ \A d \in Docs : SweepMark(d) => Writes(d, MarkStuckFailed(documents[d]))
  BY DEF TypeInv, Placed, SweepRow, SweepMark, WriteRow, Writes

\* A statement that leaves a row at work at work, or ends its existence.
Working(row) == row.status \in {"processing", "failed"}
Lasting(row, new) == Working(row) /\ Exists(new) => Working(new)

LEMMA LastingStatements ==
  ASSUME NEW row \in Rows
  PROVE  /\ Lasting(row, row)
         /\ Lasting(row, StartProcessing(row))
         /\ \A c \in Contents : Lasting(row, SetContentHash(row, c))
         /\ Lasting(row, MarkFailed(row))
         /\ Lasting(row, MarkStuckFailed(row))
         /\ Lasting(row, SoftDelete(row))
         /\ Lasting(row, HardDelete(row))
         /\ Lasting(row, [row EXCEPT !.expired = TRUE])
  <1> USE DEF Lasting, Working, Rows, Exists
  <1>1. /\ Lasting(row, row) /\ Lasting(row, StartProcessing(row)) /\ Lasting(row, MarkFailed(row))
        /\ Lasting(row, MarkStuckFailed(row)) /\ Lasting(row, [row EXCEPT !.expired = TRUE])
    BY DEF StartProcessing, MarkFailed, MarkStuckFailed
  <1>2. Lasting(row, HardDelete(row))
    BY DEF HardDelete, BlankRow
  <1>3. \A r \in Rows : Touch(r).status = r.status
    BY DEF Touch
  <1>4. Lasting(row, SoftDelete(row))
    BY <1>3 DEF SoftDelete
  <1>5. \A c \in Contents : Lasting(row, SetContentHash(row, c))
    BY <1>3 DEF SetContentHash
  <1> QED
    BY <1>1, <1>2, <1>4, <1>5

\* A row at work stays at work, until its run completes it.
LEMMA WorkLasts ==
  ASSUME TypeInv, [Next]_vars, NEW d \in Docs, Working(documents[d]), Exists(documents'[d])
  PROVE  Working(documents'[d]) \/ \E w \in Workers : MarkReady(w) /\ Doc(w) = d
  <1> DEFINE Goal == Working(documents'[d]) \/ \E w \in Workers : MarkReady(w) /\ Doc(w) = d
  <1>1. documents \in [Docs -> Rows]
    BY DEF TypeInv, TypeOK
  <1>2. ASSUME NEW e \in Docs, NEW row, Writes(e, row), Lasting(documents[e], row)
        PROVE  Goal
    BY <1>1, <1>2 DEF Writes, Lasting
  <1>3. CASE UNCHANGED documents
    BY <1>3
  <1>4. ASSUME NEW e \in Docs, CreateUploadSession(e)
        PROVE  Goal
    BY <1>1, <1>4 DEF CreateUploadSession, WriteRow, Working
  <1>5. ASSUME NEW e \in Docs, SoftDeleteCommit(e)
        PROVE  Goal
    BY <1>1, <1>2, <1>5, LastingStatements DEF SoftDeleteCommit, Writes
  <1>6. ASSUME NEW e \in Docs, Expire(e)
        PROVE  Goal
    <2>1. Writes(e, [documents[e] EXCEPT !.expired = TRUE])
      BY <1>6 DEF Expire, Writes
    <2> QED
      BY <1>1, <1>2, <2>1, LastingStatements
  <1>7. ASSUME NEW e \in Docs, SweepMark(e)
        PROVE  Goal
    BY <1>1, <1>2, <1>7, SweepWrites, LastingStatements
  <1>8. CASE SweepRow
    BY <1>1, <1>2, <1>8, SweepWrites, LastingStatements
  <1>9. ASSUME NEW w \in Workers, BeginRun(w) \/ ClaimHash(w) \/ RemoveRow(w) \/ MarkDocFailed(w)
        PROVE  Goal
    BY <1>1, <1>2, <1>3, <1>9, RunWrites, LastingStatements
  <1>10. ASSUME NEW w \in Workers, MarkReady(w)
         PROVE  Goal
    BY <1>1, <1>10, RunWrites DEF Writes
  <1> QED
    BY <1>3, <1>4, <1>5, <1>6, <1>7, <1>8, <1>9, <1>10, RowWriters

LEMMA UnderRunStep ==
  ASSUME RunsInv, [Next]_vars
  PROVE  UnderRun'
  <1> USE DEF RunsInv, DedupInv
  <1> SUFFICES ASSUME NEW w \in Workers, worker'[w].pc \notin {"idle", "begin", "finish"},
                      Exists(documents'[worker'[w].doc])
               PROVE  Working(documents'[worker'[w].doc])
    BY DEF UnderRun, Working
  <1> DEFINE d == worker[w].doc
  <1>1. worker'[w].doc = d /\ worker[w].pc # "idle" /\ d \in Docs
    BY RunFrom DEF Takes, TypeInv, Placed
  <1>2. documents[d].status # "absent"
    BY <1>1 DEF Known
  <1>3. Exists(documents[d])
    BY <1>1, <1>2, RowsStay
  <1>4. CASE worker[w].pc \notin {"idle", "begin", "finish"}
    <2>1. Working(documents[d])
      BY <1>1, <1>3, <1>4 DEF UnderRun, Working
    <2>2. ASSUME NEW u \in Workers, MarkReady(u), Doc(u) = d
          PROVE  FALSE
      <3>1. u = w
        BY <1>1, <2>2 DEF MarkReady, Running, Doc, Exclusive
      <3>2. Advances(u)
        BY <2>2, RunAdvances DEF RunStep
      <3> QED
        BY <2>2, <3>1, <3>2 DEF MarkReady, Running, Advances, Edges
    <2> QED
      BY <1>1, <2>1, <2>2, WorkLasts
  <1>5. CASE worker[w].pc \in {"begin", "finish"}
    <2>1. RunStep(w) \/ IngestError(w)
      <3>1. worker \in [Workers -> RunState] /\ worker'[w] # worker[w]
        BY <1>5 DEF TypeInv, TypeOK, RunState
      <3>2. ASSUME NEW u \in Workers, Stops(u)
            PROVE  FALSE
        BY <3>1, <3>2 DEF Stops, IdleRun
      <3>3. ASSUME NEW u \in Workers, NEW e \in Docs, Takes(u, e)
            PROVE  FALSE
        BY <1>1, <3>1, <3>3 DEF Takes
      <3> QED
        BY <3>1, <3>2, <3>3, RunsMove DEF Advances
    <2>2. BeginRun(w)
      BY <1>5, <2>1
      DEF RunStep, Download, ProbeDuplicate, ClaimHash, FilterExisting, UpsertBatch, MarkReady,
          Rollback, PurgeVectors, PurgeBlob, RemoveRow, FailPurge, MarkDocFailed, Finish,
          IngestError, Running, EndJob, IdleRun, TypeInv, TypeOK, RunState
    <2>3. Writes(d, StartProcessing(documents[d]))
      BY <1>3, <2>2 DEF BeginRun, Doc, WriteRow, Writes
    <2>4. documents'[d].status = "processing"
      BY <1>1, <1>3, <2>3 DEF Writes, StartProcessing, TypeInv, TypeOK, Rows
    <2> QED
      BY <1>1, <2>4 DEF Working
  <1> QED
    BY <1>1, <1>4, <1>5

LEMMA RunsStep == "evict" \notin Faults /\ RunsInv /\ [Next]_vars => RunsInv'
  BY DedupStep, ExclusiveStep, UnderRunStep DEF RunsInv

-----------------------------------------------------------------------------
(* No run is taken over. *)

\* What the other statements make of a failed row.
LEMMA FailedStatements ==
  ASSUME NEW row \in Rows, row.status = "failed"
  PROVE  /\ \A c \in Contents : SetContentHash(row, c).status = "failed"
         /\ SoftDelete(row).status = "failed"
         /\ MarkReadyIfProcessing(row) = row
         /\ MarkFailed(row).status = "failed"
         /\ MarkStuckFailed(row) = row
         /\ HardDelete(row).status = "removed"
  <1>1. \A r \in Rows : Touch(r).status = r.status
    BY DEF Touch, Rows
  <1>2. \A c \in Contents : [row EXCEPT !.hash = c] \in Rows
    BY DEF Rows
  <1>3. [row EXCEPT !.deleted = TRUE] \in Rows
    BY DEF Rows
  <1>4. \A c \in Contents : SetContentHash(row, c).status = "failed"
    BY <1>1, <1>2 DEF SetContentHash, Rows
  <1>5. SoftDelete(row).status = "failed"
    BY <1>1, <1>3 DEF SoftDelete, Rows
  <1> QED
    BY <1>4, <1>5
    DEF MarkReadyIfProcessing, MarkFailed, MarkStuckFailed, HardDelete, BlankRow, Exists, Rows

\* Only the first statement of a run takes a failed row back to processing.
LEMMA TakenUp ==
  ASSUME TypeInv, [Next]_vars, NEW d \in Docs,
         documents[d].status = "failed", documents'[d].status = "processing"
  PROVE  \E v \in Workers : BeginRun(v) /\ Doc(v) = d
  <1>1. documents \in [Docs -> Rows]
    BY DEF TypeInv, TypeOK
  <1>2. \A e \in Docs : \A row : Writes(e, row) => e = d /\ row.status = "processing"
    BY <1>1 DEF Writes
  <1>3. ~\E e \in Docs : CreateUploadSession(e)
    BY CreateRow
  <1>4. documents[d] \in Rows
    BY <1>1
  <1>5. ASSUME NEW e \in Docs, SoftDeleteCommit(e)
        PROVE  FALSE
    <2>1. Writes(e, SoftDelete(documents[e]))
      BY <1>5 DEF SoftDeleteCommit, Writes
    <2> QED
      BY <1>2, <1>4, <2>1, FailedStatements
  <1>6. ASSUME NEW e \in Docs, Expire(e)
        PROVE  FALSE
    <2>1. Writes(e, [documents[e] EXCEPT !.expired = TRUE])
      BY <1>6 DEF Expire, Writes
    <2> QED
      BY <1>2, <1>4, <2>1 DEF Rows
  <1>7. ~SweepRow /\ ~\E e \in Docs : SweepMark(e)
    BY <1>2, <1>4, SweepWrites, FailedStatements
  <1>8. ASSUME NEW w \in Workers, ClaimHash(w) \/ MarkReady(w) \/ RemoveRow(w) \/ MarkDocFailed(w)
        PROVE  FALSE
    <2>1. UNCHANGED documents => FALSE
      OBVIOUS
    <2> QED
      BY <1>2, <1>4, <1>8, <2>1, RunWrites, FailedStatements
  <1>9. ASSUME NEW w \in Workers, BeginRun(w)
        PROVE  Doc(w) = d
    BY <1>2, <1>9, RunWrites
  <1> QED
    BY <1>3, <1>5, <1>6, <1>7, <1>8, <1>9, RowWriters

\* While a run of a document is in flight nobody else takes the document back
\* to processing, as long as Redis keeps the keys of the jobs: the guarded
\* UPDATE at the end of a run completes its own attempt or none.
THEOREM AttemptsStayApart == "evict" \notin Faults => (Spec => NoTakeover)
  <1> SUFFICES ASSUME "evict" \notin Faults PROVE Spec => NoTakeover
    OBVIOUS
  <1> DEFINE Step == \A d \in Docs :
                       documents[d].status = "failed" /\ documents'[d].status = "processing"
                       => ~\E w \in Workers : InFlight(w) /\ Doc(w) = d
  <1>1. RunsInv /\ [Next]_vars => RunsInv'
    BY RunsStep
  <1>2. ASSUME RunsInv, [Next]_vars
        PROVE  Step
    <2> SUFFICES ASSUME NEW d \in Docs, NEW w \in Workers,
                        documents[d].status = "failed", documents'[d].status = "processing",
                        InFlight(w), Doc(w) = d
                 PROVE  FALSE
      OBVIOUS
    <2>1. PICK v \in Workers : BeginRun(v) /\ Doc(v) = d
      BY <1>2, TakenUp DEF RunsInv, DedupInv
    <2>2. v = w
      BY <1>2, <2>1 DEF RunsInv, Exclusive, BeginRun, Running, InFlight, Doc
    <2> QED
      BY <2>1, <2>2 DEF BeginRun, Running, InFlight
  <1>3. RunsInv /\ [Next]_vars => [Step]_vars
    BY <1>2
  <1> QED
    BY RunsInit, <1>1, <1>3, PTL DEF Spec, NoTakeover

-----------------------------------------------------------------------------
(* The rows implement DocumentLifecycle. *)

\* The operators of the abstract specification are those of the table.
LEMMA SameTable ==
  /\ \A s : Lifecycle!BlankRow(s) = BlankRow(s)
  /\ \A r : Lifecycle!Exists(r) = Exists(r) /\ Lifecycle!Active(r) = Active(r)
  /\ \A t, d, c : Lifecycle!ActiveCopies(t, d, c) = ActiveCopies(t, d, c)
  BY DEF Lifecycle!BlankRow, BlankRow, Lifecycle!Exists, Exists, Lifecycle!Active, Active,
         Lifecycle!ActiveCopies, ActiveCopies

\* One abstract action per statement.
LEMMA AttemptMaps ==
  ASSUME TypeInv, NEW d \in Docs, Writes(d, StartProcessing(documents[d]))
  PROVE  UNCHANGED documents \/ Lifecycle!Attempt(d)
  <1>1. documents \in [Docs -> Rows]
    BY DEF TypeInv, TypeOK
  <1> QED
    BY <1>1, SameTable DEF Writes, StartProcessing, Lifecycle!Attempt, Rows

LEMMA ClaimMaps ==
  ASSUME TypeInv, NEW d \in Docs, NEW c \in Contents,
         Writes(d, SetContentHash(documents[d], c)),
         ~ViolatesUniqueHash(documents, d, c),
         Exists(documents[d]) => Working(documents[d])
  PROVE  UNCHANGED documents \/ Lifecycle!Claim(d, c)
  <1>1. documents \in [Docs -> Rows]
    BY DEF TypeInv, TypeOK
  <1>2. CASE ~Exists(documents[d])
    BY <1>1, <1>2 DEF Writes, SetContentHash
  <1>3. CASE Exists(documents[d])
    <2>1. documents[d].deleted \/ ActiveCopies(documents, d, c) = {}
      BY <1>3 DEF ViolatesUniqueHash, Active
    <2>2. PICK x \in BOOLEAN :
            SetContentHash(documents[d], c) = [documents[d] EXCEPT !.hash = c, !.expired = x]
      BY <1>1, <1>3 DEF SetContentHash, Touch, Rows
    <2>3. documents' = [documents EXCEPT ![d].hash = c, ![d].expired = x]
      BY <1>1, <2>2 DEF Writes, Rows
    <2> QED
      BY <1>3, <2>1, <2>3, SameTable DEF Working, Lifecycle!Claim
  <1> QED
    BY <1>2, <1>3

LEMMA CompleteMaps ==
  ASSUME TypeInv, NEW d \in Docs, Writes(d, MarkReadyIfProcessing(documents[d])),
         Exists(documents[d]) => documents[d].hash # NoContent
  PROVE  UNCHANGED documents \/ Lifecycle!Complete(d)
  <1>1. documents \in [Docs -> Rows]
    BY DEF TypeInv, TypeOK
  <1> QED
    BY <1>1 DEF Writes, MarkReadyIfProcessing, Lifecycle!Complete, Exists, Rows

LEMMA FailMaps ==
  ASSUME TypeInv, NEW d \in Docs,
         \/ /\ Writes(d, MarkFailed(documents[d]))
            /\ Exists(documents[d]) => Working(documents[d])
         \/ Writes(d, MarkStuckFailed(documents[d]))
  PROVE  UNCHANGED documents \/ Lifecycle!Fail(d)
  <1>1. documents \in [Docs -> Rows]
    BY DEF TypeInv, TypeOK
  <1> QED
    BY <1>1 DEF Writes, MarkFailed, MarkStuckFailed, Working, Lifecycle!Fail, Rows

LEMMA HideMaps ==
  ASSUME TypeInv, NEW d \in Docs, Writes(d, SoftDelete(documents[d]))
  PROVE  UNCHANGED documents \/ Lifecycle!Hide(d)
  <1>1. documents \in [Docs -> Rows]
    BY DEF TypeInv, TypeOK
  <1>2. CASE ~Active(documents[d])
    BY <1>1, <1>2 DEF Writes, SoftDelete
  <1>3. CASE Active(documents[d])
    <2>1. PICK x \in BOOLEAN :
            SoftDelete(documents[d]) = [documents[d] EXCEPT !.deleted = TRUE, !.expired = x]
      BY <1>1, <1>3 DEF SoftDelete, Touch, Rows
    <2>2. documents' = [documents EXCEPT ![d].deleted = TRUE, ![d].expired = x]
      BY <1>1, <2>1 DEF Writes, Rows
    <2> QED
      BY <1>3, <2>2, SameTable DEF Lifecycle!Hide
  <1> QED
    BY <1>2, <1>3

LEMMA RemoveMaps ==
  ASSUME TypeInv, NEW d \in Docs, Writes(d, HardDelete(documents[d]))
  PROVE  UNCHANGED documents \/ Lifecycle!Remove(d)
  <1>1. documents \in [Docs -> Rows]
    BY DEF TypeInv, TypeOK
  <1> QED
    BY <1>1, SameTable DEF Writes, HardDelete, Lifecycle!Remove

\* Under RunsInv every step is a step of the abstract specification or stutters.
LEMMA LifecycleStep ==
  ASSUME RunsInv, [Next]_vars
  PROVE  [Lifecycle!Next]_documents
  <1> USE DEF RunsInv, DedupInv
  <1>1. documents \in [Docs -> Rows]
    BY DEF TypeInv, TypeOK
  <1>2. ASSUME NEW d \in Docs,
               \/ Lifecycle!Reserve(d) \/ Lifecycle!Attempt(d) \/ Lifecycle!Complete(d)
               \/ Lifecycle!Fail(d) \/ Lifecycle!Hide(d) \/ Lifecycle!Remove(d)
               \/ Lifecycle!GrowOld(d)
               \/ \E c \in Contents : Lifecycle!Claim(d, c)
        PROVE  Lifecycle!Next
    BY <1>2 DEF Lifecycle!Next
  <1>3. ASSUME NEW d \in Docs, CreateUploadSession(d)
        PROVE  Lifecycle!Reserve(d)
    BY <1>1, <1>3, SameTable DEF CreateUploadSession, WriteRow, Create, Lifecycle!Reserve
  <1>4. ASSUME NEW d \in Docs, SoftDeleteCommit(d)
        PROVE  UNCHANGED documents \/ Lifecycle!Hide(d)
    <2>1. Writes(d, SoftDelete(documents[d]))
      BY <1>4 DEF SoftDeleteCommit, Writes
    <2> QED
      BY <2>1, HideMaps
  <1>5. ASSUME NEW d \in Docs, Expire(d)
        PROVE  Lifecycle!GrowOld(d)
    BY <1>5 DEF Expire, Lifecycle!GrowOld
  <1>6. ASSUME NEW d \in Docs, SweepMark(d)
        PROVE  UNCHANGED documents \/ Lifecycle!Fail(d)
    BY <1>6, SweepWrites, FailMaps
  <1>7. CASE SweepRow
    BY <1>2, <1>7, SweepWrites, RemoveMaps
  <1>8. ASSUME NEW w \in Workers, worker[w].pc \notin {"idle", "begin", "finish"},
               Exists(documents[Doc(w)])
        PROVE  Working(documents[Doc(w)])
    BY <1>8 DEF UnderRun, Working, Doc
  <1>9. ASSUME NEW w \in Workers, BeginRun(w)
        PROVE  [Lifecycle!Next]_documents
    BY <1>2, <1>9, RunWrites, AttemptMaps
  <1>10. ASSUME NEW w \in Workers, ClaimHash(w)
         PROVE  [Lifecycle!Next]_documents
    <2>1. Exists(documents[Doc(w)]) => Working(documents[Doc(w)])
      BY <1>8, <1>10 DEF ClaimHash, Running
    <2> QED
      BY <1>2, <1>10, <2>1, RunWrites, ClaimMaps
  <1>11. ASSUME NEW w \in Workers, MarkReady(w)
         PROVE  [Lifecycle!Next]_documents
    <2>1. Exists(documents[Doc(w)]) => documents[Doc(w)].hash # NoContent
      BY <1>11 DEF MarkReady, Running, Doc, Claimed
    <2> QED
      BY <1>2, <1>11, <2>1, RunWrites, CompleteMaps
  <1>12. ASSUME NEW w \in Workers, MarkDocFailed(w)
         PROVE  [Lifecycle!Next]_documents
    <2>1. Exists(documents[Doc(w)]) => Working(documents[Doc(w)])
      BY <1>8, <1>12 DEF MarkDocFailed, Running
    <2> QED
      BY <1>2, <1>12, <2>1, RunWrites, FailMaps
  <1>13. ASSUME NEW w \in Workers, RemoveRow(w)
         PROVE  [Lifecycle!Next]_documents
    BY <1>2, <1>13, RunWrites, RemoveMaps
  <1> QED
    BY <1>2, <1>3, <1>4, <1>5, <1>6, <1>7, <1>9, <1>10, <1>11, <1>12, <1>13, RowWriters

\* Whatever the API, the workers and the sweeper do concurrently and whatever
\* else fails, as long as Redis keeps the keys of the jobs, the rows go through
\* the life the owner of a document is promised.
THEOREM RowsImplementLifecycle == "evict" \notin Faults => (Spec => ImplementsLifecycle)
  <1> SUFFICES ASSUME "evict" \notin Faults PROVE Spec => ImplementsLifecycle
    OBVIOUS
  <1>1. RunsInv /\ [Next]_vars => RunsInv'
    BY RunsStep
  <1>2. Init => Lifecycle!Init
    BY SameTable DEF Init, Lifecycle!Init
  <1>3. RunsInv /\ [Next]_vars => [Lifecycle!Next]_documents
    BY LifecycleStep
  <1> QED
    BY RunsInit, <1>1, <1>2, <1>3, PTL DEF Spec, ImplementsLifecycle, Lifecycle!Spec

-----------------------------------------------------------------------------
(***************************************************************************)
(* The row, the object and the vectors of a document agree although no     *)
(* transaction spans the three stores: RetryableKeepsObject and            *)
(* ReadyIsComplete.                                                        *)
(*                                                                         *)
(* Both need more than what they say.  StoresInv: the object of a document *)
(* that is not about to disappear is what its hash was made from, a run    *)
(* that has downloaded it holds that content, and a run that deletes the   *)
(* object deletes that of a row without a hash.  CompleteInv: a run has    *)
(* stored what it does not have to store any more.                         *)
(***************************************************************************)

-----------------------------------------------------------------------------
(* What the proofs below need of a step. *)

\* Past its first statement a run was in flight before, on the same document.
LEMMA RunFlow ==
  ASSUME TypeInv, [Next]_vars, NEW w \in Workers, worker'[w].pc \notin {"idle", "begin"}
  PROVE  /\ worker[w].pc # "idle" /\ worker'[w].doc = worker[w].doc /\ worker[w].doc \in Docs
         /\ \/ worker'[w] = worker[w]
            \/ /\ RunStep(w) \/ IngestError(w)
               /\ <<worker[w].pc, worker'[w].pc>> \in Edges
               /\ worker'[w].content = worker[w].content \/ Download(w)
  <1>1. worker \in [Workers -> RunState]
    BY DEF TypeInv, TypeOK, RunState
  <1>2. worker[w].pc # "idle" /\ worker'[w].doc = worker[w].doc /\ worker[w].doc \in Docs
    BY RunFrom DEF Takes, TypeInv, Placed
  <1>3. ASSUME NEW u \in Workers, Stops(u)
        PROVE  worker'[w] = worker[w]
    BY <1>1, <1>3 DEF Stops, IdleRun
  <1>4. ASSUME NEW u \in Workers, NEW d \in Docs, Takes(u, d)
        PROVE  worker'[w] = worker[w]
    BY <1>4 DEF Takes
  <1>5. ASSUME NEW u \in Workers, RunStep(u) \/ IngestError(u), Advances(u)
        PROVE  \/ worker'[w] = worker[w]
               \/ /\ RunStep(w) \/ IngestError(w)
                  /\ <<worker[w].pc, worker'[w].pc>> \in Edges
                  /\ worker'[w].content = worker[w].content \/ Download(w)
    BY <1>5 DEF Advances
  <1> QED
    BY <1>2, <1>3, <1>4, <1>5, RunsMove

\* A run that knows its content downloaded the object as it was.
LEMMA Downloads ==
  ASSUME TypeInv, NEW w \in Workers, Download(w), worker'[w].pc = "probe"
  PROVE  /\ worker'[w].content = objects[Doc(w)]
         /\ objects[Doc(w)] \notin BadContents
         /\ UNCHANGED <<documents, objects, vectors>>
  <1>1. worker \in [Workers -> RunState]
    BY DEF TypeInv, TypeOK, RunState
  <1>2. ~Goto(w, "rollback") /\ ~Goto(w, "failPurge")
    BY <1>1 DEF Goto, RunState
  <1> QED
    BY <1>1, <1>2 DEF Download, storeVars, RunState

\* The run that acts on a document is its run.
LEMMA OwnRun ==
  ASSUME RunsInv, NEW v \in Workers, NEW w \in Workers,
         worker[v].pc # "idle", worker[w].pc # "idle", Doc(v) = Doc(w)
  PROVE  v = w
  BY DEF RunsInv, Exclusive, Doc

\* The steps that touch an object.
LEMMA ObjectWriters ==
  ASSUME [Next]_vars
  PROVE  \/ UNCHANGED objects
         \/ \E d \in Docs : SoftDeleteBlob(d) \/ \E c \in Contents : Put(d, c)
         \/ \E w \in Workers : PurgeBlob(w)
         \/ SweepBlob
  <1>1. ASSUME NEW d \in Docs, ApiStep(d) \/ EvictJob(d) \/ Expire(d)
        PROVE  UNCHANGED objects \/ SoftDeleteBlob(d) \/ \E c \in Contents : Put(d, c)
    BY <1>1
    DEF ApiStep, DeleteStep, CreateUploadSession, Finalize, Retry, EnqueueIngest, SoftDeleteBegin,
        SoftDeleteVectors, SoftDeleteCommit, EvictJob, Expire, storeVars
  <1>2. ASSUME NEW w \in Workers, \/ RunStep(w) \/ IngestError(w) \/ Timeout(w) \/ Interrupt(w)
                                  \/ \E d \in Docs : Start(w, d)
        PROVE  UNCHANGED objects \/ PurgeBlob(w)
    BY <1>2
    DEF RunStep, BeginRun, Download, ProbeDuplicate, ClaimHash, FilterExisting, UpsertBatch,
        MarkReady, Rollback, PurgeVectors, RemoveRow, FailPurge, MarkDocFailed, Finish,
        IngestError, Timeout, Interrupt, Start, storeVars
  <1>3. CASE SweepStep
    BY <1>3 DEF SweepStep, SweepList, SweepRow, SweepStuckVectors, SweepVectors, SweepMark, storeVars
  <1>4. CASE UNCHANGED vars \/ LateUpsert \/ ApiRestart
    BY <1>4 DEF vars, LateUpsert, ApiRestart, storeVars
  <1> QED
    BY <1>1, <1>2, <1>3, <1>4 DEF Next

\* The steps that take vectors away.
LEMMA VectorDeleters ==
  ASSUME [Next]_vars
  PROVE  \/ vectors \subseteq vectors'
         \/ \E d \in Docs : SoftDeleteVectors(d) \/ SweepVectors(d)
         \/ \E w \in Workers : PurgeVectors(w) \/ FailPurge(w)
         \/ SweepStuckVectors
  <1>1. ASSUME NEW d \in Docs, ApiStep(d) \/ EvictJob(d) \/ Expire(d)
        PROVE  UNCHANGED vectors \/ SoftDeleteVectors(d)
    BY <1>1
    DEF ApiStep, DeleteStep, CreateUploadSession, Finalize, Retry, EnqueueIngest, SoftDeleteBegin,
        SoftDeleteBlob, SoftDeleteCommit, Put, EvictJob, Expire, storeVars
  <1>2. ASSUME NEW w \in Workers, \/ RunStep(w) \/ IngestError(w) \/ Timeout(w) \/ Interrupt(w)
                                  \/ \E d \in Docs : Start(w, d)
        PROVE  vectors \subseteq vectors' \/ PurgeVectors(w) \/ FailPurge(w)
    BY <1>2
    DEF RunStep, BeginRun, Download, ProbeDuplicate, ClaimHash, FilterExisting, UpsertBatch,
        MarkReady, Rollback, PurgeBlob, RemoveRow, MarkDocFailed, Finish,
        IngestError, Timeout, Interrupt, Start, storeVars
  <1>3. CASE SweepStep
    BY <1>3 DEF SweepStep, SweepList, SweepRow, SweepBlob, SweepMark, storeVars
  <1>4. CASE UNCHANGED vars \/ LateUpsert \/ ApiRestart
    BY <1>4 DEF vars, LateUpsert, ApiRestart, storeVars
  <1> QED
    BY <1>1, <1>2, <1>3, <1>4 DEF Next

\* What happens to the request that deletes a document.
LEMMA Deleting ==
  ASSUME TypeInv, [Next]_vars, "api" \notin Faults, NEW d \in Docs
  PROVE  \/ deleting'[d] = deleting[d]
         \/ SoftDeleteBegin(d) /\ deleting[d] = "no" /\ deleting'[d] = "vectors"
         \/ SoftDeleteVectors(d) /\ deleting[d] = "vectors" /\ deleting'[d] = "blob"
         \/ SoftDeleteBlob(d) /\ deleting[d] = "blob" /\ deleting'[d] = "commit"
         \/ SoftDeleteCommit(d) /\ deleting[d] = "commit"
  <1>1. deleting \in [Docs -> {"no", "vectors", "blob", "commit"}]
    BY DEF TypeInv, TypeOK
  <1>2. ASSUME NEW e \in Docs, \/ SoftDeleteBegin(e) \/ SoftDeleteVectors(e)
                               \/ SoftDeleteBlob(e) \/ SoftDeleteCommit(e)
        PROVE  \/ deleting'[d] = deleting[d]
               \/ SoftDeleteBegin(d) /\ deleting[d] = "no" /\ deleting'[d] = "vectors"
               \/ SoftDeleteVectors(d) /\ deleting[d] = "vectors" /\ deleting'[d] = "blob"
               \/ SoftDeleteBlob(d) /\ deleting[d] = "blob" /\ deleting'[d] = "commit"
               \/ SoftDeleteCommit(d) /\ deleting[d] = "commit"
    <2>1. CASE e # d
      BY <1>1, <1>2, <2>1
      DEF SoftDeleteBegin, SoftDeleteVectors, SoftDeleteBlob, SoftDeleteCommit, Unlocked
    <2>2. CASE e = d
      BY <1>1, <1>2, <2>2
      DEF SoftDeleteBegin, SoftDeleteVectors, SoftDeleteBlob, SoftDeleteCommit, Unlocked
    <2> QED
      BY <2>1, <2>2
  <1>3. ASSUME NEW e \in Docs, ApiStep(e) \/ EvictJob(e) \/ Expire(e)
        PROVE  \/ UNCHANGED deleting
               \/ SoftDeleteBegin(e) \/ SoftDeleteVectors(e) \/ SoftDeleteBlob(e)
               \/ SoftDeleteCommit(e)
    BY <1>3
    DEF ApiStep, DeleteStep, CreateUploadSession, Finalize, Retry, EnqueueIngest, Put, EvictJob,
        Expire, apiVars
  <1>4. ASSUME NEW w \in Workers, \/ RunStep(w) \/ IngestError(w) \/ Timeout(w) \/ Interrupt(w)
                                  \/ \E e \in Docs : Start(w, e)
        PROVE  UNCHANGED deleting
    BY <1>4
    DEF RunStep, BeginRun, Download, ProbeDuplicate, ClaimHash, FilterExisting, UpsertBatch,
        MarkReady, Rollback, PurgeVectors, PurgeBlob, RemoveRow, FailPurge, MarkDocFailed, Finish,
        IngestError, Timeout, Interrupt, Start, apiVars
  <1>5. CASE SweepStep
    BY <1>5
    DEF SweepStep, SweepList, SweepRow, SweepBlob, SweepStuckVectors, SweepVectors, SweepMark,
        apiVars
  <1>6. CASE UNCHANGED vars \/ LateUpsert \/ ApiRestart
    BY <1>6 DEF vars, LateUpsert, ApiRestart, apiVars
  <1> QED
    BY <1>2, <1>3, <1>4, <1>5, <1>6 DEF Next

\* Nobody but the sweeper moves its task.
LEMMA SweepMoves ==
  ASSUME [Next]_vars
  PROVE  UNCHANGED sweep \/ SweepStep \/ ApiRestart
  <1>1. ASSUME NEW d \in Docs, ApiStep(d) \/ EvictJob(d) \/ Expire(d)
        PROVE  UNCHANGED sweep
    BY <1>1
    DEF ApiStep, DeleteStep, CreateUploadSession, Finalize, Retry, EnqueueIngest, Put,
        SoftDeleteBegin, SoftDeleteVectors, SoftDeleteBlob, SoftDeleteCommit, EvictJob, Expire
  <1>2. ASSUME NEW w \in Workers, \/ RunStep(w) \/ IngestError(w) \/ Timeout(w) \/ Interrupt(w)
                                  \/ \E d \in Docs : Start(w, d)
        PROVE  UNCHANGED sweep
    BY <1>2
    DEF RunStep, BeginRun, Download, ProbeDuplicate, ClaimHash, FilterExisting, UpsertBatch,
        MarkReady, Rollback, PurgeVectors, PurgeBlob, RemoveRow, FailPurge, MarkDocFailed,
        Finish, IngestError, Timeout, Interrupt, Start
  <1>3. UNCHANGED vars \/ LateUpsert => UNCHANGED sweep
    BY DEF vars, LateUpsert
  <1> QED
    BY <1>1, <1>2, <1>3 DEF Next

\* A row that is inserted has no hash.
LEMMA NewRow ==
  ASSUME TypeInv, [Next]_vars, NEW d \in Docs, documents[d].status = "absent", Exists(documents'[d])
  PROVE  documents'[d].hash = NoContent
  <1>1. ~Exists(documents[d])
    BY DEF Exists
  <1>2. documents'[d] # documents[d]
    BY <1>1
  <1> QED
    BY <1>1, <1>2, RowMoves, CreateRow, ClaimRow, ReadyRow DEF Plain, Quiet

\* A visible row was visible before, unless it is new, and unless a run claims
\* it for its content its hash is what it was.
LEMMA VisibleBefore ==
  ASSUME TypeInv, [Next]_vars, NEW d \in Docs, documents[d].status # "absent"
  PROVE  /\ Exists(documents'[d]) => Exists(documents[d])
         /\ Active(documents'[d]) => Active(documents[d])
         /\ Exists(documents'[d]) =>
              \/ documents'[d].hash = documents[d].hash
              \/ \E w \in Workers :
                   /\ ClaimHash(w) /\ Doc(w) = d /\ documents'[d].hash = Content(w)
                   /\ worker'[w].pc = "filter"
  <1>1. documents \in [Docs -> Rows] /\ worker \in [Workers -> RunState]
    BY DEF TypeInv, TypeOK, RunState
  <1>2. documents'[d] \in Rows
    BY TypeStep DEF TypeInv, TypeOK
  <1>3. CASE Quiet(documents[d], documents'[d])
    BY <1>1, <1>2, <1>3 DEF Quiet, Active, Rows
  <1>4. CASE documents'[d] = documents[d]
    BY <1>4
  <1>5. ASSUME NEW w \in Workers, ClaimHash(w), Doc(w) = d, documents'[d] # documents[d]
        PROVE  /\ Exists(documents[d]) /\ documents'[d].hash = Content(w)
               /\ documents'[d].status = documents[d].status
               /\ documents'[d].deleted = documents[d].deleted
               /\ worker'[w].pc = "filter"
    <2>1. Goto(w, "filter")
      BY <1>5 DEF ClaimHash
    <2> QED
      BY <1>1, <1>5, <2>1, ClaimRow DEF Goto, RunState
  <1> QED
    BY <1>3, <1>4, <1>5, RowMoves, CreateRow, ClaimRow, ReadyRow DEF Plain, Active

-----------------------------------------------------------------------------
(* The object under a row with a hash. *)

\* Somebody has deleted, or is free to delete, the object, and will not rest
\* before the row is hidden or gone.
Doomed(d) == deleting[d] = "commit" \/ (sweep.doc = d /\ sweep.step = "row")

Kept(d) == Active(documents[d]) /\ ~Doomed(d)

\* A hash was made from the object that is there.
HashStored ==
  \A d \in Docs :
    Kept(d) /\ documents[d].hash # NoContent => objects[d] = documents[d].hash

\* So was the content of a run that has not claimed it yet.
RunStored ==
  \A w \in Workers :
    worker[w].pc \in {"probe", "claim"} /\ Kept(Doc(w)) => objects[Doc(w)] = Content(w)

\* The MIME check comes before the hash.
Sniffed ==
  /\ \A w \in Workers : worker[w].pc \in {"probe", "claim"} => Content(w) \notin BadContents
  /\ \A d \in Docs : Exists(documents[d]) => documents[d].hash \notin BadContents

\* The cascade of a run deletes the object of a row that was never claimed.
PurgeUnclaimed ==
  \A w \in Workers :
    /\ worker[w].pc \in {"rollback", "purgeVectors", "purgeBlob", "hardDelete"}
    /\ Kept(Doc(w))
    => documents[Doc(w)].hash = NoContent

StoresInv == RunsInv /\ HashStored /\ RunStored /\ Sniffed /\ PurgeUnclaimed

LEMMA StoresInit == Init => StoresInv
  <1> SUFFICES ASSUME Init PROVE StoresInv
    OBVIOUS
  <1>1. \A w \in Workers : worker[w].pc = "idle"
    BY DEF Init, IdleRun
  <1>2. \A d \in Docs : documents[d].status = "absent"
    BY DEF Init, BlankRow
  <1> QED
    BY <1>1, <1>2, RunsInit
    DEF StoresInv, HashStored, RunStored, Sniffed, PurgeUnclaimed, Kept, Active, Exists

LEMMA CommitHides ==
  ASSUME TypeInv, NEW d \in Docs, SoftDeleteCommit(d)
  PROVE  ~Active(documents'[d])
  <1>1. documents \in [Docs -> Rows]
    BY DEF TypeInv, TypeOK
  <1>2. documents'[d] = SoftDelete(documents[d])
    BY <1>1 DEF SoftDeleteCommit
  <1>3. \A r \in Rows : Touch(r).deleted = r.deleted
    BY DEF Touch, Rows
  <1>4. [documents[d] EXCEPT !.deleted = TRUE] \in Rows
    BY <1>1 DEF Rows
  <1>5. Active(documents[d]) => documents'[d].deleted
    BY <1>1, <1>2, <1>3, <1>4 DEF SoftDelete, Rows
  <1> QED
    BY <1>1, <1>2, <1>5 DEF Active, SoftDelete

\* Doom does not pass, so a row that is kept was kept before.
LEMMA KeptBefore ==
  ASSUME TypeInv, [Next]_vars, "api" \notin Faults,
         NEW d \in Docs, documents[d].status # "absent", Kept(d)'
  PROVE  Kept(d)
  <1>1. documents \in [Docs -> Rows] /\ Active(documents[d]) /\ Active(documents'[d])
    BY VisibleBefore DEF Kept, TypeInv, TypeOK
  <1>2. CASE deleting[d] = "commit"
    <2>1. SoftDeleteCommit(d)
      BY <1>2, Deleting DEF Kept, Doomed
    <2> QED
      BY <1>1, <2>1, CommitHides
  <1>3. CASE sweep.doc = d /\ sweep.step = "row"
    <2>1. CASE UNCHANGED sweep
      BY <1>3, <2>1 DEF Kept, Doomed
    <2>2. CASE SweepRow
      BY <1>1, <1>3, <2>2, SweepWrites DEF Writes, HardDelete, BlankRow, Active, Exists
    <2>3. CASE SweepStep
      BY <1>3, <2>2, <2>3
      DEF SweepStep, SweepList, SweepBlob, SweepStuckVectors, SweepVectors, SweepMark
    <2> QED
      BY <2>1, <2>3, SweepMoves DEF ApiRestart
  <1> QED
    BY <1>1, <1>2, <1>3 DEF Kept, Doomed

\* The object of a row that stays kept is there until its run purges it.
LEMMA ObjectStays ==
  ASSUME TypeInv, [Next]_vars, "api" \notin Faults, NEW d \in Docs, Kept(d)'
  PROVE  \/ objects'[d] = objects[d]
         \/ documents[d].status = "pending" /\ objects[d] = NoContent /\ UNCHANGED worker
         \/ \E w \in Workers : PurgeBlob(w) /\ Doc(w) = d
  <1>1. /\ objects \in [Docs -> Contents \cup {NoContent}]
        /\ deleting \in [Docs -> {"no", "vectors", "blob", "commit"}]
        /\ sweep \in SweepState
    BY DEF TypeInv, TypeOK, SweepState
  <1>2. ASSUME NEW e \in Docs, SoftDeleteBlob(e)
        PROVE  objects'[d] = objects[d]
    BY <1>1, <1>2 DEF SoftDeleteBlob, TryDeleteObject, Kept, Doomed
  <1>3. ASSUME SweepBlob
        PROVE  objects'[d] = objects[d]
    BY <1>1, <1>3 DEF SweepBlob, TryDeleteObject, Kept, Doomed, SweepState
  <1>4. ASSUME NEW e \in Docs, NEW c \in Contents, Put(e, c)
        PROVE  \/ objects'[d] = objects[d]
               \/ documents[d].status = "pending" /\ objects[d] = NoContent /\ UNCHANGED worker
    BY <1>1, <1>4 DEF Put
  <1>5. ASSUME NEW w \in Workers, PurgeBlob(w)
        PROVE  objects'[d] = objects[d] \/ Doc(w) = d
    BY <1>1, <1>5 DEF PurgeBlob, TryDeleteObject
  <1> QED
    BY <1>2, <1>3, <1>4, <1>5, ObjectWriters

LEMMA HashStoredStep ==
  ASSUME StoresInv, [Next]_vars, "api" \notin Faults
  PROVE  HashStored'
  <1> USE DEF StoresInv, RunsInv, DedupInv
  <1> SUFFICES ASSUME NEW d \in Docs, Kept(d)', documents'[d].hash # NoContent
               PROVE  objects'[d] = documents'[d].hash
    BY DEF HashStored
  <1>1. Exists(documents'[d])
    BY DEF Kept, Active
  <1>2. documents[d].status # "absent"
    BY <1>1, NewRow
  <1>3. Kept(d)
    BY <1>2, KeptBefore
  <1>4. CASE documents'[d].hash = documents[d].hash
    <2>1. objects[d] = documents[d].hash
      BY <1>3, <1>4 DEF HashStored
    <2>2. ASSUME NEW w \in Workers, PurgeBlob(w), Doc(w) = d
          PROVE  FALSE
      BY <1>3, <1>4, <2>2 DEF PurgeBlob, Running, PurgeUnclaimed
    <2> QED
      BY <1>4, <2>1, <2>2, ObjectStays
  <1>5. ASSUME NEW w \in Workers, ClaimHash(w), Doc(w) = d, documents'[d].hash = Content(w)
        PROVE  objects'[d] = documents'[d].hash
    BY <1>3, <1>5 DEF ClaimHash, Running, RunStored, storeVars
  <1> QED
    BY <1>1, <1>2, <1>4, <1>5, VisibleBefore

LEMMA RunStoredStep ==
  ASSUME StoresInv, [Next]_vars, "api" \notin Faults, "evict" \notin Faults
  PROVE  RunStored'
  <1> USE DEF StoresInv, RunsInv, DedupInv
  <1> SUFFICES ASSUME NEW w \in Workers, NEW d \in Docs, worker'[w].doc = d,
                      worker'[w].pc \in {"probe", "claim"}, Kept(d)'
               PROVE  objects'[d] = worker'[w].content
    BY TypeStep DEF RunStored, Kept, Doomed, Doc, Content, TypeInv, Placed
  <1>1. /\ worker[w].doc = d /\ worker[w].pc # "idle" /\ d = Doc(w)
        /\ documents[d].status # "absent"
    BY RunFlow DEF Known, Doc
  <1>2. Kept(d)
    BY <1>1, KeptBefore
  <1>3. ASSUME NEW v \in Workers, PurgeBlob(v), Doc(v) = d
        PROVE  FALSE
    <2>1. v = w
      BY <1>1, <1>3, OwnRun DEF PurgeBlob, Running
    <2>2. Advances(v)
      BY <1>3, RunAdvances DEF RunStep
    <2> QED
      BY <1>3, <2>1, <2>2 DEF Advances, PurgeBlob, Running, Edges
  <1>4. CASE worker'[w] = worker[w]
    <2>1. objects[d] = worker[w].content /\ worker[w].content \in Contents
      BY <1>1, <1>2, <1>4 DEF RunStored, Content, TypeInv, Downloaded
    <2> QED
      BY <1>1, <1>3, <1>4, <2>1, ObjectStays
  <1>5. CASE /\ RunStep(w) \/ IngestError(w)
             /\ <<worker[w].pc, worker'[w].pc>> \in Edges
             /\ worker'[w].content = worker[w].content \/ Download(w)
    <2>1. CASE Download(w) /\ worker'[w].pc = "probe"
      BY <1>1, <2>1, Downloads
    <2>2. CASE worker[w].pc = "probe" /\ worker'[w].pc = "claim"
      <3>1. ProbeDuplicate(w)
        BY <1>5, <2>2
        DEF RunStep, BeginRun, Download, ClaimHash, FilterExisting, UpsertBatch, MarkReady,
            Rollback, PurgeVectors, PurgeBlob, RemoveRow, FailPurge, MarkDocFailed, Finish,
            IngestError, Running
      <3> QED
        BY <1>1, <1>2, <1>5, <2>2, <3>1
        DEF ProbeDuplicate, RunStored, Content, Download, Running, storeVars
    <2>3. worker[w].pc = "download" => Download(w)
      BY <1>5
      DEF RunStep, BeginRun, ProbeDuplicate, ClaimHash, FilterExisting, UpsertBatch, MarkReady,
          Rollback, PurgeVectors, PurgeBlob, RemoveRow, FailPurge, MarkDocFailed, Finish,
          IngestError, Running
    <2> QED
      BY <1>5, <2>1, <2>2, <2>3 DEF Edges
  <1> QED
    BY <1>4, <1>5, RunFlow

LEMMA SniffedStep ==
  ASSUME StoresInv, [Next]_vars
  PROVE  Sniffed'
  <1> USE DEF StoresInv, RunsInv, DedupInv
  <1>1. ASSUME NEW w \in Workers, worker'[w].pc \in {"probe", "claim"}
        PROVE  worker'[w].content \notin BadContents
    <2>1. CASE worker'[w] = worker[w]
      BY <1>1, <2>1 DEF Sniffed, Content
    <2>2. CASE Download(w)
      <3>1. worker'[w].pc = "probe"
        BY <1>1, <2>2, RunFlow DEF Download, Running, Edges
      <3> QED
        BY <2>2, <3>1, Downloads
    <2>3. CASE worker[w].pc = "probe" /\ worker'[w].content = worker[w].content
      BY <2>3 DEF Sniffed, Content
    <2>4. /\ worker[w].pc = "download" /\ (RunStep(w) \/ IngestError(w)) => Download(w)
      BY DEF RunStep, BeginRun, ProbeDuplicate, ClaimHash, FilterExisting, UpsertBatch, MarkReady,
             Rollback, PurgeVectors, PurgeBlob, RemoveRow, FailPurge, MarkDocFailed, Finish,
             IngestError, Running
    <2> QED
      BY <1>1, <2>1, <2>2, <2>3, <2>4, RunFlow DEF Edges
  <1>2. ASSUME NEW d \in Docs, Exists(documents'[d])
        PROVE  documents'[d].hash \notin BadContents
    <2>1. CASE documents[d].status = "absent"
      BY <1>2, <2>1, NewRow
    <2>2. CASE documents[d].status # "absent"
      <3>1. ASSUME NEW w \in Workers, ClaimHash(w)
            PROVE  Content(w) \notin BadContents
        BY <3>1 DEF ClaimHash, Running, Sniffed
      <3> QED
        BY <1>2, <2>2, <3>1, VisibleBefore DEF Sniffed
    <2> QED
      BY <2>1, <2>2
  <1> QED
    BY <1>1, <1>2 DEF Sniffed, Content

LEMMA PurgeUnclaimedStep ==
  ASSUME StoresInv, [Next]_vars, "api" \notin Faults
  PROVE  PurgeUnclaimed'
  <1> USE DEF StoresInv, RunsInv, DedupInv
  <1> DEFINE Purging == {"rollback", "purgeVectors", "purgeBlob", "hardDelete"}
  <1> SUFFICES ASSUME NEW w \in Workers, NEW d \in Docs, worker'[w].doc = d,
                      worker'[w].pc \in Purging, Kept(d)', documents'[d].hash # NoContent
               PROVE  FALSE
    BY TypeStep DEF PurgeUnclaimed, Kept, Doomed, Doc, TypeInv, Placed
  <1>1. /\ worker[w].doc = d /\ worker[w].pc # "idle" /\ d = Doc(w)
        /\ documents[d].status # "absent"
    BY RunFlow DEF Known, Doc
  <1>2. Kept(d) /\ Exists(documents'[d])
    BY <1>1, KeptBefore DEF Kept, Active
  <1>3. documents'[d].hash = documents[d].hash
    <2>1. ASSUME NEW v \in Workers, ClaimHash(v), Doc(v) = d, worker'[v].pc = "filter"
          PROVE  FALSE
      BY <1>1, <2>1, OwnRun DEF ClaimHash, Running
    <2> QED
      BY <1>1, <1>2, <2>1, VisibleBefore
  <1>4. worker[w].pc \notin Purging
    BY <1>1, <1>2, <1>3 DEF PurgeUnclaimed
  <1>5. objects[d] = documents[d].hash /\ documents[d].hash \notin BadContents
    BY <1>2, <1>3 DEF HashStored, Sniffed, Kept, Active
  <1>6. CASE worker[w].pc = "download" /\ worker'[w].pc = "rollback"
    <2>1. Download(w)
      BY <1>4, <1>6, RunFlow
      DEF RunStep, BeginRun, ProbeDuplicate, ClaimHash, FilterExisting, UpsertBatch, MarkReady,
          Rollback, PurgeVectors, PurgeBlob, RemoveRow, FailPurge, MarkDocFailed, Finish,
          IngestError, Running
    <2>2. worker \in [Workers -> RunState]
      BY DEF TypeInv, TypeOK, RunState
    <2>3. ~Goto(w, "failPurge")
      BY <1>6, <2>2 DEF Goto, RunState
    <2>4. worker'[w].pc # "probe"
      BY <1>6
    <2>5. objects[d] \in BadContents
      BY <1>1, <2>1, <2>2, <2>3, <2>4 DEF Download, RunState
    <2> QED
      BY <1>5, <2>5
  <1>7. CASE worker[w].pc = "probe" /\ worker'[w].pc = "purgeVectors"
    <2>1. ProbeDuplicate(w)
      BY <1>4, <1>7, RunFlow
      DEF RunStep, BeginRun, Download, ClaimHash, FilterExisting, UpsertBatch, MarkReady,
          Rollback, PurgeVectors, PurgeBlob, RemoveRow, FailPurge, MarkDocFailed, Finish,
          IngestError, Running
    <2>2. worker \in [Workers -> RunState]
      BY DEF TypeInv, TypeOK, RunState
    <2>3. ActiveCopies(documents, d, Content(w)) # {}
      BY <1>1, <1>7, <2>1, <2>2 DEF ProbeDuplicate, Goto, RunState
    <2>4. Content(w) = documents[d].hash
      BY <1>1, <1>2, <1>5, <1>7 DEF RunStored
    <2> QED
      BY <1>2, <1>3, <2>3, <2>4 DEF ActiveCopies, UniqueHash, Kept
  <1> QED
    BY <1>4, <1>6, <1>7, RunFlow DEF Edges

LEMMA StoresStep ==
  "evict" \notin Faults /\ "api" \notin Faults /\ StoresInv /\ [Next]_vars => StoresInv'
  BY RunsStep, HashStoredStep, RunStoredStep, SniffedStep, PurgeUnclaimedStep DEF StoresInv

\* A document that failed after its hash was taken still has that content in
\* MinIO, whatever runs, sweeper passes, uploads of the same file and deletes
\* went over it, so that POST /retry has something to ingest.
THEOREM RetryFindsObject == "evict" \notin Faults => (Spec => []RetryableKeepsObject)
  <1> SUFFICES ASSUME "evict" \notin Faults PROVE Spec => []RetryableKeepsObject
    OBVIOUS
  <1>1. CASE "api" \in Faults
    <2>1. TRUE => RetryableKeepsObject
      BY <1>1 DEF RetryableKeepsObject
    <2> QED
      BY <2>1, PTL
  <1>2. CASE "api" \notin Faults
    <2>1. StoresInv /\ [Next]_vars => StoresInv'
      BY <1>2, StoresStep
    <2>2. StoresInv => RetryableKeepsObject
      BY DEF StoresInv, HashStored, Kept, Doomed, RetryableKeepsObject
    <2> QED
      BY StoresInit, <2>1, <2>2, PTL DEF Spec
  <1> QED
    BY <1>1, <1>2

-----------------------------------------------------------------------------
(* The vectors under a ready row. *)

\* The file every upload of a document brings, and that no two documents'
\* files have a chunk in common.
Disjoint(File) ==
  /\ File \in [Docs -> Contents]
  /\ \A d, e \in Docs : d # e => ChunksOf[File[d]] \cap ChunksOf[File[e]] = {}

UploadsOf(File) == \A d \in Docs : objects[d] \in {NoContent, File[d]}

\* Nothing is ever due for the sweeper.
NothingDue ==
  /\ \A d \in Docs : ~documents[d].expired
  /\ sweep.todo = {} /\ sweep.step = "next"

\* What a document is known by is its file, and what is stored under it, or
\* may still arrive, are chunks of that file.
OwnChunks(File) ==
  /\ \A w \in Workers :
       worker[w].pc \in {"probe", "claim", "filter", "upsert", "ready"}
       => worker[w].content = File[worker[w].doc]
  /\ \A d \in Docs : Exists(documents[d]) => documents[d].hash \in {NoContent, File[d]}
  /\ \A w \in Workers :
       worker[w].pc = "upsert" => worker[w].todo \subseteq ChunksOf[File[worker[w].doc]]
  /\ \A v \in vectors \cup late : v[2] \in ChunksOf[File[v[1]]]

\* A document whose vectors nobody has asked to delete.
Shown(d) == Active(documents[d]) /\ deleting[d] \in {"no", "vectors"}

Holds(d, S) == \A c \in S : <<d, c>> \in vectors

\* A run has stored what it does not have to store any more ...
RunHolds(File) ==
  \A w \in Workers :
    Shown(Doc(w)) =>
      /\ worker[w].pc = "upsert" => Holds(Doc(w), ChunksOf[File[Doc(w)]] \ worker[w].todo)
      /\ worker[w].pc = "ready" => Holds(Doc(w), ChunksOf[File[Doc(w)]])

\* ... and a ready document is complete.
ReadyHolds(File) ==
  \A d \in Docs : Shown(d) /\ documents[d].status = "ready" => Holds(d, ChunksOf[File[d]])

CompleteInv(File) == RunsInv /\ NothingDue /\ OwnChunks(File) /\ RunHolds(File) /\ ReadyHolds(File)

LEMMA CompleteInit ==
  ASSUME NEW File, Init
  PROVE  CompleteInv(File)
  <1>1. \A w \in Workers : worker[w].pc = "idle"
    BY DEF Init, IdleRun
  <1>2. \A d \in Docs : documents[d].status = "absent" /\ ~documents[d].expired
    BY DEF Init, BlankRow
  <1>3. NothingDue
    BY <1>2 DEF Init, NothingDue, IdleSweep
  <1>4. OwnChunks(File)
    BY <1>1, <1>2 DEF Init, OwnChunks, Exists
  <1> QED
    BY <1>1, <1>2, <1>3, <1>4, RunsInit DEF CompleteInv, RunHolds, ReadyHolds

\* No statement makes a row old.
LEMMA FreshStatements ==
  ASSUME NEW row \in Rows, ~row.expired
  PROVE  /\ ~Create(row).expired
         /\ ~StartProcessing(row).expired
         /\ ~MarkReadyIfProcessing(row).expired
         /\ ~MarkFailed(row).expired
         /\ ~MarkStuckFailed(row).expired
         /\ ~SoftDelete(row).expired
         /\ \A c \in Contents : ~SetContentHash(row, c).expired
         /\ ~HardDelete(row).expired
  <1>1. \A r \in Rows : ~r.expired => ~Touch(r).expired
    BY DEF Touch, Rows
  <1>2. [row EXCEPT !.deleted = TRUE] \in Rows /\ ~[row EXCEPT !.deleted = TRUE].expired
    BY DEF Rows
  <1>3. \A c \in Contents : [row EXCEPT !.hash = c] \in Rows /\ ~[row EXCEPT !.hash = c].expired
    BY DEF Rows
  <1>4. ~SoftDelete(row).expired
    BY <1>1, <1>2 DEF SoftDelete
  <1>5. \A c \in Contents : ~SetContentHash(row, c).expired
    BY <1>1, <1>3 DEF SetContentHash
  <1> QED
    BY <1>4, <1>5
    DEF Create, BlankRow, StartProcessing, MarkReadyIfProcessing, MarkFailed, MarkStuckFailed,
        HardDelete, Rows

LEMMA NothingDueStep ==
  ASSUME TypeInv, NothingDue, [Next]_vars, Expirable = {}
  PROVE  NothingDue'
  <1>1. documents \in [Docs -> Rows] /\ sweep \in SweepState
    BY DEF TypeInv, TypeOK, SweepState
  <1>2. \A d \in Docs : ~documents'[d].expired
    <2> DEFINE Goal == \A d \in Docs : ~documents'[d].expired
    <2>1. CASE UNCHANGED documents
      BY <2>1 DEF NothingDue
    <2>2. ASSUME NEW d \in Docs, NEW row, Writes(d, row), ~row.expired
          PROVE  Goal
      BY <1>1, <2>2 DEF Writes, NothingDue
    <2>3. \A d \in Docs : documents[d] \in Rows /\ ~documents[d].expired
      BY <1>1 DEF NothingDue
    <2>4. ASSUME NEW d \in Docs, CreateUploadSession(d)
          PROVE  Goal
      BY <2>2, <2>3, <2>4, FreshStatements DEF CreateUploadSession, WriteRow, Writes
    <2>5. ASSUME NEW d \in Docs, SoftDeleteCommit(d)
          PROVE  Goal
      BY <2>2, <2>3, <2>5, FreshStatements DEF SoftDeleteCommit, Writes
    <2>6. ASSUME NEW d \in Docs, SweepMark(d)
          PROVE  Goal
      BY <2>2, <2>3, <2>6, FreshStatements, SweepWrites
    <2>7. CASE SweepRow
      BY <2>2, <2>3, <2>7, FreshStatements, SweepWrites
    <2>8. ASSUME NEW w \in Workers,
                 BeginRun(w) \/ ClaimHash(w) \/ MarkReady(w) \/ RemoveRow(w) \/ MarkDocFailed(w)
          PROVE  Goal
      BY <2>1, <2>2, <2>3, <2>8, FreshStatements, RunWrites
    <2>9. \A d \in Docs : ~Expire(d)
      BY DEF Expire
    <2> QED
      BY <2>1, <2>4, <2>5, <2>6, <2>7, <2>8, <2>9, RowWriters
  <1>3. sweep'.todo = {} /\ sweep'.step = "next"
    <2>1. CASE UNCHANGED sweep
      BY <2>1 DEF NothingDue
    <2>2. CASE SweepStep
      <3>1. SweepList
        BY <2>2 DEF SweepStep, NothingDue, SweepBlob, SweepRow, SweepStuckVectors, SweepVectors,
                    SweepMark
      <3>2. ListStaleByStatus(documents, NextPass[sweep.pass]) = {}
        BY DEF ListStaleByStatus, NothingDue
      <3> QED
        BY <1>1, <3>1, <3>2 DEF SweepList, SweepState, NothingDue
    <2>3. CASE ApiRestart
      BY <2>3 DEF ApiRestart, IdleSweep
    <2> QED
      BY <2>1, <2>2, <2>3, SweepMoves
  <1> QED
    BY <1>2, <1>3 DEF NothingDue

\* How a run gets to storing, and to the end of it.
LEMMA UpsertFlow ==
  ASSUME TypeInv, [Next]_vars, NEW w \in Workers, worker'[w].pc \in {"upsert", "ready"}
  PROVE  worker'[w] = worker[w] \/ FilterExisting(w) \/ UpsertBatch(w)
  <1>1. CASE worker'[w] = worker[w]
    BY <1>1
  <1>2. CASE worker'[w] # worker[w]
    <2>1. worker[w].pc \in {"filter", "upsert"} /\ (RunStep(w) \/ IngestError(w))
      BY <1>2, RunFlow DEF Edges
    <2>2. ASSUME IngestError(w)
          PROVE  FALSE
      <3>1. worker \in [Workers -> RunState]
        BY DEF TypeInv, TypeOK, RunState
      <3>2. PICK step \in {"filter", "failPurge"} :
              worker' = [worker EXCEPT ![w].pc = step, ![w].todo = {}]
        BY <2>2 DEF IngestError
      <3> QED
        BY <3>1, <3>2 DEF RunState
    <2> QED
      BY <2>1, <2>2
      DEF RunStep, BeginRun, Download, ProbeDuplicate, ClaimHash, MarkReady, Rollback,
          PurgeVectors, PurgeBlob, RemoveRow, FailPurge, MarkDocFailed, Finish, Running
  <1> QED
    BY <1>1, <1>2

\* What a run has left to store after the two.
LEMMA FilterLeaves ==
  ASSUME TypeInv, NEW w \in Workers, FilterExisting(w)
  PROVE  /\ worker[w].pc = "filter"
         /\ UNCHANGED <<documents, vectors, late, deleting>>
         /\ \E new : /\ new \subseteq ChunksOf[Content(w)]
                     /\ \A c \in ChunksOf[Content(w)] \ new : Stored(c)
                     /\ worker'[w].todo = new
                     /\ worker'[w].pc = IF new = {} THEN "ready" ELSE "upsert"
  <1>1. worker \in [Workers -> RunState]
    BY DEF TypeInv, TypeOK, RunState
  <1>2. PICK new : /\ \/ new = {c \in ChunksOf[Content(w)] : ~Stored(c)}
                      \/ new = ChunksOf[Content(w)]
                   /\ worker' = [worker EXCEPT ![w].todo = new,
                                               ![w].pc = IF new = {} THEN "ready" ELSE "upsert"]
    BY DEF FilterExisting
  <1>3. new \subseteq ChunksOf[Content(w)] /\ \A c \in ChunksOf[Content(w)] \ new : Stored(c)
    BY <1>2
  <1>4. worker'[w].todo = new /\ worker'[w].pc = IF new = {} THEN "ready" ELSE "upsert"
    BY <1>1, <1>2 DEF RunState
  <1> QED
    BY <1>3, <1>4 DEF FilterExisting, Running, storeVars, apiVars

LEMMA UpsertLeaves ==
  ASSUME TypeInv, NEW w \in Workers, UpsertBatch(w)
  PROVE  /\ worker[w].pc = "upsert"
         /\ UNCHANGED <<documents, late, deleting>>
         /\ \E c \in worker[w].todo :
              /\ vectors' = vectors \cup {<<worker[w].doc, c>>}
              /\ worker'[w].todo = worker[w].todo \ {c}
              /\ worker'[w].pc = IF worker[w].todo = {c} THEN "ready" ELSE "upsert"
  <1>1. worker \in [Workers -> RunState]
    BY DEF TypeInv, TypeOK, RunState
  <1>2. PICK c \in worker[w].todo :
          /\ vectors' = vectors \cup {<<worker[w].doc, c>>}
          /\ worker' = [worker EXCEPT ![w].todo = @ \ {c},
                                      ![w].pc = IF worker[w].todo = {c} THEN "ready" ELSE @]
    BY DEF UpsertBatch, Doc
  <1>3. worker[w].pc = "upsert"
    BY DEF UpsertBatch, Running
  <1>4. /\ worker'[w].todo = worker[w].todo \ {c}
        /\ worker'[w].pc = IF worker[w].todo = {c} THEN "ready" ELSE "upsert"
    BY <1>1, <1>2, <1>3 DEF RunState
  <1> QED
    BY <1>2, <1>3, <1>4 DEF UpsertBatch, apiVars

\* A chunk that reaches the vector store, or may still, was a run's to store.
LEMMA ChunksCome ==
  ASSUME [Next]_vars, NEW v \in (vectors' \cup late')
  PROVE  \/ v \in vectors \cup late
         \/ \E w \in Workers : worker[w].pc = "upsert" /\ \E c \in worker[w].todo : v = <<worker[w].doc, c>>
  <1>1. ASSUME NEW d \in Docs, ApiStep(d) \/ EvictJob(d) \/ Expire(d)
        PROVE  vectors' \subseteq vectors /\ UNCHANGED late
    BY <1>1
    DEF ApiStep, DeleteStep, CreateUploadSession, Finalize, Retry, EnqueueIngest, Put,
        SoftDeleteBegin, SoftDeleteVectors, SoftDeleteBlob, SoftDeleteCommit, EvictJob, Expire,
        TryDeleteVectors, DeleteByDocId, storeVars
  <1>2. ASSUME NEW w \in Workers, \/ RunStep(w) \/ IngestError(w) \/ \E d \in Docs : Start(w, d)
        PROVE  (vectors' \subseteq vectors /\ UNCHANGED late) \/ UpsertBatch(w)
    BY <1>2
    DEF RunStep, BeginRun, Download, ProbeDuplicate, ClaimHash, FilterExisting,
        MarkReady, Rollback, PurgeVectors, PurgeBlob, RemoveRow, FailPurge, MarkDocFailed,
        Finish, IngestError, Start, TryDeleteVectors, DeleteByDocId, storeVars
  <1>3. ASSUME NEW w \in Workers, UpsertBatch(w)
        PROVE  \/ v \in vectors \cup late
               \/ worker[w].pc = "upsert" /\ \E c \in worker[w].todo : v = <<worker[w].doc, c>>
    BY <1>3 DEF UpsertBatch, Running, Doc
  <1>4. ASSUME NEW w \in Workers, Timeout(w) \/ Interrupt(w)
        PROVE  \/ v \in vectors \cup late
               \/ worker[w].pc = "upsert" /\ \E c \in worker[w].todo : v = <<worker[w].doc, c>>
    BY <1>4 DEF Timeout, Interrupt, LeaveBatchBehind, Running
  <1>5. CASE SweepStep
    BY <1>5
    DEF SweepStep, SweepList, SweepRow, SweepBlob, SweepStuckVectors, SweepVectors, SweepMark,
        TryDeleteVectors, DeleteByDocId, storeVars
  <1>6. CASE UNCHANGED vars \/ LateUpsert \/ ApiRestart
    BY <1>6 DEF vars, LateUpsert, ApiRestart, storeVars
  <1> QED
    BY <1>1, <1>2, <1>3, <1>4, <1>5, <1>6 DEF Next

LEMMA OwnChunksStep ==
  ASSUME NEW File, Disjoint(File), CompleteInv(File), UploadsOf(File), [Next]_vars
  PROVE  OwnChunks(File)'
  <1> USE DEF CompleteInv, RunsInv, DedupInv
  <1> DEFINE Knowing == {"probe", "claim", "filter", "upsert", "ready"}
  <1>1. ASSUME NEW w \in Workers, worker'[w].pc \in Knowing
        PROVE  worker'[w].content = File[worker'[w].doc]
    <2>1. worker'[w].doc = worker[w].doc /\ worker[w].doc \in Docs
      BY <1>1, RunFlow
    <2>2. CASE worker'[w] = worker[w]
      BY <1>1, <2>2 DEF OwnChunks
    <2>3. CASE worker[w].pc = "download"
      <3>1. Download(w) /\ worker'[w].pc = "probe"
        BY <1>1, <2>3, RunFlow
        DEF Edges, RunStep, BeginRun, ProbeDuplicate, ClaimHash, FilterExisting, UpsertBatch,
            MarkReady, Rollback, PurgeVectors, PurgeBlob, RemoveRow, FailPurge, MarkDocFailed,
            Finish, IngestError, Running
      <3>2. worker'[w].content = objects[worker[w].doc] /\ worker'[w].content \in Contents
        BY <3>1, Downloads, TypeStep DEF Doc, TypeInv, Downloaded
      <3> QED
        BY <2>1, <3>2 DEF UploadsOf
    <2>4. CASE worker[w].pc \in Knowing /\ worker'[w].content = worker[w].content
      BY <2>1, <2>4 DEF OwnChunks
    <2> QED
      BY <1>1, <2>2, <2>3, <2>4, RunFlow DEF Edges, Download, Running
  <1>2. ASSUME NEW d \in Docs, Exists(documents'[d])
        PROVE  documents'[d].hash \in {NoContent, File[d]}
    <2>1. ASSUME NEW w \in Workers, ClaimHash(w), Doc(w) = d
          PROVE  Content(w) = File[d]
      BY <2>1 DEF ClaimHash, Running, OwnChunks, Content, Doc
    <2> QED
      BY <1>2, <2>1, NewRow, VisibleBefore DEF OwnChunks
  <1>3. ASSUME NEW w \in Workers, worker'[w].pc = "upsert"
        PROVE  worker'[w].todo \subseteq ChunksOf[File[worker'[w].doc]]
    <2>1. worker'[w].doc = worker[w].doc
      BY <1>3, RunFlow
    <2>2. CASE worker'[w] = worker[w]
      BY <1>3, <2>2 DEF OwnChunks
    <2>3. CASE FilterExisting(w)
      BY <2>1, <2>3, FilterLeaves DEF OwnChunks, Content
    <2>4. CASE UpsertBatch(w)
      BY <2>1, <2>4, UpsertLeaves DEF OwnChunks
    <2> QED
      BY <1>3, <2>2, <2>3, <2>4, UpsertFlow
  <1>4. ASSUME NEW v \in (vectors' \cup late')
        PROVE  v[2] \in ChunksOf[File[v[1]]]
    BY ChunksCome DEF OwnChunks
  <1> QED
    BY <1>1, <1>2, <1>3, <1>4 DEF OwnChunks

\* Vectors of a document that stays shown are deleted by its run alone.
LEMMA VectorsStay ==
  ASSUME TypeInv, NothingDue, [Next]_vars, NEW d \in Docs, Shown(d)', NEW c, <<d, c>> \in vectors
  PROVE  \/ <<d, c>> \in vectors'
         \/ \E w \in Workers : (PurgeVectors(w) \/ FailPurge(w)) /\ Doc(w) = d
  <1>1. deleting \in [Docs -> {"no", "vectors", "blob", "commit"}]
    BY DEF TypeInv, TypeOK
  <1>2. ASSUME NEW e \in Docs, SoftDeleteVectors(e)
        PROVE  <<d, c>> \in vectors'
    BY <1>1, <1>2 DEF SoftDeleteVectors, TryDeleteVectors, DeleteByDocId, Shown
  <1>3. ASSUME NEW w \in Workers, PurgeVectors(w) \/ FailPurge(w)
        PROVE  <<d, c>> \in vectors' \/ Doc(w) = d
    BY <1>3 DEF PurgeVectors, FailPurge, TryDeleteVectors, DeleteByDocId
  <1>4. ~SweepStuckVectors /\ \A e \in Docs : ~SweepVectors(e)
    BY DEF NothingDue, SweepStuckVectors, SweepVectors
  <1> QED
    BY <1>2, <1>3, <1>4, VectorDeleters

LEMMA ShownBefore ==
  ASSUME TypeInv, [Next]_vars, "api" \notin Faults,
         NEW d \in Docs, documents[d].status # "absent", Shown(d)'
  PROVE  Shown(d) /\ Exists(documents'[d])
  <1>1. Active(documents[d]) /\ Active(documents'[d])
    BY VisibleBefore DEF Shown
  <1>2. ~SoftDeleteCommit(d)
    BY <1>1, CommitHides
  <1> QED
    BY <1>1, <1>2, Deleting DEF Shown, Active

LEMMA RunHoldsStep ==
  ASSUME NEW File, Disjoint(File), CompleteInv(File), [Next]_vars, "api" \notin Faults
  PROVE  RunHolds(File)'
  <1> USE DEF CompleteInv, RunsInv, DedupInv
  <1> SUFFICES ASSUME NEW w \in Workers, NEW d \in Docs, worker'[w].doc = d,
                      worker'[w].pc \in {"upsert", "ready"}, Shown(d)',
                      NEW c \in ChunksOf[File[d]],
                      worker'[w].pc = "upsert" => c \notin worker'[w].todo
               PROVE  <<d, c>> \in vectors'
    BY TypeStep DEF RunHolds, Holds, Shown, Doc, TypeInv, Placed
  <1>1. /\ worker[w].doc = d /\ worker[w].pc # "idle" /\ d = Doc(w)
        /\ documents[d].status # "absent"
    BY RunFlow DEF Known, Doc
  <1>2. Shown(d)
    BY <1>1, ShownBefore
  <1>3. SUFFICES <<d, c>> \in vectors \/ <<d, c>> \in vectors'
    <2>1. ASSUME NEW v \in Workers, PurgeVectors(v) \/ FailPurge(v), Doc(v) = d
          PROVE  FALSE
      <3>1. v = w
        BY <1>1, <2>1, OwnRun DEF PurgeVectors, FailPurge, Running
      <3>2. Advances(v)
        BY <2>1, RunAdvances DEF RunStep
      <3> QED
        BY <2>1, <3>1, <3>2 DEF Advances, PurgeVectors, FailPurge, Running, Edges
    <2> QED
      BY <2>1, VectorsStay
  <1>4. CASE worker'[w] = worker[w]
    BY <1>1, <1>2, <1>4 DEF RunHolds, Holds
  <1>5. CASE FilterExisting(w)
    <2>1. /\ Content(w) = File[d]
          /\ c \in ChunksOf[Content(w)] => Stored(c)
      BY <1>1, <1>5, FilterLeaves DEF OwnChunks, Content
    <2>2. PICK v \in vectors : v[2] = c
      BY <2>1 DEF Stored
    <2>3. v[1] \in Docs /\ v = <<v[1], v[2]>>
      BY DEF TypeInv, TypeOK
    <2>4. c \in ChunksOf[File[v[1]]]
      BY <2>2 DEF OwnChunks
    <2>5. v[1] = d
      BY <2>3, <2>4 DEF Disjoint
    <2> QED
      BY <2>2, <2>3, <2>5
  <1>6. CASE UpsertBatch(w)
    <2>1. PICK x \in worker[w].todo :
            /\ vectors' = vectors \cup {<<worker[w].doc, x>>}
            /\ worker'[w].todo = worker[w].todo \ {x}
            /\ worker'[w].pc = IF worker[w].todo = {x} THEN "ready" ELSE "upsert"
      BY <1>6, UpsertLeaves
    <2>2. CASE c = x
      BY <1>1, <2>1, <2>2
    <2>3. CASE c # x
      <3>1. worker[w].pc = "upsert" /\ c \notin worker[w].todo
        BY <1>6, <2>1, <2>3, UpsertLeaves
      <3> QED
        BY <1>1, <1>2, <3>1 DEF RunHolds, Holds
    <2> QED
      BY <2>2, <2>3
  <1> QED
    BY <1>4, <1>5, <1>6, UpsertFlow

LEMMA ReadyHoldsStep ==
  ASSUME NEW File, CompleteInv(File), [Next]_vars, "api" \notin Faults
  PROVE  ReadyHolds(File)'
  <1> USE DEF CompleteInv, RunsInv, DedupInv
  <1> SUFFICES ASSUME NEW d \in Docs, Shown(d)', documents'[d].status = "ready",
                      NEW c \in ChunksOf[File[d]]
               PROVE  <<d, c>> \in vectors'
    BY DEF ReadyHolds, Holds
  <1>1. CASE documents[d].status = "ready"
    <2>1. <<d, c>> \in vectors
      BY <1>1, ShownBefore DEF ReadyHolds, Holds
    <2>2. ASSUME NEW w \in Workers, PurgeVectors(w) \/ FailPurge(w), Doc(w) = d
          PROVE  FALSE
      BY <1>1, <2>2 DEF PurgeVectors, FailPurge, Running, UnderRun, Doc, Exists
    <2> QED
      BY <2>1, <2>2, VectorsStay
  <1>2. ASSUME NEW w \in Workers, MarkReady(w), Doc(w) = d
        PROVE  <<d, c>> \in vectors'
    <2>1. documents[d].status # "absent" /\ worker[w].pc = "ready"
      BY <1>2 DEF Known, MarkReady, Running, Doc
    <2>2. <<d, c>> \in vectors
      BY <1>2, <2>1, ShownBefore DEF RunHolds, Holds
    <2> QED
      BY <1>2, <2>2 DEF MarkReady, storeVars
  <1>3. ASSUME NEW w \in Workers, ClaimHash(w)
        PROVE  documents'[d].status = documents[d].status
    BY <1>3, ClaimRow
  <1> QED
    BY <1>1, <1>2, <1>3, RowMoves, CreateRow, ReadyRow DEF Plain

LEMMA CompleteStep ==
  ASSUME NEW File, Disjoint(File), CompleteInv(File), UploadsOf(File), [Next]_vars,
         Expirable = {}, Faults \cap {"evict", "api"} = {}
  PROVE  CompleteInv(File)'
  BY RunsStep, NothingDueStep, OwnChunksStep, RunHoldsStep, ReadyHoldsStep
  DEF CompleteInv, RunsInv, DedupInv

\* What the sweeper and a chunk of somebody else's document can take from a
\* ready document, nothing else can: where no age threshold passes, each
\* document has a file of its own and no two of these files share a chunk,
\* attempts, batches, redeliveries, late upserts and deletes leave every chunk
\* of a visible ready document stored under its own id.
THEOREM ReadyDocumentsComplete ==
  ASSUME NEW File, Disjoint(File), Expirable = {}, Faults \cap {"evict", "api"} = {}
  PROVE  Spec /\ []UploadsOf(File) => []ReadyIsComplete
  <1>1. Init => CompleteInv(File)
    BY CompleteInit
  <1>2. CompleteInv(File) /\ UploadsOf(File) /\ [Next]_vars => CompleteInv(File)'
    BY CompleteStep
  <1>3. ASSUME CompleteInv(File)
        PROVE  ReadyIsComplete
    <2> SUFFICES ASSUME NEW d \in Docs, Active(documents[d]), documents[d].status = "ready",
                        deleting[d] = "no"
                 PROVE  {d} \X ChunksOf[documents[d].hash] \subseteq vectors
      BY DEF ReadyIsComplete
    <2>1. documents[d].hash = File[d]
      BY <1>3 DEF CompleteInv, RunsInv, DedupInv, HashKnown, OwnChunks, Active
    <2>2. Holds(d, ChunksOf[File[d]])
      BY <1>3 DEF CompleteInv, ReadyHolds, Shown
    <2> QED
      BY <2>1, <2>2 DEF Holds
  <1>4. CompleteInv(File) => ReadyIsComplete
    BY <1>3
  <1> QED
    BY <1>1, <1>2, <1>4, PTL DEF Spec

=============================================================================
