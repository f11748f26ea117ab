--------------------------- MODULE UploadTracking ---------------------------
(***************************************************************************)
(* How the browser follows the documents it uploads: the upload store      *)
(* drains its jobs one by one, then listens to a stream that starts with a *)
(* snapshot of the row and goes on with the events of the bus, while the   *)
(* worker and the sweeper move the row and publish after they have moved   *)
(* it. Source: frontend/src/stores/uploadStore.js, api/sse.js,             *)
(* backend/services/document_service.py (subscribe_to_events),             *)
(* ingestion_service.py, orphan_sweeper.py, redis_event_bus.py,            *)
(* event_bus.py, api/v1/documents.py (stream_events), workers/.            *)
(* The row's own rules are those of DocumentIngestion; here it is the      *)
(* status a snapshot can read, and a run is its commit and its event.      *)
(***************************************************************************)
EXTENDS Naturals, Sequences, FiniteSets

CONSTANTS
  Jobs,         \* files added to the store, in the order of the list
  BusQueue,     \* events a subscriber may have unread (_SUBSCRIBER_QUEUE_SIZE)
  MaxTries,     \* starts arq allows one job (arq_max_tries)
  Retries,      \* bound: retries in all
  Ingested,     \* bound: jobs whose documents are worked on, swept and streamed; those
                \*  of the others stay as the store's requests leave them
  NoJob

ASSUME TrackingAssumption ==
  /\ Jobs \subseteq Nat /\ BusQueue \in Nat \ {0} /\ Retries \in Nat
  /\ MaxTries \in Nat \ {0}
  /\ Ingested \subseteq Jobs /\ NoJob \notin Jobs

VARIABLES
  job,        \* [Jobs -> [status, docId known]]
  drain,      \* the job start() is working on and the request it awaits
  asking,     \* [Jobs -> request of retryJob or removeJob under way]
  row,        \* [Jobs -> status of its document; gone: deleted or never visible again]
  run,        \* [Jobs -> the arq job: none, queued, running, an event to publish, or
              \*  over (it has returned and its key is still there)]
  tries,      \* [Jobs -> starts of that arq job]
  sweeper,    \* [Jobs -> what the sweeper is about to do: none, reap, announce]
  reopened,   \* jobs whose ready document a later run took up again (history)
  stream,     \* [Jobs -> [pc, seen]] event stream of the job
  inbox,      \* [Jobs -> events of the bus not yet delivered]
  retried     \* retries so far (bound only)

browserVars == <<job, drain, asking, retried>>
workVars == <<run, tries, sweeper, reopened>>
busVars == <<stream, inbox>>
trackVars == <<browserVars, row, workVars, busVars>>

Terminal == {"ready", "failed", "duplicate"}
Settled == Terminal \cup {"absent", "removed"}
NoDrain == [job |-> NoJob, step |-> "none"]
Off == [pc |-> "closed", seen |-> "none"]
Refused == [pc |-> "refused", seen |-> "none"]

TrackInit ==
  /\ job = [j \in Jobs |-> [status |-> "absent", known |-> FALSE]]
  /\ drain = NoDrain
  /\ asking = [j \in Jobs |-> "none"]
  /\ row = [j \in Jobs |-> "none"]
  /\ run = [j \in Jobs |-> "none"]
  /\ tries = [j \in Jobs |-> 0]
  /\ sweeper = [j \in Jobs |-> "none"]
  /\ reopened = {}
  /\ stream = [j \in Jobs |-> Off]
  /\ inbox = [j \in Jobs |-> <<>>]
  /\ retried = 0

Exists(j) == job[j].status \notin {"absent", "removed"}

(* _update: a job that was removed is left alone. *)
Patch(j, status) == [job EXCEPT ![j].status = IF Exists(j) THEN status ELSE @]

(* --- The drain loop --------------------------------------------------- *)

AddFile(j) ==
  /\ job[j].status = "absent"
  /\ \A i \in Jobs : i < j => job[i].status # "absent"
  /\ job' = [job EXCEPT ![j].status = "queued"]
  /\ UNCHANGED <<drain, asking, retried, row, workVars, busVars>>

QueuedJobs == {j \in Jobs : job[j].status = "queued"}
First(S) == CHOOSE j \in S : \A i \in S : j <= i

(* What start() does next, after the jobs became js. *)
NextInLine(js) ==
  LET queued == {j \in Jobs : js[j].status = "queued"}
  IN  IF queued = {} THEN /\ drain' = NoDrain
                          /\ job' = js
      ELSE /\ drain' = [job |-> First(queued), step |-> "session"]
           /\ job' = [js EXCEPT ![First(queued)].status = "uploading"]

StartDrain ==
  /\ drain = NoDrain
  /\ QueuedJobs # {}
  /\ NextInLine(job)
  /\ UNCHANGED <<asking, retried, row, workVars, busVars>>

(* createUploadSession answered: the docId reaches a job that still exists;*)
(* the upload goes on even when it does not.                               *)
SessionCreated ==
  /\ drain.step = "session"
  /\ LET j == drain.job
     IN  /\ row' = [row EXCEPT ![j] = "pending"]
         /\ job' = [job EXCEPT ![j].known = @ \/ Exists(j)]
  /\ drain' = [drain EXCEPT !.step = "put"]
  /\ UNCHANGED <<asking, retried, workVars, busVars>>

BytesPut ==
  /\ drain.step = "put"
  /\ job' = Patch(drain.job, "finalizing")
  /\ drain' = [drain EXCEPT !.step = "finalize"]
  /\ UNCHANGED <<asking, retried, row, workVars, busVars>>

(* enqueue_ingest: arq takes no second job of an id it still has a key for. *)
Enqueue(j) == run' = [run EXCEPT ![j] = IF @ = "none" THEN "queued" ELSE @]

(* finalize enqueues a pending document and accepts any other as it is. The *)
(* job is queued for ingestion, its listener opens, and the loop takes the  *)
(* next job.                                                                *)
Finalized ==
  /\ drain.step = "finalize"
  /\ LET j == drain.job
     IN  /\ row[j] # "gone"
         /\ IF row[j] = "pending" THEN Enqueue(j) ELSE UNCHANGED run
         /\ stream' = [stream EXCEPT ![j].pc = "connecting"]
         /\ NextInLine(Patch(j, "processing"))
  /\ UNCHANGED <<asking, retried, row, tries, sweeper, reopened, inbox>>

\* Mutant. A failed upload ends the loop.
UploadFailsAndStops ==
  /\ drain # NoDrain
  /\ job' = Patch(drain.job, "failed")
  /\ drain' = [drain EXCEPT !.step = "none"]
  /\ UNCHANGED <<asking, retried, row, workVars, busVars>>

(* Any of the three requests fails; a finalize whose answer is lost has    *)
(* enqueued its document all the same.                                     *)
UploadFails ==
  /\ drain # NoDrain
  /\ NextInLine(Patch(drain.job, "failed"))
  /\ \/ UNCHANGED run
     \/ drain.step = "finalize" /\ row[drain.job] = "pending" /\ Enqueue(drain.job)
  /\ UNCHANGED <<asking, retried, row, tries, sweeper, reopened, busVars>>

(* --- The other operations of the store -------------------------------- *)

RemoveJob(j) ==
  /\ Exists(j)
  /\ asking[j] = "none"
  /\ job' = [job EXCEPT ![j].status = "removed"]
  /\ asking' = [asking EXCEPT ![j] = IF job[j].known /\ job[j].status \notin Terminal
                                       THEN "delete" ELSE @]
  /\ UNCHANGED <<drain, retried, row, workVars, busVars>>

(* deleteDocument succeeded, or failed and was swallowed. *)
DeleteAnswered(j) ==
  /\ asking[j] = "delete"
  /\ \E s \in {row[j], "gone"} : row' = [row EXCEPT ![j] = s]
  /\ asking' = [asking EXCEPT ![j] = "none"]
  /\ UNCHANGED <<job, drain, retried, workVars, busVars>>

(* Without a docId the job goes back to the queue; with one it is retried  *)
(* on the server.                                                          *)
RetryJob(j) ==
  /\ job[j].status = "failed"
  /\ asking[j] = "none"
  /\ retried < Retries /\ retried' = retried + 1
  /\ LET js == [job EXCEPT ![j].status = IF job[j].known THEN "processing" ELSE "queued"]
     IN  IF job[j].known
           THEN /\ job' = js
                /\ asking' = [asking EXCEPT ![j] = "retry"]
                /\ UNCHANGED drain
           ELSE /\ IF drain = NoDrain THEN NextInLine(js)
                                      ELSE job' = js /\ UNCHANGED drain
                /\ UNCHANGED asking
  /\ UNCHANGED <<row, workVars, busVars>>

(* The server retries a failed document only (409 or 404 otherwise). *)
RetryAccepted(j) ==
  /\ asking[j] = "retry"
  /\ row[j] = "failed"
  /\ Enqueue(j)
  /\ stream' = [stream EXCEPT ![j].pc = "connecting"]
  /\ asking' = [asking EXCEPT ![j] = "none"]
  /\ UNCHANGED <<job, drain, retried, row, tries, sweeper, reopened, inbox>>

(* Refused, or accepted and the answer lost. *)
RetryRefused(j) ==
  /\ asking[j] = "retry"
  /\ job' = Patch(j, "failed")
  /\ asking' = [asking EXCEPT ![j] = "none"]
  /\ UNCHANGED run \/ (row[j] = "failed" /\ Enqueue(j))
  /\ UNCHANGED <<drain, retried, row, tries, sweeper, reopened, busVars>>

ClearCompleted ==
  /\ \E j \in Jobs : job[j].status \in Terminal
  /\ job' = [j \in Jobs |-> IF job[j].status \in Terminal
                              THEN [job[j] EXCEPT !.status = "removed"] ELSE job[j]]
  /\ UNCHANGED <<drain, asking, retried, row, workVars, busVars>>

(* --- The stream ------------------------------------------------------- *)

\* Mutant. The stream sends no snapshot.
ReadNoSnapshot(j) ==
  /\ stream[j].pc = "connecting"
  /\ stream' = [stream EXCEPT ![j] =
       IF row[j] = "gone" THEN Refused ELSE [pc |-> "snapshot", seen |-> "none"]]
  /\ UNCHANGED <<browserVars, row, workVars, inbox>>

(* stream_events: the snapshot is read before anything is subscribed; a    *)
(* document that is not visible answers 404.                               *)
ReadSnapshot(j) ==
  /\ stream[j].pc = "connecting"
  /\ stream' = [stream EXCEPT ![j] =
       IF row[j] = "gone" THEN Refused ELSE [pc |-> "snapshot", seen |-> row[j]]]
  /\ UNCHANGED <<browserVars, row, workVars, inbox>>

(* Any other answer than 200 (the API restarting behind its proxy, an      *)
(* error, a session that expired) closes the EventSource for good, like a  *)
(* 404; onError closes the listener and leaves the job's status alone.     *)
Refuse(j) ==
  /\ stream[j].pc = "connecting"
  /\ stream' = [stream EXCEPT ![j] = Refused]
  /\ UNCHANGED <<browserVars, row, workVars, inbox>>

(* onEvent: only embedding and the terminal phases change the status. *)
Shown(j, event) == IF event = "embedding" THEN Patch(j, "processing")
                   ELSE IF event \in Terminal THEN Patch(j, event) ELSE job

(* The snapshot is delivered; the stream ends on a settled row and tails   *)
(* the bus from now on otherwise.                                          *)
DeliverSnapshot(j) ==
  /\ stream[j].pc = "snapshot"
  /\ job' = Shown(j, stream[j].seen)
  /\ stream' = [stream EXCEPT ![j] = IF @.seen \in {"ready", "failed"} THEN Off
                                     ELSE [pc |-> "live", seen |-> "none"]]
  /\ inbox' = [inbox EXCEPT ![j] = <<>>]
  /\ UNCHANGED <<drain, asking, retried, row, workVars>>

DeliverEvent(j) ==
  /\ stream[j].pc = "live"
  /\ inbox[j] # <<>>
  /\ job' = Shown(j, Head(inbox[j]))
  /\ stream' = [stream EXCEPT ![j] = IF Head(inbox[j]) \in Terminal THEN Off ELSE @]
  /\ inbox' = [inbox EXCEPT ![j] = IF Head(@) \in Terminal THEN <<>> ELSE Tail(@)]
  /\ UNCHANGED <<drain, asking, retried, row, workVars>>

(* The connection breaks and the EventSource connects again. *)
Reconnect(j) ==
  /\ stream[j].pc = "live"
  /\ stream' = [stream EXCEPT ![j] = [pc |-> "connecting", seen |-> "none"]]
  /\ inbox' = [inbox EXCEPT ![j] = <<>>]
  /\ UNCHANGED <<browserVars, row, workVars>>

(* publish: reaches a live subscriber with room, and nobody when the bus   *)
(* is down.                                                                *)
Publish(j, event) ==
  \/ /\ stream[j].pc = "live"
     /\ Len(inbox[j]) < BusQueue
     /\ inbox' = [inbox EXCEPT ![j] = Append(@, event)]
  \/ UNCHANGED inbox

(* --- The worker ------------------------------------------------------- *)

\* A job that has ended leaves arq no key and no count of its starts.
Forgotten(j) ==
  /\ run' = [run EXCEPT ![j] = "none"]
  /\ tries' = [tries EXCEPT ![j] = 0]

(* run() takes any row back to processing, a ready one too. A row that is  *)
(* gone for the browser may still be there to update (deleted_at) or not.  *)
BeginIngest(j) ==
  /\ run[j] = "queued" /\ tries[j] < MaxTries
  /\ tries' = [tries EXCEPT ![j] = @ + 1]
  /\ \/ /\ row[j] # "gone"
        /\ row' = [row EXCEPT ![j] = "processing"]
        /\ run' = [run EXCEPT ![j] = "running"]
        /\ reopened' = IF row[j] = "ready" THEN reopened \cup {j} ELSE reopened
     \/ /\ row[j] = "gone"
        /\ \E r \in {"running", "failed"} : run' = [run EXCEPT ![j] = r]
        /\ UNCHANGED <<row, reopened>>
  /\ UNCHANGED <<browserVars, sweeper, busVars>>

DropJob(j) ==
  /\ run[j] = "queued" /\ tries[j] = MaxTries
  /\ Forgotten(j)
  /\ UNCHANGED <<browserVars, row, sweeper, reopened, busVars>>

Embed(j) ==
  /\ run[j] = "running"
  /\ Publish(j, "embedding")
  /\ UNCHANGED <<browserVars, row, workVars, stream>>

\* Mutant. The event is published before the row is committed.
CommitReadyLate(j) ==
  /\ run[j] = "running"
  /\ \/ /\ row[j] = "processing"
        /\ \/ /\ Publish(j, "ready")
              /\ UNCHANGED <<row, run>>
           \/ /\ row' = [row EXCEPT ![j] = "ready"]
              /\ run' = [run EXCEPT ![j] = "over"]
              /\ UNCHANGED inbox
     \/ /\ row[j] # "processing"
        /\ run' = [run EXCEPT ![j] = "over"]
        /\ UNCHANGED <<row, inbox>>
  /\ UNCHANGED <<browserVars, tries, sweeper, reopened, stream>>

(* The row is committed first, the event is published afterwards; a row    *)
(* the sweeper moved or removed ends the run in silence. One deleted by    *)
(* its owner only is still there to commit.                                *)
CommitReady(j) ==
  /\ run[j] = "running"
  /\ \/ /\ row[j] \in {"processing", "gone"}
        /\ row' = [row EXCEPT ![j] = IF @ = "gone" THEN @ ELSE "ready"]
        /\ run' = [run EXCEPT ![j] = "ready"]
     \/ /\ row[j] # "processing"
        /\ run' = [run EXCEPT ![j] = "over"]
        /\ UNCHANGED row
  /\ UNCHANGED <<browserVars, tries, sweeper, reopened, busVars>>

(* A failure leaves the row failed, or as it was when that fails too; a    *)
(* rollback and a duplicate delete it.                                     *)
CommitEnd(j) ==
  /\ run[j] = "running"
  /\ \E e \in {"failed", "duplicate"}, s \in {row[j], "failed", "gone"} :
       /\ e = "duplicate" => s = "gone"
       /\ run' = [run EXCEPT ![j] = e]
       /\ row' = [row EXCEPT ![j] = IF @ = "gone" THEN @ ELSE s]
  /\ UNCHANGED <<browserVars, tries, sweeper, reopened, busVars>>

Announce(j) ==
  /\ run[j] \in Terminal
  /\ Publish(j, run[j])
  /\ run' = [run EXCEPT ![j] = "over"]
  /\ UNCHANGED <<browserVars, row, tries, sweeper, reopened, stream>>

EndJob(j) ==
  /\ run[j] = "over"
  /\ Forgotten(j)
  /\ UNCHANGED <<browserVars, row, sweeper, reopened, busVars>>

(* arq delivers an interrupted job again, from its first statement,        *)
(* whatever it has committed, as long as its key has not been ended. One   *)
(* that was just delivered may be interrupted before it did anything.      *)
WorkerDies(j) ==
  /\ \/ /\ run[j] \in {"running", "over"} \cup Terminal
        /\ run' = [run EXCEPT ![j] = "queued"]
        /\ UNCHANGED tries
     \/ /\ run[j] = "queued" /\ tries[j] < MaxTries
        /\ tries' = [tries EXCEPT ![j] = @ + 1]
        /\ UNCHANGED run
  /\ UNCHANGED <<browserVars, row, sweeper, reopened, busVars>>

(* The job's time is up: arq cancels the run, which no handler of its own  *)
(* sees, and ends the job.                                                 *)
TimesOut(j) ==
  /\ run[j] \in {"running"} \cup Terminal
  /\ Forgotten(j)
  /\ UNCHANGED <<browserVars, row, sweeper, reopened, busVars>>

(* --- The sweeper ------------------------------------------------------ *)

(* mark_stuck_failed looks at the row and its lease, not at its run.       *)
MarkStuck(j) ==
  /\ sweeper[j] = "none" /\ row[j] = "processing"
  /\ row' = [row EXCEPT ![j] = "failed"]
  /\ sweeper' = [sweeper EXCEPT ![j] = "announce"]
  /\ UNCHANGED <<browserVars, run, tries, reopened, busVars>>

AnnounceStuck(j) ==
  /\ sweeper[j] = "announce"
  /\ Publish(j, "failed")
  /\ sweeper' = [sweeper EXCEPT ![j] = "none"]
  /\ UNCHANGED <<browserVars, row, run, tries, reopened, stream>>

ListStale(j) ==
  /\ sweeper[j] = "none" /\ row[j] \in {"pending", "failed"}
  /\ sweeper' = [sweeper EXCEPT ![j] = "reap"]
  /\ UNCHANGED <<browserVars, row, run, tries, reopened, busVars>>

(* The listed row is deleted whatever has become of it. (A delete that     *)
(* fails leaves the row for a later sweep, as if it had not been listed.)  *)
Reap(j) ==
  /\ sweeper[j] = "reap"
  /\ row' = [row EXCEPT ![j] = "gone"]
  /\ sweeper' = [sweeper EXCEPT ![j] = "none"]
  /\ UNCHANGED <<browserVars, run, tries, reopened, busVars>>

StoreStep(j) == AddFile(j) \/ RemoveJob(j) \/ RetryJob(j)
RequestStep(j) == DeleteAnswered(j) \/ RetryAccepted(j) \/ RetryRefused(j)
DrainStep == SessionCreated \/ BytesPut \/ Finalized \/ UploadFails
StreamStep(j) == ReadSnapshot(j) \/ DeliverSnapshot(j) \/ DeliverEvent(j)
StreamFault(j) == Refuse(j) \/ Reconnect(j)
RunStep(j) == \/ BeginIngest(j) \/ DropJob(j) \/ CommitReady(j) \/ CommitEnd(j)
              \/ Announce(j) \/ EndJob(j)
RunFault(j) == WorkerDies(j) \/ TimesOut(j)
SweepStep(j) == MarkStuck(j) \/ AnnounceStuck(j) \/ ListStale(j) \/ Reap(j)

TrackNext ==
  \/ StartDrain \/ DrainStep \/ ClearCompleted
  \/ \E j \in Jobs : StoreStep(j) \/ RequestStep(j)
  \/ \E j \in Ingested : \/ StreamStep(j) \/ StreamFault(j) \/ RunStep(j) \/ RunFault(j)
                         \/ Embed(j) \/ SweepStep(j)

(* The loop, the streams and the requests run; the worker takes its jobs   *)
(* and ends them; the sweeper comes by. Broken and refused connections,    *)
(* interruptions and timeouts are nobody's duty.                           *)
TrackFairness ==
  /\ WF_trackVars(DrainStep)
  /\ \A j \in Jobs : WF_trackVars(RequestStep(j))
  /\ \A j \in Ingested : /\ WF_trackVars(StreamStep(j))
                         /\ WF_trackVars(RunStep(j))
                         /\ WF_trackVars(SweepStep(j))

TrackSpec == TrackInit /\ [][TrackNext]_trackVars /\ TrackFairness

(***************************************************************************)
(* Properties.                                                             *)
(***************************************************************************)
\* What the browser says is final was committed before: a job shown ready has
\* a ready document, or one that was deleted since, or one that a redelivered
\* or a retried run took up again after it was ready (update_status looks at no
\* status); a job shown as a duplicate has lost its own document.
ShownIsCommitted ==
  \A j \in Jobs :
    /\ job[j].status = "ready" => row[j] \in {"ready", "gone"} \/ j \in reopened
    /\ job[j].status = "duplicate" => row[j] = "gone"

\* A job whose document is followed settles, or ends with its stream refused,
\* as long as the stream does not stay connected for ever: an event that falls
\* between the snapshot and the subscription, or that the bus drops, is made up
\* for by the next snapshot, whatever becomes of the run (subscribe_to_events).
FollowedJobsSettle ==
  \A j \in Ingested :
    []<>(stream[j].pc \in {"closed", "connecting", "refused"})
      => (job[j].status = "processing"
            ~> job[j].status \in Settled \/ stream[j].pc = "refused")

\* A queued job is not left behind by the loop that drains the queue, whatever
\* happens to the jobs before it, nor by a retry that finds no loop running.
DrainReachesAll ==
  \A j \in Jobs : job[j].status = "queued" /\ drain # NoDrain ~> job[j].status # "queued"
=============================================================================
