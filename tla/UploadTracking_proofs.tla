------------------------ MODULE UploadTracking_proofs ------------------------
(***************************************************************************)
(* Proofs about the browser's view of its uploads, for any number of files,*)
(* of retries and of events a subscriber may have unread.                  *)
(***************************************************************************)
EXTENDS UploadTracking, Data_proofs

Events == {"embedding"} \cup Terminal
JobStates ==
  {"absent", "queued", "uploading", "finalizing", "processing", "removed"} \cup Terminal
JobRecords == [status : JobStates, known : BOOLEAN]
RowStates == {"none", "pending", "processing", "ready", "failed", "gone"}
RunStates == {"none", "queued", "running", "over"} \cup Terminal
Sweeps == {"none", "reap", "announce"}
Streams == [pc : {"closed", "refused", "connecting", "snapshot", "live"}, seen : RowStates]
Drains == [job : Jobs \cup {NoJob}, step : {"none", "session", "put", "finalize"}]

TrackTypes ==
  /\ job \in [Jobs -> JobRecords]
  /\ drain \in Drains /\ (drain # NoDrain => drain.job \in Jobs)
  /\ asking \in [Jobs -> {"none", "delete", "retry"}]
  /\ row \in [Jobs -> RowStates]
  /\ run \in [Jobs -> RunStates]
  /\ tries \in [Jobs -> Nat] /\ sweeper \in [Jobs -> Sweeps] /\ reopened \subseteq Jobs
  /\ stream \in [Jobs -> Streams]
  /\ inbox \in [Jobs -> Seq(Events)]

\* Everything that says e of a job: what the browser shows, the snapshot and the
\* events on their way to it, and the event its worker is about to publish.
Unread(j, e) == \E i \in DOMAIN inbox[j] : inbox[j][i] = e
Said(j, e) == run[j] = e \/ job[j].status = e \/ stream[j].seen = e \/ Unread(j, e)

SaidIsCommitted(j) ==
  /\ Said(j, "ready") => row[j] \in {"ready", "gone"} \/ j \in reopened
  /\ Said(j, "duplicate") => row[j] = "gone"

\* No run is under way on a ready document: the one that takes it up again
\* moves it as it begins.
ReadyRests(j) == row[j] = "ready" => run[j] # "running"

\* A document has a row before anything else is known or asked of it, and the
\* session the loop asks for is that of a job that has none.
RowFirst(j) ==
  /\ row[j] = "none" => /\ run[j] = "none" /\ sweeper[j] = "none"
                        /\ ~job[j].known /\ stream[j].pc = "closed"
  /\ asking[j] # "none" => job[j].known
  /\ ~job[j].known /\ job[j].status # "removed" => row[j] = "none"
  /\ job[j].status \in {"absent", "queued"} => ~job[j].known
  /\ drain.job = j /\ drain.step = "session"
       => row[j] = "none" /\ job[j].status \in {"uploading", "removed"}
  /\ drain.job = j /\ drain.step \in {"put", "finalize"} => row[j] # "none"

Followed(j) == SaidIsCommitted(j) /\ ReadyRests(j) /\ RowFirst(j)

TrackInv == TrackTypes /\ \A j \in Jobs : Followed(j)

(***************************************************************************)
(* The first of a set of jobs exists.                                      *)
(***************************************************************************)
LEMMA FirstIn ==
  ASSUME NEW S \in SUBSET Jobs, S # {}
  PROVE  First(S) \in S
BY LeastExists, TrackingAssumption DEF First

(***************************************************************************)
(* The steps, by what they write.                                          *)
(***************************************************************************)
LEMMA TrackInitially == TrackInit => TrackInv
<1> SUFFICES ASSUME TrackInit PROVE TrackInv
  OBVIOUS
<1>1. TrackTypes
  BY DEF TrackInit, TrackTypes, JobRecords, JobStates, Drains, NoDrain, RowStates, RunStates,
         Sweeps, Streams, Off
<1>2. ASSUME NEW j \in Jobs PROVE Followed(j)
  BY <1>2, TrackingAssumption
     DEF TrackInit, Followed, SaidIsCommitted, Said, Unread, ReadyRests, RowFirst, NoDrain, Off
<1> QED BY <1>1, <1>2 DEF TrackInv

\* What the loop goes on with: a queued job, whose upload begins.
LEMMA NextTaken ==
  ASSUME NEW js \in [Jobs -> JobRecords], NextInLine(js)
  PROVE  /\ job' \in [Jobs -> JobRecords]
         /\ drain' \in Drains /\ (drain' # NoDrain => drain'.job \in Jobs)
         /\ drain'.step \in {"none", "session"}
         /\ \A j \in Jobs :
              /\ job'[j].known = js[j].known
              /\ \/ job'[j].status = js[j].status
                 \/ js[j].status = "queued" /\ job'[j].status = "uploading"
              /\ drain'.step = "session" /\ drain'.job = j
                   => js[j].status = "queued" /\ job'[j].status = "uploading"
<1> DEFINE queued == {j \in Jobs : js[j].status = "queued"}
<1>1. CASE queued = {}
  <2>1. drain' = NoDrain /\ job' = js BY <1>1 DEF NextInLine
  <2> QED BY <2>1 DEF NoDrain, Drains
<1>2. CASE queued # {}
  <2>1. First(queued) \in queued BY <1>2, FirstIn
  <2>2. /\ drain' = [job |-> First(queued), step |-> "session"]
        /\ job' = [js EXCEPT ![First(queued)].status = "uploading"]
    BY <1>2 DEF NextInLine
  <2> DEFINE j == First(queued)
             r == [js[j] EXCEPT !.status = "uploading"]
  <2>3. j \in Jobs /\ js[j].status = "queued" /\ js[j] \in JobRecords BY <2>1
  <2>4. r \in JobRecords /\ r.status = "uploading" /\ r.known = js[j].known
    BY <2>3 DEF JobRecords, JobStates
  <2>5. job' = [js EXCEPT ![j] = r] /\ drain' = [job |-> j, step |-> "session"] BY <2>2
  <2> HIDE DEF r, j, queued
  <2> QED BY <2>3, <2>4, <2>5 DEF Drains
<1> QED BY <1>1, <1>2

LEMMA Patches ==
  ASSUME TrackTypes, NEW j \in Jobs, NEW status \in JobStates
  PROVE  /\ Patch(j, status) \in [Jobs -> JobRecords]
         /\ \A k \in Jobs :
              /\ Patch(j, status)[k].known = job[k].known
              /\ Patch(j, status)[k].status =
                   IF k = j /\ Exists(j) THEN status ELSE job[k].status
<1> DEFINE r == [job[j] EXCEPT !.status = IF Exists(j) THEN status ELSE job[j].status]
<1>1. job \in [Jobs -> JobRecords] /\ job[j] \in JobRecords BY DEF TrackTypes
<1>2. /\ r \in JobRecords /\ r.known = job[j].known
      /\ r.status = IF Exists(j) THEN status ELSE job[j].status
  BY <1>1 DEF JobRecords
<1>3. Patch(j, status) = [job EXCEPT ![j] = r] BY DEF Patch
<1> HIDE DEF r
<1> QED BY <1>1, <1>2, <1>3

LEMMA StoreKeeps ==
  ASSUME TrackInv, NEW j \in Jobs, AddFile(j) \/ RemoveJob(j)
  PROVE  TrackInv'
<1>1. PICK r \in JobRecords :
        /\ job' = [job EXCEPT ![j] = r] /\ r.known = job[j].known
        /\ \/ job[j].status = "absent" /\ r.status = "queued"
           \/ Exists(j) /\ r.status = "removed"
  <2> job \in [Jobs -> JobRecords] /\ job[j] \in JobRecords BY DEF TrackInv, TrackTypes
  <2>1. CASE AddFile(j)
    <3> DEFINE r == [job[j] EXCEPT !.status = "queued"]
    <3>1. r \in JobRecords /\ r.known = job[j].known /\ r.status = "queued" BY DEF JobRecords, JobStates
    <3>2. job' = [job EXCEPT ![j] = r] BY <2>1 DEF AddFile
    <3> HIDE DEF r
    <3> QED BY <2>1, <3>1, <3>2 DEF AddFile
  <2>2. CASE RemoveJob(j)
    <3> DEFINE r == [job[j] EXCEPT !.status = "removed"]
    <3>1. r \in JobRecords /\ r.known = job[j].known /\ r.status = "removed" BY DEF JobRecords, JobStates
    <3>2. job' = [job EXCEPT ![j] = r] BY <2>2 DEF RemoveJob
    <3> HIDE DEF r
    <3> QED BY <2>2, <3>1, <3>2 DEF RemoveJob
  <2> QED BY <2>1, <2>2
<1>2. /\ UNCHANGED <<drain, row, run, tries, sweeper, reopened, stream, inbox>>
      /\ asking' \in [Jobs -> {"none", "delete", "retry"}]
      /\ \A k \in Jobs : asking'[k] # asking[k] => k = j /\ job[j].known
  BY DEF AddFile, RemoveJob, TrackInv, TrackTypes, workVars, busVars
<1>3. TrackTypes' BY <1>1, <1>2 DEF TrackInv, TrackTypes
<1>4. ASSUME NEW k \in Jobs PROVE Followed(k)'
  <2>1. job'[k] = IF k = j THEN r ELSE job[k] BY <1>1 DEF TrackInv, TrackTypes
  <2> QED BY <1>1, <1>2, <2>1
          DEF TrackInv, Followed, SaidIsCommitted, Said, Unread, ReadyRests, RowFirst, Exists
<1> QED BY <1>3, <1>4 DEF TrackInv

\* The loop goes on after the jobs became js: those it patched exist and say
\* nothing that is not committed, and one that is queued again has no row.
LEMMA LoopGoesOn ==
  ASSUME TrackInv, NEW js \in [Jobs -> JobRecords], NextInLine(js),
         \A k \in Jobs :
           /\ js[k].known = job[k].known
           /\ \/ js[k].status = job[k].status
              \/ Exists(k) /\ js[k].status \in {"failed", "processing"}
              \/ job[k].status = "failed" /\ ~job[k].known /\ js[k].status = "queued",
         row' = row, inbox' = inbox, asking' = asking,
         tries' = tries, sweeper' = sweeper, reopened' = reopened,
         run' \in [Jobs -> RunStates], stream' \in [Jobs -> Streams],
         \A k \in Jobs :
           /\ run'[k] = run[k] \/ (run'[k] = "queued" /\ row[k] = "pending")
           /\ stream'[k].seen = stream[k].seen
           /\ stream'[k].pc # stream[k].pc => row[k] # "none"
  PROVE  TrackInv'
<1>1. /\ job' \in [Jobs -> JobRecords]
      /\ drain' \in Drains /\ (drain' # NoDrain => drain'.job \in Jobs)
      /\ drain'.step \in {"none", "session"}
      /\ \A k \in Jobs :
           /\ job'[k].known = js[k].known
           /\ \/ job'[k].status = js[k].status
              \/ js[k].status = "queued" /\ job'[k].status = "uploading"
           /\ drain'.step = "session" /\ drain'.job = k
                => js[k].status = "queued" /\ job'[k].status = "uploading"
  BY NextTaken
<1>2. TrackTypes' BY <1>1 DEF TrackInv, TrackTypes
<1>3. ASSUME NEW k \in Jobs PROVE Followed(k)'
  <2>1. SaidIsCommitted(k)' BY <1>1 DEF TrackInv, Followed, SaidIsCommitted, Said, Unread
  <2>2. ReadyRests(k)' BY DEF TrackInv, Followed, ReadyRests
  <2>3. RowFirst(k)' BY <1>1 DEF TrackInv, Followed, RowFirst, Exists
  <2> QED BY <2>1, <2>2, <2>3 DEF Followed
<1> QED BY <1>2, <1>3 DEF TrackInv

\* What a request to the queue does to the jobs it holds.
LEMMA Enqueues ==
  ASSUME NEW j \in Jobs, run \in [Jobs -> RunStates], Enqueue(j)
  PROVE  /\ run' \in [Jobs -> RunStates]
         /\ \A k \in Jobs : run'[k] = run[k] \/ (k = j /\ run'[k] = "queued")
BY DEF Enqueue, RunStates

LEMMA DrainKeeps ==
  ASSUME TrackInv, StartDrain \/ Finalized \/ UploadFails
  PROVE  TrackInv'
<1> USE DEF TrackInv
<1>1. /\ job \in [Jobs -> JobRecords] /\ run \in [Jobs -> RunStates] /\ stream \in [Jobs -> Streams]
      /\ "processing" \in JobStates /\ "failed" \in JobStates
  BY DEF TrackTypes, JobStates, Terminal
<1>2. CASE StartDrain
  BY <1>1, <1>2, LoopGoesOn DEF StartDrain, workVars, busVars
<1>3. CASE Finalized
  <2> DEFINE j == drain.job
             js == Patch(j, "processing")
             s == [stream[j] EXCEPT !.pc = "connecting"]
             u == IF row[j] = "pending" /\ run[j] = "none" THEN "queued" ELSE run[j]
  <2>1. j \in Jobs /\ row[j] # "none" BY <1>3 DEF Finalized, TrackTypes, NoDrain, Followed, RowFirst
  <2>2. s \in Streams /\ s.seen = stream[j].seen /\ s.pc = "connecting"
    BY <1>1, <2>1 DEF Streams
  <2>3. u \in RunStates /\ (u # run[j] => u = "queued" /\ row[j] = "pending")
    BY <1>1, <2>1 DEF RunStates
  <2>4. /\ stream' = [stream EXCEPT ![j] = s] /\ run' = [run EXCEPT ![j] = u]
        /\ NextInLine(js) /\ UNCHANGED <<asking, row, tries, sweeper, reopened, inbox>>
    <3>1. run' = [run EXCEPT ![j] = u]
      BY <1>1, <1>3, <2>1 DEF Finalized, Enqueue
    <3> QED BY <1>3, <3>1 DEF Finalized
  <2>5. /\ js \in [Jobs -> JobRecords]
        /\ \A k \in Jobs :
             /\ js[k].known = job[k].known
             /\ js[k].status = IF k = j /\ Exists(j) THEN "processing" ELSE job[k].status
    BY <1>1, <2>1, Patches
  <2> HIDE DEF s, u, js, j
  <2>6. /\ run' \in [Jobs -> RunStates] /\ stream' \in [Jobs -> Streams]
        /\ \A k \in Jobs :
             /\ run'[k] = run[k] \/ (run'[k] = "queued" /\ row[k] = "pending")
             /\ stream'[k].seen = stream[k].seen
             /\ stream'[k].pc # stream[k].pc => row[k] # "none"
    BY <1>1, <2>1, <2>2, <2>3, <2>4
  <2> QED BY <2>4, <2>5, <2>6, LoopGoesOn
<1>4. CASE UploadFails
  <2> DEFINE j == drain.job
             js == Patch(j, "failed")
  <2>1. j \in Jobs BY <1>4 DEF UploadFails, TrackTypes
  <2>2. /\ js \in [Jobs -> JobRecords]
        /\ \A k \in Jobs :
             /\ js[k].known = job[k].known
             /\ js[k].status = IF k = j /\ Exists(j) THEN "failed" ELSE job[k].status
    BY <1>1, <2>1, Patches
  <2>3. /\ NextInLine(js)
        /\ UNCHANGED <<asking, row, tries, sweeper, reopened, stream, inbox>>
        /\ UNCHANGED run \/ (row[j] = "pending" /\ Enqueue(j))
    BY <1>4 DEF UploadFails, busVars
  <2> HIDE DEF js, j
  <2>4. /\ run' \in [Jobs -> RunStates]
        /\ \A k \in Jobs : run'[k] = run[k] \/ (run'[k] = "queued" /\ row[k] = "pending")
    BY <1>1, <2>1, <2>3, Enqueues
  <2> QED BY <1>1, <2>2, <2>3, <2>4, LoopGoesOn
<1> QED BY <1>2, <1>3, <1>4

LEMMA RetryJobKeeps ==
  ASSUME TrackInv, NEW j \in Jobs, RetryJob(j)
  PROVE  TrackInv'
<1> DEFINE r == [job[j] EXCEPT !.status = IF job[j].known THEN "processing" ELSE "queued"]
           js == [job EXCEPT ![j] = r]
<1>1. job \in [Jobs -> JobRecords] /\ job[j] \in JobRecords BY DEF TrackInv, TrackTypes
<1>2. /\ r \in JobRecords /\ r.known = job[j].known
      /\ r.status = IF job[j].known THEN "processing" ELSE "queued"
  BY <1>1 DEF JobRecords, JobStates
<1>3. /\ job[j].status = "failed"
      /\ UNCHANGED <<row, run, tries, sweeper, reopened, stream, inbox>>
      /\ \/ ~job[j].known /\ NextInLine(js) /\ UNCHANGED asking
         \/ ~job[j].known /\ job' = js /\ UNCHANGED <<drain, asking>>
         \/ job[j].known /\ job' = js /\ UNCHANGED drain /\ asking' = [asking EXCEPT ![j] = "retry"]
  BY DEF RetryJob, workVars, busVars
<1> HIDE DEF r
<1>4. /\ js \in [Jobs -> JobRecords]
      /\ \A k \in Jobs :
           /\ js[k].known = job[k].known
           /\ js[k].status = IF k = j THEN r.status ELSE job[k].status
  BY <1>1, <1>2
<1> HIDE DEF js
<1>5. CASE NextInLine(js) /\ ~job[j].known /\ UNCHANGED asking
  <2>1. run \in [Jobs -> RunStates] /\ stream \in [Jobs -> Streams] BY DEF TrackInv, TrackTypes
  <2> QED BY <1>2, <1>3, <1>4, <1>5, <2>1, LoopGoesOn
<1>6. CASE /\ job' = js /\ UNCHANGED drain
           /\ asking' = asking \/ (job[j].known /\ asking' = [asking EXCEPT ![j] = "retry"])
  <2>1. asking' \in [Jobs -> {"none", "delete", "retry"}] BY <1>6 DEF TrackInv, TrackTypes
  <2>2. TrackTypes' BY <1>3, <1>4, <1>6, <2>1 DEF TrackInv, TrackTypes
  <2>3. ASSUME NEW k \in Jobs PROVE Followed(k)'
    <3>1. \A i \in Jobs : asking'[i] # asking[i] => job[i].known
      BY <1>6 DEF TrackInv, TrackTypes
    <3>2. SaidIsCommitted(k)'
      BY <1>2, <1>3, <1>4, <1>6 DEF TrackInv, Followed, SaidIsCommitted, Said, Unread
    <3>3. ReadyRests(k)' BY <1>3 DEF TrackInv, Followed, ReadyRests
    <3>4. RowFirst(k)'
      BY <1>2, <1>3, <1>4, <1>6, <3>1 DEF TrackInv, Followed, RowFirst
    <3> QED BY <3>2, <3>3, <3>4 DEF Followed
  <2> QED BY <2>2, <2>3 DEF TrackInv
<1> QED BY <1>3, <1>5, <1>6

LEMMA UploadKeeps ==
  ASSUME TrackInv, SessionCreated \/ BytesPut
  PROVE  TrackInv'
<1> USE DEF TrackInv
<1> DEFINE j == drain.job
<1>1. /\ job \in [Jobs -> JobRecords] /\ row \in [Jobs -> RowStates] /\ drain \in Drains
      /\ j \in Jobs
  BY DEF TrackTypes, SessionCreated, BytesPut, NoDrain
<1>2. CASE SessionCreated
  <2> DEFINE r == [job[j] EXCEPT !.known = job[j].known \/ Exists(j)]
             d == [drain EXCEPT !.step = "put"]
  <2>1. r \in JobRecords /\ r.status = job[j].status /\ (r.known <=> job[j].known \/ Exists(j))
    BY <1>1 DEF JobRecords, Exists
  <2>2. d \in Drains /\ d.job = j /\ d.step = "put" BY <1>1 DEF Drains
  <2>3. /\ job' = [job EXCEPT ![j] = r] /\ drain' = d /\ row' = [row EXCEPT ![j] = "pending"]
        /\ UNCHANGED <<asking, run, tries, sweeper, reopened, stream, inbox>>
    BY <1>2 DEF SessionCreated, workVars, busVars
  <2>4. row[j] = "none" /\ job[j].status \in {"uploading", "removed"}
    BY <1>1, <1>2 DEF SessionCreated, Followed, RowFirst
  <2> HIDE DEF r, d, j
  <2>5. TrackTypes' BY <1>1, <2>1, <2>2, <2>3 DEF TrackTypes, RowStates
  <2>6. ASSUME NEW k \in Jobs PROVE Followed(k)'
    <3>1. /\ job'[k] = IF k = j THEN r ELSE job[k]
          /\ row'[k] = IF k = j THEN "pending" ELSE row[k]
      BY <1>1, <2>3
    <3>2. SaidIsCommitted(k)'
      BY <2>1, <2>3, <2>4, <3>1 DEF Followed, SaidIsCommitted, Said, Unread
    <3>3. ReadyRests(k)' BY <2>3, <3>1 DEF Followed, ReadyRests
    <3>4. RowFirst(k)'
      BY <2>1, <2>2, <2>3, <2>4, <3>1 DEF Followed, RowFirst, Exists
    <3> QED BY <3>2, <3>3, <3>4 DEF Followed
  <2> QED BY <2>5, <2>6
<1>3. CASE BytesPut
  <2> DEFINE d == [drain EXCEPT !.step = "finalize"]
  <2>1. d \in Drains /\ d.job = j /\ d.step = "finalize" BY <1>1 DEF Drains
  <2>2. /\ drain' = d /\ drain.step = "put"
        /\ UNCHANGED <<asking, row, run, tries, sweeper, reopened, stream, inbox>>
    BY <1>3 DEF BytesPut, workVars, busVars
  <2>3. /\ job' \in [Jobs -> JobRecords]
        /\ \A k \in Jobs :
             /\ job'[k].known = job[k].known
             /\ job'[k].status = IF k = j /\ Exists(j) THEN "finalizing" ELSE job[k].status
    BY <1>1, <1>3, Patches DEF BytesPut, JobStates
  <2> HIDE DEF d, j
  <2>4. TrackTypes' BY <1>1, <2>1, <2>2, <2>3 DEF TrackTypes
  <2>5. ASSUME NEW k \in Jobs PROVE Followed(k)'
    <3>1. SaidIsCommitted(k)'
      BY <2>2, <2>3 DEF Followed, SaidIsCommitted, Said, Unread
    <3>2. ReadyRests(k)' BY <2>2 DEF Followed, ReadyRests
    <3>3. RowFirst(k)'
      BY <2>1, <2>2, <2>3 DEF Followed, RowFirst, Exists, j
    <3> QED BY <3>1, <3>2, <3>3 DEF Followed
  <2> QED BY <2>4, <2>5
<1> QED BY <1>2, <1>3

\* A step of the store that only moves statuses away from what was shown.
LEMMA ForgetKeeps ==
  ASSUME TrackInv, ClearCompleted \/ \E j \in Jobs : RetryRefused(j)
  PROVE  TrackInv'
<1> USE DEF TrackInv
<1>1. job \in [Jobs -> JobRecords] BY DEF TrackTypes
<1>2. /\ job' \in [Jobs -> JobRecords]
      /\ \A k \in Jobs :
           /\ job'[k].known = job[k].known
           /\ \/ job'[k].status = job[k].status
              \/ Exists(k) /\ job'[k].status = "failed" /\ job[k].known
              \/ job[k].status \in Terminal /\ job'[k].status = "removed"
  <2>1. CASE ClearCompleted
    <3> DEFINE r(k) == IF job[k].status \in Terminal
                         THEN [job[k] EXCEPT !.status = "removed"] ELSE job[k]
    <3>1. job' = [k \in Jobs |-> r(k)] BY <2>1 DEF ClearCompleted
    <3>2. ASSUME NEW k \in Jobs
          PROVE  /\ r(k) \in JobRecords /\ r(k).known = job[k].known
                 /\ \/ r(k).status = job[k].status
                    \/ job[k].status \in Terminal /\ r(k).status = "removed"
      <4>1. job[k] \in JobRecords BY <1>1
      <4> QED BY <4>1 DEF JobRecords, JobStates
    <3> HIDE DEF r
    <3> QED BY <3>1, <3>2
  <2>2. ASSUME NEW j \in Jobs, RetryRefused(j)
        PROVE  /\ job' \in [Jobs -> JobRecords]
               /\ \A k \in Jobs :
                    /\ job'[k].known = job[k].known
                    /\ \/ job'[k].status = job[k].status
                       \/ Exists(k) /\ job'[k].status = "failed" /\ job[k].known
    <3>1. "failed" \in JobStates BY DEF JobStates, Terminal
    <3>2. job' = Patch(j, "failed") /\ job[j].known
      BY <2>2 DEF RetryRefused, Followed, RowFirst
    <3> QED BY <1>1, <3>1, <3>2, Patches
  <2> QED BY <2>1, <2>2
<1>3. /\ UNCHANGED <<drain, row, tries, sweeper, reopened, stream, inbox>>
      /\ asking' \in [Jobs -> {"none", "delete", "retry"}]
      /\ \A k \in Jobs : asking'[k] \in {asking[k], "none"}
  BY DEF ClearCompleted, RetryRefused, TrackTypes, workVars, busVars
<1>6. /\ run' \in [Jobs -> RunStates]
      /\ \A k \in Jobs : run'[k] = run[k] \/ (run'[k] = "queued" /\ row[k] = "failed")
  <2>1. run \in [Jobs -> RunStates] BY DEF TrackTypes
  <2>2. CASE ClearCompleted BY <2>1, <2>2 DEF ClearCompleted, workVars
  <2>3. ASSUME NEW j \in Jobs, RetryRefused(j)
        PROVE  UNCHANGED run \/ (row[j] = "failed" /\ Enqueue(j))
    BY <2>3 DEF RetryRefused
  <2> QED BY <2>1, <2>2, <2>3, Enqueues
<1>4. TrackTypes' BY <1>2, <1>3, <1>6 DEF TrackTypes
<1>5. ASSUME NEW k \in Jobs PROVE Followed(k)'
  <2>1. SaidIsCommitted(k)' BY <1>2, <1>3, <1>6 DEF Followed, SaidIsCommitted, Said, Unread
  <2>2. ReadyRests(k)' BY <1>3, <1>6 DEF Followed, ReadyRests
  <2>3. RowFirst(k)' BY <1>2, <1>3, <1>6 DEF Followed, RowFirst, Exists, Terminal
  <2> QED BY <2>1, <2>2, <2>3 DEF Followed
<1> QED BY <1>4, <1>5

(***************************************************************************)
(* Steps about the document of one job.                                    *)
(***************************************************************************)
\* A step about one document keeps the invariant when what holds of its job
\* goes on holding.
Elsewhere(j) ==
  \A k \in Jobs \ {j} :
    /\ job'[k] = job[k] /\ asking'[k] = asking[k] /\ row'[k] = row[k] /\ run'[k] = run[k]
    /\ sweeper'[k] = sweeper[k] /\ (k \in reopened' <=> k \in reopened)
    /\ stream'[k] = stream[k] /\ inbox'[k] = inbox[k]

LEMMA OneDocument ==
  ASSUME TrackInv, NEW j \in Jobs, TrackTypes', Followed(j)', Elsewhere(j), drain' = drain
  PROVE  TrackInv'
<1>1. ASSUME NEW k \in Jobs \ {j} PROVE Followed(k)'
  BY DEF TrackInv, Elsewhere, Followed, SaidIsCommitted, Said, Unread, ReadyRests, RowFirst
<1> QED BY <1>1 DEF TrackInv

\* What holds of the variables of one job.
LEMMA DocumentFacts ==
  ASSUME TrackInv, NEW j \in Jobs
  PROVE  /\ asking[j] \in {"none", "delete", "retry"} /\ row[j] \in RowStates
         /\ run[j] \in RunStates /\ stream[j] \in Streams /\ inbox[j] \in Seq(Events)
         /\ job \in [Jobs -> JobRecords] /\ row \in [Jobs -> RowStates]
         /\ run \in [Jobs -> RunStates] /\ stream \in [Jobs -> Streams]
         /\ inbox \in [Jobs -> Seq(Events)] /\ asking \in [Jobs -> {"none", "delete", "retry"}]
         /\ asking = [asking EXCEPT ![j] = asking[j]] /\ row = [row EXCEPT ![j] = row[j]]
         /\ run = [run EXCEPT ![j] = run[j]] /\ stream = [stream EXCEPT ![j] = stream[j]]
         /\ inbox = [inbox EXCEPT ![j] = inbox[j]]
         /\ tries[j] \in Nat /\ tries = [tries EXCEPT ![j] = tries[j]] /\ tries \in [Jobs -> Nat]
         /\ sweeper[j] \in Sweeps /\ sweeper = [sweeper EXCEPT ![j] = sweeper[j]]
         /\ sweeper \in [Jobs -> Sweeps] /\ reopened \subseteq Jobs
         /\ SaidIsCommitted(j) /\ ReadyRests(j) /\ RowFirst(j)
BY DEF TrackInv, TrackTypes, Followed

LEMMA RequestKeeps ==
  ASSUME TrackInv, NEW j \in Jobs, DeleteAnswered(j) \/ RetryAccepted(j)
  PROVE  TrackInv'
<1>1. CASE DeleteAnswered(j)
  <2>1. PICK w \in RowStates, a \in {"none", "delete", "retry"} :
          /\ row' = [row EXCEPT ![j] = w] /\ w \in {row[j], "gone"}
          /\ asking' = [asking EXCEPT ![j] = a] /\ a \in {asking[j], "none"}
          /\ row[j] # "none"
          /\ UNCHANGED <<job, drain, run, tries, sweeper, reopened, stream, inbox>>
    <3>1. PICK w \in {row[j], "gone"} : row' = [row EXCEPT ![j] = w]
      BY <1>1 DEF DeleteAnswered
    <3>2. /\ asking[j] = "delete" /\ asking' = [asking EXCEPT ![j] = "none"]
          /\ UNCHANGED <<job, drain, run, tries, sweeper, reopened, stream, inbox>>
      BY <1>1 DEF DeleteAnswered, workVars, busVars
    <3>3. row[j] # "none" BY <3>2, DocumentFacts DEF RowFirst
    <3>4. w \in RowStates BY <3>1, DocumentFacts DEF RowStates
    <3> QED BY <3>1, <3>2, <3>3, <3>4
  <2>2. row'[j] = w /\ asking'[j] = a BY <2>1, DocumentFacts
  <2>3. Followed(j)'
    BY <2>1, <2>2, DocumentFacts DEF Followed, SaidIsCommitted, Said, Unread, ReadyRests, RowFirst
  <2>4. /\ tries[j] \in Nat /\ tries' = [tries EXCEPT ![j] = tries[j]]
        /\ sweeper[j] \in Sweeps /\ sweeper' = [sweeper EXCEPT ![j] = sweeper[j]]
        /\ reopened' \subseteq Jobs /\ \A k \in Jobs \ {j} : k \in reopened' <=> k \in reopened
        /\ run[j] \in RunStates /\ stream[j] \in Streams /\ inbox[j] \in Seq(Events)
        /\ job' \in [Jobs -> JobRecords] /\ job' = job /\ drain' = drain
        /\ run' = [run EXCEPT ![j] = run[j]] /\ stream' = [stream EXCEPT ![j] = stream[j]]
        /\ inbox' = [inbox EXCEPT ![j] = inbox[j]]
    BY <2>1, DocumentFacts
  <2>5. TrackTypes' BY <2>1, <2>4, DocumentFacts DEF TrackInv, TrackTypes
  <2>6. Elsewhere(j) BY <2>1, <2>4, DocumentFacts DEF Elsewhere
  <2> QED BY <2>3, <2>4, <2>5, <2>6, OneDocument
<1>2. CASE RetryAccepted(j)
  <2> DEFINE x == [stream[j] EXCEPT !.pc = "connecting"]
             u == IF run[j] = "none" THEN "queued" ELSE run[j]
  <2>0. stream[j] \in Streams BY DocumentFacts
  <2>1. x \in Streams /\ x.seen = stream[j].seen BY <2>0 DEF Streams
  <2>2. u \in RunStates /\ u \in {run[j], "queued"} BY DocumentFacts DEF RunStates
  <2>3. /\ stream' = [stream EXCEPT ![j] = x] /\ run' = [run EXCEPT ![j] = u]
        /\ asking' = [asking EXCEPT ![j] = "none"] /\ row[j] = "failed"
        /\ UNCHANGED <<job, drain, row, tries, sweeper, reopened, inbox>>
    BY <1>2 DEF RetryAccepted, Enqueue
  <2> HIDE DEF x, u
  <2>4. stream'[j] = x /\ run'[j] = u /\ asking'[j] = "none" BY <2>3, DocumentFacts
  <2>5. Followed(j)'
    BY <2>1, <2>2, <2>3, <2>4, DocumentFacts
       DEF Followed, SaidIsCommitted, Said, Unread, ReadyRests, RowFirst
  <2>6. /\ tries[j] \in Nat /\ tries' = [tries EXCEPT ![j] = tries[j]]
        /\ sweeper[j] \in Sweeps /\ sweeper' = [sweeper EXCEPT ![j] = sweeper[j]]
        /\ reopened' \subseteq Jobs /\ \A k \in Jobs \ {j} : k \in reopened' <=> k \in reopened
        /\ row[j] \in RowStates /\ inbox[j] \in Seq(Events)
        /\ job' \in [Jobs -> JobRecords] /\ job' = job /\ drain' = drain
        /\ row' = [row EXCEPT ![j] = row[j]] /\ inbox' = [inbox EXCEPT ![j] = inbox[j]]
    BY <2>3, DocumentFacts
  <2>7. TrackTypes' BY <2>1, <2>2, <2>3, <2>6, DocumentFacts DEF TrackInv, TrackTypes
  <2>8. Elsewhere(j) BY <2>3, <2>6, DocumentFacts DEF Elsewhere
  <2> QED BY <2>5, <2>6, <2>7, <2>8, OneDocument
<1> QED BY <1>1, <1>2

\* The worker and the sweeper: the row moves before anything says where to, and
\* a ready one only when a run takes it up again.
LEMMA WorkKeeps ==
  ASSUME TrackInv, NEW j \in Jobs,
         \/ BeginIngest(j) \/ DropJob(j) \/ CommitReady(j) \/ CommitEnd(j) \/ EndJob(j)
         \/ RunFault(j) \/ MarkStuck(j) \/ ListStale(j) \/ Reap(j)
  PROVE  TrackInv'
<1>0. /\ row[j] \in RowStates /\ run[j] \in RunStates /\ tries[j] \in Nat /\ sweeper[j] \in Sweeps
      /\ {"processing", "ready", "failed", "gone"} \subseteq RowStates
      /\ {"none", "queued", "running", "over", "ready", "failed", "duplicate"} \subseteq RunStates
      /\ {"none", "reap", "announce"} \subseteq Sweeps
      /\ 0 \in Nat /\ tries[j] + 1 \in Nat
  BY DocumentFacts DEF RowStates, RunStates, Sweeps, Terminal
<1>1. PICK w \in RowStates, u \in RunStates, n \in Nat, z \in Sweeps :
        /\ row' = [row EXCEPT ![j] = w] /\ run' = [run EXCEPT ![j] = u]
        /\ tries' = [tries EXCEPT ![j] = n] /\ sweeper' = [sweeper EXCEPT ![j] = z]
        /\ row[j] # "none"
        /\ reopened' = reopened \/ (row[j] = "ready" /\ reopened' = reopened \cup {j})
        /\ \/ w = row[j] /\ u \in {run[j], "none", "queued", "failed", "over"}
           \/ w = row[j] /\ u \in {"running", "ready"} /\ row[j] = "gone"
           \/ /\ w = "processing" /\ u = "running" /\ row[j] # "gone"
              /\ row[j] = "ready" => j \in reopened'
           \/ w = "ready" /\ u = "ready" /\ row[j] = "processing"
           \/ w = "failed" /\ u \in {run[j], "failed"} /\ row[j] \notin {"gone", "ready"}
           \/ w = "gone" /\ u \in {run[j], "failed", "duplicate"}
  <2> DEFINE Keeps(w, u, n, z) ==
               /\ row' = [row EXCEPT ![j] = w] /\ run' = [run EXCEPT ![j] = u]
               /\ tries' = [tries EXCEPT ![j] = n] /\ sweeper' = [sweeper EXCEPT ![j] = z]
  <2>1. CASE BeginIngest(j)
    <3>1. /\ Keeps(row'[j], run'[j], tries[j] + 1, sweeper[j]) /\ row[j] # "none"
          /\ row'[j] \in RowStates /\ run'[j] \in RunStates
          /\ \/ /\ row[j] # "gone" /\ row'[j] = "processing" /\ run'[j] = "running"
                /\ reopened' = IF row[j] = "ready" THEN reopened \cup {j} ELSE reopened
             \/ /\ row[j] = "gone" /\ row'[j] = "gone" /\ run'[j] \in {"running", "failed"}
                /\ reopened' = reopened
      BY <1>0, <2>1, DocumentFacts DEF BeginIngest, RowFirst
    <3> QED BY <1>0, <3>1
  <2>2. CASE CommitReady(j)
    <3>1. Keeps(row'[j], run'[j], tries[j], sweeper[j]) /\ row[j] # "none" /\ reopened' = reopened
          /\ row'[j] \in RowStates /\ run'[j] \in RunStates
          /\ \/ row[j] = "processing" /\ row'[j] = "ready" /\ run'[j] = "ready"
             \/ row[j] = "gone" /\ row'[j] = "gone" /\ run'[j] = "ready"
             \/ row'[j] = row[j] /\ run'[j] = "over"
      BY <1>0, <2>2, DocumentFacts DEF CommitReady, RowFirst
    <3> QED BY <1>0, <3>1
  <2>3. CASE CommitEnd(j)
    <3>0. PICK e \in {"failed", "duplicate"}, s \in {row[j], "failed", "gone"} :
            /\ e = "duplicate" => s = "gone"
            /\ run' = [run EXCEPT ![j] = e]
            /\ row' = [row EXCEPT ![j] = IF @ = "gone" THEN @ ELSE s]
            /\ run[j] = "running"
            /\ UNCHANGED <<tries, sweeper, reopened>>
      BY <2>3 DEF CommitEnd
    <3>1. row[j] # "none" /\ row[j] # "ready" BY <3>0, DocumentFacts DEF RowFirst, ReadyRests
    <3> DEFINE w == IF row[j] = "gone" THEN "gone" ELSE s
    <3>2. /\ w \in RowStates /\ e \in RunStates
          /\ \/ w = row[j] /\ e = "failed"
             \/ w = "failed" /\ e = "failed" /\ row[j] \notin {"gone", "ready"}
             \/ w = "gone" /\ e \in {"failed", "duplicate"}
      BY <1>0, <3>0, <3>1
    <3>3. Keeps(w, e, tries[j], sweeper[j]) BY <3>0, DocumentFacts
    <3> HIDE DEF w
    <3> QED BY <1>0, <3>0, <3>1, <3>2, <3>3
  <2>4. CASE DropJob(j) \/ EndJob(j) \/ RunFault(j)
    <3>1. /\ Keeps(row[j], run'[j], tries'[j], sweeper[j]) /\ reopened' = reopened
          /\ run'[j] \in {run[j], "none", "queued"} /\ tries'[j] \in Nat /\ row[j] # "none"
      BY <1>0, <2>4, DocumentFacts
         DEF DropJob, EndJob, RunFault, WorkerDies, TimesOut, Forgotten, RowFirst, Terminal
    <3> QED BY <1>0, <3>1
  <2>5. CASE MarkStuck(j) \/ ListStale(j) \/ Reap(j)
    <3>1. /\ Keeps(row'[j], run[j], tries[j], sweeper'[j]) /\ reopened' = reopened
          /\ row'[j] \in RowStates /\ sweeper'[j] \in Sweeps /\ row[j] # "none"
          /\ \/ row'[j] = row[j]
             \/ row'[j] = "failed" /\ row[j] = "processing"
             \/ row'[j] = "gone"
      BY <1>0, <2>5, DocumentFacts DEF MarkStuck, ListStale, Reap, RowFirst
    <3> QED BY <1>0, <3>1
  <2> QED BY <2>1, <2>2, <2>3, <2>4, <2>5
<1>2. UNCHANGED <<job, drain, asking, stream, inbox>>
  BY DEF BeginIngest, DropJob, CommitReady, CommitEnd, EndJob, RunFault, WorkerDies, TimesOut,
         MarkStuck, ListStale, Reap, browserVars, busVars
<1>3. row'[j] = w /\ run'[j] = u /\ sweeper'[j] = z BY <1>1, DocumentFacts
<1>4. SaidIsCommitted(j)'
  BY <1>1, <1>2, <1>3, DocumentFacts DEF SaidIsCommitted, Said, Unread
<1>5. ReadyRests(j)' BY <1>1, <1>3, DocumentFacts DEF ReadyRests
<1>6. RowFirst(j)' BY <1>1, <1>2, <1>3, DocumentFacts DEF RowFirst
<1>7. Followed(j)' BY <1>4, <1>5, <1>6 DEF Followed
<1>8. /\ asking[j] \in {"none", "delete", "retry"} /\ stream[j] \in Streams
      /\ inbox[j] \in Seq(Events)
      /\ reopened' \subseteq Jobs /\ \A k \in Jobs \ {j} : k \in reopened' <=> k \in reopened
      /\ job' \in [Jobs -> JobRecords] /\ job' = job /\ drain' = drain
      /\ asking' = [asking EXCEPT ![j] = asking[j]] /\ stream' = [stream EXCEPT ![j] = stream[j]]
      /\ inbox' = [inbox EXCEPT ![j] = inbox[j]]
  BY <1>1, <1>2, DocumentFacts
<1>9. TrackTypes' BY <1>1, <1>8, DocumentFacts DEF TrackInv, TrackTypes
<1>10. Elsewhere(j) BY <1>1, <1>8, DocumentFacts DEF Elsewhere
<1> QED BY <1>7, <1>8, <1>9, <1>10, OneDocument

LEMMA Queues ==
  ASSUME NEW q \in Seq(Events)
  PROVE  /\ \A e \in Events :
              /\ Append(q, e) \in Seq(Events)
              /\ \A i \in DOMAIN Append(q, e) :
                   Append(q, e)[i] = e \/ \E n \in DOMAIN q : q[n] = Append(q, e)[i]
         /\ q # <<>> =>
              /\ Tail(q) \in Seq(Events) /\ Head(q) \in Events
              /\ \E n \in DOMAIN q : q[n] = Head(q)
              /\ \A i \in DOMAIN Tail(q) : \E n \in DOMAIN q : q[n] = Tail(q)[i]
<1>1. ASSUME NEW e \in Events
      PROVE  /\ Append(q, e) \in Seq(Events)
             /\ \A i \in DOMAIN Append(q, e) :
                  Append(q, e)[i] = e \/ \E n \in DOMAIN q : q[n] = Append(q, e)[i]
  BY AppendProperties
<1>2. ASSUME q # <<>>
      PROVE  /\ Tail(q) \in Seq(Events) /\ Head(q) \in Events
             /\ \E n \in DOMAIN q : q[n] = Head(q)
             /\ \A i \in DOMAIN Tail(q) : \E n \in DOMAIN q : q[n] = Tail(q)[i]
  <2>1. Len(q) \in Nat /\ Len(q) > 0 /\ DOMAIN q = 1 .. Len(q) BY <1>2, EmptySeq, LenProperties
  <2>2. Head(q) = q[1] /\ Tail(q) \in Seq(Events) /\ Len(Tail(q)) = Len(q) - 1
        /\ \A i \in 1 .. Len(Tail(q)) : Tail(q)[i] = q[i + 1]
    BY <1>2, HeadTailProperties
  <2>3. DOMAIN Tail(q) = 1 .. Len(Tail(q)) BY <2>2, LenProperties
  <2>4. \A i \in DOMAIN Tail(q) : i + 1 \in DOMAIN q /\ q[i + 1] = Tail(q)[i]
    BY <2>1, <2>2, <2>3
  <2>5. 1 \in DOMAIN q /\ q[1] \in Events BY <2>1, ElementOfSeq
  <2> QED BY <2>2, <2>4, <2>5
<1> QED BY <1>1, <1>2

\* Publishing adds the event to what is said, or nothing.
LEMMA PublishKeeps ==
  ASSUME TrackInv, NEW j \in Jobs, Embed(j) \/ Announce(j) \/ AnnounceStuck(j)
  PROVE  TrackInv'
<1>1. PICK e \in Events, u \in RunStates, z \in Sweeps :
        /\ e \in {"embedding", "failed", run[j]}
        /\ Publish(j, e)
        /\ run' = [run EXCEPT ![j] = u] /\ u \in {run[j], "over"}
        /\ sweeper' = [sweeper EXCEPT ![j] = z]
        /\ row[j] # "none"
  <2> /\ run[j] \in RunStates /\ "over" \in RunStates /\ sweeper[j] \in Sweeps /\ "none" \in Sweeps
      /\ {"embedding", "failed"} \subseteq Events /\ Terminal \subseteq Events
    BY DocumentFacts DEF Events, RunStates, Sweeps, Terminal
  <2>1. CASE Embed(j) BY <2>1, DocumentFacts DEF Embed, workVars, RowFirst
  <2>2. CASE Announce(j) BY <2>2, DocumentFacts DEF Announce, RowFirst, Terminal
  <2>3. CASE AnnounceStuck(j) BY <2>3, DocumentFacts DEF AnnounceStuck, RowFirst
  <2> QED BY <2>1, <2>2, <2>3
<1>2. PICK b \in Seq(Events) :
        /\ inbox' = [inbox EXCEPT ![j] = b]
        /\ \A i \in DOMAIN b : b[i] = e \/ \E n \in DOMAIN inbox[j] : inbox[j][n] = b[i]
  <2>1. inbox[j] \in Seq(Events) /\ inbox = [inbox EXCEPT ![j] = inbox[j]] BY DocumentFacts
  <2>2. Append(inbox[j], e) \in Seq(Events)
        /\ \A i \in DOMAIN Append(inbox[j], e) :
             \/ Append(inbox[j], e)[i] = e
             \/ \E n \in DOMAIN inbox[j] : inbox[j][n] = Append(inbox[j], e)[i]
    BY <2>1, Queues
  <2>3. CASE inbox' = [inbox EXCEPT ![j] = Append(@, e)]
    BY <2>1, <2>2, <2>3
  <2>4. CASE UNCHANGED inbox BY <2>1, <2>4
  <2> QED BY <1>1, <2>3, <2>4 DEF Publish
<1>3. UNCHANGED <<job, drain, asking, row, tries, reopened, stream>>
  BY DEF Embed, Announce, AnnounceStuck, browserVars, workVars
<1>4. inbox'[j] = b /\ run'[j] = u /\ sweeper'[j] = z BY <1>1, <1>2, DocumentFacts
<1>5. ASSUME NEW x \in {"ready", "duplicate"}, Said(j, x)' PROVE Said(j, x)
  BY <1>1, <1>2, <1>3, <1>4, <1>5 DEF Said, Unread
<1>6. Followed(j)'
  BY <1>1, <1>3, <1>4, <1>5, DocumentFacts DEF Followed, SaidIsCommitted, ReadyRests, RowFirst
<1>7. /\ asking[j] \in {"none", "delete", "retry"} /\ row[j] \in RowStates
      /\ stream[j] \in Streams
      /\ tries[j] \in Nat /\ tries' = [tries EXCEPT ![j] = tries[j]]
      /\ reopened' \subseteq Jobs /\ \A k \in Jobs \ {j} : k \in reopened' <=> k \in reopened
      /\ job' \in [Jobs -> JobRecords] /\ job' = job /\ drain' = drain
      /\ asking' = [asking EXCEPT ![j] = asking[j]] /\ row' = [row EXCEPT ![j] = row[j]]
      /\ stream' = [stream EXCEPT ![j] = stream[j]]
  BY <1>3, DocumentFacts
<1>8. TrackTypes' BY <1>1, <1>2, <1>7, DocumentFacts DEF TrackInv, TrackTypes
<1>9. Elsewhere(j) BY <1>1, <1>2, <1>7, DocumentFacts DEF Elsewhere
<1> QED BY <1>6, <1>7, <1>8, <1>9, OneDocument

\* What the browser shows of an event or a snapshot is what it says.
LEMMA ShowsEvent ==
  ASSUME TrackInv, NEW j \in Jobs, NEW e \in Events \cup RowStates, job' = Shown(j, e)
  PROVE  /\ job' \in [Jobs -> JobRecords]
         /\ \A k \in Jobs \ {j} : job'[k] = job[k]
         /\ job'[j].known = job[j].known
         /\ \/ job'[j].status = job[j].status
            \/ Exists(j) /\ job'[j].status = "processing"
            \/ Exists(j) /\ e \in Terminal /\ job'[j].status = e
<1>1. job \in [Jobs -> JobRecords] BY DocumentFacts
<1>2. ASSUME NEW status \in JobStates, job' = Patch(j, status)
      PROVE  /\ job' \in [Jobs -> JobRecords]
             /\ \A k \in Jobs \ {j} : job'[k] = job[k]
             /\ job'[j].known = job[j].known
             /\ job'[j].status = IF Exists(j) THEN status ELSE job[j].status
  <2>1. TrackTypes BY DEF TrackInv
  <2>2. \A k \in Jobs \ {j} : job'[k] = job[k] BY <1>1, <1>2 DEF Patch
  <2> QED BY <1>2, <2>1, <2>2, Patches
<1>3. "processing" \in JobStates /\ Terminal \subseteq JobStates BY DEF JobStates
<1> QED BY <1>1, <1>2, <1>3 DEF Shown

LEMMA StreamKeeps ==
  ASSUME TrackInv, NEW j \in Jobs, StreamStep(j) \/ StreamFault(j)
  PROVE  TrackInv'
<1>1. PICK x \in Streams, b \in Seq(Events) :
        /\ stream' = [stream EXCEPT ![j] = x] /\ inbox' = [inbox EXCEPT ![j] = b]
        /\ stream[j].pc # "closed"
        /\ x.seen \in {"none", row[j], stream[j].seen}
        /\ \A i \in DOMAIN b : \E n \in DOMAIN inbox[j] : inbox[j][n] = b[i]
  <2>1. /\ inbox[j] \in Seq(Events) /\ row[j] \in RowStates /\ stream[j] \in Streams
        /\ <<>> \in Seq(Events) /\ DOMAIN <<>> = {}
        /\ inbox = [inbox EXCEPT ![j] = inbox[j]] /\ stream = [stream EXCEPT ![j] = stream[j]]
    BY DocumentFacts, EmptySeq
  <2>2. /\ Off \in Streams /\ Off.seen = "none" /\ "none" \in RowStates
        /\ Refused \in Streams /\ Refused.seen = "none"
        /\ \A pc \in {"connecting", "snapshot", "live"}, s \in RowStates :
             [pc |-> pc, seen |-> s] \in Streams /\ [pc |-> pc, seen |-> s].seen = s
    BY DEF Off, Refused, Streams, RowStates
  <2>3. CASE ReadSnapshot(j)
    <3> DEFINE x == IF row[j] = "gone" THEN Refused ELSE [pc |-> "snapshot", seen |-> row[j]]
    <3>1. x \in Streams /\ x.seen \in {"none", row[j]} BY <2>1, <2>2
    <3>2. stream' = [stream EXCEPT ![j] = x] /\ stream[j].pc # "closed" /\ inbox' = inbox
      BY <2>3 DEF ReadSnapshot
    <3> HIDE DEF x
    <3> QED BY <2>1, <3>1, <3>2
  <2>4. CASE DeliverSnapshot(j)
    <3> DEFINE x == IF stream[j].seen \in {"ready", "failed"} THEN Off
                    ELSE [pc |-> "live", seen |-> "none"]
    <3>1. x \in Streams /\ x.seen = "none" BY <2>1, <2>2
    <3>2. /\ stream' = [stream EXCEPT ![j] = x] /\ stream[j].pc # "closed"
          /\ inbox' = [inbox EXCEPT ![j] = <<>>]
      BY <2>4 DEF DeliverSnapshot
    <3> HIDE DEF x
    <3> QED BY <2>1, <3>1, <3>2
  <2>5. CASE DeliverEvent(j)
    <3> DEFINE x == IF Head(inbox[j]) \in Terminal THEN Off ELSE stream[j]
               b == IF Head(inbox[j]) \in Terminal THEN <<>> ELSE Tail(inbox[j])
    <3>1. x \in Streams /\ x.seen \in {"none", stream[j].seen} BY <2>1, <2>2
    <3>2. inbox[j] # <<>> BY <2>5 DEF DeliverEvent
    <3>3. b \in Seq(Events) /\ \A i \in DOMAIN b : \E n \in DOMAIN inbox[j] : inbox[j][n] = b[i]
      <4>1. CASE Head(inbox[j]) \in Terminal BY <2>1, <4>1
      <4>2. CASE Head(inbox[j]) \notin Terminal BY <2>1, <3>2, <4>2, Queues
      <4> QED BY <4>1, <4>2
    <3>4. /\ stream' = [stream EXCEPT ![j] = x] /\ stream[j].pc # "closed"
          /\ inbox' = [inbox EXCEPT ![j] = b]
      BY <2>5 DEF DeliverEvent
    <3> HIDE DEF x, b
    <3> QED BY <3>1, <3>3, <3>4
  <2>6. CASE Reconnect(j)
    <3>1. /\ stream' = [stream EXCEPT ![j] = [pc |-> "connecting", seen |-> "none"]]
          /\ stream[j].pc # "closed" /\ inbox' = [inbox EXCEPT ![j] = <<>>]
      BY <2>6 DEF Reconnect
    <3> QED BY <2>1, <2>2, <3>1
  <2>7. CASE Refuse(j)
    <3>1. stream' = [stream EXCEPT ![j] = Refused] /\ stream[j].pc # "closed" /\ inbox' = inbox
      BY <2>7 DEF Refuse
    <3> QED BY <2>1, <2>2, <3>1
  <2> QED BY <2>3, <2>4, <2>5, <2>6, <2>7 DEF StreamStep, StreamFault
<1>2. UNCHANGED <<drain, asking, row, run, tries, sweeper, reopened>>
  BY DEF StreamStep, StreamFault, ReadSnapshot, Refuse, DeliverSnapshot, DeliverEvent, Reconnect,
         browserVars, workVars
<1>3. /\ job' \in [Jobs -> JobRecords]
      /\ \A k \in Jobs \ {j} : job'[k] = job[k]
      /\ job'[j].known = job[j].known
      /\ \/ job'[j].status = job[j].status
         \/ Exists(j) /\ job'[j].status \in {"processing", "failed"}
         \/ job'[j].status \in {"ready", "duplicate"} /\ Exists(j) /\ Said(j, job'[j].status)
  <2>1. CASE job' = job BY <2>1, DocumentFacts
  <2>2. CASE DeliverSnapshot(j)
    <3>1. stream[j].seen \in RowStates BY DocumentFacts DEF Streams
    <3>2. job' = Shown(j, stream[j].seen) BY <2>2 DEF DeliverSnapshot
    <3> QED BY <3>1, <3>2, ShowsEvent DEF Terminal, Said
  <2>3. CASE DeliverEvent(j)
    <3>1. inbox[j] \in Seq(Events) /\ inbox[j] # <<>> BY <2>3, DocumentFacts DEF DeliverEvent
    <3>2. Head(inbox[j]) \in Events /\ Unread(j, Head(inbox[j])) BY <3>1, Queues DEF Unread
    <3>3. job' = Shown(j, Head(inbox[j])) BY <2>3 DEF DeliverEvent
    <3> QED BY <3>2, <3>3, ShowsEvent DEF Terminal, Said
  <2> QED BY <2>1, <2>2, <2>3
          DEF StreamStep, StreamFault, ReadSnapshot, Refuse, Reconnect, browserVars
<1>4. stream'[j] = x /\ inbox'[j] = b BY <1>1, DocumentFacts
<1>5. ASSUME NEW e \in {"ready", "duplicate"}, Said(j, e)' PROVE Said(j, e) \/ row[j] = e
  BY <1>1, <1>2, <1>3, <1>4, <1>5 DEF Said, Unread
<1>6. SaidIsCommitted(j)'
  <2>1. row[j] # "duplicate" BY DocumentFacts DEF RowStates
  <2> QED BY <1>2, <1>5, <2>1, DocumentFacts DEF SaidIsCommitted
<1>7. ReadyRests(j)' BY <1>2, DocumentFacts DEF ReadyRests
<1>8. RowFirst(j)'
  BY <1>1, <1>2, <1>3, <1>4, DocumentFacts DEF RowFirst, Exists
<1>9. Followed(j)' BY <1>6, <1>7, <1>8 DEF Followed
<1>10. /\ tries[j] \in Nat /\ tries' = [tries EXCEPT ![j] = tries[j]]
       /\ sweeper[j] \in Sweeps /\ sweeper' = [sweeper EXCEPT ![j] = sweeper[j]]
       /\ reopened' \subseteq Jobs /\ \A k \in Jobs \ {j} : k \in reopened' <=> k \in reopened
       /\ asking[j] \in {"none", "delete", "retry"} /\ row[j] \in RowStates
       /\ run[j] \in RunStates /\ drain' = drain
       /\ asking' = [asking EXCEPT ![j] = asking[j]] /\ row' = [row EXCEPT ![j] = row[j]]
       /\ run' = [run EXCEPT ![j] = run[j]]
  BY <1>2, DocumentFacts
<1>11. TrackTypes' BY <1>1, <1>3, <1>10, DocumentFacts DEF TrackInv, TrackTypes
<1>12. Elsewhere(j) BY <1>1, <1>3, <1>10, DocumentFacts DEF Elsewhere
<1> QED BY <1>9, <1>10, <1>11, <1>12, OneDocument

LEMMA TrackStep == TrackInv /\ [TrackNext]_trackVars => TrackInv'
<1> SUFFICES ASSUME TrackInv, [TrackNext]_trackVars PROVE TrackInv'
  OBVIOUS
<1>1. CASE UNCHANGED trackVars
  BY <1>1 DEF trackVars, browserVars, workVars, busVars, TrackInv, TrackTypes, Followed,
              SaidIsCommitted, Said, Unread, ReadyRests, RowFirst
<1>2. CASE StartDrain \/ DrainStep \/ ClearCompleted
  BY <1>2, DrainKeeps, UploadKeeps, ForgetKeeps DEF DrainStep
<1>3. ASSUME NEW j \in Jobs, StoreStep(j) \/ RequestStep(j) PROVE TrackInv'
  BY <1>3, StoreKeeps, RetryJobKeeps, RequestKeeps, ForgetKeeps DEF StoreStep, RequestStep
<1>4. ASSUME NEW j \in Jobs, StreamStep(j) \/ StreamFault(j) PROVE TrackInv'
  BY <1>4, StreamKeeps
<1>5. ASSUME NEW j \in Jobs, RunStep(j) \/ RunFault(j) \/ Embed(j) \/ SweepStep(j)
      PROVE  TrackInv'
  BY <1>5, WorkKeeps, PublishKeeps DEF RunStep, SweepStep
<1> QED BY <1>1, <1>2, <1>3, <1>4, <1>5, TrackingAssumption DEF TrackNext

\* What the browser says is final was committed before, for any number of files,
\* retries, reconnections, refused streams, lost events, and interrupted, timed out
\* and redelivered runs: a job shown ready has a ready document, one deleted since
\* or one a later run took up again; a duplicate has lost its own (onEvent,
\* stream_events, run, update_status).
THEOREM FinalIsCommitted == TrackSpec => []ShownIsCommitted
<1>1. TrackInv => ShownIsCommitted
  BY DEF TrackInv, Followed, SaidIsCommitted, Said, ShownIsCommitted
<1> QED BY <1>1, TrackInitially, TrackStep, PTL DEF TrackSpec
=============================================================================
