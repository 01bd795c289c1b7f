------------------------------ MODULE MusicJobs ------------------------------
(* The music upload gate of the HTTP service, the table of transcoding jobs    *)
(* and its worker thread (music_jobs.c), and the music library they share with *)
(* the delete requests.  Two web server threads serve any number of            *)
(* connections, so the handlers of different connections interleave at the     *)
(* mutexes and at the file system.                                             *)
(*                                                                             *)
(* Abstracted: MP3 contents and settings, progress percentages, the copy of an *)
(* upload in /tmp before it is staged, and the answers' text.  Whether a job   *)
(* is MUSIC_JOB_COMPLETE or MUSIC_JOB_FAILED matters to the page that lists it *)
(* only: both are "ended".  unlink of a file that exists succeeds.             *)
EXTENDS Integers, FiniteSets, Sequences, Functions

CONSTANTS Conns,      \* connections of web clients
          Songs,      \* file names in the music library
          Batches,    \* the song lists a client may upload at once
          SlotCount,  \* MP_MUSIC_JOB_MAX
          Quota,      \* g_music_quota_bytes, in units of size
          MaxSize,    \* largest transcoded song, in the same units
          MaxId       \* bound on job identifiers handed out per service run

ASSUME SongsAssumption == IsFiniteSet(Songs) /\ Songs # {}
ASSUME BoundsAssumption ==
  SlotCount \in Nat \ {0} /\ Quota \in Nat /\ MaxSize \in Nat \ {0} /\ MaxId \in Nat
ASSUME BatchAssumption ==
  \A b \in Batches : b \in Seq(Songs) /\ Len(b) \in 1..SlotCount
                     /\ \A i, j \in DOMAIN b : i # j => b[i] # b[j]

VARIABLES
  gate,     \* g_music_upload_in_progress
  conn,     \* what each connection's request has reached
  job,      \* g_jobs
  nextId,   \* g_next_id
  worker,   \* the worker thread and its copy of the job
  files,    \* temporary files of the .processing directory
  library,  \* sizes of the songs in the music directory, 0 for none
  phase     \* the service process: "up", "stopping", "joining", "down"

vars == <<gate, conn, job, nextId, worker, files, library, phase>>

Slots == 1..SlotCount
None == 0
Names == 1..(2 * SlotCount)   \* what mkstemp may answer; two batches never run out of them

ConnPcs == {"idle", "gated", "ungate", "body", "save", "stage", "queue", "drop", "unlink", "done"}
Kinds == {"music", "podcast", "delete", "wipe"}
Answers == {"none", "ok", "locked", "refused", "busy", "slots", "stopped"}
Quiet == [pc |-> "idle", kind |-> "music", batch |-> <<>>, reserved |-> FALSE,
          staged |-> <<>>, left |-> {}, answer |-> "none"]
EmptyJob == [st |-> "empty", id |-> None, file |-> CHOOSE s \in Songs : TRUE,
             src |-> None, old |-> FALSE]
Resting == [pc |-> "wait", id |-> None, file |-> CHOOSE s \in Songs : TRUE,
            src |-> None, size |-> 0, seen |-> 0]

\* mp_asset_directory_bytes: every unit of size that a song of library l takes up.
Bytes(l) == Cardinality({u \in Songs \X (1..MaxSize) : u[2] <= l[u[1]]})

Init ==
  /\ gate = FALSE
  /\ conn = [c \in Conns |-> Quiet]
  /\ job = [s \in Slots |-> EmptyJob]
  /\ nextId = 1
  /\ worker = Resting
  /\ files = [src |-> {}, out |-> FALSE]
  /\ library \in {l \in [Songs -> {0, 1}] : Bytes(l) <= Quota}
  /\ phase = "up"

\* mp_music_jobs_active and mp_music_jobs_file_active, each read under g_lock.
Active == \E s \in Slots : job[s].st \in {"queued", "processing"}
FileActive(f) == \E s \in Slots : job[s].st \in {"queued", "processing"} /\ job[s].file = f
Finished(s) == job[s].st = "ended"

\* ------------------------------------------------ the upload gate and request life

Move(c, to) == conn' = [conn EXCEPT ![c].pc = to]
Answer(c, a) == conn' = [conn EXCEPT ![c].pc = "done", ![c].batch = <<>>, ![c].answer = a]
KeepJobs == UNCHANGED <<job, nextId, worker>>
KeepDisk == UNCHANGED <<files, library, phase>>

\* First call of the handler for an upload: the first half of music_upload_try_reserve.
BeginUpload(c, kind, batch) ==
  /\ phase = "up" /\ conn[c].pc = "idle" /\ nextId + Len(batch) <= MaxId + 1
  /\ gate' = TRUE
  /\ conn' = [conn EXCEPT ![c] = IF gate THEN [Quiet EXCEPT !.pc = "done", !.answer = "locked"]
                                 ELSE [Quiet EXCEPT !.pc = "gated", !.kind = kind, !.batch = batch]]
  /\ KeepJobs /\ KeepDisk

\* The other half: with the flag set, nothing may be queued or processing.
Reserve(c) ==
  /\ conn[c].pc = "gated"
  /\ conn' = [conn EXCEPT ![c].pc = IF Active THEN "ungate" ELSE "body",
                          ![c].reserved = ~Active]
  /\ UNCHANGED gate /\ KeepJobs /\ KeepDisk

Unreserve(c) ==
  /\ conn[c].pc = "ungate"
  /\ gate' = FALSE
  /\ Answer(c, "locked") /\ KeepJobs /\ KeepDisk

\* The connection ends, answered, timed out or closed while its body arrives:
\* request_completed releases the reservation and removes the uploads in /tmp.
Completed(c) ==
  /\ conn[c].pc \in {"body", "done"}
  /\ gate' = (gate /\ ~conn[c].reserved)
  /\ conn' = [conn EXCEPT ![c] = Quiet]
  /\ KeepJobs /\ KeepDisk

\* ------------------------------------------------ upload_music and upload_podcasts

\* A malformed body, unusable files or settings, or no space left.
Refuse(c) ==
  /\ conn[c].pc \in {"body", "save"} /\ Answer(c, "refused")
  /\ UNCHANGED gate /\ KeepJobs /\ KeepDisk

\* The whole body is there: both uploads look at the job table again.
BodyReceived(c) ==
  /\ conn[c].pc = "body"
  /\ IF Active THEN Answer(c, "busy")
     ELSE Move(c, IF conn[c].kind = "music" THEN "stage" ELSE "save")
  /\ UNCHANGED gate /\ KeepJobs /\ KeepDisk

\* upload_podcasts leaves its files in the upload directory, see PodcastImport.
SavePodcasts(c) ==
  /\ conn[c].pc = "save" /\ Answer(c, "ok")
  /\ UNCHANGED gate /\ KeepJobs /\ KeepDisk

\* One file is moved to a fresh .source- name; mkstemp never answers a name in use.
Stage(c) ==
  /\ conn[c].pc = "stage"
  /\ \E n \in Names \ files.src :
       /\ \A m \in Names \ files.src : n <= m
       /\ files' = [files EXCEPT !.src = @ \cup {n}]
       /\ conn' = [conn EXCEPT ![c].staged = Append(@, n),
            ![c].pc = IF Len(conn[c].staged) + 1 = Len(conn[c].batch) THEN "queue" ELSE "stage"]
  /\ UNCHANGED <<gate, library, phase>> /\ KeepJobs

StageFails(c) ==
  /\ conn[c].pc = "stage"
  /\ conn' = [conn EXCEPT ![c].pc = "drop", ![c].answer = "refused"]
  /\ UNCHANGED gate /\ KeepJobs /\ KeepDisk

\* Slots a batch may be written to, in the order they are taken: empty or expired
\* ones, then those of recent history.
Reusable(s) == job[s].st = "empty" \/ (Finished(s) /\ job[s].old)
UsableExpired == {s \in Slots : Reusable(s)}   \* mutant: history blocks
Usable == {s \in Slots : Reusable(s) \/ Finished(s)}
Sooner(s, t) == \/ Reusable(s) /\ ~Reusable(t)
                \/ (Reusable(s) <=> Reusable(t)) /\ s < t
Place(s) == Cardinality({t \in Usable : Sooner(t, s)}) + 1

\* The next identifier once a batch of n has used some up.
Issue(n) == nextId + n
\* mp_music_jobs_queue_batch, all of it under g_lock.
QueueBatch(c) ==
  LET batch == conn[c].batch
      refuse(a) == /\ conn' = [conn EXCEPT ![c].pc = "drop", ![c].answer = a]
                   /\ UNCHANGED <<job, nextId>>
      filled(i) == [st |-> "queued", id |-> nextId + i - 1, file |-> batch[i],
                    src |-> conn[c].staged[i], old |-> FALSE]
  IN /\ conn[c].pc = "queue"
     /\ CASE phase \in {"joining", "down"} -> refuse("stopped")
          [] Active -> refuse("busy")
          [] Cardinality(Usable) < Len(batch) -> refuse("slots")
          [] OTHER ->
               /\ job' = [s \in Slots |-> IF s \in Usable /\ Place(s) <= Len(batch)
                                          THEN filled(Place(s)) ELSE job[s]]
               /\ nextId' = Issue(Len(batch))
               /\ conn' = [conn EXCEPT ![c].pc = "done", ![c].answer = "ok", ![c].batch = <<>>, ![c].staged = <<>>]
     /\ UNCHANGED <<gate, worker, files, library, phase>>

\* Mutant: the staged files are forgotten.
DropNothing(c) ==
  /\ conn[c].pc = "drop"
  /\ conn' = [conn EXCEPT ![c].pc = "done", ![c].batch = <<>>, ![c].staged = <<>>]
  /\ UNCHANGED <<gate, files, library, phase>> /\ KeepJobs

\* A batch that was not taken: its staged files are removed before the answer.
DropStaged(c) ==
  /\ conn[c].pc = "drop"
  /\ files' = [files EXCEPT !.src = @ \ Range(conn[c].staged)]
  /\ conn' = [conn EXCEPT ![c].pc = "done", ![c].batch = <<>>, ![c].staged = <<>>]
  /\ UNCHANGED <<gate, library, phase>> /\ KeepJobs

\* ------------------------------------------------ delete_music, delete_all_music

Present == {f \in Songs : library[f] > 0}

BeginDelete(c, f) ==
  /\ phase = "up" /\ conn[c].pc = "idle"
  /\ conn' = [conn EXCEPT ![c] =
       IF FileActive(f) THEN [Quiet EXCEPT !.pc = "done", !.kind = "delete", !.answer = "busy"]
       ELSE [Quiet EXCEPT !.pc = "unlink", !.kind = "delete", !.left = {f}]]
  /\ UNCHANGED gate /\ KeepJobs /\ KeepDisk

BeginDeleteAll(c) ==
  /\ phase = "up" /\ conn[c].pc = "idle"
  /\ conn' = [conn EXCEPT ![c] =
       IF Active THEN [Quiet EXCEPT !.pc = "done", !.kind = "wipe", !.answer = "busy"]
       ELSE [Quiet EXCEPT !.pc = "unlink", !.kind = "wipe", !.left = Present]]
  /\ UNCHANGED gate /\ KeepJobs /\ KeepDisk

\* One unlink.  A file that appears during readdir may or may not be listed.
Unlink(c) ==
  /\ conn[c].pc = "unlink" /\ conn[c].left # {}
  /\ \E f \in conn[c].left \cup (IF conn[c].kind = "wipe" THEN Present ELSE {}) :
       /\ library' = [library EXCEPT ![f] = 0]
       /\ conn' = [conn EXCEPT ![c].left = @ \ {f}]
  /\ UNCHANGED <<gate, files, phase>> /\ KeepJobs

Deleted(c) ==
  /\ conn[c].pc = "unlink" /\ conn[c].left = {} /\ Answer(c, "ok")
  /\ UNCHANGED gate /\ KeepJobs /\ KeepDisk

\* ------------------------------------------------ queue housekeeping by requests

\* mp_music_jobs_clear_queued: waiting jobs go, with their files.
ClearQueued ==
  LET queued == {s \in Slots : job[s].st = "queued"} IN
  /\ phase = "up" /\ queued # {}
  /\ files' = [files EXCEPT !.src = @ \ {job[s].src : s \in queued}]
  /\ job' = [s \in Slots |-> IF s \in queued THEN EmptyJob ELSE job[s]]
  /\ UNCHANGED <<gate, conn, nextId, worker, library, phase>>

\* More than JOB_RETENTION_SECONDS pass after a job ended.
Ages(s) ==
  /\ Finished(s) /\ ~job[s].old
  /\ job' = [job EXCEPT ![s].old = TRUE]
  /\ UNCHANGED <<gate, conn, nextId, worker, files, library, phase>>

\* mp_music_jobs_snapshot forgets the jobs whose retention is over.
Snapshot ==
  /\ phase = "up" /\ \E s \in Slots : Finished(s) /\ job[s].old
  /\ job' = [s \in Slots |-> IF Finished(s) /\ job[s].old THEN EmptyJob ELSE job[s]]
  /\ UNCHANGED <<gate, conn, nextId, worker, files, library, phase>>

\* ------------------------------------------------ the worker: worker_main, process_job

KeepRequests == UNCHANGED <<gate, conn, nextId, phase>>

\* The queued job with the lowest identifier, copied under g_lock.
TakeJob ==
  /\ worker.pc = "wait" /\ phase \in {"up", "stopping"}
  /\ \E s \in Slots :
       /\ job[s].st = "queued"
       /\ \A t \in Slots : job[t].st = "queued" => job[s].id <= job[t].id
       /\ job' = [job EXCEPT ![s].st = "processing"]
       /\ worker' = [Resting EXCEPT !.pc = "output", !.id = job[s].id,
                                    !.file = job[s].file, !.src = job[s].src]
  /\ KeepRequests /\ UNCHANGED <<files, library>>

CreateOutput ==
  /\ worker.pc = "output"
  /\ files' = [files EXCEPT !.out = TRUE]
  /\ worker' = [worker EXCEPT !.pc = "optimize"]
  /\ KeepRequests /\ UNCHANGED <<job, library>>

\* mp_asset_optimize_mp3 reads the source and ends with an output that validates.
Optimize ==
  /\ worker.pc = "optimize" /\ worker.src \in files.src
  /\ \E n \in 1..MaxSize : worker' = [worker EXCEPT !.pc = "scan", !.size = n]
  /\ KeepRequests /\ UNCHANGED <<job, files, library>>

\* output_quota_allows: the directory is measured first, the replaced file after it.
ScanLibrary ==
  /\ worker.pc = "scan"
  /\ worker' = [worker EXCEPT !.pc = "quota", !.seen = Bytes(library)]
  /\ KeepRequests /\ UNCHANGED <<job, files, library>>

Retained == IF worker.seen >= library[worker.file] THEN worker.seen - library[worker.file] ELSE 0

\* Mutant: the new file's own size is not counted.
WithinQuotaSoFar ==
  /\ worker.pc = "quota" /\ Retained <= Quota
  /\ worker' = [worker EXCEPT !.pc = "rename", !.seen = 0]
  /\ KeepRequests /\ UNCHANGED <<job, files, library>>

WithinQuota ==
  /\ worker.pc = "quota" /\ Retained + worker.size <= Quota
  /\ worker' = [worker EXCEPT !.pc = "rename", !.seen = 0]
  /\ KeepRequests /\ UNCHANGED <<job, files, library>>

Rename ==
  /\ worker.pc = "rename"
  /\ library' = [library EXCEPT ![worker.file] = worker.size]
  /\ files' = [files EXCEPT !.out = FALSE]
  /\ worker' = [worker EXCEPT !.pc = "cleanup"]
  /\ KeepRequests /\ UNCHANGED job

RemoveSource ==
  /\ worker.pc = "cleanup"
  /\ files' = [files EXCEPT !.src = @ \ {worker.src}]
  /\ worker' = [worker EXCEPT !.pc = "finish", !.src = None, !.size = 0]
  /\ KeepRequests /\ UNCHANGED <<job, library>>

\* Mutant: an error path without finish_job.
JobFailsSilently ==
  /\ worker.pc \in {"output", "optimize", "quota", "rename"}
  /\ files' = [src |-> files.src \ {worker.src}, out |-> FALSE]
  /\ worker' = Resting
  /\ KeepRequests /\ UNCHANGED <<job, library>>

\* No output file, an unreadable source, no quota or space, a failed rename: the
\* output and the source are removed.
JobFails ==
  /\ worker.pc \in {"output", "optimize", "quota", "rename"}
  /\ files' = [src |-> files.src \ {worker.src}, out |-> FALSE]
  /\ worker' = [worker EXCEPT !.pc = "finish", !.src = None, !.size = 0, !.seen = 0]
  /\ KeepRequests /\ UNCHANGED <<job, library>>

\* finish_job finds the slot again by identifier, after the core was notified.
FinishJob ==
  /\ worker.pc = "finish"
  /\ job' = [s \in Slots |-> IF job[s].st # "empty" /\ job[s].id = worker.id
               THEN [job[s] EXCEPT !.st = "ended", !.src = None] ELSE job[s]]
  /\ worker' = Resting
  /\ KeepRequests /\ UNCHANGED <<files, library>>

\* ------------------------------------------------ service stop, crash and start

\* MHD_stop_daemon: no new request, the running ones finish.
StopDaemon ==
  /\ phase = "up" /\ phase' = "stopping"
  /\ UNCHANGED <<gate, conn, job, nextId, worker, files, library>>

\* mp_music_jobs_stop: what still waits fails, then the worker is joined.
StopJobs ==
  LET queued == {s \in Slots : job[s].st = "queued"} IN
  /\ phase = "stopping" /\ \A c \in Conns : conn[c].pc = "idle"
  /\ phase' = "joining"
  /\ files' = [files EXCEPT !.src = @ \ {job[s].src : s \in queued}]
  /\ job' = [s \in Slots |-> IF s \in queued THEN [job[s] EXCEPT !.st = "ended", !.src = None]
                             ELSE job[s]]
  /\ UNCHANGED <<gate, conn, nextId, worker, library>>

Gone ==
  /\ phase' = "down" /\ gate' = FALSE /\ nextId' = 1 /\ worker' = Resting
  /\ conn' = [c \in Conns |-> Quiet]
  /\ job' = [s \in Slots |-> EmptyJob]
  /\ UNCHANGED <<files, library>>

Exit == phase = "joining" /\ worker.pc = "wait" /\ Gone

\* A kill or a power loss: the temporary files stay.
Crash == phase # "down" /\ Gone

\* mp_music_jobs_start: clean_processing_directory before the worker exists.
Start ==
  /\ phase = "down" /\ phase' = "up"
  /\ files' = [src |-> {}, out |-> FALSE]
  /\ UNCHANGED <<gate, conn, job, nextId, worker, library>>

\* ------------------------------------------------ specification

Upload(c) == \/ \E b \in Batches : BeginUpload(c, "music", b)
             \/ BeginUpload(c, "podcast", <<>>)
Begin(c) == Upload(c) \/ BeginDeleteAll(c) \/ \E f \in Songs : BeginDelete(c, f)
Serve(c) == \/ Reserve(c) \/ Unreserve(c) \/ Completed(c) \/ Refuse(c) \/ BodyReceived(c)
            \/ SavePodcasts(c) \/ Stage(c) \/ StageFails(c) \/ QueueBatch(c) \/ DropStaged(c)
            \/ Unlink(c) \/ Deleted(c)
Work == \/ TakeJob \/ CreateOutput \/ Optimize \/ ScanLibrary \/ WithinQuota \/ Rename
        \/ RemoveSource \/ JobFails \/ FinishJob
Life == StopDaemon \/ StopJobs \/ Exit \/ Crash \/ Start

Next == \/ \E c \in Conns : Begin(c) \/ Serve(c)
        \/ ClearQueued \/ Snapshot \/ \E s \in Slots : Ages(s)
        \/ Work \/ Life

\* Threads are scheduled, MHD times a silent connection out after
\* HTTP_CONNECTION_TIMEOUT_SEC, and systemd restarts the service (Restart=always).
Fairness == /\ \A c \in Conns : WF_vars(Serve(c))
            /\ WF_vars(Work) /\ WF_vars(StopJobs \/ Exit \/ Start)

Spec == Init /\ [][Next]_vars /\ Fairness

\* ------------------------------------------------ properties

Request == [pc : ConnPcs, kind : Kinds, batch : Batches \cup {<<>>}, reserved : BOOLEAN,
            staged : Seq(Names), left : SUBSET Songs, answer : Answers]
Job == [st : {"empty", "queued", "processing", "ended"}, id : 0..MaxId, file : Songs,
        src : {None} \cup Names, old : BOOLEAN]
Worker == [pc : {"wait", "output", "optimize", "scan", "quota", "rename", "cleanup", "finish"},
           id : 0..MaxId, file : Songs, src : {None} \cup Names, size : 0..MaxSize, seen : Nat]

\* Every variable holds a value of its type.
TypeOK ==
  /\ gate \in BOOLEAN /\ phase \in {"up", "stopping", "joining", "down"}
  /\ conn \in [Conns -> Request] /\ job \in [Slots -> Job] /\ worker \in Worker
  /\ nextId \in 1..(MaxId + 1)
  /\ files \in [src : SUBSET Names, out : BOOLEAN]
  /\ library \in [Songs -> 0..MaxSize]

\* The upload flag is set exactly while one request holds it: two uploads never
\* pass the gate together, and no ending of a request leaves it shut.
Holds(c) == conn[c].pc \in {"gated", "ungate"} \/ conn[c].reserved
GateHeld == /\ gate <=> \E c \in Conns : Holds(c)
            /\ \A c, d \in Conns : Holds(c) /\ Holds(d) => c = d

\* Once an upload has been let in and its body read, it is never turned away
\* because of other work: neither a running job, nor finished history, nor the
\* stopping service refuses it ("never let completed history block a new batch").
NeverTurnedAwayLate ==
  \A c \in Conns : conn[c].kind \in {"music", "podcast"} =>
    conn[c].answer \notin {"busy", "slots", "stopped"}

\* One upload at a time, and whoever was let in is served (music_upload_try_reserve,
\* mp_music_jobs_queue_batch).
UploadGate == GateHeld /\ NeverTurnedAwayLate

\* Each temporary source has exactly one owner - the request staging it, a queued
\* job, or the worker - so none is left behind and none is missing when it is read.
InStaging(c) == Range(conn[c].staged)
InQueue == {job[s].src : s \in {t \in Slots : job[t].st = "queued"}}
InWorker == {worker.src} \ {None}
SourcesOwned ==
  phase # "down" =>
    /\ files.src = (UNION {InStaging(c) : c \in Conns}) \cup InQueue \cup InWorker
    /\ InQueue \cap InWorker = {}
    /\ \A c \in Conns : InStaging(c) \cap (InQueue \cup InWorker) = {}
    /\ \A s, t \in Slots : job[s].st = "queued" /\ job[t].st = "queued" /\ s # t
                             => job[s].src # job[t].src
    /\ files.out => worker.pc \in {"optimize", "scan", "quota", "rename"}

\* While the worker runs, one slot is "processing" and it is the one finish_job
\* will find; when it rests, none is: no job hangs at "processing" for ever, and
\* no slot is reused under the worker.
WorkerOwnsSlot ==
  LET mine == {s \in Slots : job[s].st = "processing"} IN
  IF worker.pc = "wait" THEN mine = {}
  ELSE \E s \in Slots : /\ mine = {s} /\ job[s].id = worker.id /\ job[s].file = worker.file
                        /\ \A t \in Slots : job[t].st # "empty" /\ job[t].id = worker.id => t = s

\* Well-typed; every temporary file has one owner, and the worker keeps its slot
\* (upload_music, worker_main, finish_job).
JobsInv == TypeOK /\ SourcesOwned /\ WorkerOwnsSlot

\* The library never outgrows its quota, although it is measured in two reads
\* that deletions may come between.
QuotaRespected == Bytes(library) <= Quota

\* Every job that waits or runs gets an ending, across stops and crashes.
JobsFinish ==
  \A s \in Slots : job[s].st \in {"queued", "processing"}
                     ~> job[s].st \notin {"queued", "processing"}

\* The gate always opens again.
GateReleased == gate ~> ~gate

\* Jobs come to an end, and uploads are possible again and again (worker_main,
\* music_upload_release).
JobsServed == JobsFinish /\ GateReleased
=============================================================================
