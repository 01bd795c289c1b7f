---------------------------- MODULE PodcastImport ----------------------------
(* The manual podcast importer of the HTTP service (podcast_import.c): scan and *)
(* start requests from two server threads, the worker that transcodes what lies *)
(* in the upload directory, and the browser and SFTP uploads, deletions, stops  *)
(* and crashes around it.                                                       *)
(*                                                                              *)
(* A file's content is the number of the upload that brought it.  Abstracted:   *)
(* sizes (quota and free space may refuse any output), the temporary output,    *)
(* current file and percentage, the 1024-entry limit of a scan.  The library keeps the  *)
(* name of the upload (mp_asset_sanitize_filename maps it to a safe one).       *)
EXTENDS Integers, FiniteSets, Sequences, SequencesExt

CONSTANTS Podcasts,    \* MP3 names
          Requests,    \* connections of web clients
          MaxUploads   \* bound on uploads made during a run

ASSUME UploadsAssumption == IsFiniteSet(Podcasts) /\ MaxUploads \in Nat

VARIABLES
  upload,     \* content of each file in the upload directory, 0 for none
  library,    \* content of each file in the podcast library, 0 for none
  lastUpload, \* number of the latest upload
  status,     \* g_status
  failures,   \* g_failures: the files that failed
  triggered,  \* g_triggered
  worker,     \* the worker thread
  request,    \* scan and start requests between two looks at the state
  phase       \* the service process: "up", "stopping", "joining", "down"

vars == <<upload, library, lastUpload, status, failures, triggered, worker, request, phase>>

None == 0
Idle == [active |-> FALSE, total |-> 0, waiting |-> 0, processed |-> 0, failed |-> 0]
Quiet == [pc |-> "idle", start |-> FALSE, found |-> 0]
Resting == [pc |-> "wait", files |-> <<>>, source |-> None, ok |-> FALSE]

Init ==
  /\ upload = [p \in Podcasts |-> None]
  /\ library = [p \in Podcasts |-> None]
  /\ lastUpload = 0 /\ status = Idle /\ failures = {}
  /\ triggered = FALSE /\ worker = Resting
  /\ request = [r \in Requests |-> Quiet]
  /\ phase = "up"

Listed == {p \in Podcasts : upload[p] # None}   \* scan_uploads

\* ------------------------------------------------ uploads and deletions

KeepImporter == UNCHANGED <<status, failures, triggered, worker, phase>>

\* upload_podcasts moves a file in by rename, and SFTP may do so at any time; a
\* file of the same name is replaced.
Upload(p) ==
  /\ lastUpload < MaxUploads
  /\ lastUpload' = lastUpload + 1
  /\ upload' = [upload EXCEPT ![p] = lastUpload + 1]
  /\ UNCHANGED <<library, request>> /\ KeepImporter

\* delete_podcast: only the library is touched.  delete_all_podcasts repeats it.
Delete(p) ==
  /\ phase = "up" /\ library[p] # None
  /\ library' = [library EXCEPT ![p] = None]
  /\ UNCHANGED <<upload, lastUpload, request>> /\ KeepImporter

\* ------------------------------------------------ requests

\* The directory is counted before the lock is taken.
Begin(r, start) ==
  /\ phase = "up" /\ request[r].pc = "idle"
  /\ request' = [request EXCEPT ![r] = [pc |-> "scan", start |-> start,
                                        found |-> Cardinality(Listed)]]
  /\ UNCHANGED <<upload, library, lastUpload>> /\ KeepImporter

\* mp_podcast_import_scan under g_lock: an idle importer forgets its last result.
Scan(r) ==
  /\ request[r].pc = "scan"
  /\ IF status.active THEN UNCHANGED <<status, failures>>
     ELSE /\ status' = [Idle EXCEPT !.waiting = request[r].found, !.total = request[r].found]
          /\ failures' = {}
  /\ request' = [request EXCEPT ![r] = IF request[r].start THEN [@ EXCEPT !.pc = "trigger"] ELSE Quiet]
  /\ UNCHANGED <<upload, library, lastUpload, triggered, worker, phase>>

\* The second critical section of mp_podcast_import_trigger.
Trigger(r) ==
  /\ request[r].pc = "trigger"
  /\ triggered' = (triggered \/ (~status.active /\ request[r].found > 0))
  /\ request' = [request EXCEPT ![r] = Quiet]
  /\ UNCHANGED <<upload, library, lastUpload, status, failures, worker, phase>>

\* ------------------------------------------------ the worker

KeepRequests == UNCHANGED <<lastUpload, request, phase>>
Go(to) == worker' = [worker EXCEPT !.pc = to]
Running == phase # "joining"
File == Head(worker.files)

Wake ==
  /\ worker.pc = "wait" /\ triggered /\ Running
  /\ triggered' = FALSE /\ Go("list")
  /\ KeepRequests /\ UNCHANGED <<upload, library, status, failures>>

ListUploads ==
  /\ worker.pc = "list"
  /\ worker' = [worker EXCEPT !.pc = "reset", !.files = SetToSeq(Listed)]
  /\ KeepRequests /\ UNCHANGED <<upload, library, status, failures, triggered>>

\* A new batch replaces the status and the failures of the one before.
StartBatch ==
  LET n == Len(worker.files) IN
  /\ worker.pc = "reset" /\ Go("next")
  /\ status' = [Idle EXCEPT !.active = n > 0, !.total = n, !.waiting = n]
  /\ failures' = {}
  /\ KeepRequests /\ UNCHANGED <<upload, library, triggered>>

NextFile ==
  /\ worker.pc = "next" /\ worker.files # <<>> /\ Running /\ Go("open")
  /\ KeepRequests /\ UNCHANGED <<upload, library, status, failures, triggered>>

\* process_one: the source validates, the output exists, the source is opened.
OpenSource ==
  /\ worker.pc = "open" /\ upload[File] # None
  /\ worker' = [worker EXCEPT !.pc = "promote", !.source = upload[File]]
  /\ KeepRequests /\ UNCHANGED <<upload, library, status, failures, triggered>>

\* Mutant: the output is never renamed into the library.
PromoteNothing ==
  /\ worker.pc = "promote" /\ Go("remove")
  /\ KeepRequests /\ UNCHANGED <<upload, library, status, failures, triggered>>

\* Transcoded, validated, within quota and renamed into the library.
Promote ==
  /\ worker.pc = "promote"
  /\ library' = [library EXCEPT ![File] = worker.source]
  /\ Go("remove")
  /\ KeepRequests /\ UNCHANGED <<upload, status, failures, triggered>>

\* The source goes by its name, whatever lies under that name by now.
RemoveSource ==
  /\ worker.pc = "remove"
  /\ upload' = [upload EXCEPT ![File] = None]
  /\ worker' = [worker EXCEPT !.pc = "count", !.ok = TRUE]
  /\ KeepRequests /\ UNCHANGED <<library, status, failures, triggered>>

\* Mutant: the source of a failed file is removed too.
FileFailsAndGoes ==
  /\ worker.pc \in {"open", "promote", "remove"}
  /\ upload' = [upload EXCEPT ![File] = None] /\ Go("count")
  /\ KeepRequests /\ UNCHANGED <<library, status, failures, triggered>>

\* Not a readable MP3, no output file, a transcoding error, quota or space: the
\* output goes, the source stays.  At "remove" the new file is in the library
\* already and it is the source that could not be removed.
FileFails ==
  /\ worker.pc \in {"open", "promote", "remove"}
  /\ Go("count")
  /\ KeepRequests /\ UNCHANGED <<upload, library, status, failures, triggered>>

\* The counters of run_import after one file.
Count ==
  /\ worker.pc = "count"
  /\ status' = [status EXCEPT !.waiting = IF @ > 0 THEN @ - 1 ELSE 0,
                              !.processed = IF worker.ok THEN @ + 1 ELSE @,
                              !.failed = IF worker.ok THEN @ ELSE @ + 1]
  /\ failures' = IF worker.ok THEN failures ELSE failures \cup {File}
  /\ worker' = [Resting EXCEPT !.pc = "next", !.files = Tail(worker.files)]
  /\ KeepRequests /\ UNCHANGED <<upload, library, triggered>>

EndQuietly ==   \* mutant: active is not taken back
  /\ worker.pc = "next" /\ (worker.files = <<>> \/ ~Running)
  /\ worker' = Resting
  /\ KeepRequests /\ UNCHANGED <<upload, library, status, failures, triggered>>
EndBatch ==
  /\ worker.pc = "next" /\ (worker.files = <<>> \/ ~Running)
  /\ status' = [status EXCEPT !.active = FALSE]
  /\ worker' = Resting
  /\ KeepRequests /\ UNCHANGED <<upload, library, failures, triggered>>

\* ------------------------------------------------ service stop, crash and start

\* MHD_stop_daemon first, then mp_podcast_import_stop.
StopDaemon ==
  /\ phase = "up" /\ phase' = "stopping"
  /\ UNCHANGED <<upload, library, lastUpload, status, failures, triggered, worker, request>>

StopImport ==
  /\ phase = "stopping" /\ \A r \in Requests : request[r].pc = "idle"
  /\ phase' = "joining"
  /\ UNCHANGED <<upload, library, lastUpload, status, failures, triggered, worker, request>>

Gone ==
  /\ phase' = "down" /\ status' = Idle /\ failures' = {} /\ triggered' = FALSE
  /\ worker' = Resting /\ request' = [r \in Requests |-> Quiet]
  /\ UNCHANGED <<upload, library, lastUpload>>

Exit == phase = "joining" /\ worker.pc = "wait" /\ Gone

\* A kill or a power loss.
Crash == phase # "down" /\ Gone

Start ==
  /\ phase = "down" /\ phase' = "up"
  /\ UNCHANGED <<upload, library, lastUpload, status, failures, triggered, worker, request>>

Request(r) == Scan(r) \/ Trigger(r)
Work == Wake \/ ListUploads \/ StartBatch \/ NextFile \/ OpenSource \/ Promote
        \/ RemoveSource \/ FileFails \/ Count \/ EndBatch
Life == StopDaemon \/ StopImport \/ Exit \/ Crash \/ Start

Next == \/ \E p \in Podcasts : Upload(p) \/ Delete(p)
        \/ \E r \in Requests : Request(r) \/ \E start \in BOOLEAN : Begin(r, start)
        \/ Work \/ Life

\* Threads are scheduled and systemd restarts the service (Restart=always).
Fairness == /\ \A r \in Requests : WF_vars(Request(r))
            /\ WF_vars(Work) /\ WF_vars(StopImport \/ Exit \/ Start)

Spec == Init /\ [][Next]_vars /\ Fairness

\* ------------------------------------------------ properties

\* Every variable holds a value of its type.
TypeOK ==
  /\ upload \in [Podcasts -> 0..MaxUploads] /\ library \in [Podcasts -> 0..MaxUploads]
  /\ lastUpload \in 0..MaxUploads
  /\ status \in [active : BOOLEAN, total : 0..Cardinality(Podcasts), waiting : 0..Cardinality(Podcasts),
                 processed : 0..Cardinality(Podcasts), failed : 0..Cardinality(Podcasts)]
  /\ failures \subseteq Podcasts /\ triggered \in BOOLEAN
  /\ worker \in [pc : {"wait", "list", "reset", "next", "open", "promote", "remove", "count"},
                 files : Seq(Podcasts), source : 0..MaxUploads, ok : BOOLEAN]
  /\ request \in [Requests -> [pc : {"idle", "scan", "trigger"}, start : BOOLEAN,
                               found : 0..Cardinality(Podcasts)]]
  /\ phase \in {"up", "stopping", "joining", "down"}

\* The progress card adds up at every moment, whatever requests come in between:
\* "processed count, failed count, total count", and while a batch runs what waits
\* is what the worker still holds.
CountsAddUp ==
  /\ status.waiting + status.processed + status.failed = status.total
  /\ status.failed = Cardinality(failures)
  /\ status.active => status.waiting = Len(worker.files)
  /\ worker.pc \in {"open", "promote", "remove", "count"} => status.active

\* "Failed source files remain in the upload directory": each failure the page
\* lists names a file that the next scan will find.
FailuresRemain == \A p \in failures : upload[p] # None

\* Well-typed; the card of the web page adds up, and a failed file is still there to be
\* imported (mp_podcast_import_scan, worker_main, process_one).
ImportInv == TypeOK /\ CountsAddUp /\ FailuresRemain

\* The running import goes on to remove whatever lies under this name: it has put
\* its upload into the library, or it reads an upload that a newer one has replaced.
Taken(p) ==
  /\ worker.files # <<>> /\ File = p
  /\ \/ worker.pc = "remove"
     \/ worker.pc = "promote" /\ worker.source # upload[p]

\* "A successful file is ... moved to [the library] ... removed from [upload]"
\* (INSTRUCTIONS.md:439): an upload that waits while a start is pending gets into
\* the library itself, unless a still newer upload takes its place, its name is
\* listed as failed or the service stops.  The one exception is an upload that
\* replaced the file the worker has opened (podcast_import.c:133): it goes
\* unimported when that file's import ends well.
BatchServed ==
  \A p \in Podcasts, n \in 1..MaxUploads :
    (triggered /\ upload[p] = n /\ ~Taken(p))
      ~> (library[p] = n \/ upload[p] > n \/ p \in failures \/ phase # "up")

\* An import that runs comes to its end.
ImportEnds == status.active ~> ~status.active
=============================================================================
