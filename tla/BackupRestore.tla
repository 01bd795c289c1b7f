---------------------------- MODULE BackupRestore ----------------------------
(* Backup and restore in the HTTP service (mk-piclock-api.c): a restore moves   *)
(* the fonts aside, copies those of the archive, replaces the two weather files *)
(* and has the core import its settings; a failure undoes what was done.  The   *)
(* core serves one request at a time from its socket's queue, the service gives *)
(* up on an answer after 15 seconds, and a request it gave up on is still       *)
(* served.  Other requests change fonts, weather files and settings meanwhile:  *)
(* only a backup and another restore are kept out, by g_maintenance_lock.       *)
(*                                                                              *)
(* A file's or the settings' content is "before", "backup" (the archive's) or   *)
(* "other" (set by another request).  ConfigStore has the steps of an import    *)
(* inside the core.  Left out: the ZIP format, the staging directory in /tmp,   *)
(* the font policy of the core, a crash of the HTTP service itself.             *)
EXTENDS Integers, Sequences, SequencesExt, FiniteSets

CONSTANTS Conns,       \* connections of web clients
          Fonts,       \* font file names
          Archived,    \* the fonts in the archive that is restored
          Backlog,     \* of the core's socket
          MaxFaults,   \* bound on failed system calls and crashes of the core
          MaxOthers    \* bound on changes made by other requests

None == "none"

ASSUME ArchiveAssumption == Archived \subseteq Fonts
ASSUME ConnsAssumption == None \notin Conns
ASSUME BoundsAssumption == Backlog \in Nat \ {0} /\ MaxFaults \in Nat /\ MaxOthers \in Nat

VARIABLES
  settings, \* the core's persistent settings
  weather,  \* source.url and frames.conf
  fonts,    \* MP_FONT_DIR
  kept,     \* the fonts directory below .restore-old-XXXXXX
  core,     \* the core process: whether it runs, and the requests in its socket
  lock,     \* g_maintenance_lock
  conn,     \* the backup and restore requests
  answer,   \* the answer to the last of them
  faults,   \* failed calls so far
  others,   \* changes by other requests so far
  before,   \* history: everything, when g_maintenance_lock was last taken
  touched,  \* history: another request has changed something since
  spoiled   \* history: a step of the way back has failed

vars == <<settings, weather, fonts, kept, core, lock, conn, answer, faults, others, before, touched, spoiled>>

Versions == {"before", "backup", "other"}
NoFonts == [f \in Fonts |-> None]
Stored == {f \in Fonts : fonts[f] # None}
Kept == {f \in Fonts : kept[f] # None}

Now == [settings |-> settings, weather |-> weather, fonts |-> fonts]
Nothing == [settings |-> None, weather |-> [source |-> None, frames |-> None], fonts |-> NoFonts]
Quiet == [pc |-> "idle", kind |-> "restore", call |-> None, left |-> {}, seen |-> Nothing]

Init ==
  /\ settings = "before"
  /\ weather = [source |-> "before", frames |-> "before"]
  /\ fonts = [f \in Fonts |-> "before"] /\ kept = NoFonts
  /\ core = [up |-> TRUE, inbox |-> <<>>]
  /\ lock = None /\ conn = [c \in Conns |-> Quiet] /\ answer = None
  /\ faults = 0 /\ others = 0
  /\ before = Nothing /\ touched = FALSE /\ spoiled = FALSE

Move(c, to) == conn' = [conn EXCEPT ![c].pc = to]
MoveTo(c, to, left) == conn' = [conn EXCEPT ![c].pc = to, ![c].left = left]
Fault == faults < MaxFaults /\ faults' = faults + 1
KeepHistory == UNCHANGED <<answer, others, before, touched>>

\* The lock is released and the answer is queued.
Answer(c, a) ==
  /\ lock' = None /\ before' = Nothing /\ touched' = FALSE /\ spoiled' = FALSE
  /\ conn' = [conn EXCEPT ![c] = Quiet] /\ answer' = a
  /\ UNCHANGED others

\* ------------------------------------------------ the request and its preparation

\* A request that takes the lock; a mutant of Begin when it does not look at it first.
TakeLock(c, kind) ==
  /\ conn[c].pc = "idle"
  /\ lock' = c /\ before' = Now /\ touched' = (core.inbox # <<>>) /\ spoiled' = FALSE
  /\ conn' = [conn EXCEPT ![c] = [Quiet EXCEPT !.kind = kind,
                                  !.pc = IF kind = "restore" THEN "prepare" ELSE "export"]]
  /\ answer' = None
  /\ UNCHANGED <<settings, weather, fonts, kept, core, faults, others>>

\* download_backup or restore_backup; while the lock is held the answer is 409, and
\* nothing changes.
Begin(c, kind) == lock = None /\ TakeLock(c, kind)

\* No alarm is active, and the archive is extracted and validated.
Prepare(c) ==
  /\ conn[c].pc = "prepare" /\ Move(c, "export")
  /\ UNCHANGED <<settings, weather, fonts, kept, core, lock, faults, spoiled>> /\ KeepHistory

\* An alarm is active, or the archive is not usable.
Refuse(c) ==
  /\ conn[c].pc = "prepare" /\ Answer(c, "refused")
  /\ UNCHANGED <<settings, weather, fonts, kept, core, faults>>

\* ------------------------------------------------ ipc_call, and the core's side of it

CallPcs == {"export", "import", "reimport"}
Asks(c) == [op |-> conn[c].pc, from |-> c,
            value |-> CASE conn[c].pc = "export" -> None [] conn[c].pc = "import" -> "backup"
                        [] conn[c].pc = "reimport" -> conn[c].seen.settings]
Outcome(c, o) == conn' = [conn EXCEPT ![c].call = o]
KeepFiles == UNCHANGED <<weather, fonts, kept, lock>>

Reachable == core.up /\ Len(core.inbox) < Backlog

\* connect_core fails when the core is down or its backlog is full.
Send(c) ==
  /\ conn[c].pc \in CallPcs /\ conn[c].call = None
  /\ core' = IF Reachable THEN [core EXCEPT !.inbox = Append(@, Asks(c))] ELSE core
  /\ Outcome(c, IF Reachable THEN "sent" ELSE "lost")
  /\ spoiled' = (spoiled \/ (~Reachable /\ conn[c].pc = "reimport"))
  /\ UNCHANGED <<settings, faults>> /\ KeepFiles /\ KeepHistory

NoTimeout(c) ==   \* mutant: a request is given up only when the core is gone
  /\ conn[c].call = "sent" /\ ~core.up /\ Outcome(c, "lost") /\ UNCHANGED core
  /\ UNCHANGED <<settings, faults, spoiled>> /\ KeepFiles /\ KeepHistory

\* SO_RCVTIMEO: the socket is closed, but the core will still read the request.
TimesOut(c) ==
  /\ conn[c].call = "sent" /\ Outcome(c, "lost")
  /\ core' = [core EXCEPT !.inbox = [i \in DOMAIN @ |-> IF @[i].from = c THEN [@[i] EXCEPT !.from = None] ELSE @[i]]]
  /\ UNCHANGED <<settings, faults, spoiled>> /\ KeepFiles /\ KeepHistory

Reply(c, outcome, value) ==
  conn' = IF c = None THEN conn
          ELSE [conn EXCEPT ![c].call = outcome,
                            ![c].seen.settings = IF outcome = "ok" /\ conn[c].pc = "export" THEN value ELSE @]

\* handle_ipc_client, request by request: an import stores its settings whole.
Serve ==
  /\ core.up /\ core.inbox # <<>>
  /\ LET r == Head(core.inbox) IN
       /\ settings' = IF r.op = "export" THEN settings ELSE r.value
       /\ Reply(r.from, "ok", settings)
  /\ core' = [core EXCEPT !.inbox = Tail(@)]
  /\ UNCHANGED <<faults, spoiled>> /\ KeepFiles /\ KeepHistory

\* An import that is not a configuration of this clock is refused; so is any import,
\* or export, if the files cannot be written.
ServeRefuses ==
  /\ core.up /\ core.inbox # <<>>
  /\ LET r == Head(core.inbox) IN
       /\ IF r.op = "import" THEN UNCHANGED faults ELSE Fault
       /\ spoiled' = (spoiled \/ r.op = "reimport")
       /\ Reply(r.from, "refused", None)
  /\ core' = [core EXCEPT !.inbox = Tail(@)]
  /\ UNCHANGED settings /\ KeepFiles /\ KeepHistory

\* The core dies: the request it was serving may have been carried out, the others
\* are gone, and every caller's connection is reset.
CoreCrash ==
  /\ core.up /\ Fault
  /\ core' = [up |-> FALSE, inbox |-> <<>>]
  /\ \/ UNCHANGED settings
     \/ /\ core.inbox # <<>> /\ Head(core.inbox).op # "export"
        /\ settings' = Head(core.inbox).value
  /\ conn' = [c \in Conns |-> IF conn[c].call = "sent" THEN [conn[c] EXCEPT !.call = "lost"] ELSE conn[c]]
  /\ spoiled' = (spoiled \/ \E i \in DOMAIN core.inbox : core.inbox[i].op = "reimport")
  /\ KeepFiles /\ KeepHistory

CoreStart ==
  /\ ~core.up /\ core' = [core EXCEPT !.up = TRUE]
  /\ UNCHANGED <<settings, conn, faults, spoiled>> /\ KeepFiles /\ KeepHistory

\* ------------------------------------------------ what a restore protects

Exported(c) ==
  /\ conn[c].pc = "export" /\ conn[c].call = "ok"
  /\ conn' = [conn EXCEPT ![c].pc = "weather", ![c].call = None]
  /\ UNCHANGED <<settings, weather, fonts, kept, core, lock, faults, spoiled>> /\ KeepHistory

NotExported(c) ==
  /\ conn[c].pc = "export" /\ conn[c].call \in {"refused", "lost"} /\ Answer(c, "refused")
  /\ UNCHANGED <<settings, weather, fonts, kept, core, faults>>

\* mp_weather_source_read and mp_weather_frames_read, then opendir.
ReadWeather(c) ==
  /\ conn[c].pc = "weather"
  /\ conn' = [conn EXCEPT ![c].pc = IF conn[c].kind = "restore" THEN "protect" ELSE "zip",
                          ![c].seen.weather = weather, ![c].left = Stored]
  /\ UNCHANGED <<settings, weather, fonts, kept, core, lock, faults, spoiled>> /\ KeepHistory

\* One of them cannot be read.
ReadFails(c) ==
  /\ conn[c].pc = "weather" /\ Fault /\ Answer(c, "refused")
  /\ UNCHANGED <<settings, weather, fonts, kept, core>>

\* A file that appears during readdir may or may not be listed, one that goes may
\* still be.
Listed(c) == Stored \cap conn[c].left
Seen(c, f) == conn' = [conn EXCEPT ![c].left = @ \ {f}]

MoveOutCopies(c) ==   \* mutant: the fonts are copied, not moved
  /\ conn[c].pc = "protect"
  /\ \E f \in conn[c].left \cap Stored :
       /\ kept' = [kept EXCEPT ![f] = fonts[f]] /\ Seen(c, f)
  /\ UNCHANGED <<settings, weather, fonts, core, lock, faults, spoiled>> /\ KeepHistory

\* stage_current_fonts, one rename at a time.
MoveOut(c) ==
  /\ conn[c].pc = "protect"
  /\ \E f \in Stored :
       /\ kept' = [kept EXCEPT ![f] = fonts[f]]
       /\ fonts' = [fonts EXCEPT ![f] = None] /\ Seen(c, f)
  /\ UNCHANGED <<settings, weather, core, lock, faults, spoiled>> /\ KeepHistory

Protected(c) ==
  /\ conn[c].pc = "protect" /\ Listed(c) = {} /\ MoveTo(c, "copy", Archived)
  /\ UNCHANGED <<settings, weather, fonts, kept, core, lock, faults, spoiled>> /\ KeepHistory

\* A rename fails, perhaps because the font was deleted after it was listed: what
\* was moved so far is removed with its directory.
ProtectFails(c) ==
  /\ conn[c].pc = "protect"
  /\ IF conn[c].left \ Stored # {} THEN UNCHANGED faults ELSE Fault
  /\ kept' = NoFonts /\ Answer(c, "unprotected")
  /\ UNCHANGED <<settings, weather, fonts, core>>

\* ------------------------------------------------ the restore proper

CopyFont(c) ==
  /\ conn[c].pc = "copy"
  /\ \E f \in conn[c].left : fonts' = [fonts EXCEPT ![f] = "backup"] /\ Seen(c, f)
  /\ UNCHANGED <<settings, weather, kept, core, lock, faults, spoiled>> /\ KeepHistory

Copied(c) ==
  /\ conn[c].pc = "copy" /\ conn[c].left = {} /\ Move(c, "source")
  /\ UNCHANGED <<settings, weather, fonts, kept, core, lock, faults, spoiled>> /\ KeepHistory

\* A copy that was begun is removed.
CopyFails(c) ==
  /\ conn[c].pc = "copy" /\ Fault
  /\ \E f \in conn[c].left : fonts' \in {fonts, [fonts EXCEPT ![f] = None]}
  /\ MoveTo(c, "clear", {f \in Fonts : fonts'[f] # None})
  /\ UNCHANGED <<settings, weather, kept, core, lock, spoiled>> /\ KeepHistory

WriteSource(c) ==
  /\ conn[c].pc = "source" /\ weather' = [weather EXCEPT !.source = "backup"] /\ Move(c, "frames")
  /\ UNCHANGED <<settings, fonts, kept, core, lock, faults, spoiled>> /\ KeepHistory

WriteFrames(c) ==
  /\ conn[c].pc = "frames" /\ weather' = [weather EXCEPT !.frames = "backup"] /\ Move(c, "import")
  /\ UNCHANGED <<settings, fonts, kept, core, lock, faults, spoiled>> /\ KeepHistory

\* The file is replaced by rename, and the sync of its directory may fail after that.
WriteFails(c) ==
  /\ conn[c].pc \in {"source", "frames"} /\ Fault
  /\ \/ UNCHANGED weather
     \/ weather' = [weather EXCEPT ![conn[c].pc] = "backup"]
  /\ MoveTo(c, "clear", Stored)
  /\ UNCHANGED <<settings, fonts, kept, core, lock, spoiled>> /\ KeepHistory

Imported(c) ==
  /\ conn[c].pc = "import" /\ conn[c].call \in {"ok", "refused", "lost"}
  /\ conn' = [conn EXCEPT ![c].call = None, ![c].left = Stored,
                          ![c].pc = IF conn[c].call = "ok" THEN "commit" ELSE "clear"]
  /\ UNCHANGED <<settings, weather, fonts, kept, core, lock, faults, spoiled>> /\ KeepHistory

\* The old fonts are removed, as far as that goes (nothing looks at them again), and
\* the restore is reported.
Commit(c) ==
  /\ conn[c].pc = "commit" /\ kept' = NoFonts /\ Answer(c, "ok")
  /\ UNCHANGED <<settings, weather, fonts, core, faults>>

\* ------------------------------------------------ the way back

\* clear_font_directory goes on if a file cannot be removed.
ClearFont(c) ==
  /\ conn[c].pc = "clear"
  /\ \E f \in Stored : \/ fonts' = [fonts EXCEPT ![f] = None] /\ Seen(c, f) /\ UNCHANGED <<faults, spoiled>>
                       \/ f \in conn[c].left /\ Seen(c, f) /\ Fault /\ spoiled' = TRUE /\ UNCHANGED fonts
  /\ UNCHANGED <<settings, weather, kept, core, lock>> /\ KeepHistory

ClearedAndKept(c) ==   \* mutant: the old fonts go before they are back
  /\ conn[c].pc = "clear" /\ Listed(c) = {} /\ Move(c, "back") /\ kept' = NoFonts
  /\ UNCHANGED <<settings, weather, fonts, core, lock, faults, spoiled>> /\ KeepHistory

Cleared(c) ==
  /\ conn[c].pc = "clear" /\ Listed(c) = {} /\ Move(c, "back")
  /\ UNCHANGED <<settings, weather, fonts, kept, core, lock, faults, spoiled>> /\ KeepHistory

MoveBack(c) ==
  /\ conn[c].pc = "back"
  /\ \E f \in Kept : fonts' = [fonts EXCEPT ![f] = kept[f]] /\ kept' = [kept EXCEPT ![f] = None]
  /\ UNCHANGED <<settings, weather, core, lock, conn, faults, spoiled>> /\ KeepHistory

\* When all are back, or one cannot be moved, the directory goes.
FontsBack(c) ==
  /\ conn[c].pc = "back" /\ Move(c, "oldSource") /\ kept' = NoFonts
  /\ IF Kept = {} THEN UNCHANGED <<faults, spoiled>> ELSE Fault /\ spoiled' = TRUE
  /\ UNCHANGED <<settings, weather, fonts, core, lock>> /\ KeepHistory

RewriteSource(c) ==
  /\ conn[c].pc = "oldSource" /\ Move(c, "oldFrames")
  /\ \/ weather' = [weather EXCEPT !.source = conn[c].seen.weather.source] /\ UNCHANGED <<faults, spoiled>>
     \/ Fault /\ spoiled' = TRUE /\ UNCHANGED weather
  /\ UNCHANGED <<settings, fonts, kept, core, lock>> /\ KeepHistory

\* Mutant: the way back ends with the files.
RewriteFramesOnly(c) ==
  /\ conn[c].pc = "oldFrames" /\ Answer(c, "failed")
  /\ weather' = [weather EXCEPT !.frames = conn[c].seen.weather.frames]
  /\ UNCHANGED <<settings, fonts, kept, core, faults>>

RewriteFrames(c) ==
  /\ conn[c].pc = "oldFrames" /\ Move(c, "reimport")
  /\ \/ weather' = [weather EXCEPT !.frames = conn[c].seen.weather.frames] /\ UNCHANGED <<faults, spoiled>>
     \/ Fault /\ spoiled' = TRUE /\ UNCHANGED weather
  /\ UNCHANGED <<settings, fonts, kept, core, lock>> /\ KeepHistory

\* What the core says to the old settings is not looked at.
Undone(c) ==
  /\ conn[c].pc = "reimport" /\ conn[c].call \in {"ok", "refused", "lost"} /\ Answer(c, "failed")
  /\ UNCHANGED <<settings, weather, fonts, kept, core, faults>>

\* ------------------------------------------------ build_adult_backup

\* A font that has gone since it was listed is left out.
ZipFont(c) ==
  /\ conn[c].pc = "zip"
  /\ \E f \in conn[c].left \cup Stored :
       conn' = [conn EXCEPT ![c].left = @ \ {f}, ![c].seen.fonts[f] = fonts[f]]
  /\ UNCHANGED <<settings, weather, fonts, kept, core, lock, faults, spoiled>> /\ KeepHistory

Zipped(c) ==
  /\ conn[c].pc = "zip" /\ conn[c].left = {}
  /\ \/ Answer(c, "ok")
     \/ Answer(c, "refused")
  /\ UNCHANGED <<settings, weather, fonts, kept, core, faults>>

\* ------------------------------------------------ other requests

Other == others < MaxOthers /\ others' = others + 1 /\ touched' = (lock # None)
KeepRequests == UNCHANGED <<settings, kept, lock, conn, answer, faults, before, spoiled>>

\* upload_font and delete_font; a font that was in use changes the core's settings.
OtherFont ==
  /\ Other
  /\ \E f \in Fonts, v \in {"other", None} : fonts' = [fonts EXCEPT ![f] = v]
  /\ UNCHANGED <<weather, core>> /\ KeepRequests

\* weather_source_set and weather_frames_set.
OtherWeather ==
  /\ Other
  /\ \E part \in {"source", "frames"} : weather' = [weather EXCEPT ![part] = "other"]
  /\ UNCHANGED <<fonts, core>> /\ KeepRequests

OtherSettings ==
  /\ Other /\ Reachable
  /\ core' = [core EXCEPT !.inbox = Append(@, [op |-> "set", from |-> None, value |-> "other"])]
  /\ UNCHANGED <<weather, fonts>> /\ KeepRequests

\* ------------------------------------------------ specification

Restore(c) ==
  \/ Prepare(c) \/ Refuse(c) \/ MoveOut(c) \/ Protected(c) \/ ProtectFails(c)
  \/ CopyFont(c) \/ Copied(c) \/ CopyFails(c) \/ WriteSource(c) \/ WriteFrames(c) \/ WriteFails(c)
  \/ Imported(c) \/ Commit(c)
  \/ ClearFont(c) \/ Cleared(c) \/ MoveBack(c) \/ FontsBack(c) \/ RewriteSource(c)
  \/ RewriteFrames(c) \/ Undone(c)
Step(c) == \/ Restore(c) \/ Send(c) \/ TimesOut(c) \/ Exported(c) \/ NotExported(c) \/ ReadWeather(c)
           \/ ReadFails(c) \/ ZipFont(c) \/ Zipped(c)

Next == \/ \E c \in Conns : Step(c) \/ \E kind \in {"restore", "download"} : Begin(c, kind)
        \/ Serve \/ ServeRefuses \/ CoreCrash \/ CoreStart
        \/ OtherFont \/ OtherWeather \/ OtherSettings

\* The server threads are scheduled and a socket's timeout passes; the core need
\* not answer.
Spec == Init /\ [][Next]_vars /\ \A c \in Conns : WF_vars(Step(c))

\* ------------------------------------------------ properties

Contents == Versions \cup {None}
WeatherFiles == [source : Contents, frames : Contents]
Everything == [settings : Contents, weather : WeatherFiles, fonts : [Fonts -> Contents]]
Pcs == CallPcs \cup {"idle", "prepare", "weather", "protect", "copy", "source", "frames", "commit", "clear",
                     "back", "oldSource", "oldFrames", "zip"}

Requests == [op : CallPcs \cup {"set"}, from : Conns \cup {None}, value : Contents]
Connections == [pc : Pcs, kind : {"restore", "download"}, call : {None, "sent", "ok", "refused", "lost"},
                left : SUBSET Fonts, seen : Everything]

\* Every variable holds a value of its type, and the old fonts' directory exists
\* only while a restore holds the lock.
TypeOK ==
  /\ settings \in Versions /\ weather \in [source : Versions, frames : Versions]
  /\ fonts \in [Fonts -> Contents] /\ kept \in [Fonts -> Contents]
  /\ core \in [up : BOOLEAN, inbox : Seq(Requests)]
  /\ lock \in Conns \cup {None}
  /\ conn \in [Conns -> Connections]
  /\ answer \in {None, "ok", "failed", "unprotected", "refused"}
  /\ faults \in 0..MaxFaults /\ others \in 0..MaxOthers
  /\ before \in Everything /\ touched \in BOOLEAN /\ spoiled \in BOOLEAN
  /\ lock = None => kept = NoFonts

\* What the core will hold once it has served what is in its socket, and the clock then.
OnceServed ==
  LET stores == {i \in DOMAIN core.inbox : core.inbox[i].op # "export"} IN
  IF stores = {} THEN settings ELSE core.inbox[Max(stores)].value
Outlook == [Now EXCEPT !.settings = OnceServed]
Backup == [settings |-> "backup", weather |-> [source |-> "backup", frames |-> "backup"],
           fonts |-> [f \in Fonts |-> IF f \in Archived THEN "backup" ELSE None]]

Answers(c, kind, a) == conn[c].kind = kind /\ conn[c].pc # "idle" /\ conn'[c].pc = "idle" /\ answer' = a

\* A restore that reports success took effect whole: settings, weather files and
\* fonts are the archive's and nothing of the old ones is left.
RestoredWhole ==
  [][\A c \in Conns : Answers(c, "restore", "ok") /\ ~touched => Outlook' = Backup]_vars

\* "restore failed; previous settings and fonts were restored": true, once the core
\* has served its socket, provided no step of the way back failed; a refused restore
\* changed nothing.
UndoneWhole ==
  [][\A c \in Conns :
       (Answers(c, "restore", "failed") \/ Answers(c, "restore", "refused")) /\ ~touched /\ ~spoiled
         => Outlook' = before]_vars

\* A restore takes effect whole or not at all, whatever the answer, once the core has
\* served the requests that wait in its socket (restore_backup_locked).
RestoreAllOrNothing == RestoredWhole /\ UndoneWhole

\* A backup is one state of the clock, never a mixture with a restore's.
BackupTrue ==
  [][\A c \in Conns : Answers(c, "download", "ok") /\ ~touched => conn[c].seen = before /\ Now' = before]_vars

\* Until a restore has succeeded, each of the old fonts is on the card, in its place
\* or aside, as long as the steps of the way back succeed.
FontsSafe ==
  \A c \in Conns :
    conn[c].pc \in {"protect", "copy", "source", "frames", "import", "clear", "back"} /\ ~touched /\ ~spoiled
      => \A f \in Fonts : before.fonts[f] # None => before.fonts[f] \in {fonts[f], kept[f]}

\* Well-typed, and no font that existed is lost while a restore moves them about
\* (stage_current_fonts, restore_backup_locked).
BackupInv == TypeOK /\ FontsSafe

\* A backup or restore always comes to its end, even if the core does not answer.
MaintenanceEnds == \A c \in Conns : (lock = c) ~> (lock # c)
=============================================================================
