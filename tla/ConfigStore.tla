---------------------------- MODULE ConfigStore ----------------------------
(***************************************************************************)
(* The settings of the core daemon (mk-piclock.c): g_state in memory,      *)
(* save_config and load_config on the SD card, and the replay protection   *)
(* of the alarms that rests on them.  Three kinds of thread save: the main *)
(* loop when an alarm fires, the IPC thread when a setting changes, and    *)
(* the alarm's decoder thread when its audio starts.  save_config writes   *)
(* CONFIG_FILE ".tmp" and renames it; nothing keeps two threads apart, so  *)
(* files are inodes here and a name is bound to one.  The process may be   *)
(* restarted and the power may fail between any two steps.                 *)
(***************************************************************************)
EXTENDS Naturals, FiniteSets

CONSTANTS Alarms,    \* alarm slots, numbered as in the code
          Inodes,    \* files of the configuration directory
          DayLength, \* minutes in a day
          MaxClock,  \* bound: minutes that an instance looks at
          Volumes,   \* values of the settings that are not alarms
          Stored,    \* configurations that may be on the card at first
          Backups,   \* configurations the web API may restore
          IpcOps     \* what the IPC thread does in an instance

ASSUME StoreAssumption ==
  /\ Alarms \subseteq Nat /\ IsFiniteSet(Alarms) /\ Alarms # {}
  /\ DayLength \in Nat \ {0} /\ MaxClock \in Nat
  /\ Inodes \subseteq Nat \ {0} /\ 0 \in Volumes
  /\ IpcOps \subseteq {"alarm", "settings", "export", "import"}

Threads == {"main", "ipc", "audio"}

NoDay == 0        \* last_fired_date = 0
NoFile == 0
\* A file that was truncated and not written yet: it has no alarms.
Empty == [slot |-> <<>>, vol |-> 0]

Days   == 1..(1 + MaxClock \div DayLength)
Slot   == [on : BOOLEAN, at : 0..(DayLength - 1), fired : {NoDay} \cup Days]
Fields == {"on", "at", "fired"}   \* in the order of the file
Config == [slot : [Alarms -> Slot], vol : Volumes]

ASSUME TextsAssumption == Stored \cup Backups \subseteq Config

VARIABLES
  clock,    \* minutes since the first day began
  mem,      \* the persistent part of g_state
  up,       \* main() has reached its loop and started the other threads
  th,       \* per thread: pc, the operation op, its argument, buf, fd
  name,     \* what CONFIG_FILE and CONFIG_FILE ".tmp" are bound to; "durable"
            \* is what CONFIG_FILE is bound to after a power loss
  file,     \* per inode: its text, and the text that is on the card
  sounded,  \* history: which alarms sounded on which day
  overlap,  \* history: a save or a restore overlapped another
  failed    \* history: a configuration file could not be written

vars == <<clock, mem, up, th, name, file, sounded, overlap, failed>>

\* Variant: the day is counted from the wrong end.
TodayAhead == 2 + clock \div DayLength
Today  == 1 + clock \div DayLength
Minute == clock % DayLength

Defaults == [slot |-> [a \in Alarms |-> [on |-> FALSE, at |-> 0, fired |-> NoDay]], vol |-> 0]
Idle     == [pc |-> "idle", op |-> "none", alarm |-> 0, day |-> NoDay,
             todo |-> {}, buf |-> Empty, fd |-> NoFile]

Busy(t) == th[t].pc \notin {"idle", "fired", "opening", "read"}

\* Thread t goes on at pc l; what a thread holds that starts operation o.
Goto(t, l) == th' = [th EXCEPT ![t].pc = l]

At(l, o) == [Idle EXCEPT !.pc = l, !.op = o]
AlarmAt(l, o, a, day) == [At(l, o) EXCEPT !.alarm = a, !.day = day]

\* t enters save_config (or the restore of a backup).
Notice(t) == overlap' = (overlap \/ \E o \in Threads \ {t} : Busy(o))

\* Variant: last_fired_date is not read back.
BootForgets(text) ==
  /\ mem' = IF text = Empty THEN Defaults
            ELSE [text EXCEPT !.slot = [a \in Alarms |-> [@[a] EXCEPT !.fired = NoDay]]]
  /\ up' = FALSE
  /\ th' = [t \in Threads |-> IF t = "main" THEN At("open", "boot") ELSE Idle]

\* main() before its loop: the settings are loaded, normalised and saved.
Boot(text) ==
  /\ mem' = IF text = Empty THEN Defaults ELSE text
  /\ up' = FALSE
  /\ th' = [t \in Threads |-> IF t = "main" THEN At("open", "boot") ELSE Idle]

Text(i) == IF i = NoFile THEN Empty ELSE file[i].text

Blank   == [text |-> Empty, card |-> Empty]
Linked == {name.config, name.tmp, name.durable} \cup {th[t].fd : t \in Threads}
Unused == Inodes \ Linked

\* A file is gone once it has no name and nobody has it open.
Kept(f) == [i \in Inodes |-> IF i \in Linked' THEN f[i] ELSE Blank]
New    == {i \in Unused : \A j \in Unused : i <= j}   \* the name matters not

Init ==
  /\ clock = 0
  /\ mem \in Stored
  /\ up = FALSE
  /\ th = [t \in Threads |-> IF t = "main" THEN At("open", "boot") ELSE Idle]
  /\ \E i \in Inodes :
       /\ \A j \in Inodes : i <= j
       /\ name = [config |-> i, tmp |-> NoFile, durable |-> i]
       /\ file = [j \in Inodes |-> IF j = i THEN [text |-> mem, card |-> mem] ELSE Blank]
  /\ sounded = {}
  /\ overlap = FALSE
  /\ failed = FALSE

-----------------------------------------------------------------------------
(***************************************************************************)
(* save_config.                                                            *)
(***************************************************************************)
\* Where an operation goes on once save_config has returned.
Saved(t) ==
  CASE th[t].op = "boot"   -> up' = TRUE /\ th' = [th EXCEPT ![t] = Idle]
    [] th[t].op = "fire"   -> UNCHANGED up /\ th' = [th EXCEPT ![t] =
                                AlarmAt("fired", "fire", th[t].alarm, th[t].day)]
    [] th[t].op = "export" -> UNCHANGED up /\ th' = [th EXCEPT ![t] = At("read", "export")]
    [] OTHER               -> UNCHANGED up /\ th' = [th EXCEPT ![t] = Idle]

\* fopen(CONFIG_FILE ".tmp", "w") truncates a file that is already there.
Open(t) ==
  /\ th[t].pc = "open"
  /\ \E i \in IF name.tmp = NoFile THEN New ELSE {name.tmp} :
       /\ th' = [th EXCEPT ![t].pc = "copy", ![t].fd = i]
       /\ name' = [name EXCEPT !.tmp = i]
       /\ file' = [file EXCEPT ![i] =
                    [text |-> Empty, card |-> IF i \in Unused THEN Empty ELSE @.card]]
  /\ UNCHANGED <<clock, mem, up, sounded, overlap, failed>>

OpenFails(t) ==
  /\ th[t].pc = "open"
  /\ Saved(t)
  /\ failed' = TRUE
  /\ UNCHANGED <<clock, mem, name, file, sounded, overlap>>

\* The settings are printed into the stream's buffer under g_state.lock.
Copy(t) ==
  /\ th[t].pc = "copy"
  /\ th' = [th EXCEPT ![t].pc = "flush", ![t].buf = mem]
  /\ UNCHANGED <<clock, mem, up, name, file, sounded, overlap, failed>>

\* Variant: the text is written only while the name is still the thread's own.
FlushIfNamed(t) ==
  /\ th[t].pc = "flush"
  /\ th' = [th EXCEPT ![t].pc = "rename", ![t].buf = Empty, ![t].fd = NoFile]
  /\ UNCHANGED name
  /\ file' = Kept(IF name.tmp = th[t].fd
                  THEN [file EXCEPT ![th[t].fd] = [text |-> th[t].buf, card |-> th[t].buf]]
                  ELSE file)
  /\ UNCHANGED <<clock, mem, up, sounded, overlap, failed>>

\* fflush, fsync and fclose: the text reaches whatever file t opened.
Flush(t) ==
  /\ th[t].pc = "flush"
  /\ th' = [th EXCEPT ![t].pc = "rename", ![t].buf = Empty, ![t].fd = NoFile]
  /\ UNCHANGED name
  /\ file' = Kept([file EXCEPT ![th[t].fd] = [text |-> th[t].buf, card |-> th[t].buf]])
  /\ UNCHANGED <<clock, mem, up, sounded, overlap, failed>>

FlushFails(t) ==
  /\ th[t].pc = "flush"
  /\ Saved(t)
  /\ name' = [name EXCEPT !.tmp = NoFile]
  /\ file' = Kept(file)
  /\ failed' = TRUE
  /\ UNCHANGED <<clock, mem, sounded, overlap>>

\* rename, if somebody else has not renamed the file already.
Rename(t) ==
  /\ th[t].pc = "rename"
  /\ name.tmp # NoFile
  /\ name' = [name EXCEPT !.config = name.tmp, !.tmp = NoFile]
  /\ Goto(t, "sync")
  /\ file' = Kept(file)
  /\ UNCHANGED <<clock, mem, up, sounded, overlap, failed>>

RenameFails(t) ==
  /\ th[t].pc = "rename"
  /\ name.tmp = NoFile
  /\ Saved(t)
  /\ UNCHANGED <<clock, mem, name, file, sounded, overlap, failed>>

\* fsync of the directory.
SyncName(t) ==
  /\ th[t].pc = "sync"
  /\ name' = [name EXCEPT !.durable = name.config]
  /\ Saved(t)
  /\ file' = Kept(file)
  /\ UNCHANGED <<clock, mem, sounded, overlap, failed>>

Save(t) == \/ Open(t) \/ OpenFails(t) \/ Copy(t) \/ Flush(t) \/ FlushFails(t)
           \/ Rename(t) \/ RenameFails(t) \/ SyncName(t)

-----------------------------------------------------------------------------
(***************************************************************************)
(* check_alarm, in the main loop, and the start of the alarm's audio.      *)
(***************************************************************************)
Due(a) == mem.slot[a].on /\ mem.slot[a].at = Minute /\ mem.slot[a].fired # Today

\* Variant: the alarm is started without a save.
CheckAlarmUnsaved ==
  /\ up /\ th["main"].pc = "idle"
  /\ \E a \in Alarms :
       /\ Due(a)
       /\ \A b \in Alarms : b < a => ~Due(b)
       /\ mem' = [mem EXCEPT !.slot[a].fired = Today]
       /\ th' = [th EXCEPT !["main"] = AlarmAt("fired", "fire", a, Today)]
  /\ UNCHANGED <<clock, up, name, file, sounded, overlap, failed>>

\* The first alarm that is due is marked as fired and saved.
CheckAlarm ==
  /\ up /\ th["main"].pc = "idle"
  /\ \E a \in Alarms :
       /\ Due(a)
       /\ \A b \in Alarms : b < a => ~Due(b)
       /\ mem' = [mem EXCEPT !.slot[a].fired = Today]
       /\ th' = [th EXCEPT !["main"] = AlarmAt("open", "fire", a, Today)]
  /\ Notice("main")
  /\ UNCHANGED <<clock, up, name, file, sounded, failed>>

\* audio_play_music_file: the decoder thread starts, or the call fails.
StartAlarm ==
  /\ th["main"].pc = "fired"
  /\ \/ /\ th["audio"].pc = "idle"
        /\ th' = [th EXCEPT !["main"] = Idle,
                   !["audio"] = AlarmAt("opening", "sound", th["main"].alarm, th["main"].day)]
     \/ th' = [th EXCEPT !["main"] = Idle]
  /\ UNCHANGED <<clock, mem, up, name, file, sounded, overlap, failed>>

\* audio_thread_main has opened the device: last_successful_alarm is saved
\* and the alarm sounds.  An alarm that was set again in between starts anew.
SoundAlarm ==
  /\ th["audio"].pc = "opening"
  /\ LET x == <<th["audio"].alarm, th["audio"].day>> IN
       /\ sounded' = IF mem.slot[x[1]].fired = x[2] THEN sounded \cup {x} ELSE sounded
  /\ th' = [th EXCEPT !["audio"] = At("open", "sound")]
  /\ Notice("audio")
  /\ UNCHANGED <<clock, mem, up, name, file, failed>>

SoundFails ==
  /\ th["audio"].pc = "opening"
  /\ th' = [th EXCEPT !["audio"] = Idle]
  /\ UNCHANGED <<clock, mem, up, name, file, sounded, overlap, failed>>

-----------------------------------------------------------------------------
(***************************************************************************)
(* The IPC thread.                                                         *)
(***************************************************************************)
Request(o) == /\ up /\ th["ipc"].pc = "idle"
              /\ o \in IpcOps
              /\ th' = [th EXCEPT !["ipc"] = At("open", o)]
              /\ Notice("ipc")

\* ipc_config_alarm: a schedule whose time is unchanged keeps last_fired_date,
\* even when the alarm is switched off and on again.
SetAlarm ==
  /\ Request("alarm")
  /\ \E a \in Alarms, at \in 0..(DayLength - 1), on \in BOOLEAN :
       LET same == at = mem.slot[a].at IN
         /\ mem' = [mem EXCEPT !.slot[a] =
                      [on |-> on, at |-> at, fired |-> IF same THEN @.fired ELSE NoDay]]
         /\ sounded' = {x \in sounded : x[1] # a \/ same}
  /\ UNCHANGED <<clock, up, name, file, failed>>

\* ipc_config_audio, _personalization, _display, and the deletion of assets.
ChangeSettings ==
  /\ Request("settings")
  /\ \E v \in Volumes : mem' = [mem EXCEPT !.vol = v]
  /\ UNCHANGED <<clock, up, name, file, sounded, failed>>

\* ipc_config_export saves, and then reads the file.
Export ==
  /\ Request("export")
  /\ UNCHANGED <<clock, mem, up, name, file, sounded, failed>>

ReadExport ==
  /\ th["ipc"].pc = "read"
  /\ th' = [th EXCEPT !["ipc"] = Idle]
  /\ UNCHANGED <<clock, mem, up, name, file, sounded, overlap, failed>>

\* ipc_config_import: the backup is written to a file of its own, ...
Import ==
  /\ up /\ th["ipc"].pc = "idle" /\ "import" \in IpcOps
  /\ \E b \in Backups, i \in New :
       /\ th' = [th EXCEPT !["ipc"] = [At("activate", "import") EXCEPT !.fd = i]]
       /\ file' = [file EXCEPT ![i] = [text |-> b, card |-> b]]
  /\ Notice("ipc")
  /\ UNCHANGED <<clock, mem, up, name, sounded, failed>>

\* ... takes the place of CONFIG_FILE, ...
Activate ==
  /\ th["ipc"].pc = "activate"
  /\ name' = [name EXCEPT !.config = th["ipc"].fd]
  /\ sounded' = {}
  /\ th' = [th EXCEPT !["ipc"].pc = "reset", !["ipc"].fd = NoFile]
  /\ file' = Kept(file)
  /\ UNCHANGED <<clock, mem, up, overlap, failed>>

\* ... the settings in memory are reset, ...
Reset ==
  /\ th["ipc"].pc = "reset"
  /\ mem' = Defaults
  /\ Goto("ipc", "load")
  /\ UNCHANGED <<clock, up, name, file, sounded, overlap, failed>>

\* ... CONFIG_FILE is read (the other settings come before the alarms), ...
Load ==
  /\ th["ipc"].pc = "load"
  /\ LET text == Text(name.config) IN
       IF text = Empty
         THEN /\ th' = [th EXCEPT !["ipc"].pc = "open"]
              /\ UNCHANGED mem
         ELSE /\ th' = [th EXCEPT !["ipc"].pc = "assign", !["ipc"].buf = text,
                                  !["ipc"].todo = Alarms \X Fields]
              /\ mem' = [mem EXCEPT !.vol = text.vol]
  /\ UNCHANGED <<clock, up, name, file, sounded, overlap, failed>>

\* The order of the lines: alarm by alarm, enabled, time, last_fired_date.
Before(x, y) == \/ x[1] < y[1]
                \/ /\ x[1] = y[1]
                   /\ <<x[2], y[2]>> \in {<<"on", "at">>, <<"on", "fired">>, <<"at", "fired">>}

\* ... and its lines are assigned to g_state one by one, without the lock.
Assign ==
  /\ th["ipc"].pc = "assign"
  /\ LET todo == th["ipc"].todo
         new  == th["ipc"].buf.slot IN
       IF todo = {}
         THEN Goto("ipc", "open") /\ UNCHANGED mem
         ELSE \E x \in todo :
                /\ \A y \in todo : Before(x, y) \/ x = y
                /\ mem' = [mem EXCEPT !.slot[x[1]][x[2]] = new[x[1]][x[2]]]
                /\ th' = [th EXCEPT !["ipc"].todo = todo \ {x}]
  /\ UNCHANGED <<clock, up, name, file, sounded, overlap, failed>>

-----------------------------------------------------------------------------
(***************************************************************************)
(* Time, restarts and power losses.                                        *)
(***************************************************************************)
Tick ==
  /\ clock < MaxClock
  /\ clock' = clock + 1
  /\ UNCHANGED <<mem, up, th, name, file, sounded, overlap, failed>>

\* The watchdog or systemd starts the process again; the files are as they were.
Restart ==
  /\ Boot(Text(name.config))
  /\ UNCHANGED name
  /\ file' = Kept(file)
  /\ UNCHANGED <<clock, sounded, overlap, failed>>

\* Without power, a rename that was not synced may or may not have happened,
\* and so may a truncation.
OnCard == [i \in Inodes |-> [text |-> file[i].card, card |-> file[i].card]]

PowerLoss ==
  \E c \in {name.config, name.durable}, t \in {name.tmp, NoFile}, f \in {file, OnCard} :
    /\ name' = [config |-> c, tmp |-> t, durable |-> c]
    /\ Boot(IF c = NoFile THEN Empty ELSE f[c].text)
    /\ file' = Kept(f)
    /\ UNCHANGED <<clock, sounded, overlap, failed>>

-----------------------------------------------------------------------------
Next == \/ \E t \in Threads : Save(t)
        \/ CheckAlarm \/ StartAlarm \/ SoundAlarm \/ SoundFails
        \/ SetAlarm \/ ChangeSettings \/ Export \/ ReadExport
        \/ Import \/ Activate \/ Reset \/ Load \/ Assign
        \/ Tick \/ Restart \/ PowerLoss

Spec == Init /\ [][Next]_vars

-----------------------------------------------------------------------------
(***************************************************************************)
(* Properties.                                                             *)
(***************************************************************************)
Pcs == {"idle", "open", "copy", "flush", "rename", "sync", "fired", "opening",
        "read", "activate", "reset", "load", "assign"}
Ops == {"none", "boot", "fire", "sound"} \cup {"alarm", "settings", "export", "import"}
Texts == Config \cup {Empty}
Thread == [pc : Pcs, op : Ops, buf : Texts, fd : Inodes \cup {NoFile},
           alarm : {0} \cup Alarms, day : {NoDay} \cup Days,
           todo : SUBSET (Alarms \X Fields)]

TypeOK ==
  /\ clock \in 0..MaxClock
  /\ mem \in Config
  /\ up \in BOOLEAN
  /\ th \in [Threads -> Thread]
  /\ name \in [config : Inodes, tmp : Inodes \cup {NoFile}, durable : Inodes]
  /\ file \in [Inodes -> [text : Texts, card : Texts]]
  /\ sounded \subseteq Alarms \X Days
  /\ overlap \in BOOLEAN /\ failed \in BOOLEAN

\* Nothing went wrong that the code does not guard against: no two saves
\* overlapped, and the card could be written.
Clean == ~overlap /\ ~failed

Card(i) == IF i = NoFile THEN Empty ELSE file[i].card
Fired(text, a, day) == text # Empty /\ text.slot[a].fired = day

\* When check_alarm goes on to start an alarm's audio, what a power loss would
\* leave behind knows that the alarm has fired: check_alarm saves first.  A restore
\* that is under way may bring the same date back before it is saved.
Committed ==
  LET a == th["main"].alarm  day == th["main"].day IN
    th["main"].pc = "fired" /\ mem.slot[a].fired = day /\ th["ipc"].op # "import"
      => Fired(Card(name.durable), a, day)

CommittedIfClean == Clean => Committed

\* An alarm that has sounded on a day does not fire again on that day, whatever
\* restarts and power losses come in between, unless it was set again or a
\* backup was restored.
NoReplay ==
  [][\A a \in Alarms :
       Clean /\ CheckAlarm /\ mem'.slot[a].fired # mem.slot[a].fired
         => <<a, Today>> \notin sounded]_vars

\* Nothing is forgotten: when no save is in progress, the card holds what the
\* daemon remembers.
Settled ==
  Clean /\ up /\ (\A t \in Threads : ~Busy(t)) =>
    /\ name.config = name.durable
    /\ Text(name.config) = mem /\ Card(name.config) = mem

\* Even when saves overlap, the last of them leaves a whole file behind.
WholeWhenQuiet ==
  ~failed /\ up /\ (\A t \in Threads : ~Busy(t)) => Text(name.config) # Empty

\* No setting is forgotten: card, file and memory agree when no save is under way, and
\* overlapping saves leave a whole file behind (save_config, load_config).
SettingsKept == Settled /\ WholeWhenQuiet
=============================================================================
