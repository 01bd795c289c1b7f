# Formal model of mk-piclock-adult

mk-piclock-adult is a bedside clock on a small ARM board: an OLED, a touch sensor, a loudspeaker, a web page.
This directory holds TLA+ models of its concurrent and crash-prone parts, TLC configurations that check them on
small instances, and TLAPS proofs of the safety of all ten of them.  Line numbers refer to the repository at this commit.

Contents: [The system](#1-the-system) - [Modules](#2-the-modules) - [Runs](#3-the-runs) -
[Bounds](#4-bounds-and-why-they-are-enough) - [Fairness](#5-fairness) - [Proofs](#6-proofs) -
[Disagreements](#7-where-code-and-documents-disagree) - [Limits](#8-what-is-abstracted-and-what-is-not-modelled) -
[Plan](#9-plan)

## 1. The system

Four services share one board, a handful of directories and a Unix socket.

```
  browser --HTTP--> mk-piclock-api ----core.sock (one binary frame, one reply)----> mk-piclock (core)
                      |   |   |                                                      ^    ^
   music upload dir <-+   |   +-> music / podcast directories <--- read by ----------+    |
   podcast upload dir <---+        (music_jobs.c, podcast_import.c)                       |
  SFTP ---^                                                    mk-piclock-weather --------+
                                                               mk-clock-bluetooth-control +
```

### 1.1 Core daemon (`mk-piclock.c`)

| part | state | operations | what is hard, and what makes it correct |
|---|---|---|---|
| audio player 3886-4600 | `g_audio` (running, stop_requested, alarm_mode, timed_out, alarm_deadline_ms) behind one mutex, the visible part of `g_state` behind another, a detached decoder thread per session | play music, podcast, alarm, chime; stop; stop because of a deletion or a restore; the decoder's life | Three threads start and stop, every operation is several critical sections with gaps between them. One session at a time; a stop reaches its session; nothing of a session outlives it; waiting for a decoder is never waiting for nobody; an alarm ends and can be dismissed. |
| settings store 920-1195, 5480-5610, 5980-6075, 6322-6355 | `g_state` in memory, `CONFIG_FILE`, `CONFIG_FILE.tmp`, `last_fired_date` per alarm | load, save, set an alarm, change a setting, export, import, fire an alarm | Three threads write one temporary file without a lock; the power may go at any step. An alarm does not fire twice on a date, whatever restarts happen; no setting that was saved is lost. |
| podcast history 3738-3884 | `podcast-history.txt` behind `g_podcast_history_lock` | mark, forget, reset, choose at random | The lock is let go between choosing, resetting and marking. No repetition before every podcast has been played. |
| IPC server 5103-6310 | none of its own: one thread, one client at a time | the requests of the API, weather and Bluetooth services | Serial, but every request is several critical sections against the other threads. |
| touch and main loop 4640-4963, 6390-6528 | tap counters, debounce, display mode | ten taps, short press, refresh of the display, the watchdog's datagram | Tap windows measured in milliseconds; a stuck loop must stop feeding the watchdog. |
| display 1381-1660, 4707-4780, 6390-6528 | display mode with the diagnostics over it, `display_dirty`, brightness, the frame drawn and the frame sent | take the mode, draw, flush; open, close and time out the diagnostics; preview of a brightness | Everything that changes what the panel should show is under other locks than the flag that says so, and the bus fails. No redraw is lost; the screen that was asked for comes back; the panel settles on what is known. |
| warnings in the footer 3428-3590, 5710-5829 | the list last received, the message shown and since when | receive a list, rotate, draw | The state is evaluated twice in a pass while the list is replaced. A message keeps its period, and none is passed over for ever. |
| fonts, room sensor, layout of the weather panel | pixels, last sample | drawing, I2C polling | Long sequential computations over data. |

### 1.2 HTTP service (`mk-piclock-api.c`, `music_jobs.c`, `podcast_import.c`, `asset_store.c`, `weather_source_store.c`)

Two libmicrohttpd threads serve any number of connections; the handlers of different connections interleave.

| part | state | operations | what is hard, and what makes it correct |
|---|---|---|---|
| music upload, jobs, library | the gate `g_music_upload_in_progress`, `g_jobs[14]`, the worker, `.processing`, the music directory | upload, queue a batch, clear, list, delete one or all, transcode, stop, start | One upload at a time and none refused after its body was received; every temporary file has one owner; the worker's slot is never taken from it; jobs end; quota. |
| podcast import | `g_status`, `g_failures`, `g_triggered`, the upload directory, the library | scan, start, import of each file, upload, delete | Counting happens before locking; files come and go by name while the worker transcodes for minutes. The card adds up, failed files stay, a triggered batch is served. |
| backup and restore 1500-2132 | `g_maintenance_lock`, stage and rollback directories, fonts, two weather files | build a ZIP, restore in steps with rollback | A step fails half-way, a rollback step fails, an import is given up on and served later. All or nothing; no font lost; a backup is of one state. |
| system settings 2328-2660 and `packaging/` | one request file, a oneshot unit | host name, NTP, time zone | Two server threads, one request file. |
| sessions, diagnostics, proxying, web pages | a password hash, session cookies | log in, change the password | Little shared state. |

### 1.3 Other services

The weather service (`weather/src/mk-piclock-weather.c`) is a oneshot process run by a timer and a path unit.

| part | state | operations | what is hard, and what makes it correct |
|---|---|---|---|
| publication 2716-2950, 3066-3696 | icon files, stamp file, `weather-last-good.json`, the locals of a run | fetch, enrich, snapshot, prepare icons, push, mark, cache, roll back, restore from the cache | Three files and one request to a core that can restart, over an API that answers late or not at all, in a process that can be killed. Icons belong to the forecast shown; a core without a forecast gets one; nothing is taken away by a run that fails. |
| daily slot 1495-2475 | the file of today's extremes | read the periods, date a low, build TODAY or TMORROW | Bulletins name days relative to their issue and are read late or again. A low is shown only for the date it belongs to; what is known is kept over midnight. |
| warnings 2953-3064 | - | order the alerts' headings and pieces into eight slots | Every alert gets its heading in. |
| hourly slots, icons, parsing | - | select hours, draw | Data. |

The Bluetooth
controller (`bluetooth/mk-clock-bluetooth-control.py`) has a pairing window with a timer, an agent process and a refresh
worker.  `service_watchdog.c` sends the systemd datagram.  Installation scripts and device-tree files run once.

### 1.4 Threads and what they share

| thread | starts audio | stops audio | saves settings | writes the history | touches libraries |
|---|---|---|---|---|---|
| core main loop | alarms | - | when an alarm fires | - | - |
| core touch thread | music, podcasts | short press | - | random choice | - |
| core IPC thread | music, podcasts, chimes | stop, deletion, import of settings | settings, alarms, export, import | manual play, reset, asset events | - |
| core decoder threads | - | at the end | when an alarm's device opens | - | - |
| two API server threads | through the core | through the core | through the core | through the core | upload, delete |
| job worker, import worker | - | - | - | through asset events | replace files |

`hazards` in `PROJECT.json` lists what can go wrong here at the line where it would, with the property that covers it
or the reason why none does.

## 2. The modules

| module | models | EXTENDS / INSTANCE |
|---|---|---|
| `AudioSession` | abstract specification: what the player promises its callers | - |
| `AudioPlayer` | the player, three caller threads and the decoder threads | `Session == INSTANCE AudioSession` with a refinement mapping |
| `..._proofs` | theorems about the module of that name (section 6), for `AudioPlayer`, `ConfigStore`, `MusicJobs`, `PodcastImport`, `PodcastHistory`, `BackupRestore`, `WeatherService` | that module, `TLAPS`, the library's facts about finite sets or well-founded induction where they are needed |
| `Panel_proofs` | theorems about the three modules that say what the panel shows: `ClockDisplay`, `WarningFooter`, `TodayForecast`; the last two name their definitions so that they can be read together | these, `TLAPS`, the library's facts about induction |
| `ConfigStore` | settings file, alarm replay protection, restarts, power losses | - |
| `MusicJobs` | upload gate, job table, worker, music library, service life | - |
| `PodcastImport` | importer, upload directory, podcast library, service life | - |
| `PodcastHistory` | play history and random choice | - |
| `BackupRestore` | maintenance lock, backup, restore with its way back, the core's socket | - |
| `WeatherService` | runs of the weather program, the core that receives their pushes, both of which die and come back | - |
| `WarningFooter` | from the alerts of a forecast to the messages in the footer of the panel, through two processes | - |
| `ClockDisplay` | what the main loop draws while four threads change what it should draw | - |
| `TodayForecast` | the low and high of the daily slot, over the hours of a night and the bulletins of a source | - |
| `MC...` | constants of the instances, symmetry | the module they instantiate |

A property is stated next to the actions it is about.  Definitions marked *variant* or *mutant* are the wrong versions
of the action after them; no specification uses them, they are there to show which bug a property would catch.
Where one run checks two statements about the same thing, they have names of their own and the property checked is
their conjunction: `SettingsKept`, say, is `Settled /\ WholeWhenQuiet`.

### 2.1 AudioPlayer

*State.* `audio` is `g_audio` (with `due` for "now is past the armed deadline"), `vis` is the session that the display
and the status API show, `alarmActive` is `g_state.alarm_active`.  `pc`/`req` say where each caller is in its
operation, `dec` where each decoder thread is.  `overlap` is a history variable: a start passed the wait while another
one was between its wait and its publication (or, for the chime, its test).

*Granularity.* One action is one critical section, because the code releases the mutex between them:

| code | actions |
|---|---|
| `audio_request_stop` | `FlagStop` (g_audio) , `QuietAlarm` (alarm_active), `ClearVisible` (g_state) |
| `audio_stop_and_wait`, `audio_wait_stopped` | the three above, then `WaitStopped` or `WaitTimeout` (3000 ms) |
| `audio_play_music_file`, `audio_play_podcast_file` | `RequestPlay`, the stop, `Publish`, `Show`, `Spawn` or `SpawnFails` and `Unshow` |
| `audio_play_weather_warning_chime` | `PublishChime` (test and set in one section), `Spawn` |
| `ipc_asset_event` | `RequestDelete` (test), the stop, `EraseDeleted` |
| `audio_thread_main` | `OpenFile`, `OpenDevice`, `OpenFails`, then `LoopTest`/`Fill`/`EndOfFile`, then `Drain`, `EndRamp`, `EraseVisible`, `Exit` |
| `audio_should_stop` | `NoteExpiry`, part of each step that calls it |

*Properties.* `FlagsBelongToSession`, `NeverWedged`, `NoGhostPlayback`, `OneSession`, `ReadyWindow` (safety);
`SessionsEnd` (liveness: `AlarmEnds` and `StopEndsSession`); `SessionPromise`, the refinement of `AudioSession`.  `AlarmUnderControl`
holds with a single starter and fails with two (section 7).  `OneSession` is stated for behaviours without overlap,
because the code does not promise it otherwise: `audio_stop_and_wait` gives the lock back before the caller publishes.

### 2.2 ConfigStore

*State.* `mem` is the persistent part of `g_state` (alarm slots and one value for everything else), files are inodes
with a text and what of it is on the card, `name` binds `CONFIG_FILE` and `CONFIG_FILE.tmp`, and `durable` is what a
power loss would bind `CONFIG_FILE` to.  `th` holds the point each thread has reached in `save_config`,
`check_alarm`, the alarm's start, or a restore.

*Correspondence.* `Open` is `fopen(..., "w")` - it truncates a file another thread is writing -, `Copy` the `fprintf`s
under the state lock, `Flush` `fflush`+`fsync`+`fclose`, `Rename`, `SyncName` the fsync of the directory; `CheckAlarm`
is `check_alarm` with the mark; `SoundAlarm` the decoder's own save; `Import`, `Activate`, `Reset`, `Load`, `Assign`
are `ipc_config_import`, with one step per assigned field because `load_config` assigns without the lock.
`Restart` keeps the files, `PowerLoss` may undo an unsynced rename or truncation.

*Properties.* `CommittedIfClean` (when the main loop goes on to start an alarm, the card knows it has fired; not while a restore brings the
same date back in memory: it saves last),
`NoReplay` (action property: an alarm that sounded does not fire again that day, unless it was set again or a backup
was restored), `SettingsKept`: `Settled` (with no save in progress, card, file and memory agree) and `WholeWhenQuiet` (even after
overlapping saves the file is not empty).

### 2.3 MusicJobs

`conn` follows each request: gate, body, staging, queueing, answer; `gate` is the flag; `job` is `g_jobs`, `worker` the
thread and its copy of the job, `files` the temporary files, `library` the sizes of the songs, `phase` the process.
`BeginUpload` and `Reserve` are the two halves of `music_upload_try_reserve` (257-280); `QueueBatch` is
`mp_music_jobs_queue_batch` whole, as it runs under one lock: of the `Usable` slots, the `Place` of one says which song of
the batch it gets, as empty and expired slots are taken `Sooner` than recent history; `TakeJob` .. `FinishJob` are `worker_main` and
`process_job`, one action per file-system or table operation.  `StopDaemon`, `StopJobs`, `Exit` follow `main`'s
shutdown order; `Crash` leaves the temporary files; `Start` cleans them.
Properties: `UploadGate` (`GateHeld`: one upload at a time; `NeverTurnedAwayLate`: none is refused after its body was
received), `JobsInv` (`SourcesOwned`, `WorkerOwnsSlot`), `QuotaRespected`, `JobsServed` (`JobsFinish`, `GateReleased`).

### 2.4 PodcastImport and PodcastHistory

In `PodcastImport` the content of a file is the number of the upload that brought it, so that an older and a newer file of
one name differ.  `Begin` counts the directory without the lock, `Scan` and `Trigger` are the two critical sections
of `mp_podcast_import_scan` / `_trigger`; `Wake` .. `EndBatch` are the worker, with `OpenSource`, `Promote`,
`RemoveSource` and `FileFails` for `process_one`; a file can fail at each of them, the removal of its source after the library has it too.
Properties: `ImportInv` (`CountsAddUp`, `FailuresRemain`), `ImportEnds`, `BatchServed` (an upload that waits while a start is pending gets into the
library itself, unless a newer one takes its place, it fails or the service stops).  `Taken` is the exception written into the last: an upload that replaces
the file the worker has open is removed with it (section 7).

`PodcastHistory` has the history file as a sequence, of which at most `ScanMax` lines are read (256 in the code); `Mark`, `Forget`, `Reset` are the locked functions; `Collect`,
`Choose`, `Exhausted`, `NewCycle`, `Stopped`, `MarkRandom`, `StartRandom`, `RandomFails` are
`choose_random_podcast_file` and `audio_play_podcast_file` on the touch thread.  `marked` is the history of what was
recorded, `random.stale` says that another request changed something since the choice began.  Properties:
`HistoryInv` (`HistoryTrue`: the file is the plays on record), `NoRepeat`, `CycleComplete`.

### 2.5 BackupRestore

*State.* The content of the settings, of each weather file and of each font is "before", "backup" (the archive's) or "other"
(another request's).  `core` is the core process with the requests in its socket; `conn` the two kinds of request, with what
they have read in `seen`; `lock` is `g_maintenance_lock`; `kept` the fonts moved to `.restore-old-XXXXXX`.  `before`,
`touched` and `spoiled` are history: everything as it was when the lock was taken, whether any other request has changed
something since, whether a step of the way back has failed.

*Correspondence.* `ipc_call` is `Send`, then an answer (`Serve`, `ServeRefuses`), `TimesOut` or `CoreCrash`.  A request that timed
out stays in the socket and is served: the core reads it before it notices that the caller is gone.  `MoveOut`,
`Protected`, `ProtectFails` are `stage_current_fonts`; `CopyFont` .. `Imported` the chain of `&&` in `restore_backup_locked`
(2094-2104); `ClearFont` .. `Undone` its way back (2106-2116), with results the code throws away; `ZipFont`, `Zipped` build the archive.
`OtherFont`, `OtherWeather`, `OtherSettings` are the requests that the lock does not keep out.  The steps an import takes inside the core are `ConfigStore`'s.

*Properties.* `RestoreAllOrNothing`: `RestoredWhole` and `UndoneWhole` (what an answer says of the restore is true once the core has served its socket),
`BackupTrue`, `BackupInv` (`FontsSafe`), `MaintenanceEnds`.  They claim nothing once another request has interfered, and `UndoneWhole`, `FontsSafe`
nothing of a way back one of whose steps failed; the answer "current fonts could not be protected" is left out on purpose (section 7).

### 2.6 WeatherService

*State.* A forecast is its source, the hour it was fetched, and what it says of one alert: nothing, its title, its title and
text, or a title for which a text was asked and none was had ("bare").  `core` is `g_weather` with the instance of the process and whether its forecast came by a late push, `icons` the
runtime icon files with the forecast each was drawn for, `stamp` the core instance the stamp file is as new as (the code
compares the modification times of stamp and socket), `cache` `weather-last-good.json`, `late` a push whose client has gone.
`run` holds the locals of the one running program: where it is, which publication it is in (`restore`, `primary`, `final`,
`rescue`), the snapshot of the icons, the attempts.  `run.crossed` and `found` are history.

| code | actions |
|---|---|
| start of `main`, `runtime_weather_publish_needed` | `Start`, `PublishNeeded` |
| `restore_cached_weather_runtime` | `LoadCache`, then a publication in the phase `restore` or `rescue`, `Restored` |
| `snapshot_runtime_icons`, `prepare_icons`, `rollback_runtime_icons` | `Publish`, in which a file may be unreadable and then counts as absent, `PrepareIcon` and `RollbackIcon`, one step per file |
| `push_clock_weather`, `push_cached_weather_until_core_ready`, the API, `ipc_weather_update` | `PushAttempt` (answered, refused, lost, answer lost, or left in the API), `LatePush` |
| `mark_weather_published` | `MarkPublished` |
| `fetch_eccc_json` and `normalize_weather`; `enrich_warning_details` | `Fetch`; `Enrich`, with `Enriched` for an alert the feed has (with its text or without) and `Reused` for one it has not |
| last write of `main`, the failure label, `record_weather_run` | `WriteCache`, `Failure`, `RecordRun` |
| a kill of the unit; `systemd`'s treatment of the core | `Kill`; `CoreCrash`, `CoreRestart`, `CoreUp` |

*Properties.* `WeatherInv` (`StampTruth`: a stamp that counts stands for a forecast in the core), `IconsMatch` (after a run that reports
success the icons are those of the forecast shown), `RunsKeep` (`FailureLeavesIcons`: a failed run leaves the icons as it found them; `BulletinKept`: a
bulletin's text is not lost), `ForecastsAdvance` (no run puts an older forecast over one the stamp stands for), `PanelServed` (while fetches keep
succeeding now and then the panel recovers from everything; without them a core that lost its forecast gets the cached one).

The exceptions the code has are written into them, each as narrow as it is:
- a push that was given up on and is handled last (`late`), in `IconsMatch` and `ForecastsAdvance`;
- a core that crashes and is back within one publication, so that the stamp or the icons are newer than a core that never saw them (`crossed`).  An explicit
  restart of the core cannot do that: `Requires=` in the unit kills the weather program first;
- an icon file that could not be read for the snapshot, which the rollback then removes, or that could not be written back (`found.excused`);
- an alert the feed has without a text, which counts as enriched, so that the cache is not asked for the saved text and is then written over without it; the same when
  the cache cannot be read (`"bare"` in `BulletinKept`);
- a forecast the core accepted without the stamp being written: a failing run restores the older cache over it (`~PublishNeeded` in `ForecastsAdvance`).

### 2.7 WarningFooter

*State.* An alert is its heading, the pieces its text is cut into and whether it is live.  `messages` is
`g_weather.warning_descriptions`, `display` is `g_weather_warning_display`, `redraw` (`display_dirty`) and `mode` are fields of `g_state`, `pass`
holds the main loop's locals, `footer` is what the panel shows.  `announcing` is the IPC thread between its two critical sections.

*Correspondence.* `Messages` is `active_warning_descriptions` of the weather program: headings first, then one piece of each alert in
turn (`Offered` is the order), no text twice (`Listed` is what is done with one), eight slots.  `ReceiveWarnings` and `AnnounceList` are the
two critical sections of `ipc_weather_update`; `TakeState`, `DecideFooter` (`dashboard_footer_refresh_active`) and `DrawFooter` the three points at which the main loop reads shared state.
`Advanced` is `dashboard_weather_warning_state`, `NextText` `weather_warning_next_text`, which finds its place by the text.

*Properties.* `FooterInv` (`HeadingsListed`; `PanelAgrees`: deciding and drawing agree although the state is evaluated twice),
`PeriodKept`, `MessagesServed` (each message of a list that stands is shown again and again; none when all are withdrawn).

### 2.8 ClockDisplay

*State.* `content` stands for all that the clock shows besides the time.  `screen` is `display_mode` with `diagnostic_return_mode` and
`diagnostic_until`; `frame` is `fb`, `prev_valid` and the preview with the level it was sent at; `panel` is what the glass shows, `Mixed` after a
write that failed half way; `spi` says whether writes succeed.  `chosen` is history.

*Correspondence.* `Take` is the section that reads the mode and clears `display_dirty`, after `apply_bedtime_brightness`; `ShowClock`, `ShowClear`,
`ShowDiagnostics`, `DiagnosticsTimeOut` and `ShowAfterDiagnostics` are the branches of the main loop, `Write` is `oled_flush` and
`oled_flush_full`, `CloseDiagnostics` is `close_diagnostic_screen`, called by the loop and the touch thread.  `Post`/`RaiseDirty` are a
thread that changes its own state and then raises the flag; `ConfigDisplay`, `ShowMode`, `AudioChanges`, `FireAlarm` change both in one
critical section or only the flag.  `ReplaceFont` is `ipc_asset_event` for a font uploaded or deleted under the name of the selected one, which raises the flag
*before* it drops the cached face; `posting` is then `"late"`, as a history, if the loop had drawn in between and owes nothing more.

*Properties.* `DisplayInv` (`ChoiceKept`, `PreviewTrue`), `NoLostRedraw` (but for such a font, which waits for the next redraw), `DisplayServed` (`DiagnosticsEnd`, `PanelSettles`).  `PanelSettles`
has the premise that no write failed half way: section 7 says why.

### 2.9 TodayForecast

*State.* Time in quarters of a day.  `bulletin` is the page of the chosen source: periods with the day they speak of, which the program does not see, and the
name they have, which it does, and with a number or without one (`None`); `on` is its date and `cold` the coldest forecast hour of each night its hours
reach.  `cache` is the file of today's extremes, `slot` the daily slot selected last, `lastGood` the forecast that can be given to the core again.  `said` and
`heard` are history: which lows a source said of a date, and which high was last read for each date and which last kept; `replaced` says that the last step took a
file it could not read for none and replaced it.

*Correspondence.* `Run` is one run of `main` as far as the slot is concerned: `Select` (`select_clock_slots`) twice, the second time with the
low observed at a station when TODAY has none; `Replay` is the selection in `restore_cached_weather_runtime`.  `TodaySlot`, `TomorrowSlot`,
`Occurs`, `Load`, `HighOf` are `build_today_slot`, `build_tomorrow_slot`, `night_low_occurrence`, `load_today_extremes_cache` and the replacement of a
known high; `MatchesDaytime` and `MatchesTonight` are the `period_matches_...` functions, which pass over a period without a number.  In each selection the file may
fail to be read, which counts as a fresh one (line 1621), or to be written, which nobody notices (lines 1713 and 2279): `Faults`.

*Properties.* `TodayInv` (`OwnDay`: no low is shown or kept for a date it does not belong to), `HighTrue` (a high is the last one its source said of its date, or,
where a write failed, the last one kept, and never one computed from hours), `ExtremesKept` (what is known of today and tomorrow is not forgotten, unless the file could not be
read and was replaced).  `Misdated` states the two bulletins for which `OwnDay` fails in the code: one of the day before, whose "Tonight" may be taken for
the night after the one it means; and one in which the day it was issued has no number, so that the code, which tells the ending night from the coming one by the place of that
day's period, goes by the time of day.  `Misread` does the same for `HighTrue`: yesterday's bulletin, whose "Today" the code takes for today.

## 3. The runs

| run | instance | question, and answer |
|---|---|---|
| `audio_three` | three threads, one kind of operation each, two decoders | Do the safety properties hold in every interleaving of starts, stops and chimes? Yes. |
| `audio_alarm` | alarms against every stop, deletion and import | With one starter: does the player implement `AudioSession`, does each alarm end, does a stop end its session, is an alarm always under control? Yes. |
| `audio_control` | alarms and the touch sensor | The same control property with two starters: **violated**. |
| `config_clean` | two alarms, two days, all IPC requests, restarts, power losses | Without overlapping saves and write errors: is the alarm committed before it sounds, never replayed, and nothing forgotten? And is the file whole after the last of overlapping saves? Yes. |
| `jobs` | two connections, two songs, two slots, quota one | Gate, ownership of sources and slots, quota; every job ends, the gate reopens. Hold. |
| `import` | two podcasts, two requests, two uploads | Counters, failures kept, batches end, every waiting upload gets into the library. Hold, the last but for the upload `Taken` names. |
| `history` | three podcasts, all listed | History, no repeat, cycle. Hold. |
| `backup` | two web clients, two fonts of which the archive has one, two failing calls, one other request | Does a restore happen whole or not at all, is a backup one state, are fonts safe, is the lock given back? Yes. |
| `weather` | two sources, two icons, one fault, one restart or crash of the core, one change of source | Do stamp, icons, cache and core fit together whatever fails, does a forecast never give way to an older one, and does the panel recover? Yes, with the exceptions of section 2.6. |
| `footer` | seven lists of up to four alerts, three slots | Is every heading listed, is a period kept, is each message shown? Yes. |
| `panel` | two contents, two levels, a failing bus, a font replaced under its name | Is a redraw ever lost, is a chosen screen overridden, does the panel settle? No but for the font, no, yes. |
| `today` | an evening, a night and the day after it; two sources, two bulletins, numbers missing, one selection whose file fails | Does each low and high belong to its date, and is it kept? Yes, but for the bulletins `Misdated` and `Misread` name and for a file that failed. |

`mutants` in `PROJECT.json` names, for every property of a passing run, a plausible bug of the code under which the same
run finds the property violated.

## 4. Bounds, and why they are enough

- **Decoders = {d1, d2}.** A second decoder can start only when two starts overlap or after the first is through;
  a third needs three starters in the window at once and adds no new pair of neighbours.  The proofs hold for any number.
- **One file per library** (plus the built-in alarm): sessions are told apart by kind, a deletion concerns the file that
  plays or one that does not, and both occur.
- **ConfigStore:** four inodes are the most that have a name or an open descriptor together in a run; `DayLength = 2`, `MaxClock = 2`
  give two minutes of one day and the first of the next, which is what replay on a date needs.  `CONSTRAINT Explored` cuts
  behaviours at the first write error, after which the properties claim nothing, and follows those with overlapping saves,
  of which only `WholeWhenQuiet` (in `SettingsKept`) speaks, within the first minute, while one alarm and the plain settings are saved: they are
  about which text reaches which file, not about what the text says.
- **MusicJobs:** two slots and batches of one and two songs make a full table, a reused slot and a partly staged batch;
  a quota of one unit with songs of one unit makes the quota bind; `MaxId = 3` bounds the jobs of one service run: a batch of two
  and another one, which has to reuse a slot of finished history.  Connections are not made symmetric, because liveness is checked in the same run.
- **PodcastImport:** two uploads make a replaced file or two waiting ones.  `MaxUploads` bounds only uploads.
- **PodcastHistory:** three podcasts make two plays of a cycle with one left; `MaxLines` bounds the file, one line more than the
  library holds.

- **BackupRestore:** two fonts, one replaced by the archive and one not; two faults, so that a restore fails and its way back too;
  one interfering request; a backlog of two (8 in the code), so that it fills up with requests nobody waits for.  A third
  client can only be turned away.
- **WeatherService:** two icons (3 in the code) make a half-written set; one fault, one crash or restart of the core and one change of source
  make every pair of them with a run before and after; two attempts of a push and of a restore (3 and 4 in the code) make one that is tried again
  and one that is given up.  `CacheAge = 1` with the hours 0 to 2 lets the cache be younger than a forecast, older, and too old.  `FirstSource` fixes which of two equal
  sources comes first.  `Alerts = {"title"}` keeps one alert in force.
- **WarningFooter:** the lists of `MCForecasts` have fewer and more alerts than the three slots (8), repeated headings, texts shared by two
  alerts, an alert without a text and one that has ended; two rounds of pieces.  A period is two or three ticks; a tick is longer than a pass, so a
  pass sees one at most (a pass takes a quarter of a second, a message stays twelve seconds).
- **ClockDisplay:** two contents and two levels: a change is another one or the one back.  `DiagnosticFor` is one tick.  The passes
  modelled are those in which a second has passed; others that find nothing to do leave no trace.
- **TodayForecast:** the quarters from 18:00 of one day to the evening of the next (`Begin = 7`, `End = 10`) hold every form a page has, a midnight, and
  a bulletin that is read a day late; two bulletins are one replaced or one of another source.  In the two `Readings` (with `Lows = {0, 2}`) the first night is colder than the
  later ones or they are colder than it, and the hours are as cold as every low or too warm for the later nights; a high is tied to the low of its
  bulletin and to its date, so that highs of two bulletins differ without a second set.  `Gaps` takes the number from no period, from the first or from the second, so that
  each kind of page loses a day's or a night's, and a day's before "Tonight" among them.  `Observed = {2}` is the warmer low, which one read
  later may replace.  `MaxFailures = 1` lets one selection fail to read the file, to write it, or both.
  `ReplayFor = 2` lets the last good forecast be given again over midnight and expire.  The proofs hold for any of these, any set of gaps included.

## 5. Fairness

`AudioPlayer.FairSpec`: weak fairness of each caller's progress and of each decoder (the kernel schedules runnable threads,
`pthread_cond_timedwait` returns, ALSA accepts writes) and of `Deadline` (time passes).  Nobody has to press the sensor.
`MusicJobs.Spec`: weak fairness of each open request (`MHD_OPTION_CONNECTION_TIMEOUT` ends a silent client), of
the worker, and of the service's orderly end and its start (`Restart=always` in the unit).
`PodcastImport.Spec`: the same.  Crashes, stops, requests, uploads and lost notices are never forced.
`BackupRestore.Spec`: weak fairness of each request's steps, `TimesOut` among them: the core need not answer, nor even be started again.
`WeatherService.Spec`: weak fairness of the program (the timer starts it every quarter of an hour, each of its waits is bounded), of the core's return
(`Restart=always`), and of a push the API holds.  `Fetch` may always fail: `PanelRecovers` asks for fetches that succeed again and again as its
premise, and `CacheServes` for none.
`WarningFooter.FooterSpec` and `ClockDisplay.Spec`: weak fairness of the main loop, of the thread that has changed its state and goes on to raise
`display_dirty`, and of time.  Nobody owes a forecast, a sound, a finger, a new minute or a bus that works; properties that need a quiet state have it as their premise.
`ConfigStore`, `PodcastHistory` and `TodayForecast` have no liveness property and no fairness.

## 6. Proofs

All ten models have their safety proved for every value of their constants, that is for any number of decoders, alarms, inodes,
connections, slots, songs, clients, icons, alerts, bulletins or brightness levels and every bound on retries, faults and restarts.  All
obligations are discharged by SMT, Zenon and PTL.

| theorem | statement | for |
|---|---|---|
| `AudioPlayer_proofs!Inductive`, `TypeCorrect`, `FlagsCorrect`, `WedgeFree`, `GhostFree`, `SessionsExclude` | `Spec => []IInv`, `TypeOK`, `FlagsBelongToSession`, `NeverWedged`, `NoGhostPlayback`, `OneSession` | any decoders, files and operations of the threads |
| `AlarmControlled` | `Spec => [](~overlap => AlarmUnderControl)` | the same |
| `PromiseKept` | `Spec /\ []~overlap => SessionPromise`: the player implements `AudioSession` | the same |
| `NoOverlap`, `SoleStarterKeeps` | `Spec => []~overlap`; `Spec => SessionPromise /\ []AlarmUnderControl` | one thread starts sessions (`Sole(s)`), the others stop, delete, restore |
| `ConfigStore_proofs!StoreTyped`, `CommitCorrect`, `KeptCorrect`, `ReplayCorrect` | `TypeOK`, `CommittedIfClean`, `SettingsKept`, `NoReplay` | any alarms, inodes, length of a day, backups |
| `MusicJobs_proofs!JobsCorrect`, `GateCorrect`, `QuotaCorrect` | `JobsInv`, `UploadGate`, `QuotaRespected` | any connections, slots, songs, batches, quota |
| `PodcastImport_proofs!ImportCorrect` | `ImportInv` | any podcasts and uploads |
| `PodcastHistory_proofs!HistoryCorrect`, `NoRepeatCorrect`, `CycleCorrect` | `HistoryInv`, `NoRepeat`, `CycleComplete` as long as nothing is cut off (`[]Fits`) | any library, any `ScanMax` |
| `FewPodcasts` | `Spec =>` all three | `Len(Order) <= ScanMax` |
| `BackupRestore_proofs!FontsCorrect`, `RestoreCorrect`, `BackupCorrect` | `BackupInv`, `RestoreAllOrNothing`, `BackupTrue` | any clients, fonts, archive, backlog, faults |
| `WeatherService_proofs!StampCorrect`, `IconsCorrect`, `AdvanceCorrect`, `RunsCorrect` | `WeatherInv`, `IconsMatch`, `ForecastsAdvance`, `RunsKeep` | any sources, icons, attempts, restarts |
| `Panel_proofs!DisplayCorrect`, `RedrawCorrect` | `DisplayInv`, `NoLostRedraw` | any contents and levels |
| `FooterCorrect`, `FooterPeriods` | `FooterSpec =>` `FooterInv`, `PeriodKept` | any forecasts, texts, slots, rounds and periods |
| `TodayCorrect`, `TodayHighs`, `TodayKept` | `TodaySpec =>` `TodayInv`, `HighTrue`, `ExtremesKept` | any sources, lows, readings, missing numbers, stretch of time, number of bulletins and failures, age of a replay |

### 6.1 Assumptions

Each is a named `ASSUME` next to the constants, which TLC evaluates in the runs: a thread issues only operations its code has
(`RequestsAssumption`); there is an alarm, and a stored or backed up text is a configuration (`StoreAssumption`, `TextsAssumption`); songs and podcasts
are finitely many, a batch names existing ones, once each (`SongsAssumption`, `BatchAssumption`, `UploadsAssumption`, `OrderAssumption`); a
"nobody" is no client, no source, no podcast (`ConnsAssumption`, `WeatherAssumption`, `OrderAssumption`); bounds are numbers, positive where the code's array has a
size; a message has a period of at least two ticks and of at most `MaxPeriod`, and the marks for "no text", the date and the audio are no texts (`FooterAssumption`);
lows are temperatures, so that a high made from one stays below `None` (`TodayAssumption`).  Three theorems have a hypothesis besides:

- `PromiseKept` has `[]~overlap`.  Two starts can overlap in the code and the promise is then broken (section 7, 1); `overlap` is a history
  variable that records exactly that.  `NoOverlap` derives it from the constants when one thread starts sessions: the main loop's alarms, say, or the
  plays and chimes of the IPC thread, against every stop, deletion and restore.
- `HistoryCorrect`, `NoRepeatCorrect` and `CycleCorrect` have `[]Fits`: the history file has no more lines than are read, the directory no more files than are
  listed.  The code keeps neither from growing (section 7, the podcast cycle), and beyond the limit the properties are false.  `FewPodcasts`
  derives it when the library never had more than `ScanMax` names: a file without repetitions has no more lines than there are names.

### 6.2 The inductive invariants, and why each part is needed

*AudioPlayer.* `IInv` is `TypeOK`, `FlagsBelongToSession`, `NeverWedged`, `ShownBacked`, `AlarmBacked`, `OneSession` and `ReadyWindow`.  `OpAtPc`, inside
`TypeOK`, ties a caller's program point to its operation: without it a step from `ready` might start a `stop`.  `ShownBacked` and `AlarmBacked` are the
halves of `NoGhostPlayback` with the stage of the thread behind the visible state.  `OneSession` alone is not preserved by `Publish`; `ReadyWindow` says
that without overlap the caller in the window is alone and `running` is still false, which is what the released lock leaves to chance.
For the alarm, `ModeKept` says that a starting or decoding alarm has `alarm_mode`, for the refinement `KindKept` that what a decoder plays is
one of the kinds `AudioSession` knows.  `StepImplements` takes each action to a step of `AudioSession` or a stutter: `Publish` and `PublishChime` are the abstract start,
`FlagStop` and a noted expiry the abstract request to end, `Exit` and a spawn that failed its end, everything else leaves the session as it is.

*ConfigStore.* `TypeOK`, `Roles` (which thread does what, and that nobody but the main thread runs before the boot is over), `Hands` (who has which file
open), `Whole` and `Orderly`.  `Whole` needs no order among saves: whenever `CONFIG_FILE` is empty somebody still has it open to write it, so it is not when all have
ended.  `Orderly` holds while saves have not overlapped: at most one thread saves, what it writes is what memory holds (`Saving`), and memory, file, card and
whatever a power loss may bring back know of every alarm that has sounded (`Remembered`).  From that a restart cannot fire it again.
The attempt to prove `Committed` as it was first stated failed at `Assign`: a restore can bring a date back in memory that another copy has not yet on the card.
The property now excludes a restore under way, and the run has a backup of a day on which an alarm had fired.

*MusicJobs.* `Requests` (what a connection carries fits how far it is: from the gate to its completion it keeps its reservation, and behind the gate nothing
becomes active), `GateHeld`, `IdsUnique`, `SourcesOwned`, `WorkerOwnsSlot`, `WorkerKept`, `Stopped`, and `RoomKept`: between measuring and renaming, deletions can
only make more room than the worker has measured.  `PlacesDistinct` and `PlacesFilled` are the lemmas about the batch: a batch that fits gives each song one slot and no slot
two songs.

*PodcastImport.* `ImportInv`, `BatchKept` (each file of a batch is in it once, is in the upload directory until its turn is over and is not among the failures
before), `ActiveKept` (the card says "active" exactly while the worker holds files).

*PodcastHistory.* `TypeOK` and `Held`, which need no hypothesis, then `HistoryTrue`, `Whole`, `Spent`, `Fresh`: what a random request that was not overtaken relies
on between its steps, which the lock is released at.  `ThoseFacts` says what the copying loop keeps: a sequence of exactly the lines to be kept, none longer than before, none
twice.  It is an induction over the loop: `LeastElement` gives the induction principle for sets of numbers (`SetInduction`) from the library's fact that `<` is
well-founded, and `KeptExists` that the recursive function exists.

*BackupRestore.* `Alone` (one holder of the lock), `Protecting` (what was exported and read is there to be put back), `Queue` (the core's socket holds a waiting
caller's request once, behind those whose callers have gone) and `Known`: for a holder nobody has come in between of, what settings, weather files and fonts are
at each step, both ways.  Its hard part is the settings: an import the caller has given up on is still in the socket, and the reimport must come behind it.

*WeatherService.* `WeatherInv`, `PartsOfMain`, `StampOwed` (no stamp is newer than the socket; whoever is about to stamp has pushed, or the core crashed since),
`IconsFollow` (which icon files carry which forecast), `IconsRecoverable` (what a run can still write back), `TextCarried`; for `ForecastsAdvance` also
that no forecast is dated ahead of the clock, and that a run that publishes while the stamp counts publishes what it fetched itself.

*ClockDisplay.* `DisplayInv`, `ModeTaken` (the loop's copy of the mode is out of date only while `display_dirty` is set, or an alarm asked for the clock),
`RedrawOwed` (whoever makes the frame out of date leaves a reason to draw it: the flag, the debt of a thread, or the loop's own locals; a font that came too late
is the one that leaves none, and `WillDraw` says when it is not too late).

*WarningFooter.* `FooterIInv` is `FooterTypes`, `HeadingsListed` and `DrawOwed`.  `PanelAgrees` speaks of the end of a pass only and
is not preserved: deciding may take the next message while the panel still shows the one before.  `DrawOwed` says what the pass then owes: a message on the panel is the one whose period runs,
or the pass is about to draw and has the reason in its locals.  Drawing evaluates the state again and shows what that evaluation leaves in `display`, so it pays whatever
it finds.  That a period is two ticks at least is used by the liveness property only.  `HeadingsListed` says nothing of steps but of what `Messages` computes for every sequence of alerts: `ActiveFacts`,
`ListingExists` and `MessagesFacts` are inductions over the two loops by `SetInduction`, with `ListedFacts` as what one turn keeps: each heading
is offered in one of the first turns, the slots are enough for as many headings as `Active` has left, and what is listed stays.

*TodayForecast.* `TodayIInv` is `TodayStateTypes`, which says of `bulletin` and of the saved one that each was issued in some quarter since `Begin`, and a part for the file and one for the
slot.  For the file: each low of today and tomorrow is among those the file's source `said` of that date, and each high is the one last read or last kept for it; for the slot the
same.  No step of the program is hard but what it reads is: lemmas say for each form of a page which period is found for which date, however late it is read and whichever numbers it
lacks, and that `Occurs` then gives a low no date but its own or one of `Misdated`.  Then one lemma per function that writes (`SelectKeeps`, over `FileStands` and `ReadKeeps` for a file
that fails) says it keeps these facts and forgets nothing; `OnceKeeps` and `TwiceKeeps` put one and two selections together, `RunKeeps` and `ReplayKeeps` the actions.  The attempt to prove `OwnDay` as it
was first stated failed at the "Tonight" of a page read a day late; TLC found the behaviour in a longer window, which the run now has, and the case of a page
without its day's number as soon as every gap was allowed: `Misdated` states both.

*Layout.* First lemmas about operators and types, then one lemma per group of actions or per part of the invariant, one step per action, below it one per conjunct the
action can disturb, and at the end the theorems, which combine initial condition, step and consequence.  An action property follows from the same invariant, which
holds before the step.

### 6.3 Only model-checked

- Liveness (`SessionsEnd`, `JobsServed`, `ImportEnds`, `BatchServed`, `MaintenanceEnds`, `PanelServed`, `MessagesServed`, `DisplayServed`): the prover has no rule
  for `ENABLED` here.
- That `AlarmUnderControl` fails with two starters: a counterexample, which a run has to show.

Every invariant and every action property that a run finds to hold is also a theorem, and so is the refinement; those of section 6.1 with the hypotheses given there.

## 7. Where code and documents disagree

1. **An alarm can escape its limit and its dismissal** (`audio_control`, `AlarmUnderControl`).  `INSTRUCTIONS.md:233` says "An alarm can
   run for a maximum of 30 minutes unless dismissed first."  `audio_stop_and_wait` releases `g_audio.lock` before its caller publishes; a touch
   start and an alarm can both pass.  The session that exits first resets `running`, `alarm_mode` and the
   deadline of the other: the alarm goes on, no deadline applies, and a stop request is not recorded because `running` is 0.

Noted while modelling, not checked by a run:

- *Settings.* An alarm can start before its mark is on the card, though the comment at `mk-piclock.c:6340` says the date is
  persisted before audio starts.  Two threads in `save_config` share `CONFIG_FILE.tmp`: one's `rename` fails because the other
  renamed the file, it returns as if saved, and the card holds the older text.
- *Podcast import.* A newer upload is deleted unprocessed: `INSTRUCTIONS.md:447` says the source is deleted only after the processed copy is in
  the library, but `podcast_import.c:133` unlinks by name, minutes after it opened the older file of that name.  `BatchServed` is false without the exception
  `Taken`.
- *Bulletins.* The comment at `weather/src/mk-piclock-weather.c:3561`-3563 says that a matching detail of the last-good cache is reused when possible.  Where the feed has the alert but no
  `alert_text_en` (line 988), the alert counts as enriched (line 1069), the cache is not asked (line 1075) and the saved text is written over.
- *Stamp.* A forecast the core accepted, and whose answer or stamp was lost, is covered by the older cache when the run fails: the stamp is all the failure label looks at.
- *Fonts.* A font replaced or deleted under the name of the selected one may stay on the panel with its old face until the next minute: `ipc_asset_event` raises `display_dirty` (`mk-piclock.c:5839`,
  5898) before it drops the cached face (5841, 5902).
- *Podcast cycle.* A cycle can end early: `README.md:39` says "After all podcasts have played, the next random request
  clears history and starts a new cycle" and `RELEASE_NOTES.md:27` allows 1024 podcasts; `mk-piclock.c:3859` looks at the first 256 names,
  and `podcast_history_forget` keeps the first 256 lines of a longer file.  It is the hypothesis `Fits` of the theorems.
- *Chime.* `INSTRUCTIONS.md:524` says "Repeated refreshes of the same warning do not repeatedly chime."  A run pushes titles first and titles with texts
  later, and `ipc_weather_update` (`mk-piclock.c:5761`) looks for new messages among those of the last push only: the text of a standing warning is
  new again in every run.
- *Display.* A flush that fails half way leaves rows on the panel that a later partial flush takes for sent (`mk-piclock.c:1612`-1656 compares with the
  last frame sent), so panel and preview differ until the next full flush; `INSTRUCTIONS.md:138` says the preview mirrors the
  OLED.  A blank screen whose flush failed is not tried again until something raises `display_dirty`.
- *Alarm and diagnostics.* A finger held for fifteen seconds can open the diagnostics between the point where an alarm asks for the clock (`mk-piclock.c:6337`) and
  the start of its audio.
- *Daily slot.* "Today" in a bulletin of yesterday, read late or selected again after midnight from the last good forecast, is taken for
  today, and its high is stored for today; its "Tonight", the night that is past, may be taken for the coming one, and if an hour of today is as cold the
  low is dated to today (`night_low_occurrence`, `weather/src/mk-piclock-weather.c:2090`).  The slot in the core has no date: TODAY stays TODAY after midnight until a run succeeds.  A page
  whose period for the day it was issued has no number, read before noon, is taken for one whose night is ending: line 2229 passes over the period, lines 2090-2092 go by the time of
  day, and the coming night's low is dated to this morning if an hour of this morning is as cold.  `Misdated` and `Misread` are these cases.
- *Daily slot.* `WEATHER_LAYOUT.md:74` says low and high are selected from the hourly entries and the current temperature; the comment at
  `weather/src/mk-piclock-weather.c:2196`-2197 says they are never calculated from these, and `build_today_slot` takes the bulletin's numbers and uses the hours to date them.  `HighTrue`
  follows the code and its comment.
- *Daily slot.* A failed write of the file of extremes is ignored (lines 1713-1718 and 2279): the high on the panel is then not the one on the card, and a later slot may show the older one.  A file that
  cannot be read is replaced by a fresh one, without what it knew.
- `delete_music` and `delete_all_music` test the job table and delete later; a song queued and finished in between is
  deleted although its job ends as complete.
- `podcast_import.c:228` counts before it locks: a scan that began before a batch ended can wipe that batch's report with a stale number.
- `.podcast-import-XXXXXX` files in the library directory survive a crash; no start removes them.
- Two upload names that normalise to one library name overwrite each other.
- A short press between the critical sections of a stop sees nothing playing and is counted as a tap.
- `ADDON_API.md:49` gives 1 to 32 files per upload, the code accepts 14.
- A restore whose fonts cannot all be moved aside (`stage_current_fonts`, `mk-piclock-api.c:1970`) removes those already moved and answers
  500, for which `api/openapi-v1.json:2281` says "Restore failed and previous state was restored".
- The answer "previous settings and fonts were restored" (`mk-piclock-api.c:2115`) is given whether or not the way back succeeded; a
  core that crashes in it keeps the archive's settings.
- `core_alarm_active` takes an unreachable core for one without an alarm, and an alarm that starts after the test is stopped by the import.
- A clock set back over midnight makes an alarm eligible again, as only the last date is kept.

## 8. What is abstracted and what is not modelled

*Abstracted in modelled parts.* PCM data, volume ramps, titles; the player's final stop at shutdown.  Two writers of
one temporary file: their whole texts replace each other (a tail left by a longer text is not distinguished from settings), and one stdio flush is one write.
The clock does not go back.  `unlink` of an existing file succeeds, but in the importer.  MP3 contents and settings, progress, whether a finished job is complete or failed, the copy of an upload in
`/tmp`.  The importer's temporary output and its 1024-entry scan limit; `readdir`'s order is a constant; a partly written history line after a crash.
The ZIP format, the staging directory in `/tmp`, the validation of an archive (it succeeds or is refused), the core's font policy, and a crash of the
HTTP service during a restore, which leaves the old fonts in `.restore-old-XXXXXX` for nobody to find.

*Weather.* Pages, hours and icons are data: what a page says is chosen, parsing it is not modelled.  The settings of the panel (which slots it has) are
read and may be unreadable, no more.  At most one push that was given up on waits in the API.  A core that is down has no socket, as the unit
empties its runtime directory; with the directory preserved a crashed core would leave its socket, and a run started before it is back would not look at the cache.
A file of extremes of an older schema is one that knows no more than its date's high.  The hourly slots.  The history file of runs is the `result` of the last one.  `/run/mk-piclock` is emptied or
kept when the core goes, as the unit's setting of the moment has it.
*Display.* The time of day; the tap counters (`OpenDiagnostics` and `TouchCloses` happen at any time); the brightness that the preview or the bedtime
gives is one value; a clock without an OLED.  In `WarningFooter` the panel's writes succeed.

*Not modelled.*  Pixels and font selection, parsing of pages, conversion of the room sensor's samples: sequential computations over
data.  Sessions, diagnostics and proxying of the HTTP service, the web pages: little shared state.  Installation and hardware files:
run once.  The watchdog: a timer test in the main loop.  System settings and Bluetooth pairing: in the plan.  `components` in
`PROJECT.json` gives the status of each part.

## 9. Plan

Done, in this order: `AudioSession`, `AudioPlayer`, its proofs; `ConfigStore`; `MusicJobs`; `PodcastImport`; `PodcastHistory`;
`BackupRestore`; `WeatherService`; `WarningFooter`; `ClockDisplay`; `TodayForecast`.

Then the proofs of section 6, in the order `AudioPlayer`, `MusicJobs`, `ClockDisplay`, `PodcastImport`, `WeatherService`, `BackupRestore`, `ConfigStore`, the refinement of
`AudioSession`, `PodcastHistory`, `WarningFooter`, `TodayForecast`.

Left of the theorems: a sharper `PromiseKept` that says of overlapping starts what still holds: a session that is published is ended by a request made after
the other has exited.

Modules that could follow: the pairing window of the Bluetooth controller, the request file of the system settings, and as pure functions
the eligibility of an alarm over a stepped clock, the volume ramp, the night window and the conversions of the room sensor with their widths.  Compositions worth
having: `AudioPlayer` with `PodcastHistory` (a play that is marked also sounds, or is forgotten), `ConfigStore` as the core of `BackupRestore`.
