---------------------------- MODULE WeatherService ----------------------------
(***************************************************************************)
(* mk-piclock-weather (weather/src/mk-piclock-weather.c): a program the    *)
(* timer starts again and again, which fetches a forecast, writes the      *)
(* runtime icons of the panel, pushes the forecast through the API to the  *)
(* core, and keeps the last good forecast on disk so that a core that has  *)
(* just started can be given one without a network.                        *)
(*                                                                         *)
(* The processes are the weather program (one run at a time, it can be     *)
(* killed at any step), the core that receives the pushes (it can crash or *)
(* be restarted, and forgets its forecast then), the user who changes the  *)
(* source, and the network.  A forecast is the record [src, at, text]: the *)
(* source it was fetched from, the hour it was fetched, and what it says   *)
(* of the one alert of the model, which its URL identifies: no alert       *)
(* ("none"), its title as the page gives it ("title"), the title and the   *)
(* text of the bulletin ("detail"), or a title for which a text was asked  *)
(* and none was had or looked up ("bare").  An icon is the [src, at] of    *)
(* the forecast it was drawn for.                                          *)
(***************************************************************************)
EXTENDS Naturals

CONSTANTS Sources,      \* the ECCC pages a user may choose
          FirstSource,  \* the one that is chosen at first
          Slots,        \* the runtime icon files, 1..3 in the code
          CacheAge,     \* WEATHER_CACHE_RESTORE_SECONDS, in hours of the model
          Alerts,       \* what the forecast may say of the alert: {"none", "title"}
          PushTries,    \* attempts of push_clock_weather
          RestoreTries, \* attempts of push_cached_weather_until_core_ready
          MaxNow, MaxRestarts, MaxChanges, MaxFaults,  \* bounds of the model
          Crashes       \* the core may crash under a run, not only be restarted

ASSUME WeatherAssumption ==
    /\ FirstSource \in Sources /\ "none" \notin Sources
    /\ Slots \in Nat \ {0} /\ PushTries \in Nat \ {0} /\ RestoreTries \in Nat \ {0}
    /\ {CacheAge, MaxNow, MaxRestarts, MaxChanges, MaxFaults} \subseteq Nat
    /\ Alerts \subseteq {"none", "title"} /\ Crashes \in BOOLEAN

VARIABLES core,     \* the running core: its instance, and the forecast of g_weather
          icons,    \* the runtime icon files
          stamp,    \* the core instance the stamp file is as new as, 0 when absent
          cache,    \* weather-last-good.json
          source,   \* weather-source.url
          now,
          run,      \* the locals of the running program
          late,     \* a push the client gave up on and the API has not yet handled
          result,   \* history: how the last run ended, "none" while one runs
          faults,   \* the faults that have happened
          changes,  \* how often the user has changed the source
          found     \* history: the icons the run found and whether it may leave others

vars == <<core, icons, stamp, cache, source, now, run, late, result,
          faults, changes, found>>
env == <<source, now, changes>>

None == [src |-> "none", at |-> 0, text |-> "none"]
Forecasts == [src: Sources, at: 0..MaxNow, text: {"none", "title", "bare", "detail"}]
Icon(f) == [src |-> f.src, at |-> f.at]

\* A forecast as the core holds it; the alert texts belong to the WarningFooter module.
Shown(f) == [f EXCEPT !.text = "none"]
NoIcon == Icon(None)
IconFiles == [1..Slots -> {Icon(f) : f \in Forecasts} \cup {NoIcon}]

Pcs == {"idle", "load", "icons", "push", "rollback", "stamp",
        "fetch", "enrich", "cache", "failure", "record"}
Phases == {"restore", "primary", "final", "rescue"}

\* A run that may leave other icons than it found.
Excused == [icons |-> [s \in 1..Slots |-> NoIcon], excused |-> TRUE]

\* A program that is not running; what is left of its last publication is history.
NoRun(crossed) ==
    [pc |-> "idle", phase |-> "restore", src |-> FirstSource, w |-> None,
     tries |-> 0, k |-> 1, snap |-> [s \in 1..Slots |-> NoIcon], restored |-> FALSE,
     ok |-> TRUE, crossed |-> crossed]

Init == /\ core = [inst |-> 1, up |-> TRUE, frame |-> None, late |-> FALSE]
        /\ icons = [s \in 1..Slots |-> NoIcon]
        /\ stamp = 0
        /\ cache = None
        /\ source = FirstSource
        /\ now = 0
        /\ run = NoRun({})
        /\ late = None
        /\ result = "none"
        /\ faults = 0 /\ changes = 0
        /\ found = Excused

-----------------------------------------------------------------------------
\* A variant that asks only whether there is a stamp.
PublishNeeded_AnyStamp == ~core.up \/ stamp = 0

\* runtime_weather_publish_needed: no socket, no stamp, or a stamp older than the socket.
PublishNeeded == ~core.up \/ stamp = 0 \/ stamp < core.inst

\* cached_weather_still_usable, and the checks restore_cached_weather_runtime makes first.
Usable(c, src) == /\ c # None
                  /\ c.src = src
                  /\ now - c.at <= CacheAge

Goto(pc) == run' = [run EXCEPT !.pc = pc]

\* The program at a step where it has no publication under way.
Over(pc) == [run EXCEPT !.pc = pc, !.w = None, !.k = 1, !.tries = 0,
                        !.snap = [s \in 1..Slots |-> NoIcon]]

Fault == faults < MaxFaults /\ faults' = faults + 1
NoFault == UNCHANGED faults

-----------------------------------------------------------------------------
(* The start of main.  A source file that cannot be used ends the run, and  *)
(* then *source_url is empty, so the failure label restores nothing.  Only  *)
(* a core that has no published weather is given the cache.                 *)
Start ==
    /\ run.pc = "idle"
    /\ \/ /\ NoFault
          /\ run' = [run EXCEPT !.pc = IF PublishNeeded THEN "load" ELSE "fetch", !.src = source]
          /\ found' = [icons |-> icons, excused |-> FALSE]
       \/ /\ Fault
          /\ run' = [run EXCEPT !.pc = "record", !.ok = FALSE]
          /\ UNCHANGED found
    /\ result' = "none"
    /\ UNCHANGED <<core, icons, stamp, cache, env, late>>

\* snapshot_runtime_icons: the publication of the forecast w begins.  A file that
\* cannot be read counts as absent, so that the rollback removes it.
Publish(w, phase) ==
    \E unread \in SUBSET {s \in 1..Slots : icons[s] # NoIcon} :
        /\ IF unread = {} THEN NoFault /\ UNCHANGED found ELSE Fault /\ found' = Excused
        /\ run' = [run EXCEPT !.pc = "icons", !.phase = phase, !.w = w, !.k = 1, !.tries = 0,
                              !.snap = [s \in 1..Slots |-> IF s \in unread THEN NoIcon ELSE icons[s]],
                              !.crossed = @ \ {"icons"}]

\* Where restore_cached_weather_runtime returns to, with what it returns.
Restored(ok) ==
    run' = [Over(IF run.phase = "restore" THEN "fetch" ELSE "record") EXCEPT !.restored = ok]

\* restore_cached_weather_runtime up to the snapshot of the icons; reading the
\* panel settings and selecting the slots may fail (the fault).
LoadCache ==
    /\ run.pc = "load"
    /\ \/ Usable(cache, run.src) /\ Publish(cache, run.phase)
       \/ ~Usable(cache, run.src) /\ NoFault /\ Restored(FALSE) /\ UNCHANGED found
       \/ Usable(cache, run.src) /\ Fault /\ Restored(FALSE) /\ UNCHANGED found
    /\ UNCHANGED <<core, icons, stamp, cache, env, late, result>>

\* A variant that stops one file short.
PrepareIcon_OneShort ==
    /\ run.pc = "icons" /\ NoFault
    /\ icons' = [icons EXCEPT ![run.k] = Icon(run.w)]
    /\ run' = IF run.k + 1 >= Slots THEN [run EXCEPT !.pc = "push"] ELSE [run EXCEPT !.k = @ + 1]
    /\ UNCHANGED <<core, stamp, cache, env, late, result, found>>

\* One turn of the loop of prepare_icons: the file is replaced as a whole, or the
\* sprite or the write fails and the caller rolls back.
PrepareIcon ==
    /\ run.pc = "icons"
    /\ \/ NoFault /\ icons' = [icons EXCEPT ![run.k] = Icon(run.w)]
          /\ run' = IF run.k = Slots THEN [run EXCEPT !.pc = "push"]
                                     ELSE [run EXCEPT !.k = @ + 1]
       \/ Fault /\ run' = [run EXCEPT !.pc = "rollback", !.k = 1]
          /\ UNCHANGED icons
    /\ UNCHANGED <<core, stamp, cache, env, late, result, found>>

\* Where a step that failed for good goes, by the part of main it belongs to.
AfterFailure == CASE run.phase = "restore" -> [Over("fetch") EXCEPT !.restored = FALSE]
                  [] run.phase = "rescue"  -> [Over("record") EXCEPT !.restored = FALSE]
                  [] OTHER -> Over("failure")

\* A variant that removes every file instead of writing the old ones back.
RollbackIcon_Unlinks ==
    /\ run.pc = "rollback" /\ NoFault
    /\ icons' = [icons EXCEPT ![run.k] = NoIcon]
    /\ run' = IF run.k < Slots THEN [run EXCEPT !.k = @ + 1] ELSE AfterFailure
    /\ UNCHANGED <<core, stamp, cache, env, late, result, found>>

\* One turn of the loop of rollback_runtime_icons; its errors are ignored.
RollbackIcon ==
    /\ run.pc = "rollback"
    /\ \/ NoFault /\ icons' = [icons EXCEPT ![run.k] = run.snap[run.k]] /\ UNCHANGED found
       \/ Fault /\ found' = Excused /\ UNCHANGED icons
    /\ run' = IF run.k < Slots THEN [run EXCEPT !.k = @ + 1] ELSE AfterFailure
    /\ UNCHANGED <<core, stamp, cache, env, late, result>>

-----------------------------------------------------------------------------
\* ipc_weather_update: the forecast replaces the one shown.  The chime for a text that was
\* not among those of the last push is a request to the AudioPlayer module.
IpcWeatherUpdate(f, isLate) == core' = [core EXCEPT !.frame = Shown(f), !.late = isLate]

\* What push_clock_weather does after an attempt that failed in transport: it tries
\* again; a cached forecast is pushed again after an answer that refuses it, too.
TriesLeft(refused) ==
    IF run.phase \in {"primary", "final"} THEN ~refused /\ run.tries + 1 < PushTries
    ELSE run.tries + 1 < PushTries * RestoreTries
AttemptFailed(refused) ==
    run' = IF TriesLeft(refused) THEN [run EXCEPT !.tries = @ + 1]
                                 ELSE [run EXCEPT !.pc = "rollback", !.k = 1]

\* One attempt of push_clock_weather.  The request reaches the core and its answer
\* comes back; or the core is away and the API answers 503; or the request is lost,
\* or handled though its answer is lost, or still waits in the API when the client
\* gives up.
PushAttempt ==
    /\ run.pc = "push"
    /\ \/ /\ core.up /\ IpcWeatherUpdate(run.w, FALSE) /\ NoFault
          /\ run' = [run EXCEPT !.pc = "stamp", !.crossed = @ \ {"stamp"},
                             !.tries = 0, !.k = 1, !.snap = NoRun({}).snap]
          /\ found' = Excused
          /\ UNCHANGED late
       \/ /\ ~core.up /\ AttemptFailed(TRUE) /\ NoFault
          /\ UNCHANGED <<core, late, found>>
       \/ /\ Fault /\ AttemptFailed(FALSE)
          /\ UNCHANGED <<core, late, found>>
       \/ /\ core.up /\ Fault /\ IpcWeatherUpdate(run.w, FALSE)
          /\ \E refused \in BOOLEAN : AttemptFailed(refused)
          /\ found' = Excused
          /\ UNCHANGED late
       \/ /\ late = None /\ Fault /\ AttemptFailed(FALSE)
          /\ late' = Shown(run.w)
          /\ UNCHANGED <<core, found>>
    /\ UNCHANGED <<icons, stamp, cache, env, result>>

\* The API handles a push whose client has gone.
LatePush ==
    /\ late # None
    /\ late' = None
    /\ IF core.up THEN IpcWeatherUpdate(late, TRUE) ELSE UNCHANGED core
    /\ found' = Excused
    /\ UNCHANGED <<icons, stamp, cache, env, run, result, faults>>

\* mark_weather_published and the write of weather.json, which nothing here reads.
MarkPublished ==
    /\ run.pc = "stamp"
    /\ \/ /\ NoFault /\ stamp' = core.inst
          /\ CASE run.phase \in {"restore", "rescue"} -> Restored(TRUE)
               [] run.phase = "primary" -> Goto("enrich")
               [] run.phase = "final" -> Goto("cache")
       \/ /\ Fault /\ stamp' \in {stamp, core.inst} /\ run' = AfterFailure
    /\ UNCHANGED <<core, icons, cache, env, late, result, found>>

-----------------------------------------------------------------------------
\* normalize_weather: the forecast is tagged with the source and the time of the fetch,
\* and carries the headings of its alerts, never their texts.
Normalized(text) == [src |-> run.src, at |-> now, text |-> text]

\* fetch_eccc_json and normalize_weather: three attempts, then the run has failed; so
\* it has when the panel settings cannot be read or no slots selected.
Fetch ==
    /\ run.pc = "fetch"
    /\ \/ \E text \in Alerts : Publish(Normalized(text), "primary")
       \/ Goto("failure") /\ NoFault /\ UNCHANGED found
    /\ UNCHANGED <<core, icons, stamp, cache, env, late, result>>

\* enrich_warning_from_alert_feature: the alert feed has the alert in force, with its
\* text or, when alert_text_en is missing or empty, without one.
Enriched(f, text) == IF f.text = "title" THEN [f EXCEPT !.text = text] ELSE f

\* reuse_cached_warning_details: the cached forecast knows the text of the same alert.
Reused(f) == IF f.text = "title" /\ cache.text = "detail" THEN [f EXCEPT !.text = "detail"] ELSE f

\* enrich_warning_details, best effort, after which the slots are selected once more
\* (the fault).  An alert the feed has counts as enriched, with a text or without, and
\* then the cache is not asked.  It is asked when the feed fails or has not the alert;
\* where it cannot be read the title stays bare, too.
Enrich ==
    /\ run.pc = "enrich"
    /\ \/ \E text \in {"detail", "bare"} : Publish(Enriched(run.w, text), "final")
       \/ Publish(Reused(run.w), "final")
       \/ Fault /\ run' = Over("failure") /\ UNCHANGED found
    /\ UNCHANGED <<core, icons, stamp, cache, env, late, result>>

\* The last file of a run that went well is the cache.
WriteCache ==
    /\ run.pc = "cache"
    /\ \/ NoFault /\ cache' = run.w /\ run' = Over("record")
       \/ Fault /\ run' = Over("failure") /\ UNCHANGED cache
    /\ UNCHANGED <<core, icons, stamp, env, late, result, found>>

\* A variant that restores the cache whatever the stamp says.
Failure_AlwaysRestores ==
    /\ run.pc = "failure"
    /\ run' = [run EXCEPT !.ok = FALSE, !.phase = "rescue", !.tries = 0,
                          !.pc = IF ~run.restored THEN "load" ELSE "record"]
    /\ UNCHANGED <<core, icons, stamp, cache, env, late, result, faults, found>>

\* The failure label: the cache is tried now, unless it was at the start.
Failure ==
    /\ run.pc = "failure"
    /\ run' = [run EXCEPT !.ok = FALSE, !.phase = "rescue", !.tries = 0,
                          !.pc = IF ~run.restored /\ PublishNeeded THEN "load" ELSE "record"]
    /\ UNCHANGED <<core, icons, stamp, cache, env, late, result, faults, found>>

\* record_weather_run, whose errors are ignored, and the end of the process.
RecordRun ==
    /\ run.pc = "record"
    /\ run' = NoRun(run.crossed)
    /\ result' = IF run.ok THEN "ok" ELSE "error"
    /\ found' = Excused
    /\ UNCHANGED <<core, icons, stamp, cache, env, late, faults>>

\* TimeoutStartSec, a stop of the unit or a loss of power: the process is gone.
Kill ==
    /\ run.pc # "idle"
    /\ Fault
    /\ run' = NoRun(run.crossed) /\ result' = "killed" /\ found' = Excused
    /\ UNCHANGED <<core, icons, stamp, cache, env, late>>

Program == \/ Start \/ LoadCache \/ PrepareIcon \/ RollbackIcon
           \/ PushAttempt \/ MarkPublished \/ Fetch \/ Enrich \/ WriteCache
           \/ Failure \/ RecordRun

-----------------------------------------------------------------------------
(* The core.  A crash leaves the weather program running; the unit file's   *)
(* Requires= stops that program first when the core is restarted on         *)
(* purpose.  Either way the core comes back without a forecast and with a   *)
(* newer socket, and systemd has emptied /run/mk-piclock unless the         *)
(* directory is preserved.                                                  *)
CoreDown(kept) ==
    /\ core.up /\ core.inst <= MaxRestarts
    /\ core' = [core EXCEPT !.up = FALSE, !.frame = None, !.late = FALSE]
    /\ icons' = IF kept THEN icons ELSE [s \in 1..Slots |-> NoIcon]
    /\ stamp' = IF kept THEN stamp ELSE 0
    /\ UNCHANGED <<cache, env, faults>>
CoreCrash ==
    /\ Crashes
    /\ \E kept \in BOOLEAN : CoreDown(kept)
    /\ found' = Excused
    /\ run' = [run EXCEPT !.crossed = @ \cup (CASE run.pc = "stamp" -> {"stamp"}
                                              [] run.pc \in {"icons", "push"} -> {"icons"}
                                              [] OTHER -> {})]
    /\ UNCHANGED <<late, result>>
CoreRestart ==
    /\ \E kept \in BOOLEAN : CoreDown(kept)
    /\ IF run.pc = "idle" THEN UNCHANGED <<run, result>>
                          ELSE run' = NoRun(run.crossed) /\ result' = "killed"
    /\ late' = None
    /\ found' = Excused
CoreUp ==
    /\ ~core.up
    /\ core' = [core EXCEPT !.up = TRUE, !.inst = @ + 1]
    /\ UNCHANGED <<icons, stamp, cache, env, run, late, result, faults, found>>

\* The user chooses another page; the path unit's trigger is one of the Starts.
ChangeSource ==
    /\ changes < MaxChanges /\ changes' = changes + 1
    /\ \E s \in Sources \ {source} : source' = s
    /\ UNCHANGED <<core, icons, stamp, cache, now, run, late, result, faults, found>>
Tick ==
    /\ now < MaxNow /\ now' = now + 1
    /\ UNCHANGED <<core, icons, stamp, cache, source, changes, run, late, result, faults, found>>

Next == Program \/ LatePush \/ Kill \/ CoreCrash \/ CoreRestart \/ CoreUp
        \/ ChangeSource \/ Tick

(* systemd starts the program every quarter of an hour and restarts the     *)
(* core; a run bounds every wait of its own; the API works off its          *)
(* connections.                                                             *)
Spec == Init /\ [][Next]_vars /\ WF_vars(Program) /\ WF_vars(CoreUp) /\ WF_vars(LatePush)

-----------------------------------------------------------------------------
Runs == [pc : Pcs, phase : Phases, src : Sources, w : Forecasts \cup {None},
         tries : 0..(PushTries * RestoreTries), k : 1..Slots, snap : IconFiles,
         restored : BOOLEAN, ok : BOOLEAN, crossed : SUBSET {"stamp", "icons"}]
Cores == [inst : 1..(MaxRestarts + 2), up : BOOLEAN, frame : Forecasts \cup {None}, late : BOOLEAN]

TypeOK ==
    /\ core \in Cores
    /\ icons \in IconFiles
    /\ stamp \in 0..(MaxRestarts + 2)
    /\ cache \in Forecasts \cup {None} /\ late \in Forecasts \cup {None}
    /\ source \in Sources /\ now \in 0..MaxNow
    /\ run \in Runs
    /\ found \in [icons : IconFiles, excused : BOOLEAN]
    /\ result \in {"none", "ok", "error", "killed"}
    /\ faults \in 0..MaxFaults /\ changes \in 0..MaxChanges

(* The stamp is what keeps a later run from giving the core the cache.  As  *)
(* long as it counts as newer than the core's socket, that core does hold a *)
(* forecast, whatever was lost, killed or restarted on the way: the only    *)
(* way round is a core that crashed and came back inside one publication    *)
(* (runtime_weather_publish_needed, mark_weather_published).                *)
StampTruth == core.up /\ ~PublishNeeded => core.frame # None \/ "stamp" \in run.crossed

\* Well-typed, and a stamp that counts stands for a forecast in the core
\* (runtime_weather_publish_needed).
WeatherInv == TypeOK /\ StampTruth

IconsAgree == \A s \in 1..Slots : icons[s] = Icon(core.frame)

(* Icons and forecast travel apart, three files and one request.  After a   *)
(* run that reports success every icon file belongs to the forecast the     *)
(* core shows, unless a push the client had given up on was handled last    *)
(* (main: snapshot, prepare, push, rollback, twice over).                   *)
IconsMatch ==
    run.pc = "idle" /\ result = "ok" /\ core.frame # None /\ ~core.late /\ "icons" \notin run.crossed
        => IconsAgree

(* A run that failed and never had a push handled leaves the icon files as  *)
(* it found them, however many publications it tried, unless a file could   *)
(* not be read for the snapshot or not be written back                      *)
(* (rollback_runtime_icons, and the failure label that may start another).  *)
FailureLeavesIcons ==
    [][run.pc # "idle" /\ run'.pc = "idle" /\ result' = "error" /\ ~found.excused
           => icons' = found.icons]_vars

(* The text of a bulletin, once saved, is not lost by a later run while the *)
(* alert stands (main: "a matching detail from the previous last-good cache *)
(* is reused when possible"): the cache is replaced only after its details  *)
(* have been reused.  Two runs are excepted, both "bare": the feed has the   *)
(* alert but without a text, which counts as enriched, so that the cache is *)
(* not asked and its text is written over; and the cache cannot be read.    *)
BulletinKept ==
    [][cache' # cache /\ cache.text = "detail" /\ cache'.text \notin {"none", "bare"}
           => cache'.text = "detail"]_vars

\* A run takes nothing away that it cannot replace, but for the exceptions named with
\* the two parts: neither the icons of the forecast shown, nor the text of a bulletin
\* (main of mk-piclock-weather.c).
RunsKeep == FailureLeavesIcons /\ BulletinKept

(* While the stamp says that this core has its weather, no run puts an      *)
(* older forecast in its place: a run that fails after it has published     *)
(* does not restore the cache over the newer forecast, nor does one that    *)
(* found the core served.  Excepted are a push handled after its client     *)
(* gave up, and a forecast that the core accepted but that was not stamped  *)
(* (the answer lost, the write failed, the program killed): the next        *)
(* failure restores the cache over it                                       *)
(* (runtime_weather_publish_needed, restore_cached_weather_runtime).        *)
ForecastsAdvance ==
    [][core'.frame # core.frame /\ None \notin {core.frame, core'.frame} /\ ~PublishNeeded /\ ~core'.late
           => core'.frame.at >= core.frame.at]_vars

(* While fetches keep succeeding now and then, the panel ends up with a     *)
(* forecast of the source the user chose and the icons that belong to it,   *)
(* whatever faults, restarts and changes of source came before.             *)
PanelRecovers ==
    []<>(run.pc = "icons" /\ run.phase = "primary") => <>[](core.up /\ core.frame # None /\ core.frame.src = source /\ IconsAgree)

(* Without a network too, a core that has lost its forecast is given the    *)
(* cached one, as long as that is young enough and of the chosen source.    *)
CacheServes ==
    (core.up /\ core.frame = None /\ Usable(cache, source))
        ~> (core.frame # None \/ ~Usable(cache, source) \/ "stamp" \in run.crossed)

\* The core is given a forecast again, from the network or from the cache
\* (restore_cached_weather_runtime, main).
PanelServed == PanelRecovers /\ CacheServes
=============================================================================
