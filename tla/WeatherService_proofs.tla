------------------------ MODULE WeatherService_proofs ------------------------
(***************************************************************************)
(* Proofs about WeatherService, for any sources, any number of icon slots, *)
(* attempts, faults, restarts and changes of the source.                   *)
(***************************************************************************)
EXTENDS WeatherService, TLAPS

-----------------------------------------------------------------------------
(* The inductive invariant.                                                 *)

\* A step of the program that has a forecast at hand.
Holding == {"icons", "push", "rollback", "stamp", "enrich", "cache"}

\* Which part of main the program can be in at which step, and what it then knows.
PartsOfMain ==
    /\ run.pc = "idle" => run = NoRun(run.crossed) /\ found.excused
    /\ run.pc \in Holding => run.w # None
    /\ run.pc = "load" => run.phase \in {"restore", "rescue"}
    /\ run.pc = "enrich" => run.phase = "primary"
    /\ run.pc = "cache" => run.phase = "final"
    /\ run.phase = "rescue" => ~run.ok
    /\ run.pc \in {"stamp", "enrich", "cache"} => found.excused

\* No stamp is newer than the core's socket, and while the program is about to stamp,
\* the core has been given its forecast, or has crashed since.
StampOwed ==
    /\ stamp <= core.inst
    /\ core.inst <= MaxRestarts + 1 /\ (~core.up => core.inst <= MaxRestarts)
    /\ run.pc = "stamp" => (core.frame # None /\ core.up) \/ "stamp" \in run.crossed

\* The program has had its forecast and icons published and nothing has gone wrong since.
Published == \/ run.pc \in {"stamp", "cache"}
             \/ run.pc = "record" /\ run.ok
             \/ run.pc = "idle" /\ result = "ok"

\* The files that have been written carry the forecast of the publication, and a
\* publication that has gone through, or a run that went well, leaves them in
\* agreement with the core.
IconsFollow ==
    /\ run.pc \in {"icons", "push"} /\ "icons" \notin run.crossed =>
         \A s \in 1..Slots : (s < run.k \/ run.pc = "push") => icons[s] = Icon(run.w)
    /\ Published => (core.frame # None /\ ~core.late /\ "icons" \notin run.crossed => IconsAgree)

\* What a run that has not had a push handled can still write back.
IconsRecoverable ==
    ~found.excused =>
      /\ run.pc \in {"icons", "push", "rollback"} => run.snap = found.icons
      /\ run.pc = "icons" => \A s \in 1..Slots : s >= run.k => icons[s] = found.icons[s]
      /\ run.pc = "rollback" => \A s \in 1..Slots : s < run.k => icons[s] = found.icons[s]
      /\ run.pc \in {"load", "fetch", "failure", "record"} => icons = found.icons

\* The second publication has the text of the bulletin whenever the cache has it,
\* but where a text was asked for and none was had.
TextCarried ==
    run.phase = "final" /\ run.pc \in Holding =>
      (cache.text = "detail" /\ run.w.text \notin {"none", "bare"} => run.w.text = "detail")

IInv == WeatherInv /\ PartsOfMain /\ StampOwed /\ IconsFollow /\ IconsRecoverable /\ TextCarried

-----------------------------------------------------------------------------
(* Types.                                                                   *)

Known == Forecasts \cup {None}

LEMMA NoneKnown == /\ None \in Known /\ None \notin Forecasts /\ NoIcon \notin {Icon(f) : f \in Forecasts}
                   /\ [s \in 1..Slots |-> NoIcon] \in IconFiles
  <1>1. None.src = "none" /\ "none" \notin Sources
    BY WeatherAssumption DEF None
  <1>2. \A f \in Forecasts : f.src \in Sources /\ Icon(f).src \in Sources
    BY DEF Forecasts, Icon
  <1>3. NoIcon.src = "none"
    BY DEF NoIcon, Icon, None
  <1> QED
    BY <1>1, <1>2, <1>3 DEF Known, IconFiles

LEMMA ExcusedTyped == Excused \in [icons : IconFiles, excused : BOOLEAN] /\ Excused.excused
  BY NoneKnown DEF Excused

LEMMA Typed ==
  ASSUME IInv
  PROVE  /\ core \in Cores /\ run \in Runs /\ icons \in IconFiles /\ stamp \in Nat
         /\ cache \in Known /\ late \in Known /\ source \in Sources /\ now \in 0..MaxNow
         /\ faults \in 0..MaxFaults /\ found \in [icons : IconFiles, excused : BOOLEAN]
         /\ Slots \in Nat \ {0} /\ MaxRestarts \in Nat /\ MaxFaults \in Nat /\ MaxNow \in Nat
         /\ TypeOK
  BY WeatherAssumption DEF IInv, WeatherInv, TypeOK, Known

\* A forecast of the model has an icon.
LEMMA IconTyped == ASSUME NEW w \in Known PROVE Icon(w) \in {Icon(f) : f \in Forecasts} \cup {NoIcon}
  BY DEF Known, NoIcon

\* What the core holds of a forecast is a forecast with the same icon and time.
LEMMA ShownTyped ==
  ASSUME NEW w \in Known
  PROVE  /\ Shown(w) \in Known /\ (w # None => Shown(w) # None /\ Shown(w) \in Forecasts)
         /\ Icon(Shown(w)) = Icon(w) /\ Shown(w).at = w.at
  <1>1. CASE w = None
    BY <1>1 DEF Shown, None, Known, Icon
  <1>2. CASE w \in Forecasts
    <2>1. Shown(w) \in Forecasts /\ Icon(Shown(w)) = Icon(w) /\ Shown(w).at = w.at
      BY <1>2 DEF Shown, Forecasts, Icon
    <2> QED
      BY <2>1, NoneKnown DEF Known
  <1> QED
    BY <1>1, <1>2 DEF Known

\* The number of attempts of a cached forecast is at least that of a fresh one.
LEMMA TriesBound == PushTries * RestoreTries \in Nat /\ PushTries <= PushTries * RestoreTries
  <1>1. PushTries \in Nat /\ PushTries >= 1 /\ RestoreTries \in Nat /\ RestoreTries >= 1
    BY WeatherAssumption
  <1>2. \A p, r \in Nat : p >= 1 /\ r >= 1 => p * r \in Nat /\ p <= p * r
    OBVIOUS
  <1> QED
    BY <1>1, <1>2

\* The program when it does not run.
LEMMA NoRunTyped ==
  ASSUME NEW c \in SUBSET {"stamp", "icons"}
  PROVE  /\ NoRun(c) \in Runs /\ NoRun(c).pc = "idle" /\ NoRun(c).w = None /\ NoRun(c).ok
         /\ NoRun(c).phase = "restore" /\ NoRun(c).crossed = c
  <1>1. FirstSource \in Sources
    BY WeatherAssumption
  <1>2. 1 \in 1..Slots /\ 0 \in 0..(PushTries * RestoreTries)
    BY TriesBound, WeatherAssumption
  <1>3. "idle" \in Pcs /\ "restore" \in Phases /\ None \in Forecasts \cup {None}
    BY DEF Pcs, Phases
  <1> QED
    BY <1>1, <1>2, <1>3, NoneKnown DEF NoRun, Runs

\* A run whose publication is over.
LEMMA OverTyped ==
  ASSUME run \in Runs, NEW pc \in Pcs
  PROVE  /\ Over(pc) \in Runs /\ Over(pc).pc = pc /\ Over(pc).phase = run.phase
         /\ Over(pc).w = None /\ Over(pc).ok = run.ok /\ Over(pc).crossed = run.crossed
         /\ Over(pc).src = run.src
         /\ \A r \in BOOLEAN : /\ [Over(pc) EXCEPT !.restored = r] \in Runs
                              /\ [Over(pc) EXCEPT !.restored = r].pc = pc
                              /\ [Over(pc) EXCEPT !.restored = r].phase = run.phase
                              /\ [Over(pc) EXCEPT !.restored = r].w = None
                              /\ [Over(pc) EXCEPT !.restored = r].ok = run.ok
                              /\ [Over(pc) EXCEPT !.restored = r].crossed = run.crossed
                              /\ [Over(pc) EXCEPT !.restored = r].src = run.src
  <1>1. 1 \in 1..Slots /\ 0 \in 0..(PushTries * RestoreTries) /\ None \in Forecasts \cup {None}
    BY TriesBound, WeatherAssumption
  <1> QED
    BY <1>1, NoneKnown DEF Over, Runs

\* What restore_cached_weather_runtime leaves of the run.
LEMMA RestoredTyped ==
  ASSUME run \in Runs, NEW ok \in BOOLEAN, Restored(ok)
  PROVE  /\ run' \in Runs /\ run'.phase = run.phase /\ run'.w = None /\ run'.ok = run.ok
         /\ run'.crossed = run.crossed
         /\ (run.phase = "restore" => run'.pc = "fetch") /\ (run.phase # "restore" => run'.pc = "record")
  <1>1. PICK pc \in {"fetch", "record"} :
           /\ run' = [Over(pc) EXCEPT !.restored = ok]
           /\ pc = IF run.phase = "restore" THEN "fetch" ELSE "record"
    BY DEF Restored
  <1>2. pc \in Pcs
    BY <1>1 DEF Pcs
  <1> QED
    BY <1>1, <1>2, OverTyped

\* What AfterFailure, the end of a publication that failed, leaves of the run.
LEMMA AfterFailureTyped ==
  ASSUME run \in Runs
  PROVE  /\ AfterFailure \in Runs /\ AfterFailure.pc \in {"fetch", "record", "failure"}
         /\ AfterFailure.phase = run.phase /\ AfterFailure.w = None /\ AfterFailure.ok = run.ok
         /\ AfterFailure.crossed = run.crossed
         /\ AfterFailure.pc = "record" => run.phase = "rescue"
  <1>1. {"fetch", "record", "failure"} \subseteq Pcs
    BY DEF Pcs
  <1>2. CASE run.phase = "restore"
    BY <1>1, <1>2, OverTyped DEF AfterFailure
  <1>3. CASE run.phase = "rescue"
    BY <1>1, <1>3, OverTyped DEF AfterFailure
  <1>4. CASE run.phase \notin {"restore", "rescue"}
    BY <1>1, <1>4, OverTyped DEF AfterFailure
  <1> QED
    BY <1>2, <1>3, <1>4

\* What an attempt that failed leaves of the run.
LEMMA AttemptFailedTyped ==
  ASSUME run \in Runs, run.pc = "push", NEW refused \in BOOLEAN, AttemptFailed(refused)
  PROVE  /\ run' \in Runs /\ run'.phase = run.phase /\ run'.w = run.w /\ run'.ok = run.ok
         /\ run'.crossed = run.crossed /\ run'.snap = run.snap /\ run'.src = run.src
         /\ \/ run'.pc = "push" /\ run'.k = run.k
            \/ run'.pc = "rollback" /\ run'.k = 1
  <1>1. run.tries \in 0..(PushTries * RestoreTries) /\ run.tries \in Nat /\ 1 \in 1..Slots
        /\ "rollback" \in Pcs /\ PushTries \in Nat
    BY TriesBound, WeatherAssumption DEF Runs, Pcs
  <1>2. CASE TriesLeft(refused)
    <2>1. run.tries + 1 \in 0..(PushTries * RestoreTries)
      BY <1>1, <1>2, TriesBound DEF TriesLeft
    <2>2. run' = [run EXCEPT !.tries = run.tries + 1]
      BY <1>2 DEF AttemptFailed
    <2> QED
      BY <2>1, <2>2 DEF Runs
  <1>3. CASE ~TriesLeft(refused)
    <2>1. run' = [run EXCEPT !.pc = "rollback", !.k = 1]
      BY <1>3 DEF AttemptFailed
    <2> QED
      BY <1>1, <2>1 DEF Runs
  <1> QED
    BY <1>2, <1>3

-----------------------------------------------------------------------------
(* What several actions have in common.                                     *)

\* As long as core and stamp stay, the stamp goes on telling the truth.
LEMMA StampStays ==
  ASSUME IInv, UNCHANGED <<core, stamp>>, run'.pc = "stamp" => run.pc = "stamp",
         "stamp" \in run.crossed => "stamp" \in run'.crossed
  PROVE  StampTruth' /\ StampOwed'
  BY DEF IInv, WeatherInv, StampTruth, StampOwed, PublishNeeded

\* What the beginning of a publication leaves of the run and of its history.
LEMMA PublishTyped ==
  ASSUME IInv, NEW w \in Forecasts, NEW phase \in Phases, Publish(w, phase)
  PROVE  /\ run' \in Runs /\ run'.pc = "icons" /\ run'.phase = phase /\ run'.w = w /\ run'.k = 1
         /\ run'.crossed = run.crossed \ {"icons"} /\ run'.ok = run.ok
         /\ faults' \in 0..MaxFaults
         /\ found' \in [icons : IconFiles, excused : BOOLEAN]
         /\ (found.excused => found'.excused)
         /\ (~found'.excused => found' = found /\ run'.snap = icons)
  <1>1. PICK unread \in SUBSET {s \in 1..Slots : icons[s] # NoIcon} :
          /\ IF unread = {} THEN NoFault /\ UNCHANGED found ELSE Fault /\ found' = Excused
          /\ run' = [run EXCEPT !.pc = "icons", !.phase = phase, !.w = w, !.k = 1, !.tries = 0,
                                !.snap = [s \in 1..Slots |-> IF s \in unread THEN NoIcon ELSE icons[s]],
                                !.crossed = run.crossed \ {"icons"}]
    BY DEF Publish
  <1> DEFINE snap == [s \in 1..Slots |-> IF s \in unread THEN NoIcon ELSE icons[s]]
  <1>2. snap \in IconFiles
    BY Typed DEF IconFiles
  <1>3. unread = {} => snap = icons
    BY Typed DEF IconFiles
  <1> HIDE DEF snap
  <1>4. /\ run' \in Runs /\ run'.pc = "icons" /\ run'.phase = phase /\ run'.w = w /\ run'.k = 1
        /\ run'.snap = snap /\ run'.crossed = run.crossed \ {"icons"} /\ run'.ok = run.ok
    <2>1. 0 \in 0..(PushTries * RestoreTries) /\ "icons" \in Pcs /\ 1 \in 1..Slots
      BY TriesBound, WeatherAssumption DEF Pcs
    <2>2. run' = [run EXCEPT !.pc = "icons", !.phase = phase, !.w = w, !.k = 1, !.tries = 0,
                             !.snap = snap, !.crossed = run.crossed \ {"icons"}]
      BY <1>1 DEF snap
    <2> QED
      BY <1>2, <2>1, <2>2, Typed DEF Runs
  <1>5. CASE unread = {}
    BY <1>1, <1>3, <1>4, <1>5, Typed DEF NoFault
  <1>6. CASE unread # {}
    BY <1>1, <1>4, <1>6, Typed, ExcusedTyped DEF Fault
  <1> QED
    BY <1>5, <1>6

\* A publication begins.
LEMMA PublishKeeps ==
  ASSUME IInv, NEW w \in Forecasts, NEW phase \in Phases, Publish(w, phase), run.pc # "idle",
         UNCHANGED <<core, icons, stamp, cache, env, late, result>>,
         ~found.excused => icons = found.icons,
         phase = "rescue" => ~run.ok,
         phase = "final" /\ cache.text = "detail" /\ w.text \notin {"none", "bare"} => w.text = "detail"
  PROVE  IInv'
  <1>1. TypeOK'
    BY PublishTyped, Typed DEF TypeOK, env
  <1>2. StampTruth' /\ StampOwed'
    BY PublishTyped, StampStays
  <1>3. PartsOfMain'
    BY PublishTyped, NoneKnown DEF PartsOfMain
  <1>4. IconsFollow'
    BY PublishTyped, Typed DEF IconsFollow, Published
  <1>5. IconsRecoverable'
    BY PublishTyped DEF IconsRecoverable
  <1>6. TextCarried'
    BY PublishTyped DEF TextCarried
  <1> QED
    BY <1>1, <1>2, <1>3, <1>4, <1>5, <1>6 DEF IInv, WeatherInv

\* The program goes to a step at which it does not publish.
LEMMA MoveKeeps ==
  ASSUME IInv, run.pc # "idle", run' \in Runs, run'.crossed = run.crossed,
         run'.pc \in {"load", "fetch", "failure", "record"},
         run'.pc = "load" => run'.phase \in {"restore", "rescue"},
         run'.phase = "rescue" => ~run'.ok,
         run'.pc = "record" => ~run'.ok,
         UNCHANGED <<core, stamp, cache, env, late, result>>,
         icons' \in IconFiles, found' \in [icons : IconFiles, excused : BOOLEAN],
         faults' \in 0..MaxFaults,
         ~found'.excused => icons' = found'.icons
  PROVE  IInv'
  <1>1. TypeOK'
    BY Typed DEF TypeOK, env
  <1>2. StampTruth' /\ StampOwed'
    BY StampStays
  <1>3. PartsOfMain'
    BY DEF PartsOfMain, Holding
  <1>4. IconsFollow' /\ IconsRecoverable' /\ TextCarried'
    BY DEF IconsFollow, Published, IconsRecoverable, TextCarried, Holding
  <1> QED
    BY <1>1, <1>2, <1>3, <1>4 DEF IInv, WeatherInv

-----------------------------------------------------------------------------
(* Every action keeps the invariant.                                        *)

LEMMA InitHolds == Init => IInv
  <1> SUFFICES ASSUME Init PROVE IInv
    OBVIOUS
  <1>1. run = NoRun({}) /\ run \in Runs /\ run.pc = "idle" /\ run.w = None /\ run.phase = "restore"
        /\ run.ok /\ run.crossed = {}
    BY NoRunTyped DEF Init
  <1>2. core = [inst |-> 1, up |-> TRUE, frame |-> None, late |-> FALSE] /\ core \in Cores
        /\ core.inst = 1 /\ core.up /\ core.frame = None
    BY WeatherAssumption DEF Init, Cores
  <1>3. TypeOK
    <2>1. icons \in IconFiles /\ found \in [icons : IconFiles, excused : BOOLEAN]
      BY NoneKnown, ExcusedTyped DEF Init
    <2> QED
      BY <1>1, <1>2, <2>1, WeatherAssumption DEF Init, TypeOK
  <1>4. stamp = 0 /\ found.excused /\ result = "none"
    BY ExcusedTyped DEF Init
  <1>5. StampTruth /\ StampOwed
    BY <1>1, <1>2, <1>4, WeatherAssumption DEF StampTruth, StampOwed, PublishNeeded
  <1>6. PartsOfMain /\ IconsFollow /\ IconsRecoverable /\ TextCarried
    BY <1>1, <1>2, <1>4 DEF PartsOfMain, IconsFollow, IconsRecoverable, TextCarried, Published, Holding
  <1> QED
    BY <1>3, <1>5, <1>6 DEF IInv, WeatherInv

LEMMA StartKeeps == ASSUME IInv, Start PROVE IInv'
  <1>1. /\ run.pc = "idle" /\ run = NoRun(run.crossed) /\ found.excused
        /\ run.w = None /\ run.phase = "restore" /\ run.ok
    <2>1. run.crossed \in SUBSET {"stamp", "icons"}
      BY Typed DEF Runs
    <2> QED
      BY <2>1, NoRunTyped DEF Start, IInv, PartsOfMain
  <1>2. result' = "none" /\ UNCHANGED <<core, icons, stamp, cache, env, late>>
    BY DEF Start
  <1>3. CASE /\ NoFault
             /\ run' = [run EXCEPT !.pc = IF PublishNeeded THEN "load" ELSE "fetch", !.src = source]
             /\ found' = [icons |-> icons, excused |-> FALSE]
    <2>1. /\ run' \in Runs /\ run'.pc \in {"load", "fetch"} /\ run'.w = None /\ run'.phase = "restore"
          /\ run'.crossed = run.crossed /\ run'.ok
      <3>1. PICK pc \in {"load", "fetch"} : run' = [run EXCEPT !.pc = pc, !.src = source]
        BY <1>3
      <3> QED
        BY <1>1, <3>1, Typed DEF Runs, Pcs
    <2>2. found' \in [icons : IconFiles, excused : BOOLEAN] /\ found'.icons = icons
      BY <1>3, Typed
    <2>3. TypeOK'
      BY <1>2, <1>3, <2>1, <2>2, Typed DEF TypeOK, env, NoFault
    <2>4. StampTruth' /\ StampOwed'
      BY <1>2, <2>1, StampStays
    <2>5. PartsOfMain'
      BY <2>1 DEF PartsOfMain, Holding
    <2>6. IconsFollow' /\ IconsRecoverable' /\ TextCarried'
      BY <1>2, <2>1, <2>2 DEF IconsFollow, Published, IconsRecoverable, TextCarried, Holding
    <2> QED
      BY <2>3, <2>4, <2>5, <2>6 DEF IInv, WeatherInv
  <1>4. CASE /\ Fault
             /\ run' = [run EXCEPT !.pc = "record", !.ok = FALSE]
             /\ UNCHANGED found
    <2>1. /\ run' \in Runs /\ run'.pc = "record" /\ run'.w = None /\ run'.phase = "restore"
          /\ run'.crossed = run.crossed /\ ~run'.ok
      BY <1>1, <1>4, Typed DEF Runs, Pcs
    <2>2. faults' \in 0..MaxFaults
      BY <1>4, Typed DEF Fault
    <2>3. TypeOK'
      BY <1>2, <1>4, <2>1, <2>2, Typed DEF TypeOK, env
    <2>4. StampTruth' /\ StampOwed'
      BY <1>2, <2>1, StampStays
    <2>5. PartsOfMain'
      BY <2>1 DEF PartsOfMain, Holding
    <2>6. IconsFollow' /\ IconsRecoverable' /\ TextCarried'
      BY <1>1, <1>2, <1>4, <2>1 DEF IconsFollow, Published, IconsRecoverable, TextCarried, Holding
    <2> QED
      BY <2>3, <2>4, <2>5, <2>6 DEF IInv, WeatherInv
  <1> QED
    BY <1>3, <1>4 DEF Start

LEMMA LoadCacheKeeps == ASSUME IInv, LoadCache PROVE IInv'
  <1>1. /\ run.pc = "load" /\ run.phase \in {"restore", "rescue"} /\ (run.phase = "rescue" => ~run.ok)
        /\ (~found.excused => icons = found.icons) /\ run.phase \in Phases
        /\ UNCHANGED <<core, icons, stamp, cache, env, late, result>>
    BY Typed DEF LoadCache, IInv, PartsOfMain, IconsRecoverable, Runs
  <1>2. CASE Usable(cache, run.src) /\ Publish(cache, run.phase)
    <2>1. cache \in Forecasts
      BY <1>2, Typed DEF Usable, Known
    <2> QED
      BY <1>1, <1>2, <2>1, PublishKeeps
  <1>3. CASE Restored(FALSE) /\ faults' \in 0..MaxFaults /\ UNCHANGED found
    <2>1. /\ run' \in Runs /\ run'.crossed = run.crossed /\ run'.ok = run.ok /\ run'.phase = run.phase
          /\ (run.phase = "restore" => run'.pc = "fetch") /\ (run.phase # "restore" => run'.pc = "record")
      BY <1>3, RestoredTyped, Typed
    <2> QED
      BY <1>1, <1>3, <2>1, Typed, MoveKeeps
  <1>4. faults \in 0..MaxFaults /\ MaxFaults \in Nat
    BY Typed
  <1>5. NoFault => faults' \in 0..MaxFaults
    BY <1>4 DEF NoFault
  <1>6. Fault => faults' \in 0..MaxFaults
    BY <1>4 DEF Fault
  <1> QED
    BY <1>2, <1>3, <1>5, <1>6 DEF LoadCache

LEMMA PrepareIconKeeps == ASSUME IInv, PrepareIcon PROVE IInv'
  <1>1. /\ run.pc = "icons" /\ run \in Runs /\ run.k \in 1..Slots /\ run.w # None /\ run.w \in Known
        /\ run.phase \in Phases /\ Slots \in Nat \ {0}
        /\ UNCHANGED <<core, stamp, cache, env, late, result, found>>
    BY Typed DEF PrepareIcon, IInv, PartsOfMain, Holding, Runs, Known
  <1>2. CASE /\ NoFault /\ icons' = [icons EXCEPT ![run.k] = Icon(run.w)]
             /\ run' = IF run.k = Slots THEN [run EXCEPT !.pc = "push"] ELSE [run EXCEPT !.k = @ + 1]
    <2>1. /\ run' \in Runs /\ run'.w = run.w /\ run'.crossed = run.crossed /\ run'.ok = run.ok
          /\ run'.phase = run.phase /\ run'.snap = run.snap
          /\ \/ run'.pc = "push" /\ run.k = Slots
             \/ run'.pc = "icons" /\ run'.k = run.k + 1
      <3>1. CASE run.k = Slots
        BY <1>1, <1>2, <3>1 DEF Runs, Pcs
      <3>2. CASE run.k # Slots
        <4>1. run.k + 1 \in 1..Slots
          BY <1>1, <3>2
        <4>2. run' = [run EXCEPT !.k = run.k + 1]
          BY <1>2, <3>2
        <4> QED
          BY <1>1, <4>1, <4>2 DEF Runs
      <3> QED
        BY <3>1, <3>2
    <2>2. icons' \in IconFiles /\ icons'[run.k] = Icon(run.w)
          /\ \A s \in 1..Slots : s # run.k => icons'[s] = icons[s]
      BY <1>1, <1>2, Typed, IconTyped DEF IconFiles
    <2>3. TypeOK'
      BY <1>1, <1>2, <2>1, <2>2, Typed DEF TypeOK, env, NoFault
    <2>4. StampTruth' /\ StampOwed'
      BY <1>1, <2>1, StampStays
    <2>5. PartsOfMain'
      BY <1>1, <2>1 DEF IInv, PartsOfMain, Holding
    <2>6. IconsFollow'
      <3>1. "icons" \notin run.crossed => \A s \in 1..Slots : s < run.k => icons[s] = Icon(run.w)
        BY <1>1 DEF IInv, IconsFollow
      <3>2. "icons" \notin run.crossed => \A s \in 1..Slots : s <= run.k => icons'[s] = Icon(run.w)
        BY <1>1, <2>2, <3>1
      <3> QED
        BY <1>1, <2>1, <3>2 DEF IconsFollow, Published
    <2>7. IconsRecoverable'
      BY <1>1, <2>1, <2>2 DEF IInv, IconsRecoverable
    <2>8. TextCarried'
      BY <1>1, <2>1 DEF IInv, TextCarried, Holding
    <2> QED
      BY <2>3, <2>4, <2>5, <2>6, <2>7, <2>8 DEF IInv, WeatherInv
  <1>3. CASE Fault /\ run' = [run EXCEPT !.pc = "rollback", !.k = 1] /\ UNCHANGED icons
    <2>1. /\ run' \in Runs /\ run'.w = run.w /\ run'.crossed = run.crossed /\ run'.ok = run.ok
          /\ run'.phase = run.phase /\ run'.snap = run.snap /\ run'.pc = "rollback" /\ run'.k = 1
      <3>1. 1 \in 1..Slots
        BY <1>1
      <3> QED
        BY <1>1, <1>3, <3>1 DEF Runs, Pcs
    <2>2. TypeOK'
      BY <1>1, <1>3, <2>1, Typed DEF TypeOK, env, Fault
    <2>3. StampTruth' /\ StampOwed'
      BY <1>1, <2>1, StampStays
    <2>4. PartsOfMain' /\ IconsFollow' /\ TextCarried'
      BY <1>1, <2>1 DEF IInv, PartsOfMain, IconsFollow, Published, TextCarried, Holding
    <2>5. IconsRecoverable'
      BY <1>1, <1>3, <2>1 DEF IInv, IconsRecoverable
    <2> QED
      BY <2>2, <2>3, <2>4, <2>5 DEF IInv, WeatherInv
  <1> QED
    BY <1>2, <1>3 DEF PrepareIcon

LEMMA RollbackIconKeeps == ASSUME IInv, RollbackIcon PROVE IInv'
  <1>1. /\ run.pc = "rollback" /\ run \in Runs /\ run.k \in 1..Slots /\ Slots \in Nat \ {0}
        /\ run.phase \in Phases /\ run.snap \in IconFiles
        /\ (run.phase = "rescue" => ~run.ok)
        /\ UNCHANGED <<core, stamp, cache, env, late, result>>
    BY Typed DEF RollbackIcon, IInv, PartsOfMain, Runs
  <1>2. /\ icons' \in IconFiles /\ found' \in [icons : IconFiles, excused : BOOLEAN]
        /\ faults' \in 0..MaxFaults
        /\ ~found'.excused => /\ found' = found
                              /\ icons' = [icons EXCEPT ![run.k] = run.snap[run.k]]
    <2>1. CASE NoFault /\ icons' = [icons EXCEPT ![run.k] = run.snap[run.k]] /\ UNCHANGED found
      BY <1>1, <2>1, Typed DEF NoFault, IconFiles
    <2>2. CASE Fault /\ found' = Excused /\ UNCHANGED icons
      BY <1>1, <2>2, Typed, ExcusedTyped DEF Fault
    <2> QED
      BY <2>1, <2>2 DEF RollbackIcon
  <1>3. ~found'.excused =>
          /\ run.snap = found'.icons
          /\ \A s \in 1..Slots : s <= run.k => icons'[s] = found'.icons[s]
    <2>1. ASSUME ~found'.excused
          PROVE  /\ run.snap = found'.icons
                 /\ \A s \in 1..Slots : s <= run.k => icons'[s] = found'.icons[s]
      <3>1. /\ run.snap = found.icons /\ found' = found
            /\ \A s \in 1..Slots : s < run.k => icons[s] = found.icons[s]
        BY <1>1, <1>2, <2>1 DEF IInv, IconsRecoverable
      <3>2. /\ icons'[run.k] = run.snap[run.k]
            /\ \A s \in 1..Slots : s # run.k => icons'[s] = icons[s]
        BY <1>1, <1>2, <2>1, Typed DEF IconFiles
      <3> QED
        BY <1>1, <3>1, <3>2
    <2> QED
      BY <2>1
  <1>4. CASE run.k < Slots
    <2>1. /\ run' \in Runs /\ run'.w = run.w /\ run'.crossed = run.crossed /\ run'.ok = run.ok
          /\ run'.phase = run.phase /\ run'.snap = run.snap /\ run'.pc = "rollback" /\ run'.k = run.k + 1
      <3>1. run.k + 1 \in 1..Slots /\ run' = [run EXCEPT !.k = run.k + 1]
        BY <1>1, <1>4 DEF RollbackIcon
      <3> QED
        BY <1>1, <3>1 DEF Runs
    <2>2. TypeOK'
      BY <1>1, <1>2, <2>1, Typed DEF TypeOK, env
    <2>3. StampTruth' /\ StampOwed'
      BY <1>1, <2>1, StampStays
    <2>4. PartsOfMain' /\ IconsFollow' /\ TextCarried'
      BY <1>1, <2>1 DEF IInv, PartsOfMain, IconsFollow, Published, TextCarried, Holding
    <2>5. IconsRecoverable'
      BY <1>1, <1>3, <2>1 DEF IconsRecoverable
    <2> QED
      BY <2>2, <2>3, <2>4, <2>5 DEF IInv, WeatherInv
  <1>5. CASE ~(run.k < Slots)
    <2>1. run' = AfterFailure
      BY <1>5 DEF RollbackIcon
    <2>2. ~found'.excused => icons' = found'.icons
      <3>1. ~found'.excused => \A s \in 1..Slots : icons'[s] = found'.icons[s]
        BY <1>1, <1>3, <1>5
      <3>2. found'.icons \in IconFiles
        BY <1>2
      <3> QED
        BY <1>2, <3>1, <3>2 DEF IconFiles
    <2> QED
      BY <1>1, <1>2, <2>1, <2>2, AfterFailureTyped, MoveKeeps
  <1> QED
    BY <1>4, <1>5

\* The core is given a forecast, or not, and the program does not stamp.
LEMMA PushFailsKeeps ==
  ASSUME IInv, run.pc = "push", NEW refused \in BOOLEAN, AttemptFailed(refused),
         UNCHANGED <<icons, stamp, cache, env, result>>,
         faults' \in 0..MaxFaults, late' \in Known,
         \/ UNCHANGED <<core, found>>
         \/ IpcWeatherUpdate(run.w, FALSE) /\ found' = Excused
  PROVE  IInv'
  <1>1. run \in Runs /\ run.w # None /\ run.w \in Known
    BY Typed DEF IInv, PartsOfMain, Holding, Runs, Known
  <1>2. /\ run' \in Runs /\ run'.phase = run.phase /\ run'.w = run.w /\ run'.ok = run.ok
        /\ run'.crossed = run.crossed /\ run'.snap = run.snap /\ run'.src = run.src
        /\ \/ run'.pc = "push" /\ run'.k = run.k
           \/ run'.pc = "rollback" /\ run'.k = 1
    BY <1>1, AttemptFailedTyped
  <1>3. /\ core' \in Cores /\ core'.inst = core.inst /\ core'.up = core.up
        /\ (core.frame # None => core'.frame # None)
        /\ found' \in [icons : IconFiles, excused : BOOLEAN]
        /\ (~found'.excused => found' = found)
    <2>1. CASE UNCHANGED <<core, found>>
      BY <2>1, Typed
    <2>2. CASE IpcWeatherUpdate(run.w, FALSE) /\ found' = Excused
      <3>1. /\ core' \in Cores /\ core'.inst = core.inst /\ core'.up = core.up
            /\ core'.frame = Shown(run.w) /\ Shown(run.w) # None
        BY <1>1, <2>2, Typed, ShownTyped DEF IpcWeatherUpdate, Cores, Known
      <3> QED
        BY <1>1, <2>2, <3>1, ExcusedTyped
    <2> QED
      BY <2>1, <2>2
  <1>4. TypeOK'
    BY <1>2, <1>3, Typed DEF TypeOK, env, Known
  <1>5. StampTruth' /\ StampOwed'
    BY <1>2, <1>3 DEF IInv, WeatherInv, StampTruth, StampOwed, PublishNeeded
  <1>6. PartsOfMain' /\ TextCarried'
    BY <1>2 DEF IInv, PartsOfMain, TextCarried, Holding
  <1>7. IconsFollow'
    BY <1>2 DEF IInv, IconsFollow, Published
  <1>8. IconsRecoverable'
    BY <1>2, <1>3 DEF IInv, IconsRecoverable
  <1> QED
    BY <1>4, <1>5, <1>6, <1>7, <1>8 DEF IInv, WeatherInv

LEMMA PushAttemptKeeps == ASSUME IInv, PushAttempt PROVE IInv'
  <1>1. /\ run.pc = "push" /\ run \in Runs /\ run.w # None /\ run.w \in Known
        /\ UNCHANGED <<icons, stamp, cache, env, result>>
    BY Typed DEF PushAttempt, IInv, PartsOfMain, Holding, Runs, Known
  <1>2. /\ NoFault => faults' \in 0..MaxFaults
        /\ Fault => faults' \in 0..MaxFaults
    BY Typed DEF NoFault, Fault
  <1>3. CASE /\ core.up /\ IpcWeatherUpdate(run.w, FALSE) /\ NoFault
             /\ run' = [run EXCEPT !.pc = "stamp", !.crossed = @ \ {"stamp"},
                                   !.tries = 0, !.k = 1, !.snap = NoRun({}).snap]
             /\ found' = Excused /\ UNCHANGED late
    <2>1. /\ run' \in Runs /\ run'.pc = "stamp" /\ run'.w = run.w /\ run'.ok = run.ok
          /\ run'.phase = run.phase /\ run'.crossed = run.crossed \ {"stamp"}
      <3>1. 1 \in 1..Slots /\ 0 \in 0..(PushTries * RestoreTries) /\ NoRun({}).snap \in IconFiles
            /\ "stamp" \in Pcs
        BY NoRunTyped, TriesBound, WeatherAssumption DEF Runs, Pcs
      <3> QED
        BY <1>1, <1>3, <3>1 DEF Runs
    <2>2. /\ core' \in Cores /\ core'.inst = core.inst /\ core'.up /\ ~core'.late
          /\ core'.frame = Shown(run.w) /\ Shown(run.w) # None /\ Icon(Shown(run.w)) = Icon(run.w)
      BY <1>1, <1>3, Typed, ShownTyped DEF IpcWeatherUpdate, Cores, Known
    <2>3. TypeOK'
      BY <1>1, <1>2, <1>3, <2>1, <2>2, Typed, ExcusedTyped DEF TypeOK, env
    <2>4. StampTruth' /\ StampOwed'
      BY <1>1, <2>1, <2>2 DEF IInv, WeatherInv, StampTruth, StampOwed
    <2>5. PartsOfMain'
      BY <1>1, <1>3, <2>1, ExcusedTyped DEF IInv, PartsOfMain, Holding
    <2>6. IconsFollow'
      BY <1>1, <2>1, <2>2 DEF IInv, IconsFollow, Published, IconsAgree
    <2>7. IconsRecoverable' /\ TextCarried'
      BY <1>1, <1>3, <2>1, ExcusedTyped DEF IInv, IconsRecoverable, TextCarried, Holding
    <2> QED
      BY <2>3, <2>4, <2>5, <2>6, <2>7 DEF IInv, WeatherInv
  <1>4. CASE /\ \E refused \in BOOLEAN : AttemptFailed(refused)
             /\ faults' \in 0..MaxFaults /\ late' \in Known
             /\ \/ UNCHANGED <<core, found>>
                \/ IpcWeatherUpdate(run.w, FALSE) /\ found' = Excused
    BY <1>1, <1>4, PushFailsKeeps
  <1>5. Shown(run.w) \in Known /\ late \in Known
    BY <1>1, ShownTyped, Typed
  <1> QED
    BY <1>1, <1>2, <1>3, <1>4, <1>5 DEF PushAttempt

LEMMA LatePushKeeps == ASSUME IInv, LatePush PROVE IInv'
  <1>1. /\ late # None /\ late \in Known /\ late' = None /\ found' = Excused
        /\ UNCHANGED <<icons, stamp, cache, env, run, result, faults>>
    BY Typed DEF LatePush
  <1>2. /\ core' \in Cores /\ core'.inst = core.inst /\ core'.up = core.up
        /\ (core.frame # None => core'.frame # None)
        /\ (core'.late \/ UNCHANGED core)
    BY <1>1, Typed, ShownTyped DEF LatePush, IpcWeatherUpdate, Cores, Known
  <1>3. TypeOK'
    BY <1>1, <1>2, Typed, ExcusedTyped, NoneKnown DEF TypeOK, env, Known
  <1>4. StampTruth' /\ StampOwed'
    BY <1>1, <1>2 DEF IInv, WeatherInv, StampTruth, StampOwed, PublishNeeded
  <1>5. PartsOfMain' /\ TextCarried' /\ IconsRecoverable'
    BY <1>1, ExcusedTyped DEF IInv, PartsOfMain, TextCarried, IconsRecoverable, Holding
  <1>6. IconsFollow'
    BY <1>1, <1>2 DEF IInv, IconsFollow, Published, IconsAgree
  <1> QED
    BY <1>3, <1>4, <1>5, <1>6 DEF IInv, WeatherInv

LEMMA MarkPublishedKeeps == ASSUME IInv, MarkPublished PROVE IInv'
  <1>1. /\ run.pc = "stamp" /\ run \in Runs /\ run.w # None /\ found.excused /\ run.phase \in Phases
        /\ (run.phase = "rescue" => ~run.ok)
        /\ stamp' \in {stamp, core.inst}
        /\ UNCHANGED <<core, icons, cache, env, late, result, found>>
    BY Typed DEF MarkPublished, IInv, PartsOfMain, Holding, Runs
  <1>2. faults' \in 0..MaxFaults
    <2>1. NoFault => faults' \in 0..MaxFaults
      BY Typed DEF NoFault
    <2>2. Fault => faults' \in 0..MaxFaults
      BY Typed DEF Fault
    <2> QED
      BY <2>1, <2>2 DEF MarkPublished
  <1>3. /\ run' \in Runs /\ run'.crossed = run.crossed /\ run'.ok = run.ok
        /\ run'.phase = run.phase
        /\ \/ run'.pc = "enrich" /\ run.phase = "primary" /\ run'.w = run.w
           \/ run'.pc = "cache" /\ run.phase = "final" /\ run'.w = run.w
           \/ run'.pc \in {"fetch", "failure"}
           \/ run'.pc = "record" /\ run.phase = "rescue"
    <2>1. CASE run' = AfterFailure
      BY <1>1, <2>1, AfterFailureTyped
    <2>2. CASE run.phase \in {"restore", "rescue"} /\ Restored(TRUE)
      BY <1>1, <2>2, RestoredTyped
    <2>3. CASE run.phase = "primary" /\ Goto("enrich")
      BY <1>1, <2>3 DEF Goto, Runs, Pcs
    <2>4. CASE run.phase = "final" /\ Goto("cache")
      BY <1>1, <2>4 DEF Goto, Runs, Pcs
    <2>5. \/ run' = AfterFailure
          \/ run.phase \in {"restore", "rescue"} /\ Restored(TRUE)
          \/ run.phase = "primary" /\ Goto("enrich")
          \/ run.phase = "final" /\ Goto("cache")
      BY <1>1 DEF MarkPublished, Phases
    <2> QED
      BY <2>1, <2>2, <2>3, <2>4, <2>5
  <1>4. TypeOK'
    <2>1. stamp' \in 0..(MaxRestarts + 2)
      <3>1. stamp \in 0..(MaxRestarts + 2) /\ core.inst \in 1..(MaxRestarts + 2) /\ MaxRestarts \in Nat
        BY Typed DEF TypeOK, Cores
      <3> QED
        BY <1>1, <3>1
    <2> QED
      BY <1>1, <1>2, <1>3, <2>1, Typed DEF TypeOK, env
  <1>5. StampTruth' /\ StampOwed'
    BY <1>1, <1>3, Typed DEF IInv, WeatherInv, StampTruth, StampOwed, PublishNeeded, Cores
  <1>6. PartsOfMain'
    BY <1>1, <1>3 DEF IInv, PartsOfMain, Holding
  <1>7. IconsFollow' /\ IconsRecoverable' /\ TextCarried'
    BY <1>1, <1>3 DEF IInv, PartsOfMain, IconsFollow, Published, IconsRecoverable, TextCarried, Holding, IconsAgree
  <1> QED
    BY <1>4, <1>5, <1>6, <1>7 DEF IInv, WeatherInv

LEMMA FetchKeeps == ASSUME IInv, Fetch PROVE IInv'
  <1>1. /\ run.pc = "fetch" /\ run \in Runs /\ (~found.excused => icons = found.icons)
        /\ (run.phase = "rescue" => ~run.ok)
        /\ UNCHANGED <<core, icons, stamp, cache, env, late, result>>
    BY Typed DEF Fetch, IInv, IconsRecoverable, PartsOfMain
  <1>2. ASSUME NEW text \in Alerts, Publish(Normalized(text), "primary") PROVE IInv'
    <2>1. Normalized(text) \in Forecasts
      BY <1>1, Typed, WeatherAssumption DEF Normalized, Forecasts, Runs
    <2> QED
      BY <1>1, <1>2, <2>1, PublishKeeps DEF Phases
  <1>3. CASE Goto("failure") /\ NoFault /\ UNCHANGED found
    <2>1. /\ run' \in Runs /\ run'.pc = "failure" /\ run'.crossed = run.crossed
          /\ run'.phase = run.phase /\ run'.ok = run.ok
      BY <1>1, <1>3 DEF Goto, Runs, Pcs
    <2>2. faults' \in 0..MaxFaults
      BY <1>3, Typed DEF NoFault
    <2> QED
      BY <1>1, <1>3, <2>1, <2>2, Typed, MoveKeeps
  <1> QED
    BY <1>2, <1>3 DEF Fetch

LEMMA EnrichKeeps == ASSUME IInv, Enrich PROVE IInv'
  <1>1. /\ run.pc = "enrich" /\ run \in Runs /\ run.w \in Forecasts /\ found.excused
        /\ run.phase = "primary"
        /\ UNCHANGED <<core, icons, stamp, cache, env, late, result>>
    BY Typed DEF Enrich, IInv, PartsOfMain, Holding, Runs, Known
  <1>2. ASSUME NEW text \in {"detail", "bare"}, Publish(Enriched(run.w, text), "final") PROVE IInv'
    <2>1. /\ Enriched(run.w, text) \in Forecasts
          /\ run.w.text # "detail" => Enriched(run.w, text).text \in {"none", "bare", "detail"}
          /\ Enriched(run.w, text).text # "title"
      BY <1>1 DEF Enriched, Forecasts
    <2>2. Enriched(run.w, text).text \notin {"none", "bare"} => Enriched(run.w, text).text = "detail"
      BY <2>1 DEF Forecasts
    <2> QED
      BY <1>1, <1>2, <2>1, <2>2, PublishKeeps DEF Phases
  <1>3. CASE Publish(Reused(run.w), "final")
    <2>1. /\ Reused(run.w) \in Forecasts
          /\ cache.text = "detail" /\ Reused(run.w).text \notin {"none", "bare"}
               => Reused(run.w).text = "detail"
      BY <1>1 DEF Reused, Forecasts
    <2> QED
      BY <1>1, <1>3, <2>1, PublishKeeps DEF Phases
  <1>4. CASE Fault /\ run' = Over("failure") /\ UNCHANGED found
    <2>1. /\ run' \in Runs /\ run'.pc = "failure" /\ run'.crossed = run.crossed
          /\ run'.phase = "primary"
      BY <1>1, <1>4, OverTyped DEF Pcs
    <2>2. faults' \in 0..MaxFaults
      BY <1>4, Typed DEF Fault
    <2> QED
      BY <1>1, <1>4, <2>1, <2>2, Typed, MoveKeeps
  <1> QED
    BY <1>2, <1>3, <1>4 DEF Enrich

LEMMA WriteCacheKeeps == ASSUME IInv, WriteCache PROVE IInv'
  <1>1. /\ run.pc = "cache" /\ run \in Runs /\ run.w \in Known /\ run.phase = "final" /\ found.excused
        /\ UNCHANGED <<core, icons, stamp, env, late, result, found>>
    BY Typed DEF WriteCache, IInv, PartsOfMain, Runs, Known
  <1>2. CASE NoFault /\ cache' = run.w /\ run' = Over("record")
    <2>1. /\ run' \in Runs /\ run'.pc = "record" /\ run'.crossed = run.crossed
          /\ run'.phase = "final" /\ run'.ok = run.ok
      BY <1>1, <1>2, OverTyped DEF Pcs
    <2>2. TypeOK'
      BY <1>1, <1>2, <2>1, Typed DEF TypeOK, env, Known, NoFault
    <2>3. StampTruth' /\ StampOwed'
      BY <1>1, <2>1, StampStays
    <2>4. PartsOfMain' /\ IconsFollow' /\ IconsRecoverable' /\ TextCarried'
      BY <1>1, <2>1 DEF IInv, PartsOfMain, IconsFollow, Published, IconsRecoverable, TextCarried, Holding, IconsAgree
    <2> QED
      BY <2>2, <2>3, <2>4 DEF IInv, WeatherInv
  <1>3. CASE Fault /\ run' = Over("failure") /\ UNCHANGED cache
    <2>1. /\ run' \in Runs /\ run'.pc = "failure" /\ run'.crossed = run.crossed
          /\ run'.phase = "final" /\ run'.ok = run.ok
      BY <1>1, <1>3, OverTyped DEF Pcs
    <2>2. faults' \in 0..MaxFaults
      BY <1>3, Typed DEF Fault
    <2> QED
      BY <1>1, <1>3, <2>1, <2>2, Typed, MoveKeeps
  <1> QED
    BY <1>2, <1>3 DEF WriteCache

LEMMA FailureKeeps == ASSUME IInv, Failure PROVE IInv'
  <1>1. /\ run.pc = "failure" /\ run \in Runs /\ (~found.excused => icons = found.icons)
        /\ UNCHANGED <<core, icons, stamp, cache, env, late, result, faults, found>>
    BY Typed DEF Failure, IInv, IconsRecoverable
  <1>2. /\ run' \in Runs /\ run'.pc \in {"load", "record"} /\ run'.w = run.w
        /\ run'.crossed = run.crossed /\ run'.phase = "rescue" /\ ~run'.ok
    <2>1. PICK pc \in {"load", "record"} :
             run' = [run EXCEPT !.ok = FALSE, !.phase = "rescue", !.tries = 0, !.pc = pc]
      BY DEF Failure
    <2>2. 0 \in 0..(PushTries * RestoreTries)
      BY TriesBound
    <2> QED
      BY <1>1, <2>1, <2>2 DEF Runs, Pcs, Phases
  <1> QED
    BY <1>1, <1>2, Typed, MoveKeeps

\* The process is gone, for whatever reason, and nothing is claimed of what it leaves,
\* or what is claimed holds already.
LEMMA GoneKeeps ==
  ASSUME IInv, run' = NoRun(run.crossed), found' = Excused,
         StampTruth', StampOwed',
         result' = "ok" => (core'.frame # None /\ ~core'.late /\ "icons" \notin run.crossed
                              => \A s \in 1..Slots : icons'[s] = Icon(core'.frame)),
         core' \in Cores, icons' \in IconFiles, stamp' \in 0..(MaxRestarts + 2), late' \in Known,
         result' \in {"none", "ok", "error", "killed"}, faults' \in 0..MaxFaults,
         UNCHANGED <<cache, env>>
  PROVE  IInv'
  <1>1. /\ run' \in Runs /\ run'.pc = "idle" /\ run'.phase = "restore" /\ run'.ok
        /\ run'.crossed = run.crossed
    <2>1. run.crossed \in SUBSET {"stamp", "icons"}
      BY Typed DEF Runs
    <2> QED
      BY <2>1, NoRunTyped
  <1>2. TypeOK'
    BY <1>1, Typed, ExcusedTyped DEF TypeOK, env, Known
  <1>3. PartsOfMain'
    <2>1. run' = NoRun(run'.crossed)
      BY <1>1
    <2> QED
      BY <1>1, <2>1, ExcusedTyped DEF PartsOfMain, Holding
  <1>4. IconsFollow' /\ IconsRecoverable' /\ TextCarried'
    BY <1>1, ExcusedTyped DEF IconsFollow, Published, IconsAgree, IconsRecoverable, TextCarried, Holding
  <1> QED
    BY <1>2, <1>3, <1>4 DEF IInv, WeatherInv

LEMMA RecordRunKeeps == ASSUME IInv, RecordRun PROVE IInv'
  <1>1. /\ run.pc = "record" /\ run' = NoRun(run.crossed) /\ found' = Excused
        /\ result' = (IF run.ok THEN "ok" ELSE "error")
        /\ UNCHANGED <<core, icons, stamp, cache, env, late, faults>>
    BY DEF RecordRun
  <1>2. run'.pc = "idle" /\ run'.crossed = run.crossed
    BY <1>1, NoRunTyped, Typed DEF Runs
  <1>3. StampTruth' /\ StampOwed'
    BY <1>1, <1>2, StampStays
  <1>4. result' = "ok" => (core.frame # None /\ ~core.late /\ "icons" \notin run.crossed
                             => \A s \in 1..Slots : icons[s] = Icon(core.frame))
    BY <1>1 DEF IInv, IconsFollow, Published, IconsAgree
  <1> QED
    BY <1>1, <1>3, <1>4, Typed, GoneKeeps DEF TypeOK

LEMMA KillKeeps == ASSUME IInv, Kill PROVE IInv'
  <1>1. /\ run' = NoRun(run.crossed) /\ result' = "killed" /\ found' = Excused /\ Fault
        /\ UNCHANGED <<core, icons, stamp, cache, env, late>>
    BY DEF Kill
  <1>2. run'.pc = "idle" /\ run'.crossed = run.crossed
    BY <1>1, NoRunTyped, Typed DEF Runs
  <1>3. StampTruth' /\ StampOwed'
    BY <1>1, <1>2, StampStays
  <1>4. faults' \in 0..MaxFaults
    BY <1>1, Typed DEF Fault
  <1> QED
    BY <1>1, <1>3, <1>4, Typed, GoneKeeps DEF TypeOK

\* What a crash or a restart leaves of the core, the icons and the stamp.
LEMMA CoreDownTyped ==
  ASSUME IInv, NEW kept \in BOOLEAN, CoreDown(kept)
  PROVE  /\ core' \in Cores /\ core'.inst = core.inst /\ ~core'.up /\ core'.frame = None
         /\ core.inst <= MaxRestarts /\ core.up
         /\ icons' \in IconFiles /\ stamp' \in 0..(MaxRestarts + 2) /\ stamp' <= core.inst
         /\ UNCHANGED <<cache, env, faults>>
  <1>1. core' \in Cores /\ core'.inst = core.inst /\ ~core'.up /\ core'.frame = None
    BY Typed DEF CoreDown, Cores
  <1>2. stamp' \in {0, stamp} /\ stamp' \in 0..(MaxRestarts + 2) /\ stamp' <= core.inst
    BY Typed DEF CoreDown, TypeOK, IInv, StampOwed, Cores
  <1>3. icons' \in IconFiles
    BY Typed, NoneKnown DEF CoreDown
  <1> QED
    BY <1>1, <1>2, <1>3 DEF CoreDown

LEMMA CoreCrashKeeps == ASSUME IInv, CoreCrash PROVE IInv'
  <1>1. PICK kept \in BOOLEAN : CoreDown(kept)
    BY DEF CoreCrash
  <1>2. /\ core' \in Cores /\ core'.inst = core.inst /\ ~core'.up /\ core'.frame = None
        /\ core.inst <= MaxRestarts /\ core.up
        /\ icons' \in IconFiles /\ stamp' \in 0..(MaxRestarts + 2) /\ stamp' <= core.inst
        /\ UNCHANGED <<cache, env, faults>>
    BY <1>1, CoreDownTyped
  <1> DEFINE more == CASE run.pc = "stamp" -> {"stamp"}
                       [] run.pc \in {"icons", "push"} -> {"icons"}
                       [] OTHER -> {}
  <1>3. found' = Excused /\ run' = [run EXCEPT !.crossed = @ \cup more] /\ UNCHANGED <<late, result>>
    BY DEF CoreCrash
  <1>4. /\ more \subseteq {"stamp", "icons"}
        /\ (run.pc = "stamp" => more = {"stamp"})
        /\ (run.pc \in {"icons", "push"} => more = {"icons"})
        /\ (run.pc = "idle" => more = {})
    OBVIOUS
  <1>5. /\ run' \in Runs /\ run'.pc = run.pc /\ run'.phase = run.phase /\ run'.w = run.w
        /\ run'.ok = run.ok /\ run'.crossed = run.crossed \cup more
    <2> HIDE DEF more
    <2> QED
      BY <1>3, <1>4, Typed DEF Runs
  <1> HIDE DEF more
  <1>6. TypeOK'
    BY <1>2, <1>3, <1>5, Typed, ExcusedTyped DEF TypeOK, env
  <1>7. StampTruth' /\ StampOwed'
    BY <1>2, <1>4, <1>5, Typed DEF StampTruth, StampOwed, Cores
  <1>8. PartsOfMain'
    <2>1. run.pc = "idle" => run' = run
      BY <1>3, <1>4, Typed DEF Runs
    <2> QED
      BY <1>3, <1>5, <2>1, ExcusedTyped DEF IInv, PartsOfMain
  <1>9. IconsFollow'
    BY <1>2, <1>4, <1>5 DEF IconsFollow
  <1>10. IconsRecoverable' /\ TextCarried'
    BY <1>2, <1>3, <1>5, ExcusedTyped DEF IInv, IconsRecoverable, TextCarried
  <1> QED
    BY <1>6, <1>7, <1>8, <1>9, <1>10 DEF IInv, WeatherInv

LEMMA CoreRestartKeeps == ASSUME IInv, CoreRestart PROVE IInv'
  <1>1. PICK kept \in BOOLEAN : CoreDown(kept)
    BY DEF CoreRestart
  <1>2. /\ core' \in Cores /\ core'.inst = core.inst /\ ~core'.up /\ core'.frame = None
        /\ core.inst <= MaxRestarts /\ core.up
        /\ icons' \in IconFiles /\ stamp' \in 0..(MaxRestarts + 2) /\ stamp' <= core.inst
        /\ UNCHANGED <<cache, env, faults>>
    BY <1>1, CoreDownTyped
  <1>3. /\ run' = NoRun(run.crossed) /\ result' \in {"none", "ok", "error", "killed"}
        /\ found' = Excused /\ late' \in Known
    BY Typed, NoneKnown DEF CoreRestart, IInv, PartsOfMain, TypeOK
  <1>4. run'.pc = "idle" /\ run'.crossed = run.crossed
    BY <1>3, NoRunTyped, Typed DEF Runs
  <1>5. StampTruth' /\ StampOwed'
    BY <1>2, <1>4, Typed DEF StampTruth, StampOwed, Cores
  <1> QED
    BY <1>2, <1>3, <1>5, Typed, GoneKeeps

LEMMA CoreUpKeeps == ASSUME IInv, CoreUp PROVE IInv'
  <1>1. /\ ~core.up /\ core.inst <= MaxRestarts /\ stamp <= core.inst /\ MaxRestarts \in Nat
        /\ UNCHANGED <<icons, stamp, cache, env, run, late, result, faults, found>>
    BY Typed DEF CoreUp, IInv, StampOwed
  <1>2. /\ core' \in Cores /\ core'.inst = core.inst + 1 /\ core'.up /\ core'.frame = core.frame
        /\ core'.late = core.late
    <2>1. core.inst + 1 \in 1..(MaxRestarts + 2) /\ core' = [core EXCEPT !.up = TRUE, !.inst = core.inst + 1]
      BY <1>1, Typed DEF CoreUp, Cores
    <2> QED
      BY <2>1, Typed DEF Cores
  <1>3. TypeOK'
    BY <1>1, <1>2, Typed DEF TypeOK, env
  <1>4. StampTruth' /\ StampOwed'
    <2>1. stamp \in Nat /\ core.inst \in Nat
      BY Typed DEF Cores
    <2>2. PublishNeeded'
      BY <1>1, <1>2, <2>1 DEF PublishNeeded
    <2> QED
      BY <1>1, <1>2, <2>1, <2>2 DEF IInv, StampTruth, StampOwed
  <1>5. PartsOfMain' /\ IconsRecoverable' /\ TextCarried'
    BY <1>1 DEF IInv, PartsOfMain, IconsRecoverable, TextCarried
  <1>6. IconsFollow'
    BY <1>1, <1>2 DEF IInv, IconsFollow, Published, IconsAgree
  <1> QED
    BY <1>3, <1>4, <1>5, <1>6 DEF IInv, WeatherInv

\* The user, the clock on the wall, and steps that change nothing.
LEMMA OutsideKeeps ==
  ASSUME IInv, source' \in Sources, now' \in 0..MaxNow, changes' \in 0..MaxChanges,
         UNCHANGED <<core, icons, stamp, cache, run, late, result, faults, found>>
  PROVE  IInv'
  <1>1. TypeOK'
    BY Typed DEF TypeOK
  <1>2. StampTruth' /\ StampOwed'
    BY StampStays
  <1>3. PartsOfMain' /\ IconsRecoverable' /\ TextCarried' /\ IconsFollow'
    BY DEF IInv, PartsOfMain, IconsRecoverable, TextCarried, IconsFollow, Published, IconsAgree
  <1> QED
    BY <1>1, <1>2, <1>3 DEF IInv, WeatherInv

LEMMA StepKeeps == IInv /\ [Next]_vars => IInv'
  <1> SUFFICES ASSUME IInv, [Next]_vars PROVE IInv'
    OBVIOUS
  <1>1. CASE ChangeSource \/ Tick \/ UNCHANGED vars
    <2>1. source' \in Sources /\ now' \in 0..MaxNow /\ changes' \in 0..MaxChanges
      BY <1>1, Typed, WeatherAssumption DEF ChangeSource, Tick, vars, TypeOK
    <2> QED
      BY <1>1, <2>1, OutsideKeeps DEF ChangeSource, Tick, vars
  <1> QED
    BY <1>1, StartKeeps, LoadCacheKeeps, PrepareIconKeeps, RollbackIconKeeps, PushAttemptKeeps,
       MarkPublishedKeeps, FetchKeeps, EnrichKeeps, WriteCacheKeeps, FailureKeeps, RecordRunKeeps,
       LatePushKeeps, KillKeeps, CoreCrashKeeps, CoreRestartKeeps, CoreUpKeeps
    DEF Next, Program

LEMMA Invariance == Spec => []IInv
  BY InitHolds, StepKeeps, PTL DEF Spec

-----------------------------------------------------------------------------
(* The theorems.                                                            *)

\* A stamp that counts as newer than the core's socket stands for a forecast in the
\* core, unless the core crashed within a publication: a later run that asks
\* runtime_weather_publish_needed leaves no core without weather.
THEOREM StampCorrect == Spec => []WeatherInv
  BY Invariance, PTL DEF IInv

\* After a run that reports success every icon file belongs to the forecast that the
\* core shows, whatever failed, was retried or was lost on the way (main,
\* prepare_icons, rollback_runtime_icons, push_clock_weather).
THEOREM IconsCorrect == Spec => []IconsMatch
  <1>1. IInv => IconsMatch
    BY DEF IInv, IconsFollow, Published, IconsMatch
  <1> QED
    BY <1>1, Invariance, PTL

-----------------------------------------------------------------------------
(* How old the forecasts are.                                               *)

\* No forecast is of the future, a fetched one that is being published is as new as
\* any other, and a run that is about to publish the cache has found, and still
\* has, a core without a stamp that counts.
ForecastsDated ==
    /\ core.frame.at <= now /\ late.at <= now /\ cache.at <= now /\ run.w.at <= now
    /\ run.pc \in Holding /\ run.phase \in {"primary", "final"} =>
         core.frame.at <= run.w.at /\ late.at <= run.w.at
    /\ run.pc \in {"load", "icons", "push"} /\ run.phase \in {"restore", "rescue"} => PublishNeeded

LEMMA DatedTyped ==
  ASSUME IInv
  PROVE  /\ now \in Nat /\ core.frame.at \in Nat /\ late.at \in Nat /\ cache.at \in Nat
         /\ run.w.at \in Nat /\ None.at = 0
         /\ core.frame \in Known /\ run.w \in Known /\ run \in Runs /\ core \in Cores
         /\ stamp \in Nat /\ core.inst \in Nat /\ stamp <= core.inst
  <1>1. \A f \in Known : f.at \in Nat
    BY WeatherAssumption DEF Known, Forecasts, None
  <1>2. core.frame \in Known /\ run.w \in Known /\ run \in Runs /\ core \in Cores
    BY Typed DEF Cores, Runs, Known
  <1>3. stamp \in Nat /\ core.inst \in Nat /\ stamp <= core.inst
    BY Typed DEF IInv, StampOwed, Cores
  <1> QED
    BY <1>1, <1>2, <1>3, Typed DEF None

\* A step after which the program is not within a publication.
LEMMA DatedOutside ==
  ASSUME IInv, ForecastsDated, run'.w = None, run'.pc \notin Holding, run'.pc # "load",
         now' = now, core'.frame \in {core.frame, None}, late' \in {late, None},
         cache' \in {cache, run.w}
  PROVE  ForecastsDated'
  BY DatedTyped DEF ForecastsDated, Holding

\* A step within a publication.
LEMMA DatedInside ==
  ASSUME IInv, ForecastsDated, run'.w = run.w, run'.phase = run.phase,
         run'.pc \in Holding => run.pc \in Holding,
         run'.pc \in {"load", "icons", "push"} => run.pc \in {"load", "icons", "push"},
         UNCHANGED <<now, cache>>, core'.up = core.up, core'.inst = core.inst,
         stamp' = stamp \/ run'.pc \notin {"load", "icons", "push"},
         core'.frame.at \in {core.frame.at, run.w.at} \/ core'.frame.at = late.at,
         late'.at \in {late.at, run.w.at, 0}
  PROVE  ForecastsDated'
  BY DatedTyped DEF ForecastsDated, Holding, PublishNeeded

LEMMA DatedPublish ==
  ASSUME IInv, ForecastsDated, NEW w \in Forecasts, NEW phase \in Phases, Publish(w, phase),
         UNCHANGED <<core, stamp, cache, now, late>>, w.at <= now,
         phase \in {"primary", "final"} => core.frame.at <= w.at /\ late.at <= w.at,
         phase \in {"restore", "rescue"} => PublishNeeded
  PROVE  ForecastsDated'
  <1>1. run'.pc = "icons" /\ run'.phase = phase /\ run'.w = w
    BY PublishTyped
  <1>2. PublishNeeded' = PublishNeeded
    BY DEF PublishNeeded
  <1> QED
    BY <1>1, <1>2 DEF ForecastsDated

LEMMA DatedKeeps == IInv /\ ForecastsDated /\ [Next]_vars => ForecastsDated'
  <1> SUFFICES ASSUME IInv, ForecastsDated, [Next]_vars PROVE ForecastsDated'
    OBVIOUS
  <1>0. run \in Runs /\ run.phase \in Phases /\ run.crossed \in SUBSET {"stamp", "icons"}
    BY Typed DEF Runs
  <1>1. CASE Start
    <2>1. run.pc = "idle" /\ run.w = None /\ run.phase = "restore"
      BY <1>0, <1>1, NoRunTyped DEF Start, IInv, PartsOfMain
    <2>2. /\ run'.pc \in {"load", "fetch", "record"} /\ (run'.pc = "load" => PublishNeeded)
          /\ run'.w = None /\ run'.phase = "restore"
      <3>1. CASE run' = [run EXCEPT !.pc = "record", !.ok = FALSE]
        BY <1>0, <2>1, <3>1 DEF Runs
      <3>2. CASE run' = [run EXCEPT !.pc = IF PublishNeeded THEN "load" ELSE "fetch", !.src = source]
        BY <1>0, <2>1, <3>2 DEF Runs
      <3> QED
        BY <1>1, <3>1, <3>2 DEF Start
    <2>3. UNCHANGED <<core, stamp, cache, now, late>> /\ PublishNeeded' = PublishNeeded
      BY <1>1 DEF Start, env, PublishNeeded
    <2> QED
      BY <2>1, <2>2, <2>3, DatedTyped DEF ForecastsDated, Holding
  <1>2. CASE LoadCache
    <2>1. run.pc = "load" /\ run.phase \in {"restore", "rescue"} /\ PublishNeeded
          /\ UNCHANGED <<core, stamp, cache, now, late>>
      BY <1>2 DEF LoadCache, IInv, PartsOfMain, ForecastsDated, env
    <2>2. CASE Usable(cache, run.src) /\ Publish(cache, run.phase)
      <3>1. cache \in Forecasts
        BY <2>2, Typed DEF Usable, Known
      <3> QED
        BY <1>0, <2>1, <2>2, <3>1, DatedPublish DEF ForecastsDated
    <2>3. CASE Restored(FALSE)
      BY <1>0, <2>1, <2>3, RestoredTyped, DatedOutside DEF Holding
    <2> QED
      BY <1>2, <2>2, <2>3 DEF LoadCache
  <1>3. CASE PrepareIcon
    <2>1. /\ run.pc = "icons" /\ run'.w = run.w /\ run'.phase = run.phase
          /\ run'.pc \in {"icons", "push", "rollback"}
          /\ UNCHANGED <<core, stamp, cache, now, late>>
      BY <1>0, <1>3 DEF PrepareIcon, env, Runs
    <2> QED
      BY <2>1, DatedInside DEF Holding
  <1>4. CASE RollbackIcon
    <2>1. run.pc = "rollback" /\ UNCHANGED <<core, stamp, cache, now, late>>
      BY <1>4 DEF RollbackIcon, env
    <2>2. CASE run' = AfterFailure
      BY <1>0, <2>1, <2>2, AfterFailureTyped, DatedOutside DEF Holding
    <2>3. CASE run' = [run EXCEPT !.k = @ + 1]
      <3>1. run'.w = run.w /\ run'.phase = run.phase /\ run'.pc = run.pc
        BY <1>0, <2>3 DEF Runs
      <3> QED
        BY <2>1, <3>1, DatedInside
    <2> QED
      BY <1>4, <2>2, <2>3 DEF RollbackIcon
  <1>5. CASE PushAttempt
    <2>1. run.pc = "push" /\ UNCHANGED <<stamp, cache, now>> /\ Shown(run.w).at = run.w.at
      BY <1>5, DatedTyped, ShownTyped DEF PushAttempt, env
    <2>2. run'.w = run.w /\ run'.phase = run.phase /\ run'.pc \in {"push", "rollback", "stamp"}
      <3>1. CASE \E refused \in BOOLEAN : AttemptFailed(refused)
        BY <1>0, <2>1, <3>1, AttemptFailedTyped
      <3>2. CASE run' = [run EXCEPT !.pc = "stamp", !.crossed = @ \ {"stamp"},
                                    !.tries = 0, !.k = 1, !.snap = NoRun({}).snap]
        BY <1>0, <3>2 DEF Runs
      <3> QED
        BY <1>5, <3>1, <3>2 DEF PushAttempt
    <2>3. core'.up = core.up /\ core'.inst = core.inst /\ core'.frame \in {core.frame, Shown(run.w)}
          /\ late' \in {late, Shown(run.w)}
      BY <1>5, DatedTyped DEF PushAttempt, IpcWeatherUpdate, Cores
    <2> QED
      BY <2>1, <2>2, <2>3, DatedInside DEF Holding
  <1>6. CASE LatePush
    <2>1. UNCHANGED <<run, stamp, cache, now>> /\ late' = None /\ Shown(late).at = late.at
      BY <1>6, ShownTyped, Typed DEF LatePush, env
    <2>2. core'.up = core.up /\ core'.inst = core.inst /\ core'.frame \in {core.frame, Shown(late)}
      BY <1>6, DatedTyped DEF LatePush, IpcWeatherUpdate, Cores
    <2> QED
      BY <2>1, <2>2, DatedTyped, DatedInside
  <1>7. CASE MarkPublished
    <2>1. run.pc = "stamp" /\ UNCHANGED <<core, cache, now, late>>
      BY <1>7 DEF MarkPublished, env
    <2>2. CASE run' = AfterFailure
      BY <1>0, <2>1, <2>2, AfterFailureTyped, DatedOutside DEF Holding
    <2>3. CASE Restored(TRUE)
      BY <1>0, <2>1, <2>3, RestoredTyped, DatedOutside DEF Holding, Phases
    <2>4. CASE Goto("enrich") \/ Goto("cache")
      <3>1. run'.w = run.w /\ run'.phase = run.phase /\ run'.pc \in {"enrich", "cache"}
        BY <1>0, <2>4 DEF Goto, Runs
      <3> QED
        BY <2>1, <3>1, DatedInside DEF Holding
    <2> QED
      BY <1>0, <1>7, <2>2, <2>3, <2>4 DEF MarkPublished, Phases
  <1>8. CASE Fetch
    <2>1. UNCHANGED <<core, stamp, cache, now, late>>
      BY <1>8 DEF Fetch, env
    <2>2. ASSUME NEW text \in Alerts, Publish(Normalized(text), "primary") PROVE ForecastsDated'
      <3>1. Normalized(text) \in Forecasts /\ Normalized(text).at = now
        BY <1>0, Typed, WeatherAssumption DEF Normalized, Forecasts, Runs
      <3> QED
        BY <2>1, <2>2, <3>1, DatedTyped, DatedPublish DEF ForecastsDated, Phases
    <2>3. CASE Goto("failure")
      <3>1. run'.w = run.w /\ run'.phase = run.phase /\ run'.pc = "failure"
        BY <1>0, <2>3 DEF Goto, Runs
      <3> QED
        BY <2>1, <3>1, DatedInside DEF Holding
    <2> QED
      BY <1>8, <2>2, <2>3 DEF Fetch
  <1>9. CASE Enrich
    <2>1. /\ run.pc = "enrich" /\ run.phase = "primary" /\ run.w \in Forecasts
          /\ UNCHANGED <<core, stamp, cache, now, late>>
      BY <1>9, Typed DEF Enrich, env, IInv, PartsOfMain, Holding, Runs, Known
    <2>2. ASSUME NEW w \in Forecasts, w.at = run.w.at, Publish(w, "final") PROVE ForecastsDated'
      BY <2>1, <2>2, DatedPublish DEF ForecastsDated, Holding, Phases
    <2>3. /\ Reused(run.w) \in Forecasts /\ Reused(run.w).at = run.w.at
          /\ \A text \in {"detail", "bare"} : /\ Enriched(run.w, text) \in Forecasts
                                            /\ Enriched(run.w, text).at = run.w.at
      BY <2>1 DEF Reused, Enriched, Forecasts
    <2>4. CASE run' = Over("failure")
      BY <1>0, <2>1, <2>4, OverTyped, DatedOutside DEF Holding, Pcs
    <2> QED
      BY <1>9, <2>2, <2>3, <2>4 DEF Enrich
  <1>10. CASE WriteCache
    <2>1. cache' \in {cache, run.w} /\ UNCHANGED <<core, stamp, now, late>>
          /\ (run' = Over("record") \/ run' = Over("failure"))
      BY <1>10 DEF WriteCache, env
    <2> QED
      BY <1>0, <2>1, OverTyped, DatedOutside DEF Holding, Pcs
  <1>11. CASE Failure
    <2>1. PICK pc \in {"load", "record"} :
             /\ run' = [run EXCEPT !.ok = FALSE, !.phase = "rescue", !.tries = 0, !.pc = pc]
             /\ pc = "load" => PublishNeeded
      BY <1>11 DEF Failure
    <2>2. run'.pc = pc /\ run'.w = run.w /\ run'.phase = "rescue"
      BY <1>0, <2>1 DEF Runs
    <2>3. UNCHANGED <<core, stamp, cache, now, late>> /\ PublishNeeded' = PublishNeeded
      BY <1>11 DEF Failure, env, PublishNeeded
    <2> QED
      BY <2>1, <2>2, <2>3 DEF ForecastsDated, Holding
  <1>12. CASE RecordRun \/ Kill
    BY <1>0, <1>12, NoRunTyped, DatedOutside DEF RecordRun, Kill, env, Holding
  <1>13. CASE CoreRestart
    <2>1. PICK kept \in BOOLEAN : CoreDown(kept)
      BY <1>13 DEF CoreRestart
    <2>2. core'.frame = None /\ UNCHANGED <<cache, now>>
      BY <2>1, CoreDownTyped DEF env
    <2>3. run'.w = None /\ run'.pc = "idle"
      BY <1>0, <1>13, NoRunTyped DEF CoreRestart, IInv, PartsOfMain
    <2> QED
      BY <1>13, <2>2, <2>3, DatedOutside DEF CoreRestart, Holding
  <1>14. CASE CoreCrash
    <2>1. PICK kept \in BOOLEAN : CoreDown(kept)
      BY <1>14 DEF CoreCrash
    <2>2. core'.frame = None /\ ~core'.up /\ UNCHANGED <<cache, now, late>>
      BY <1>14, <2>1, CoreDownTyped DEF env, CoreCrash
    <2>3. PICK c : run' = [run EXCEPT !.crossed = c]
      BY <1>14 DEF CoreCrash
    <2>4. run'.w = run.w /\ run'.pc = run.pc /\ run'.phase = run.phase
      BY <1>0, <2>3 DEF Runs
    <2> QED
      BY <2>2, <2>4, DatedTyped DEF ForecastsDated, PublishNeeded
  <1>15. CASE CoreUp
    <2>1. core'.frame = core.frame /\ core'.inst = core.inst + 1 /\ stamp' = stamp
          /\ UNCHANGED <<cache, now, late, run>>
      BY <1>15, DatedTyped DEF CoreUp, Cores, env
    <2>2. PublishNeeded'
      BY <2>1, DatedTyped DEF PublishNeeded
    <2> QED
      BY <2>1, <2>2 DEF ForecastsDated
  <1>16. CASE Tick \/ ChangeSource \/ UNCHANGED vars
    <2>1. now' \in Nat /\ now <= now' /\ UNCHANGED <<core, stamp, cache, late, run>>
      BY <1>16, DatedTyped DEF Tick, ChangeSource, vars
    <2>2. PublishNeeded' = PublishNeeded
      BY <2>1 DEF PublishNeeded
    <2> QED
      BY <2>1, <2>2, DatedTyped DEF ForecastsDated
  <1> QED
    BY <1>1, <1>2, <1>3, <1>4, <1>5, <1>6, <1>7, <1>8, <1>9, <1>10, <1>11, <1>12, <1>13, <1>14, <1>15, <1>16
    DEF Next, Program

LEMMA DatedInvariance == Spec => [](IInv /\ ForecastsDated)
  <1>1. Init => ForecastsDated
    <2> SUFFICES ASSUME Init PROVE ForecastsDated
      OBVIOUS
    <2>1. run.pc = "idle" /\ run.w = None
      BY NoRunTyped DEF Init
    <2> QED
      BY <2>1 DEF Init, ForecastsDated, Holding, None
  <1> QED
    BY <1>1, InitHolds, StepKeeps, DatedKeeps, PTL DEF Spec

\* While the stamp says that the core has its weather, no run puts an older forecast in
\* its place: what a run publishes then is what it fetched itself
\* (runtime_weather_publish_needed, restore_cached_weather_runtime, main).
THEOREM AdvanceCorrect == Spec => ForecastsAdvance
  <1>1. ASSUME IInv, ForecastsDated, [Next]_vars, core'.frame # core.frame,
               None \notin {core.frame, core'.frame}, ~PublishNeeded, ~core'.late
        PROVE  core'.frame.at >= core.frame.at
    <2>1. PushAttempt
      <3>1. ~LatePush
        BY <1>1, DatedTyped DEF LatePush, IpcWeatherUpdate, Cores
      <3>2. ~CoreCrash /\ ~CoreRestart
        BY <1>1, CoreDownTyped DEF CoreCrash, CoreRestart
      <3>3. ~CoreUp
        BY <1>1, DatedTyped DEF CoreUp, Cores
      <3> QED
        BY <1>1, <3>1, <3>2, <3>3
        DEF Next, Program, vars, Start, LoadCache, PrepareIcon, RollbackIcon, MarkPublished, Fetch,
            Enrich, WriteCache, Failure, RecordRun, Kill, ChangeSource, Tick
    <2>2. run.pc = "push" /\ core'.frame = Shown(run.w) /\ Shown(run.w).at = run.w.at
      BY <1>1, <2>1, DatedTyped, ShownTyped DEF PushAttempt, IpcWeatherUpdate, Cores
    <2>3. run.phase \in {"primary", "final"}
      BY <1>1, <2>2, Typed DEF ForecastsDated, Runs, Phases
    <2> QED
      BY <1>1, <2>2, <2>3, DatedTyped DEF ForecastsDated, Holding
  <1> QED
    BY <1>1, DatedInvariance, PTL DEF Spec, ForecastsAdvance

\* A run ends by itself, or is killed.
LEMMA RunEnds ==
  ASSUME IInv, [Next]_vars, run.pc # "idle", run'.pc = "idle"
  PROVE  RecordRun \/ result' = "killed"
  <1>0. run \in Runs /\ run.phase \in Phases
    BY Typed DEF Runs
  <1>1. ASSUME NEW w, NEW phase, Publish(w, phase) PROVE FALSE
    BY <1>0, <1>1 DEF Publish, Runs
  <1>2. \A pc \in Pcs \ {"idle"} : run' # Over(pc)
    BY <1>0, OverTyped
  <1>3. run' # AfterFailure
    BY <1>0, AfterFailureTyped
  <1>4. \A ok \in BOOLEAN : ~Restored(ok)
    BY <1>0, RestoredTyped
  <1>5. \A refused \in BOOLEAN : run.pc = "push" => ~AttemptFailed(refused)
    BY <1>0, AttemptFailedTyped
  <1>6. ~Goto("failure") /\ ~Goto("enrich") /\ ~Goto("cache")
    BY <1>0 DEF Goto, Runs
  <1>7. {"failure", "record"} \subseteq Pcs \ {"idle"}
    BY DEF Pcs
  <1>8. ~LoadCache /\ ~Fetch /\ ~Enrich /\ ~WriteCache
    BY <1>1, <1>2, <1>4, <1>6, <1>7 DEF LoadCache, Fetch, Enrich, WriteCache
  <1>9. ~PrepareIcon /\ ~RollbackIcon /\ ~Failure
    BY <1>0, <1>3 DEF PrepareIcon, RollbackIcon, Failure, Runs
  <1>10. ~PushAttempt
    BY <1>0, <1>5 DEF PushAttempt, Runs
  <1>11. ~MarkPublished
    BY <1>0, <1>3, <1>4, <1>6 DEF MarkPublished, Phases
  <1>12. ~CoreCrash
    <2>1. ASSUME NEW c, run' = [run EXCEPT !.crossed = c] PROVE FALSE
      BY <1>0, <2>1 DEF Runs
    <2> QED
      BY <2>1 DEF CoreCrash
  <1> QED
    BY <1>8, <1>9, <1>10, <1>11, <1>12
    DEF Next, Program, Start, Kill, CoreRestart, LatePush, CoreUp, ChangeSource, Tick, vars

\* A run that failed leaves the icon files as it found them, unless a push of it was
\* handled or a file could not be read or written back; and no run loses the saved text
\* of a bulletin that stands, but one that was given the alert without a text or could
\* not read the cache (rollback_runtime_icons, enrich_warning_details, main).
THEOREM RunsCorrect == Spec => RunsKeep
  <1>1. ASSUME IInv, [Next]_vars, run.pc # "idle", run'.pc = "idle", result' = "error",
               ~found.excused
        PROVE  icons' = found.icons
    <2>1. run.pc = "record" /\ icons' = icons
      BY <1>1, RunEnds DEF RecordRun
    <2> QED
      BY <1>1, <2>1 DEF IInv, IconsRecoverable
  <1>2. ASSUME IInv, [Next]_vars, cache' # cache, cache.text = "detail",
               cache'.text \notin {"none", "bare"}
        PROVE  cache'.text = "detail"
    <2>1. WriteCache
      BY <1>2 DEF Next, Program, vars, Start, LoadCache, PrepareIcon, RollbackIcon, PushAttempt,
                  MarkPublished, Fetch, Enrich, Failure, RecordRun, LatePush, Kill, CoreCrash,
                  CoreRestart, CoreDown, CoreUp, ChangeSource, Tick
    <2>2. cache' = run.w /\ run.pc = "cache"
      BY <1>2, <2>1 DEF WriteCache
    <2> QED
      BY <1>2, <2>2 DEF IInv, TextCarried, PartsOfMain, Holding
  <1> QED
    BY <1>1, <1>2, Invariance, PTL DEF Spec, RunsKeep, FailureLeavesIcons, BulletinKept
=============================================================================
