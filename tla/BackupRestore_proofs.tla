------------------------ MODULE BackupRestore_proofs ------------------------
(***************************************************************************)
(* Proofs about BackupRestore, for any clients, fonts and archive, and any *)
(* number of failures, crashes of the core and changes by others.          *)
(***************************************************************************)
EXTENDS BackupRestore, TLAPS

-----------------------------------------------------------------------------
(* The inductive invariant.                                                 *)

\* The steps of a restore once it has looked at the weather files.
Moving == {"protect", "copy", "source", "frames", "import", "commit", "clear", "back"}
Ending == {"oldSource", "oldFrames", "reimport"}

\* Only the request that holds the lock is under way, and only where it calls the
\* core is there an answer to wait for.
Alone ==
  \A c \in Conns :
    /\ conn[c].pc # "idle" <=> lock = c
    /\ conn[c].call # None => conn[c].pc \in CallPcs
    /\ conn[c].pc \in Moving \cup Ending \cup {"prepare"} => conn[c].kind = "restore"
    /\ conn[c].pc = "zip" => conn[c].kind = "download"

\* A request that has not asked the core for anything that it has not done, and one
\* that has the export.
Calm(r) == \/ r.pc \in {"prepare", "weather", "protect", "copy", "source", "frames", "zip"}
           \/ r.pc \in {"export", "import"} /\ r.call = None
           \/ r.pc = "export" /\ r.call = "ok"
Informed(r) == \/ r.pc \in Moving \cup Ending \cup {"weather", "zip"}
               \/ r.pc = "export" /\ r.call = "ok"

\* What was exported and read is there to be put back.
Protecting ==
  /\ kept # NoFonts => \E c \in Conns : conn[c].pc \in Moving
  /\ \A c \in Conns :
       /\ Informed(conn[c]) => conn[c].seen.settings \in Versions
       /\ conn[c].pc \in Moving \cup Ending =>
            conn[c].seen.weather \in [source : Versions, frames : Versions]

\* The core's socket holds a request of the caller that waits for its answer, once,
\* besides those whose callers have gone.
Queue ==
  LET I == core.inbox IN
  /\ \A i \in DOMAIN I :
       /\ I[i].op # "export" => I[i].value \in Versions
       /\ I[i].from # None => /\ conn[I[i].from].call = "sent"
                              /\ I[i].op = conn[I[i].from].pc
  /\ \A i, j \in DOMAIN I : I[i].from = I[j].from /\ I[i].from # None => i = j

\* A request that nobody has come in between of.
Undisturbed(c) == lock = c /\ ~touched

\* The settings, what the core's socket will make of them, and the export.
SettingsKnown(c) ==
  LET I == core.inbox  r == conn[c] IN
  /\ Calm(r) => I = <<>> /\ settings = before.settings
  /\ r.pc = "export" => settings = before.settings /\ \A i \in DOMAIN I : I[i].op = "export"
  /\ r.pc = "export" /\ r.call = "sent" => Len(I) = 1 /\ I[1].from = c
  /\ r.pc = "import" /\ r.call = "sent" =>
       /\ settings = before.settings
       /\ Len(I) = 1 /\ I[1].op = "import" /\ I[1].value = "backup" /\ I[1].from = c
  /\ (r.pc = "import" /\ r.call = "ok") \/ r.pc = "commit" => I = <<>> /\ settings = "backup"
  /\ r.pc = "reimport" /\ r.call = "refused" => spoiled
  /\ r.pc = "reimport" /\ r.call # None /\ ~spoiled =>
       IF I = <<>> THEN settings = before.settings
       ELSE I[Len(I)].op = "reimport" /\ I[Len(I)].value = before.settings
  /\ Informed(r) => r.seen.settings = before.settings

\* The weather files.
WeatherKnown(c) ==
  LET r == conn[c] IN
  /\ r.pc \in {"prepare", "export", "weather", "protect", "copy", "source", "zip"} =>
       weather = before.weather
  /\ r.pc \in Moving \cup Ending \cup {"zip"} => r.seen.weather = before.weather
  /\ r.pc = "frames" => weather.source = "backup" /\ weather.frames = before.weather.frames
  /\ r.pc \in {"import", "commit"} => weather = Backup.weather
  /\ r.pc = "oldFrames" /\ ~spoiled => weather.source = before.weather.source
  /\ r.pc = "reimport" /\ ~spoiled => weather = before.weather

\* A font is in its place or aside.
Either(f) == \/ fonts[f] = before.fonts[f] /\ kept[f] = None
             \/ fonts[f] = None /\ kept[f] = before.fonts[f]

\* The fonts.
FontsKnown(c) ==
  LET r == conn[c] IN
  /\ r.pc \in {"prepare", "export", "weather", "zip"} => fonts = before.fonts
  /\ r.pc \in {"prepare", "export", "weather"} => r.seen.fonts = NoFonts
  /\ r.pc = "protect" \/ (r.pc = "back" /\ ~spoiled) => \A f \in Fonts : Either(f)
  /\ r.pc = "protect" \/ (r.pc = "clear" /\ ~spoiled) =>
       \A f \in Fonts : fonts[f] # None => f \in r.left
  /\ r.pc \in {"copy", "source", "frames", "import", "commit", "clear"} => kept = before.fonts
  /\ r.pc = "copy" =>
       /\ r.left \subseteq Archived
       /\ fonts = [f \in Fonts |-> IF f \in Archived \ r.left THEN "backup" ELSE None]
  /\ r.pc \in {"source", "frames", "import", "commit"} => fonts = Backup.fonts
  /\ r.pc \in Ending /\ ~spoiled => fonts = before.fonts
  /\ r.pc = "zip" => \A f \in Fonts \ r.left : r.seen.fonts[f] = fonts[f]

Known == \A c \in Conns : Undisturbed(c) => SettingsKnown(c) /\ WeatherKnown(c) /\ FontsKnown(c)

IInv == TypeOK /\ Alone /\ Protecting /\ Queue /\ Known

-----------------------------------------------------------------------------
(* Types.                                                                   *)

LEMMA NoFontsTyped == /\ NoFonts \in [Fonts -> Contents] /\ \A f \in Fonts : NoFonts[f] = None
                      /\ None \in Contents /\ Versions \subseteq Contents /\ None \notin Versions
                      /\ "backup" \in Versions /\ "before" \in Versions /\ "other" \in Versions
  BY DEF NoFonts, Contents, Versions, None

LEMMA NothingTyped == Nothing \in Everything
  BY NoFontsTyped DEF Nothing, Everything, WeatherFiles

LEMMA QuietTyped == /\ Quiet \in Connections /\ Quiet.pc = "idle" /\ Quiet.call = None
                    /\ Quiet.seen = Nothing
  BY NothingTyped DEF Quiet, Connections, Pcs

LEMMA BackupTyped == /\ Backup.weather = [source |-> "backup", frames |-> "backup"]
                     /\ Backup.weather.source = "backup" /\ Backup.weather.frames = "backup"
                     /\ Backup.fonts = [f \in Fonts |-> IF f \in Archived THEN "backup" ELSE None]
                     /\ Backup.fonts \in [Fonts -> Contents]
  BY NoFontsTyped DEF Backup

LEMMA Typed ==
  ASSUME IInv
  PROVE  /\ settings \in Versions /\ weather \in [source : Versions, frames : Versions]
         /\ fonts \in [Fonts -> Contents] /\ kept \in [Fonts -> Contents]
         /\ core \in [up : BOOLEAN, inbox : Seq(Requests)] /\ lock \in Conns \cup {None}
         /\ conn \in [Conns -> Connections] /\ answer \in {None, "ok", "failed", "unprotected", "refused"}
         /\ faults \in 0..MaxFaults /\ others \in 0..MaxOthers
         /\ before \in Everything /\ touched \in BOOLEAN /\ spoiled \in BOOLEAN
         /\ MaxFaults \in Nat /\ MaxOthers \in Nat
         /\ before.fonts \in [Fonts -> Contents]
  BY BoundsAssumption DEF IInv, TypeOK, Everything

LEMMA InboxTyped ==
  ASSUME IInv
  PROVE  /\ core.inbox \in Seq(Requests) /\ core.up \in BOOLEAN /\ Len(core.inbox) \in Nat
         /\ DOMAIN core.inbox = 1..Len(core.inbox)
         /\ \A i \in DOMAIN core.inbox :
              /\ core.inbox[i] \in Requests
              /\ core.inbox[i].from \in Conns \cup {None}
  <1>1. core.inbox \in Seq(Requests) /\ core.up \in BOOLEAN
    BY Typed
  <1>2. \A i \in DOMAIN core.inbox : core.inbox[i] \in Requests
    BY <1>1
  <1> QED
    BY <1>1, <1>2 DEF Requests

\* The connection that is at work holds the lock.
LEMMA Holds ==
  ASSUME IInv, NEW c \in Conns, conn[c].pc # "idle"
  PROVE  /\ lock = c /\ lock # None /\ \A d \in Conns : d # c => conn[d].pc = "idle"
         /\ conn[c] \in Connections
  BY Typed, ConnsAssumption DEF IInv, Alone

-----------------------------------------------------------------------------
(* What many actions have in common.                                        *)

\* A step of the request that holds the lock, away from the core.
LEMMA FileStep ==
  ASSUME IInv, NEW c \in Conns, NEW r \in Connections,
         conn[c].pc # "idle", r.pc # "idle", conn[c].call # "sent", r.call = None,
         conn' = [conn EXCEPT ![c] = r], r.kind = conn[c].kind,
         UNCHANGED <<settings, core, lock>>, UNCHANGED <<answer, others, before, touched>>,
         weather' \in [source : Versions, frames : Versions], fonts' \in [Fonts -> Contents],
         kept' \in [Fonts -> Contents], faults' \in 0..MaxFaults, spoiled' \in BOOLEAN,
         r.pc \in Moving \cup Ending \cup {"prepare"} => r.kind = "restore",
         r.pc = "zip" => r.kind = "download",
         kept' # NoFonts => r.pc \in Moving,
         Informed(r) => r.seen.settings \in Versions,
         r.pc \in Moving \cup Ending => r.seen.weather \in [source : Versions, frames : Versions],
         ~touched => SettingsKnown(c)' /\ WeatherKnown(c)' /\ FontsKnown(c)'
  PROVE  IInv'
  <1>1. conn'[c] = r /\ \A d \in Conns : d # c => conn'[d] = conn[d]
    BY Typed
  <1>2. lock = c /\ lock # None
    BY Holds
  <1>3. TypeOK'
    BY <1>2, Typed DEF TypeOK
  <1>4. Alone'
    BY <1>1, <1>2 DEF IInv, Alone
  <1>5. Protecting'
    BY <1>1, NoFontsTyped DEF IInv, Protecting
  <1>6. Queue'
    <2>1. \A i \in DOMAIN core.inbox : core.inbox[i].from \in Conns \cup {None}
      BY InboxTyped
    <2>2. \A i \in DOMAIN core.inbox : core.inbox[i].from # c
      BY ConnsAssumption DEF IInv, Queue
    <2> QED
      BY <1>1, <2>1, <2>2 DEF IInv, Queue
  <1>7. Known'
    BY <1>2 DEF Known, Undisturbed
  <1> QED
    BY <1>3, <1>4, <1>5, <1>6, <1>7 DEF IInv

\* The lock is released.
LEMMA AnswerStep ==
  ASSUME IInv, NEW c \in Conns, conn[c].pc # "idle", conn[c].call # "sent",
         NEW a \in {None, "ok", "failed", "unprotected", "refused"}, Answer(c, a),
         UNCHANGED <<settings, weather, fonts, core>>, kept' = NoFonts, faults' \in 0..MaxFaults
  PROVE  IInv'
  <1>1. /\ conn'[c] = Quiet /\ \A d \in Conns : d # c => conn'[d] = conn[d]
        /\ conn' \in [Conns -> Connections]
    BY Typed, QuietTyped DEF Answer
  <1>2. lock = c /\ lock # None /\ \A d \in Conns : d # c => conn[d].pc = "idle"
    BY Holds
  <1>3. TypeOK'
    BY <1>1, <1>2, Typed, NothingTyped, NoFontsTyped DEF TypeOK, Answer
  <1>4. Alone'
    BY <1>1, <1>2, ConnsAssumption, QuietTyped DEF IInv, Alone, Answer, Moving, Ending
  <1>5. Protecting'
    BY <1>1, QuietTyped DEF IInv, Protecting, Informed, Moving, Ending
  <1>6. Queue'
    <2>1. \A i \in DOMAIN core.inbox : core.inbox[i].from \in Conns \cup {None}
      BY InboxTyped
    <2>2. \A i \in DOMAIN core.inbox : core.inbox[i].from # c
      BY ConnsAssumption DEF IInv, Queue
    <2> QED
      BY <1>1, <2>1, <2>2 DEF IInv, Queue
  <1>7. Known'
    BY ConnsAssumption DEF Known, Undisturbed, Answer
  <1> QED
    BY <1>3, <1>4, <1>5, <1>6, <1>7 DEF IInv

\* What is known of the request that holds the lock.
LEMMA KnownOf ==
  ASSUME IInv, NEW c \in Conns, conn[c].pc # "idle", ~touched
  PROVE  SettingsKnown(c) /\ WeatherKnown(c) /\ FontsKnown(c)
  BY Holds DEF IInv, Known, Undisturbed

\* Where a restore or a backup goes from one step to the next without the core, the
\* settings stay what they are known to be.
LEMMA SettingsStay ==
  ASSUME IInv, NEW c \in Conns, NEW r \in Connections, conn[c].pc # "idle", ~touched,
         conn' = [conn EXCEPT ![c] = r], r.call = None,
         UNCHANGED <<settings, core, before>>,
         r.pc \notin {"commit", "export", "idle"}, Calm(r) => Calm(conn[c]), Informed(r) => Informed(conn[c]),
         r.seen.settings = conn[c].seen.settings
  PROVE  SettingsKnown(c)'
  <1>1. conn'[c] = r
    BY Typed
  <1>2. SettingsKnown(c)
    BY KnownOf
  <1> QED
    BY <1>1, <1>2 DEF SettingsKnown, Calm, Informed, None

\* A step of a restore among its files.
LEMMA RestoreStep ==
  ASSUME IInv, NEW c \in Conns, NEW r \in Connections,
         conn[c].pc \in Moving \cup Ending, r.pc \in (Moving \cup Ending) \ {"commit"},
         conn[c].call # "sent", r.call = None, r.kind = conn[c].kind, r.seen = conn[c].seen,
         Calm(r) => Calm(conn[c]),
         conn' = [conn EXCEPT ![c] = r],
         UNCHANGED <<settings, core, lock>>, KeepHistory,
         weather' \in [source : Versions, frames : Versions], fonts' \in [Fonts -> Contents],
         kept' \in [Fonts -> Contents], faults' \in 0..MaxFaults, spoiled' \in BOOLEAN,
         kept' # NoFonts => r.pc \in Moving,
         ~touched => WeatherKnown(c)' /\ FontsKnown(c)'
  PROVE  IInv'
  <1>1. /\ conn[c].pc # "idle" /\ r.pc # "idle" /\ r.pc # "zip" /\ r.pc # "export"
        /\ conn[c].kind = "restore" /\ Informed(conn[c])
    BY DEF Moving, Ending, IInv, Alone, Informed
  <1>2. /\ conn[c].seen.settings \in Versions
        /\ conn[c].seen.weather \in [source : Versions, frames : Versions]
    BY <1>1 DEF IInv, Protecting
  <1>3. ~touched => SettingsKnown(c)'
    BY <1>1, SettingsStay DEF KeepHistory
  <1> QED
    BY <1>1, <1>2, <1>3, FileStep DEF KeepHistory

\* What Move, MoveTo and Seen make of the connection.
LEMMA MoveMakes ==
  ASSUME IInv, NEW c \in Conns, NEW to \in Pcs, Move(c, to)
  PROVE  \E r \in Connections :
           /\ conn' = [conn EXCEPT ![c] = r]
           /\ r.pc = to /\ r.left = conn[c].left /\ r.call = conn[c].call
           /\ r.kind = conn[c].kind /\ r.seen = conn[c].seen
  <1> DEFINE r == [conn[c] EXCEPT !.pc = to]
  <1>1. conn' = [conn EXCEPT ![c] = r]
    BY DEF Move
  <1>2. /\ r \in Connections /\ r.pc = to /\ r.left = conn[c].left /\ r.call = conn[c].call
        /\ r.kind = conn[c].kind /\ r.seen = conn[c].seen
    BY Typed DEF Connections
  <1> QED
    BY <1>1, <1>2

LEMMA MoveToMakes ==
  ASSUME IInv, NEW c \in Conns, NEW to \in Pcs, NEW left \in SUBSET Fonts, MoveTo(c, to, left)
  PROVE  \E r \in Connections :
           /\ conn' = [conn EXCEPT ![c] = r]
           /\ r.pc = to /\ r.left = left /\ r.call = conn[c].call
           /\ r.kind = conn[c].kind /\ r.seen = conn[c].seen
  <1> DEFINE r == [conn[c] EXCEPT !.pc = to, !.left = left]
  <1>1. conn' = [conn EXCEPT ![c] = r]
    BY DEF MoveTo
  <1>2. /\ r \in Connections /\ r.pc = to /\ r.left = left /\ r.call = conn[c].call
        /\ r.kind = conn[c].kind /\ r.seen = conn[c].seen
    BY Typed DEF Connections
  <1> QED
    BY <1>1, <1>2

LEMMA SeenMakes ==
  ASSUME IInv, NEW c \in Conns, NEW f \in Fonts, Seen(c, f)
  PROVE  \E r \in Connections :
           /\ conn' = [conn EXCEPT ![c] = r]
           /\ r.pc = conn[c].pc /\ r.left = conn[c].left \ {f} /\ r.call = conn[c].call
           /\ r.kind = conn[c].kind /\ r.seen = conn[c].seen
  <1> DEFINE r == [conn[c] EXCEPT !.left = @ \ {f}]
  <1>1. conn' = [conn EXCEPT ![c] = r]
    BY DEF Seen
  <1>2. /\ r \in Connections /\ r.pc = conn[c].pc /\ r.left = conn[c].left \ {f} /\ r.call = conn[c].call
        /\ r.kind = conn[c].kind /\ r.seen = conn[c].seen
    BY Typed DEF Connections
  <1> QED
    BY <1>1, <1>2

\* Away from its calls a request waits for no answer.
LEMMA NoCall ==
  ASSUME IInv, NEW c \in Conns, conn[c].pc \notin CallPcs
  PROVE  conn[c].call = None /\ conn[c].call # "sent"
  BY DEF IInv, Alone, None

\* One more fault is within its bound.
LEMMA FaultTyped == /\ IInv /\ Fault => faults' \in 0..MaxFaults
                    /\ IInv /\ UNCHANGED faults => faults' \in 0..MaxFaults
  BY Typed DEF Fault

-----------------------------------------------------------------------------
(* The fonts are moved aside, and the archive's are copied.                 *)

LEMMA MoveOutKeeps == ASSUME IInv, NEW c \in Conns, MoveOut(c) PROVE IInv'
  <1>1. PICK f \in Stored : /\ kept' = [kept EXCEPT ![f] = fonts[f]]
                            /\ fonts' = [fonts EXCEPT ![f] = None] /\ Seen(c, f)
    BY DEF MoveOut
  <1>2. /\ conn[c].pc = "protect" /\ f \in Fonts /\ fonts[f] # None
        /\ UNCHANGED <<settings, weather, core, lock, faults, spoiled>> /\ KeepHistory
        /\ conn[c].call = None /\ conn[c].call # "sent"
    BY NoCall DEF MoveOut, Stored, CallPcs
  <1>3. PICK r \in Connections :
          /\ conn' = [conn EXCEPT ![c] = r]
          /\ r.pc = conn[c].pc /\ r.left = conn[c].left \ {f} /\ r.call = conn[c].call
          /\ r.kind = conn[c].kind /\ r.seen = conn[c].seen
    BY <1>1, <1>2, SeenMakes
  <1>4. conn'[c] = r
    BY <1>3, Typed
  <1>5. /\ fonts' \in [Fonts -> Contents] /\ kept' \in [Fonts -> Contents]
        /\ fonts'[f] = None /\ kept'[f] = fonts[f]
        /\ \A g \in Fonts : g # f => fonts'[g] = fonts[g] /\ kept'[g] = kept[g]
    BY <1>1, <1>2, Typed, NoFontsTyped
  <1>6. ASSUME ~touched PROVE WeatherKnown(c)' /\ FontsKnown(c)'
    <2>1. WeatherKnown(c) /\ FontsKnown(c)
      BY <1>2, <1>6, KnownOf
    <2>2. WeatherKnown(c)'
      BY <1>2, <1>3, <1>4, <2>1 DEF WeatherKnown, KeepHistory
    <2>3. \A g \in Fonts : Either(g)'
      BY <1>2, <1>5, <2>1 DEF FontsKnown, Either, KeepHistory
    <2>4. \A g \in Fonts : fonts'[g] # None => g \in r.left
      BY <1>2, <1>3, <1>5, <2>1 DEF FontsKnown
    <2> QED
      BY <1>2, <1>3, <1>4, <2>2, <2>3, <2>4 DEF FontsKnown, Ending
  <1>7. faults' \in 0..MaxFaults /\ spoiled' \in BOOLEAN
        /\ weather' \in [source : Versions, frames : Versions]
    BY <1>2, Typed
  <1> QED
    BY <1>2, <1>3, <1>5, <1>6, <1>7, RestoreStep DEF Moving, Calm

LEMMA ProtectedKeeps == ASSUME IInv, NEW c \in Conns, Protected(c) PROVE IInv'
  <1>1. /\ conn[c].pc = "protect" /\ Listed(c) = {} /\ MoveTo(c, "copy", Archived)
        /\ UNCHANGED <<settings, weather, fonts, kept, core, lock, faults, spoiled>> /\ KeepHistory
        /\ conn[c].call = None /\ conn[c].call # "sent"
    BY NoCall DEF Protected, CallPcs
  <1>2. PICK r \in Connections :
          /\ conn' = [conn EXCEPT ![c] = r]
          /\ r.pc = "copy" /\ r.left = Archived /\ r.call = conn[c].call
          /\ r.kind = conn[c].kind /\ r.seen = conn[c].seen
    <2>1. "copy" \in Pcs /\ Archived \in SUBSET Fonts
      BY ArchiveAssumption DEF Pcs
    <2> QED
      BY <1>1, <2>1, MoveToMakes
  <1>3. conn'[c] = r
    BY <1>2, Typed
  <1>4. ASSUME ~touched PROVE WeatherKnown(c)' /\ FontsKnown(c)'
    <2>1. WeatherKnown(c) /\ FontsKnown(c)
      BY <1>1, <1>4, KnownOf
    <2>2. WeatherKnown(c)'
      BY <1>1, <1>2, <1>3, <2>1 DEF WeatherKnown, KeepHistory, Moving
    <2>4. \A f \in Fonts : fonts[f] = None /\ kept[f] = before.fonts[f]
      BY <1>1, <2>1 DEF FontsKnown, Either, Listed, Stored
    <2>5. fonts = [f \in Fonts |-> IF f \in Archived \ r.left THEN "backup" ELSE None] /\ kept = before.fonts
      BY <1>2, <2>4, Typed
    <2> QED
      BY <1>1, <1>2, <1>3, <2>2, <2>5 DEF FontsKnown, KeepHistory, Ending
  <1> QED
    BY <1>1, <1>2, <1>4, Typed, RestoreStep DEF Moving, Calm

LEMMA CopyFontKeeps == ASSUME IInv, NEW c \in Conns, CopyFont(c) PROVE IInv'
  <1>1. PICK f \in conn[c].left : fonts' = [fonts EXCEPT ![f] = "backup"] /\ Seen(c, f)
    BY DEF CopyFont
  <1>2. /\ conn[c].pc = "copy" /\ f \in Fonts
        /\ UNCHANGED <<settings, weather, kept, core, lock, faults, spoiled>> /\ KeepHistory
        /\ conn[c].call = None /\ conn[c].call # "sent"
    BY NoCall, Typed DEF CopyFont, CallPcs, Connections
  <1>3. PICK r \in Connections :
          /\ conn' = [conn EXCEPT ![c] = r]
          /\ r.pc = conn[c].pc /\ r.left = conn[c].left \ {f} /\ r.call = conn[c].call
          /\ r.kind = conn[c].kind /\ r.seen = conn[c].seen
    BY <1>1, <1>2, SeenMakes
  <1>4. conn'[c] = r
    BY <1>3, Typed
  <1>5. fonts' \in [Fonts -> Contents]
    BY <1>1, <1>2, Typed, NoFontsTyped
  <1>6. ASSUME ~touched PROVE WeatherKnown(c)' /\ FontsKnown(c)'
    <2>1. WeatherKnown(c) /\ FontsKnown(c)
      BY <1>2, <1>6, KnownOf
    <2>2. WeatherKnown(c)'
      BY <1>2, <1>3, <1>4, <2>1 DEF WeatherKnown, KeepHistory
    <2>3. /\ conn[c].left \subseteq Archived /\ f \in Archived
          /\ fonts = [g \in Fonts |-> IF g \in Archived \ conn[c].left THEN "backup" ELSE None]
      BY <1>2, <2>1 DEF FontsKnown
    <2>4. fonts' = [g \in Fonts |-> IF g \in Archived \ r.left THEN "backup" ELSE None]
      BY <1>1, <1>2, <1>3, <2>3
    <2> QED
      BY <1>2, <1>3, <1>4, <2>1, <2>2, <2>3, <2>4 DEF FontsKnown, KeepHistory, Ending
  <1>7. faults' \in 0..MaxFaults /\ spoiled' \in BOOLEAN /\ kept' \in [Fonts -> Contents]
        /\ weather' \in [source : Versions, frames : Versions]
    BY <1>2, Typed
  <1> QED
    BY <1>2, <1>3, <1>5, <1>6, <1>7, RestoreStep DEF Moving, Calm

LEMMA CopiedKeeps == ASSUME IInv, NEW c \in Conns, Copied(c) PROVE IInv'
  <1>1. /\ conn[c].pc = "copy" /\ conn[c].left = {} /\ Move(c, "source")
        /\ UNCHANGED <<settings, weather, fonts, kept, core, lock, faults, spoiled>> /\ KeepHistory
        /\ conn[c].call = None /\ conn[c].call # "sent"
    BY NoCall DEF Copied, CallPcs
  <1>2. PICK r \in Connections :
          /\ conn' = [conn EXCEPT ![c] = r]
          /\ r.pc = "source" /\ r.left = conn[c].left /\ r.call = conn[c].call
          /\ r.kind = conn[c].kind /\ r.seen = conn[c].seen
    BY <1>1, MoveMakes DEF Pcs
  <1>3. conn'[c] = r
    BY <1>2, Typed
  <1>4. ASSUME ~touched PROVE WeatherKnown(c)' /\ FontsKnown(c)'
    <2>1. WeatherKnown(c) /\ FontsKnown(c)
      BY <1>1, <1>4, KnownOf
    <2>2. WeatherKnown(c)'
      BY <1>1, <1>2, <1>3, <2>1 DEF WeatherKnown, KeepHistory, Moving
    <2>3. fonts = Backup.fonts /\ kept = before.fonts
      BY <1>1, <2>1, BackupTyped DEF FontsKnown
    <2> QED
      BY <1>1, <1>2, <1>3, <2>2, <2>3 DEF FontsKnown, KeepHistory, Ending
  <1> QED
    BY <1>1, <1>2, <1>4, Typed, RestoreStep DEF Moving, Calm

\* A restore that fails turns to the way back, before any step of which has failed.
LEMMA CopyFailsKeeps == ASSUME IInv, NEW c \in Conns, CopyFails(c) PROVE IInv'
  <1> DEFINE left == {f \in Fonts : fonts'[f] # None}
  <1>1. /\ conn[c].pc = "copy" /\ MoveTo(c, "clear", left)
        /\ UNCHANGED <<settings, weather, kept, core, lock, spoiled>> /\ KeepHistory
        /\ conn[c].call = None /\ conn[c].call # "sent" /\ faults' \in 0..MaxFaults
    BY NoCall, FaultTyped DEF CopyFails, CallPcs
  <1>2. fonts' \in [Fonts -> Contents]
    BY Typed, NoFontsTyped DEF CopyFails
  <1>3. PICK r \in Connections :
          /\ conn' = [conn EXCEPT ![c] = r]
          /\ r.pc = "clear" /\ r.left = left /\ r.call = conn[c].call
          /\ r.kind = conn[c].kind /\ r.seen = conn[c].seen
    <2>1. "clear" \in Pcs /\ left \in SUBSET Fonts
      BY DEF Pcs
    <2> HIDE DEF left
    <2> QED
      BY <1>1, <2>1, MoveToMakes
  <1>4. conn'[c] = r
    BY <1>3, Typed
  <1>5. ASSUME ~touched PROVE WeatherKnown(c)' /\ FontsKnown(c)'
    <2>1. WeatherKnown(c) /\ FontsKnown(c)
      BY <1>1, <1>5, KnownOf
    <2>2. WeatherKnown(c)'
      BY <1>1, <1>3, <1>4, <2>1 DEF WeatherKnown, KeepHistory, Moving
    <2> QED
      BY <1>1, <1>3, <1>4, <2>1, <2>2 DEF FontsKnown, KeepHistory, Ending
  <1> QED
    BY <1>1, <1>2, <1>3, <1>5, Typed, RestoreStep DEF Moving, Calm

-----------------------------------------------------------------------------
(* The weather files.                                                       *)

LEMMA WriteSourceKeeps == ASSUME IInv, NEW c \in Conns, WriteSource(c) PROVE IInv'
  <1>1. /\ conn[c].pc = "source" /\ weather' = [weather EXCEPT !.source = "backup"] /\ Move(c, "frames")
        /\ UNCHANGED <<settings, fonts, kept, core, lock, faults, spoiled>> /\ KeepHistory
        /\ conn[c].call = None /\ conn[c].call # "sent"
    BY NoCall DEF WriteSource, CallPcs
  <1>2. PICK r \in Connections :
          /\ conn' = [conn EXCEPT ![c] = r]
          /\ r.pc = "frames" /\ r.left = conn[c].left /\ r.call = conn[c].call
          /\ r.kind = conn[c].kind /\ r.seen = conn[c].seen
    BY <1>1, MoveMakes DEF Pcs
  <1>3. conn'[c] = r
    BY <1>2, Typed
  <1>4. /\ weather' \in [source : Versions, frames : Versions]
        /\ weather'.source = "backup" /\ weather'.frames = weather.frames
    BY <1>1, Typed, NoFontsTyped
  <1>5. ASSUME ~touched PROVE WeatherKnown(c)' /\ FontsKnown(c)'
    <2>1. WeatherKnown(c) /\ FontsKnown(c)
      BY <1>1, <1>5, KnownOf
    <2>2. WeatherKnown(c)'
      BY <1>1, <1>2, <1>3, <1>4, <2>1 DEF WeatherKnown, KeepHistory, Moving
    <2> QED
      BY <1>1, <1>2, <1>3, <2>1, <2>2 DEF FontsKnown, KeepHistory, Ending
  <1> QED
    BY <1>1, <1>2, <1>4, <1>5, Typed, RestoreStep DEF Moving, Calm

LEMMA WriteFramesKeeps == ASSUME IInv, NEW c \in Conns, WriteFrames(c) PROVE IInv'
  <1>1. /\ conn[c].pc = "frames" /\ weather' = [weather EXCEPT !.frames = "backup"] /\ Move(c, "import")
        /\ UNCHANGED <<settings, fonts, kept, core, lock, faults, spoiled>> /\ KeepHistory
        /\ conn[c].call = None /\ conn[c].call # "sent"
    BY NoCall DEF WriteFrames, CallPcs
  <1>2. PICK r \in Connections :
          /\ conn' = [conn EXCEPT ![c] = r]
          /\ r.pc = "import" /\ r.left = conn[c].left /\ r.call = conn[c].call
          /\ r.kind = conn[c].kind /\ r.seen = conn[c].seen
    BY <1>1, MoveMakes DEF Pcs, CallPcs
  <1>3. conn'[c] = r
    BY <1>2, Typed
  <1>4. /\ weather' \in [source : Versions, frames : Versions]
        /\ weather'.source = weather.source /\ weather'.frames = "backup"
    BY <1>1, Typed, NoFontsTyped
  <1>5. ASSUME ~touched PROVE WeatherKnown(c)' /\ FontsKnown(c)'
    <2>1. WeatherKnown(c) /\ FontsKnown(c)
      BY <1>1, <1>5, KnownOf
    <2>2. weather' = Backup.weather
      BY <1>1, <1>4, <2>1, BackupTyped DEF WeatherKnown
    <2>3. WeatherKnown(c)'
      BY <1>1, <1>2, <1>3, <2>1, <2>2 DEF WeatherKnown, KeepHistory, Moving, Backup
    <2> QED
      BY <1>1, <1>2, <1>3, <2>1, <2>3 DEF FontsKnown, KeepHistory, Ending
  <1> QED
    BY <1>1, <1>2, <1>4, <1>5, Typed, RestoreStep DEF Moving, Calm

LEMMA WriteFailsKeeps == ASSUME IInv, NEW c \in Conns, WriteFails(c) PROVE IInv'
  <1>1. /\ conn[c].pc \in {"source", "frames"} /\ MoveTo(c, "clear", Stored)
        /\ UNCHANGED <<settings, fonts, kept, core, lock, spoiled>> /\ KeepHistory
        /\ conn[c].call = None /\ conn[c].call # "sent" /\ faults' \in 0..MaxFaults
    BY NoCall, FaultTyped DEF WriteFails, CallPcs
  <1>2. weather' \in [source : Versions, frames : Versions]
    BY <1>1, Typed, NoFontsTyped DEF WriteFails
  <1>3. PICK r \in Connections :
          /\ conn' = [conn EXCEPT ![c] = r]
          /\ r.pc = "clear" /\ r.left = Stored /\ r.call = conn[c].call
          /\ r.kind = conn[c].kind /\ r.seen = conn[c].seen
    <2>1. "clear" \in Pcs /\ Stored \in SUBSET Fonts
      BY DEF Pcs, Stored
    <2> QED
      BY <1>1, <2>1, MoveToMakes
  <1>4. conn'[c] = r
    BY <1>3, Typed
  <1>5. ASSUME ~touched PROVE WeatherKnown(c)' /\ FontsKnown(c)'
    <2>1. WeatherKnown(c) /\ FontsKnown(c)
      BY <1>1, <1>5, KnownOf
    <2>2. WeatherKnown(c)'
      BY <1>1, <1>3, <1>4, <2>1 DEF WeatherKnown, KeepHistory, Moving
    <2> QED
      BY <1>1, <1>3, <1>4, <2>1, <2>2 DEF FontsKnown, KeepHistory, Ending, Stored
  <1> QED
    BY <1>1, <1>2, <1>3, <1>5, Typed, RestoreStep DEF Moving, Calm

-----------------------------------------------------------------------------
(* The way back.                                                            *)

LEMMA ImportedKeeps == ASSUME IInv, NEW c \in Conns, Imported(c) PROVE IInv'
  <1> DEFINE to == IF conn[c].call = "ok" THEN "commit" ELSE "clear"
             r == [conn[c] EXCEPT !.call = None, !.left = Stored, !.pc = to]
  <1>1. /\ conn[c].pc = "import" /\ conn[c].call \in {"ok", "refused", "lost"}
        /\ conn' = [conn EXCEPT ![c] = r]
        /\ UNCHANGED <<settings, weather, fonts, kept, core, lock, faults, spoiled>> /\ KeepHistory
    BY DEF Imported
  <1>2. /\ r \in Connections /\ r.pc = to /\ r.left = Stored /\ r.call = None
        /\ r.kind = conn[c].kind /\ r.seen = conn[c].seen
    <2>1. to \in Pcs /\ Stored \in SUBSET Fonts
      BY DEF Pcs, Stored
    <2> HIDE DEF to
    <2> QED
      BY <2>1, Typed DEF Connections
  <1>3. conn'[c] = r
    BY <1>1, Typed
  <1>4. /\ conn[c].kind = "restore" /\ conn[c].seen.settings \in Versions
        /\ conn[c].seen.weather \in [source : Versions, frames : Versions]
        /\ Informed(conn[c])
    BY <1>1 DEF IInv, Alone, Protecting, Informed, Moving
  <1>5. ASSUME ~touched PROVE WeatherKnown(c)' /\ FontsKnown(c)'
    <2>1. WeatherKnown(c) /\ FontsKnown(c)
      BY <1>1, <1>5, KnownOf
    <2>2. r.pc \in {"commit", "clear"}
      BY <1>2
    <2> HIDE DEF r, to
    <2>3. WeatherKnown(c)'
      BY <1>1, <1>2, <1>3, <2>1, <2>2 DEF WeatherKnown, KeepHistory, Moving, Backup
    <2> QED
      BY <1>1, <1>2, <1>3, <2>1, <2>2, <2>3 DEF FontsKnown, KeepHistory, Ending, Stored
  <1>6. ASSUME ~touched PROVE SettingsKnown(c)'
    <2>1. SettingsKnown(c)
      BY <1>1, <1>6, KnownOf
    <2>2. to = "commit" => conn[c].call = "ok"
      OBVIOUS
    <2>3. to \in {"commit", "clear"}
      OBVIOUS
    <2> HIDE DEF r, to
    <2> QED
      BY <1>1, <1>2, <1>3, <1>4, <2>1, <2>2, <2>3
      DEF SettingsKnown, Calm, Informed, Moving, Ending, KeepHistory
  <1>7. r.pc \in Moving /\ r.pc # "idle" /\ r.pc # "zip"
    BY <1>2 DEF Moving
  <1> HIDE DEF r, to
  <1> QED
    BY <1>1, <1>2, <1>4, <1>5, <1>6, <1>7, Typed, FileStep DEF KeepHistory

LEMMA ClearFontKeeps == ASSUME IInv, NEW c \in Conns, ClearFont(c) PROVE IInv'
  <1>1. PICK f \in Stored :
          \/ fonts' = [fonts EXCEPT ![f] = None] /\ Seen(c, f) /\ UNCHANGED <<faults, spoiled>>
          \/ f \in conn[c].left /\ Seen(c, f) /\ Fault /\ spoiled' = TRUE /\ UNCHANGED fonts
    BY DEF ClearFont
  <1>2. /\ conn[c].pc = "clear" /\ f \in Fonts /\ Seen(c, f)
        /\ UNCHANGED <<settings, weather, kept, core, lock>> /\ KeepHistory
        /\ conn[c].call = None /\ conn[c].call # "sent" /\ faults' \in 0..MaxFaults
    BY <1>1, NoCall, FaultTyped DEF ClearFont, CallPcs, Stored
  <1>3. PICK r \in Connections :
          /\ conn' = [conn EXCEPT ![c] = r]
          /\ r.pc = conn[c].pc /\ r.left = conn[c].left \ {f} /\ r.call = conn[c].call
          /\ r.kind = conn[c].kind /\ r.seen = conn[c].seen
    BY <1>2, SeenMakes
  <1>4. conn'[c] = r
    BY <1>3, Typed
  <1>5. /\ fonts' \in [Fonts -> Contents] /\ spoiled' \in BOOLEAN
        /\ ~spoiled' => ~spoiled /\ \A g \in Fonts : fonts'[g] # None => g # f /\ fonts[g] # None
    <2>1. CASE fonts' = [fonts EXCEPT ![f] = None] /\ UNCHANGED spoiled
      <3>1. /\ fonts' \in [Fonts -> Contents] /\ fonts'[f] = None
            /\ \A g \in Fonts : g # f => fonts'[g] = fonts[g]
        BY <1>2, <2>1, Typed, NoFontsTyped
      <3> QED
        BY <2>1, <3>1, Typed
    <2>2. CASE spoiled' = TRUE /\ UNCHANGED fonts
      BY <2>2, Typed
    <2> QED
      BY <1>1, <2>1, <2>2
  <1>6. ASSUME ~touched PROVE WeatherKnown(c)' /\ FontsKnown(c)'
    <2>1. WeatherKnown(c) /\ FontsKnown(c)
      BY <1>2, <1>6, KnownOf
    <2>2. WeatherKnown(c)'
      BY <1>2, <1>3, <1>4, <2>1 DEF WeatherKnown, KeepHistory
    <2> QED
      BY <1>2, <1>3, <1>4, <1>5, <2>1, <2>2 DEF FontsKnown, KeepHistory, Ending
  <1>7. kept' \in [Fonts -> Contents] /\ weather' \in [source : Versions, frames : Versions]
    BY <1>2, Typed
  <1> QED
    BY <1>2, <1>3, <1>5, <1>6, <1>7, RestoreStep DEF Moving, Calm

LEMMA ClearedKeeps == ASSUME IInv, NEW c \in Conns, Cleared(c) PROVE IInv'
  <1>1. /\ conn[c].pc = "clear" /\ Listed(c) = {} /\ Move(c, "back")
        /\ UNCHANGED <<settings, weather, fonts, kept, core, lock, faults, spoiled>> /\ KeepHistory
        /\ conn[c].call = None /\ conn[c].call # "sent"
    BY NoCall DEF Cleared, CallPcs
  <1>2. PICK r \in Connections :
          /\ conn' = [conn EXCEPT ![c] = r]
          /\ r.pc = "back" /\ r.left = conn[c].left /\ r.call = conn[c].call
          /\ r.kind = conn[c].kind /\ r.seen = conn[c].seen
    BY <1>1, MoveMakes DEF Pcs
  <1>3. conn'[c] = r
    BY <1>2, Typed
  <1>4. ASSUME ~touched PROVE WeatherKnown(c)' /\ FontsKnown(c)'
    <2>1. WeatherKnown(c) /\ FontsKnown(c)
      BY <1>1, <1>4, KnownOf
    <2>2. WeatherKnown(c)'
      BY <1>1, <1>2, <1>3, <2>1 DEF WeatherKnown, KeepHistory, Moving
    <2>3. ~spoiled => \A f \in Fonts : Either(f)'
      BY <1>1, <2>1 DEF FontsKnown, Either, Listed, Stored, KeepHistory
    <2> QED
      BY <1>1, <1>2, <1>3, <2>2, <2>3 DEF FontsKnown, KeepHistory, Ending
  <1> QED
    BY <1>1, <1>2, <1>4, Typed, RestoreStep DEF Moving, Calm

LEMMA MoveBackKeeps == ASSUME IInv, NEW c \in Conns, MoveBack(c) PROVE IInv'
  <1>1. PICK f \in Kept : fonts' = [fonts EXCEPT ![f] = kept[f]] /\ kept' = [kept EXCEPT ![f] = None]
    BY DEF MoveBack
  <1>2. /\ conn[c].pc = "back" /\ f \in Fonts /\ kept[f] # None
        /\ UNCHANGED <<settings, weather, core, lock, conn, faults, spoiled>> /\ KeepHistory
        /\ conn[c].call = None /\ conn[c].call # "sent"
    BY NoCall DEF MoveBack, CallPcs, Kept
  <1>3. conn' = [conn EXCEPT ![c] = conn[c]] /\ conn'[c] = conn[c] /\ conn[c] \in Connections
    BY <1>2, Typed
  <1>4. /\ fonts' \in [Fonts -> Contents] /\ kept' \in [Fonts -> Contents]
        /\ fonts'[f] = kept[f] /\ kept'[f] = None
        /\ \A g \in Fonts : g # f => fonts'[g] = fonts[g] /\ kept'[g] = kept[g]
    BY <1>1, <1>2, Typed, NoFontsTyped
  <1>5. ASSUME ~touched PROVE WeatherKnown(c)' /\ FontsKnown(c)'
    <2>1. WeatherKnown(c) /\ FontsKnown(c)
      BY <1>2, <1>5, KnownOf
    <2>2. WeatherKnown(c)'
      BY <1>2, <1>3, <2>1 DEF WeatherKnown, KeepHistory
    <2>3. ~spoiled => \A g \in Fonts : Either(g)'
      BY <1>2, <1>4, <2>1 DEF FontsKnown, Either, KeepHistory
    <2> QED
      BY <1>2, <1>3, <2>2, <2>3 DEF FontsKnown, KeepHistory, Ending
  <1> QED
    BY <1>2, <1>3, <1>4, <1>5, Typed, RestoreStep DEF Moving, Calm

LEMMA FontsBackKeeps == ASSUME IInv, NEW c \in Conns, FontsBack(c) PROVE IInv'
  <1>1. /\ conn[c].pc = "back" /\ Move(c, "oldSource") /\ kept' = NoFonts
        /\ UNCHANGED <<settings, weather, fonts, core, lock>> /\ KeepHistory
        /\ conn[c].call = None /\ conn[c].call # "sent" /\ faults' \in 0..MaxFaults
        /\ spoiled' \in BOOLEAN /\ (~spoiled' => ~spoiled /\ Kept = {})
    BY NoCall, FaultTyped, Typed DEF FontsBack, CallPcs
  <1>2. PICK r \in Connections :
          /\ conn' = [conn EXCEPT ![c] = r]
          /\ r.pc = "oldSource" /\ r.left = conn[c].left /\ r.call = conn[c].call
          /\ r.kind = conn[c].kind /\ r.seen = conn[c].seen
    BY <1>1, MoveMakes DEF Pcs
  <1>3. conn'[c] = r
    BY <1>2, Typed
  <1>4. ASSUME ~touched PROVE WeatherKnown(c)' /\ FontsKnown(c)'
    <2>1. WeatherKnown(c) /\ FontsKnown(c)
      BY <1>1, <1>4, KnownOf
    <2>2. WeatherKnown(c)'
      BY <1>1, <1>2, <1>3, <2>1 DEF WeatherKnown, KeepHistory, Moving, Ending
    <2>3. ~spoiled' => fonts = before.fonts
      <3>1. ~spoiled' => \A f \in Fonts : fonts[f] = before.fonts[f]
        BY <1>1, <2>1 DEF FontsKnown, Either, Kept
      <3> QED
        BY <3>1, Typed
    <2> QED
      BY <1>1, <1>2, <1>3, <2>2, <2>3 DEF FontsKnown, KeepHistory, Ending
  <1>5. kept' \in [Fonts -> Contents]
    BY <1>1, NoFontsTyped
  <1> QED
    BY <1>1, <1>2, <1>4, <1>5, Typed, RestoreStep DEF Moving, Ending, Calm

\* The old fonts are not aside any more once the weather files are written back.
LEMMA NothingAside ==
  ASSUME IInv, NEW c \in Conns, conn[c].pc # "idle", conn[c].pc \notin Moving
  PROVE  kept = NoFonts
  <1>1. \A d \in Conns : conn[d].pc \notin Moving
    BY Holds DEF Moving
  <1> QED
    BY <1>1 DEF IInv, Protecting

LEMMA RewriteSourceKeeps == ASSUME IInv, NEW c \in Conns, RewriteSource(c) PROVE IInv'
  <1>1. /\ conn[c].pc = "oldSource" /\ Move(c, "oldFrames") /\ kept = NoFonts
        /\ UNCHANGED <<settings, fonts, kept, core, lock>> /\ KeepHistory
        /\ conn[c].call = None /\ conn[c].call # "sent" /\ faults' \in 0..MaxFaults
        /\ spoiled' \in BOOLEAN
    BY NoCall, FaultTyped, Typed, NothingAside DEF RewriteSource, CallPcs, Moving
  <1>2. PICK r \in Connections :
          /\ conn' = [conn EXCEPT ![c] = r]
          /\ r.pc = "oldFrames" /\ r.left = conn[c].left /\ r.call = conn[c].call
          /\ r.kind = conn[c].kind /\ r.seen = conn[c].seen
    BY <1>1, MoveMakes DEF Pcs
  <1>3. conn'[c] = r
    BY <1>2, Typed
  <1>4. conn[c].seen.weather \in [source : Versions, frames : Versions]
    BY <1>1 DEF IInv, Protecting, Ending
  <1>5. /\ weather' \in [source : Versions, frames : Versions]
        /\ ~spoiled' => ~spoiled /\ weather'.source = conn[c].seen.weather.source
    BY <1>4, Typed DEF RewriteSource
  <1>6. ASSUME ~touched PROVE WeatherKnown(c)' /\ FontsKnown(c)'
    <2>1. WeatherKnown(c) /\ FontsKnown(c)
      BY <1>1, <1>6, KnownOf
    <2>2. WeatherKnown(c)'
      BY <1>1, <1>2, <1>3, <1>5, <2>1 DEF WeatherKnown, KeepHistory, Moving, Ending
    <2> QED
      BY <1>1, <1>2, <1>3, <1>5, <2>1, <2>2 DEF FontsKnown, KeepHistory, Ending
  <1> QED
    BY <1>1, <1>2, <1>5, <1>6, Typed, RestoreStep DEF Moving, Ending, Calm

LEMMA RewriteFramesKeeps == ASSUME IInv, NEW c \in Conns, RewriteFrames(c) PROVE IInv'
  <1>1. /\ conn[c].pc = "oldFrames" /\ Move(c, "reimport") /\ kept = NoFonts
        /\ UNCHANGED <<settings, fonts, kept, core, lock>> /\ KeepHistory
        /\ conn[c].call = None /\ conn[c].call # "sent" /\ faults' \in 0..MaxFaults
        /\ spoiled' \in BOOLEAN
    BY NoCall, FaultTyped, Typed, NothingAside DEF RewriteFrames, CallPcs, Moving
  <1>2. PICK r \in Connections :
          /\ conn' = [conn EXCEPT ![c] = r]
          /\ r.pc = "reimport" /\ r.left = conn[c].left /\ r.call = conn[c].call
          /\ r.kind = conn[c].kind /\ r.seen = conn[c].seen
    BY <1>1, MoveMakes DEF Pcs, CallPcs
  <1>3. conn'[c] = r
    BY <1>2, Typed
  <1>4. conn[c].seen.weather \in [source : Versions, frames : Versions]
    BY <1>1 DEF IInv, Protecting, Ending
  <1>5. /\ weather' \in [source : Versions, frames : Versions]
        /\ ~spoiled' => ~spoiled /\ weather'.source = weather.source
                                 /\ weather'.frames = conn[c].seen.weather.frames
    BY <1>4, Typed DEF RewriteFrames
  <1>6. ASSUME ~touched PROVE WeatherKnown(c)' /\ FontsKnown(c)'
    <2>1. WeatherKnown(c) /\ FontsKnown(c)
      BY <1>1, <1>6, KnownOf
    <2>2. ~spoiled' => weather' = before.weather
      <3>1. conn[c].seen.weather = before.weather
        BY <1>1, <2>1 DEF WeatherKnown, Ending
      <3> QED
        BY <1>1, <1>4, <1>5, <2>1, <3>1 DEF WeatherKnown
    <2>3. WeatherKnown(c)'
      BY <1>1, <1>2, <1>3, <1>5, <2>1, <2>2 DEF WeatherKnown, KeepHistory, Moving, Ending
    <2> QED
      BY <1>1, <1>2, <1>3, <1>5, <2>1, <2>3 DEF FontsKnown, KeepHistory, Ending
  <1> QED
    BY <1>1, <1>2, <1>5, <1>6, Typed, RestoreStep DEF Moving, Ending, Calm

-----------------------------------------------------------------------------
(* Before anything is changed, and the downloads.                           *)

LEMMA TakeLockKeeps ==
  ASSUME IInv, NEW c \in Conns, NEW kind \in {"restore", "download"}, Begin(c, kind)
  PROVE  IInv'
  <1> DEFINE pc == IF kind = "restore" THEN "prepare" ELSE "export"
             r == [Quiet EXCEPT !.kind = kind, !.pc = pc]
  <1>1. /\ lock = None /\ conn[c].pc = "idle" /\ lock' = c /\ before' = Now
        /\ touched' = (core.inbox # <<>>) /\ spoiled' = FALSE /\ answer' = None
        /\ conn' = [conn EXCEPT ![c] = r]
        /\ UNCHANGED <<settings, weather, fonts, kept, core, faults, others>>
    BY DEF Begin, TakeLock
  <1>2. /\ r \in Connections /\ r.pc = pc /\ r.kind = kind /\ r.call = None /\ r.seen = Nothing
        /\ pc \in {"prepare", "export"} /\ (pc = "prepare" => kind = "restore")
    <2>1. pc \in Pcs
      BY DEF Pcs, CallPcs
    <2> QED
      BY <2>1, QuietTyped DEF Connections
  <1> HIDE DEF r, pc
  <1>3. /\ conn'[c] = r /\ \A d \in Conns : d # c => conn'[d] = conn[d]
        /\ conn' \in [Conns -> Connections]
    BY <1>1, <1>2, Typed
  <1>4. kept = NoFonts /\ \A d \in Conns : conn[d].pc = "idle"
    BY <1>1, ConnsAssumption DEF IInv, TypeOK, Alone
  <1>5. Now \in Everything /\ Now.settings = settings /\ Now.weather = weather /\ Now.fonts = fonts
    BY Typed, NoFontsTyped DEF Now, Everything, WeatherFiles
  <1>6. TypeOK'
    BY <1>1, <1>3, <1>4, <1>5, Typed, ConnsAssumption DEF TypeOK
  <1>7. Alone'
    BY <1>1, <1>2, <1>3, <1>4, ConnsAssumption DEF IInv, Alone, Moving, Ending
  <1>8. Protecting'
    BY <1>1, <1>2, <1>3, <1>4 DEF IInv, Protecting, Informed, Moving, Ending, None
  <1>9. Queue'
    <2>1. conn[c].call # "sent"
      BY <1>1, NoCall DEF CallPcs
    <2>2. \A i \in DOMAIN core.inbox : core.inbox[i].from # c
      BY <2>1, ConnsAssumption DEF IInv, Queue
    <2> QED
      BY <1>1, <1>3, <2>2, InboxTyped DEF IInv, Queue
  <1>10. touched' \/ (SettingsKnown(c)' /\ WeatherKnown(c)' /\ FontsKnown(c)')
    <2>1. ASSUME ~touched' PROVE SettingsKnown(c)'
      <3>1. core'.inbox = <<>> /\ settings' = before'.settings
        BY <1>1, <1>5, <2>1
      <3>2. r.pc \in {"prepare", "export"} /\ ~Informed(r) /\ r.call = None
        BY <1>2 DEF Informed, Moving, Ending, None
      <3> QED
        BY <1>3, <3>1, <3>2 DEF SettingsKnown, None
    <2>2. WeatherKnown(c)' /\ FontsKnown(c)'
      BY <1>1, <1>2, <1>3, <1>5 DEF WeatherKnown, FontsKnown, Moving, Ending, Nothing
    <2> QED
      BY <2>1, <2>2, <1>1
  <1>11. Known'
    BY <1>1, <1>10 DEF Known, Undisturbed
  <1> QED
    BY <1>6, <1>7, <1>8, <1>9, <1>11 DEF IInv

LEMMA PrepareKeeps == ASSUME IInv, NEW c \in Conns, Prepare(c) PROVE IInv'
  <1>1. /\ conn[c].pc = "prepare" /\ Move(c, "export") /\ kept = NoFonts
        /\ UNCHANGED <<settings, weather, fonts, kept, core, lock, faults, spoiled>> /\ KeepHistory
        /\ conn[c].call = None /\ conn[c].call # "sent"
    BY NoCall, NothingAside DEF Prepare, CallPcs, Moving
  <1>2. PICK r \in Connections :
          /\ conn' = [conn EXCEPT ![c] = r]
          /\ r.pc = "export" /\ r.left = conn[c].left /\ r.call = conn[c].call
          /\ r.kind = conn[c].kind /\ r.seen = conn[c].seen
    BY <1>1, MoveMakes DEF Pcs, CallPcs
  <1>3. conn'[c] = r /\ ~Informed(r)
    BY <1>1, <1>2, Typed DEF Informed, Moving, Ending, None
  <1>4. ASSUME ~touched PROVE WeatherKnown(c)' /\ FontsKnown(c)' /\ SettingsKnown(c)'
    <2>1. SettingsKnown(c) /\ WeatherKnown(c) /\ FontsKnown(c)
      BY <1>1, <1>4, KnownOf
    <2>2. WeatherKnown(c)'
      BY <1>1, <1>2, <1>3, <2>1 DEF WeatherKnown, KeepHistory, Moving, Ending
    <2>3. FontsKnown(c)'
      BY <1>1, <1>2, <1>3, <2>1 DEF FontsKnown, KeepHistory, Ending
    <2>4. core.inbox = <<>> /\ settings = before.settings
      BY <1>1, <2>1 DEF SettingsKnown, Calm
    <2>5. SettingsKnown(c)'
      BY <1>1, <1>2, <1>3, <2>4 DEF SettingsKnown, KeepHistory, None
    <2> QED
      BY <2>2, <2>3, <2>5
  <1> QED
    BY <1>1, <1>2, <1>3, <1>4, Typed, FileStep DEF KeepHistory, Moving, Ending

LEMMA ExportedKeeps == ASSUME IInv, NEW c \in Conns, Exported(c) PROVE IInv'
  <1> DEFINE r == [conn[c] EXCEPT !.pc = "weather", !.call = None]
  <1>1. /\ conn[c].pc = "export" /\ conn[c].call = "ok" /\ kept = NoFonts
        /\ conn' = [conn EXCEPT ![c] = r]
        /\ UNCHANGED <<settings, weather, fonts, kept, core, lock, faults, spoiled>> /\ KeepHistory
    BY NothingAside DEF Exported, Moving
  <1>2. /\ r \in Connections /\ r.pc = "weather" /\ r.left = conn[c].left /\ r.call = None
        /\ r.kind = conn[c].kind /\ r.seen = conn[c].seen
    BY Typed DEF Connections, Pcs
  <1> HIDE DEF r
  <1>3. conn'[c] = r
    BY <1>1, Typed
  <1>4. Informed(conn[c]) /\ conn[c].seen.settings \in Versions
    BY <1>1 DEF Informed, IInv, Protecting
  <1>5. ASSUME ~touched PROVE WeatherKnown(c)' /\ FontsKnown(c)' /\ SettingsKnown(c)'
    <2>1. SettingsKnown(c) /\ WeatherKnown(c) /\ FontsKnown(c)
      BY <1>1, <1>5, KnownOf
    <2>2. WeatherKnown(c)'
      BY <1>1, <1>2, <1>3, <2>1 DEF WeatherKnown, KeepHistory, Moving, Ending
    <2>3. FontsKnown(c)'
      BY <1>1, <1>2, <1>3, <2>1 DEF FontsKnown, KeepHistory, Ending
    <2>4. core.inbox = <<>> /\ settings = before.settings /\ conn[c].seen.settings = before.settings
      BY <1>1, <1>4, <2>1 DEF SettingsKnown, Calm
    <2>5. SettingsKnown(c)'
      BY <1>1, <1>2, <1>3, <2>4 DEF SettingsKnown, KeepHistory, None
    <2> QED
      BY <2>2, <2>3, <2>5
  <1> QED
    BY <1>1, <1>2, <1>4, <1>5, Typed, FileStep DEF KeepHistory, Moving, Ending

LEMMA ReadWeatherKeeps == ASSUME IInv, NEW c \in Conns, ReadWeather(c) PROVE IInv'
  <1> DEFINE pc == IF conn[c].kind = "restore" THEN "protect" ELSE "zip"
             r == [conn[c] EXCEPT !.pc = pc, !.seen.weather = weather, !.left = Stored]
  <1>1. /\ conn[c].pc = "weather" /\ kept = NoFonts
        /\ conn' = [conn EXCEPT ![c] = r]
        /\ UNCHANGED <<settings, weather, fonts, kept, core, lock, faults, spoiled>> /\ KeepHistory
        /\ conn[c].call = None /\ conn[c].call # "sent"
    BY NothingAside, NoCall DEF ReadWeather, CallPcs, Moving
  <1>2. /\ r \in Connections /\ r.pc = pc /\ r.left = Stored /\ r.call = None
        /\ r.kind = conn[c].kind /\ r.seen.settings = conn[c].seen.settings
        /\ r.seen.weather = weather /\ r.seen.fonts = conn[c].seen.fonts
    <2>1. pc \in Pcs /\ Stored \in SUBSET Fonts
      BY DEF Pcs, Stored
    <2>2. weather \in WeatherFiles
      BY Typed, NoFontsTyped DEF WeatherFiles
    <2>3. conn[c] \in Connections /\ conn[c].seen \in Everything
      BY Typed DEF Connections
    <2> DEFINE seen == [conn[c].seen EXCEPT !.weather = weather]
    <2>4. /\ seen \in Everything /\ seen.settings = conn[c].seen.settings
          /\ seen.weather = weather /\ seen.fonts = conn[c].seen.fonts
      BY <2>2, <2>3 DEF Everything
    <2>5. r = [conn[c] EXCEPT !.pc = pc, !.seen = seen, !.left = Stored]
      OBVIOUS
    <2> HIDE DEF r, pc, seen
    <2> QED
      BY <1>1, <2>1, <2>3, <2>4, <2>5 DEF Connections
  <1>3. /\ pc \in {"protect", "zip"} /\ (pc = "protect" => conn[c].kind = "restore")
        /\ (pc = "zip" => conn[c].kind = "download")
    BY Typed DEF Connections
  <1> HIDE DEF r, pc
  <1>4. conn'[c] = r
    BY <1>1, <1>2, Typed
  <1>5. Informed(conn[c]) /\ conn[c].seen.settings \in Versions
    BY <1>1 DEF Informed, IInv, Protecting
  <1>6. ASSUME ~touched PROVE WeatherKnown(c)' /\ FontsKnown(c)' /\ SettingsKnown(c)'
    <2>1. SettingsKnown(c) /\ WeatherKnown(c) /\ FontsKnown(c)
      BY <1>1, <1>6, KnownOf
    <2>2. WeatherKnown(c)'
      BY <1>1, <1>2, <1>3, <1>4, <2>1 DEF WeatherKnown, KeepHistory, Moving, Ending
    <2>3. FontsKnown(c)'
      <3>1. \A f \in Fonts : Either(f)'
        BY <1>1, <2>1, NoFontsTyped DEF FontsKnown, Either, KeepHistory
      <3>2. \A f \in Fonts \ r.left : fonts[f] = None
        BY <1>2 DEF Stored
      <3>3. \A f \in Fonts \ r.left : pc = "zip" => r.seen.fonts[f] = None
        BY <1>1, <1>2, <2>1, NoFontsTyped DEF FontsKnown
      <3> QED
        BY <1>1, <1>2, <1>3, <1>4, <2>1, <3>1, <3>2, <3>3 DEF FontsKnown, KeepHistory, Ending, Stored
    <2>4. core.inbox = <<>> /\ settings = before.settings /\ conn[c].seen.settings = before.settings
      BY <1>1, <1>5, <2>1 DEF SettingsKnown, Calm
    <2>5. SettingsKnown(c)'
      BY <1>1, <1>2, <1>3, <1>4, <2>4 DEF SettingsKnown, KeepHistory, None
    <2> QED
      BY <2>2, <2>3, <2>5
  <1>7. r.seen.weather \in [source : Versions, frames : Versions]
    BY <1>2, Typed
  <1> QED
    BY <1>1, <1>2, <1>3, <1>5, <1>6, <1>7, Typed, FileStep DEF KeepHistory, Moving, Ending

\* What packing a font makes of the connection.
LEMMA ZipMakes ==
  ASSUME IInv, NEW c \in Conns, ZipFont(c)
  PROVE  \E f \in Fonts, r \in Connections :
           /\ f \in conn[c].left \cup Stored /\ conn' = [conn EXCEPT ![c] = r]
           /\ r.pc = "zip" /\ r.left = conn[c].left \ {f} /\ r.call = None
           /\ r.kind = "download" /\ r.seen.settings = conn[c].seen.settings
           /\ r.seen.weather = conn[c].seen.weather /\ r.seen.fonts[f] = fonts[f]
           /\ \A g \in Fonts : g # f => r.seen.fonts[g] = conn[c].seen.fonts[g]
  <1>1. PICK f \in conn[c].left \cup Stored :
          conn' = [conn EXCEPT ![c].left = @ \ {f}, ![c].seen.fonts[f] = fonts[f]]
    BY DEF ZipFont
  <1> DEFINE aside == [conn[c].seen.fonts EXCEPT ![f] = fonts[f]]
             seen == [conn[c].seen EXCEPT !.fonts = aside]
             r == [conn[c] EXCEPT !.left = @ \ {f}, !.seen = seen]
  <1>2. /\ conn[c].pc = "zip" /\ f \in Fonts /\ conn[c].call = None /\ conn[c].kind = "download"
    BY NoCall, Typed DEF ZipFont, CallPcs, Connections, Stored, IInv, Alone
  <1>3. conn' = [conn EXCEPT ![c] = r]
    BY <1>1
  <1>4. /\ r \in Connections /\ r.pc = "zip" /\ r.left = conn[c].left \ {f} /\ r.call = None
        /\ r.kind = "download" /\ r.seen.settings = conn[c].seen.settings
        /\ r.seen.weather = conn[c].seen.weather /\ r.seen.fonts[f] = fonts[f]
        /\ \A g \in Fonts : g # f => r.seen.fonts[g] = conn[c].seen.fonts[g]
    <2>1. conn[c] \in Connections /\ conn[c].seen \in Everything
          /\ conn[c].seen.fonts \in [Fonts -> Contents]
      BY Typed DEF Connections, Everything
    <2>2. /\ aside \in [Fonts -> Contents] /\ aside[f] = fonts[f]
          /\ \A g \in Fonts : g # f => aside[g] = conn[c].seen.fonts[g]
      BY <1>2, <2>1, Typed
    <2> HIDE DEF aside
    <2>3. /\ seen \in Everything /\ seen.settings = conn[c].seen.settings
          /\ seen.weather = conn[c].seen.weather /\ seen.fonts = aside
      BY <2>1, <2>2 DEF Everything
    <2> HIDE DEF seen
    <2>4. /\ r \in Connections /\ r.pc = "zip" /\ r.left = conn[c].left \ {f} /\ r.call = None
          /\ r.kind = "download" /\ r.seen = seen
      BY <1>2, <2>1, <2>3 DEF Connections
    <2> HIDE DEF r
    <2> QED
      BY <2>2, <2>3, <2>4
  <1> HIDE DEF r, seen, aside
  <1> QED
    BY <1>1, <1>2, <1>3, <1>4

LEMMA ZipFontKeeps == ASSUME IInv, NEW c \in Conns, ZipFont(c) PROVE IInv'
  <1>1. PICK f \in Fonts, r \in Connections :
          /\ f \in conn[c].left \cup Stored /\ conn' = [conn EXCEPT ![c] = r]
          /\ r.pc = "zip" /\ r.left = conn[c].left \ {f} /\ r.call = None
          /\ r.kind = "download" /\ r.seen.settings = conn[c].seen.settings
          /\ r.seen.weather = conn[c].seen.weather /\ r.seen.fonts[f] = fonts[f]
          /\ \A g \in Fonts : g # f => r.seen.fonts[g] = conn[c].seen.fonts[g]
    BY ZipMakes
  <1>2. /\ conn[c].pc = "zip" /\ conn[c].call = None /\ conn[c].call # "sent"
        /\ kept = NoFonts /\ conn[c].kind = "download"
        /\ UNCHANGED <<settings, weather, fonts, kept, core, lock, faults, spoiled>> /\ KeepHistory
    BY NoCall, Typed, NothingAside DEF ZipFont, CallPcs, Moving, IInv, Alone
  <1>3. conn'[c] = r
    BY <1>1, Typed
  <1>4. ~Informed(r) \/ Informed(conn[c])
    BY <1>2 DEF Informed
  <1>5. ASSUME ~touched PROVE WeatherKnown(c)' /\ FontsKnown(c)' /\ SettingsKnown(c)'
    <2>1. SettingsKnown(c) /\ WeatherKnown(c) /\ FontsKnown(c)
      BY <1>2, <1>5, KnownOf
    <2>2. WeatherKnown(c)'
      BY <1>2, <1>1, <1>3, <2>1 DEF WeatherKnown, KeepHistory, Moving, Ending
    <2>3. FontsKnown(c)'
      <3>1. \A g \in Fonts \ r.left : r.seen.fonts[g] = fonts[g]
        BY <1>2, <1>1, <2>1 DEF FontsKnown
      <3> QED
        BY <1>2, <1>1, <1>3, <2>1, <3>1 DEF FontsKnown, KeepHistory, Ending
    <2>4. SettingsKnown(c)'
      BY <1>2, <1>1, <1>3, <1>4, <1>5, SettingsStay DEF KeepHistory, Calm
    <2> QED
      BY <2>2, <2>3, <2>4
  <1>6. Informed(r) => r.seen.settings \in Versions
    BY <1>2, <1>1, <1>4 DEF IInv, Protecting, Informed
  <1> QED
    BY <1>2, <1>1, <1>5, <1>6, Typed, FileStep DEF KeepHistory, Moving, Ending

\* Every answer that can be given.
LEMMA AnswersKeep ==
  ASSUME IInv, NEW c \in Conns,
         \/ Refuse(c) \/ NotExported(c) \/ ReadFails(c) \/ ProtectFails(c) \/ Commit(c)
         \/ Undone(c) \/ Zipped(c)
  PROVE  IInv'
  <1>1. CASE ProtectFails(c) \/ Commit(c)
    <2>1. conn[c].pc \in {"protect", "commit"} /\ conn[c].pc # "idle" /\ conn[c].call # "sent"
      BY <1>1, NoCall DEF ProtectFails, Commit, CallPcs
    <2>2. faults' \in 0..MaxFaults
      BY <1>1, FaultTyped DEF ProtectFails, Commit
    <2> QED
      BY <1>1, <2>1, <2>2, AnswerStep DEF ProtectFails, Commit
  <1>2. CASE Refuse(c) \/ ReadFails(c) \/ Zipped(c)
    <2>1. /\ conn[c].pc \in {"prepare", "weather", "zip"} /\ conn[c].pc # "idle" /\ conn[c].call # "sent"
          /\ kept = NoFonts
      BY <1>2, NoCall, NothingAside DEF Refuse, ReadFails, Zipped, CallPcs, Moving
    <2>2. faults' \in 0..MaxFaults
      BY <1>2, FaultTyped DEF Refuse, ReadFails, Zipped
    <2> QED
      BY <1>2, <2>1, <2>2, AnswerStep DEF Refuse, ReadFails, Zipped
  <1>3. CASE NotExported(c) \/ Undone(c)
    <2>1. /\ conn[c].pc \in {"export", "reimport"} /\ conn[c].pc # "idle" /\ conn[c].call # "sent"
          /\ kept = NoFonts
      BY <1>3, NothingAside DEF NotExported, Undone, Moving
    <2>2. faults' \in 0..MaxFaults
      BY <1>3, FaultTyped DEF NotExported, Undone
    <2> QED
      BY <1>3, <2>1, <2>2, AnswerStep DEF NotExported, Undone
  <1> QED
    BY <1>1, <1>2, <1>3

-----------------------------------------------------------------------------
(* The core and its socket.                                                 *)

\* A step that concerns calls and settings only.
LEMMA CoreStep ==
  ASSUME IInv, conn' \in [Conns -> Connections],
         \A c \in Conns :
           /\ conn'[c].pc = conn[c].pc /\ conn'[c].kind = conn[c].kind /\ conn'[c].left = conn[c].left
           /\ conn'[c].seen.weather = conn[c].seen.weather /\ conn'[c].seen.fonts = conn[c].seen.fonts,
         \A c \in Conns : conn'[c].call # None => conn[c].pc \in CallPcs,
         \A c \in Conns : Informed(conn'[c]) => conn'[c].seen.settings \in Versions,
         core' \in [up : BOOLEAN, inbox : Seq(Requests)], settings' \in Versions,
         faults' \in 0..MaxFaults, spoiled' \in BOOLEAN, spoiled => spoiled',
         UNCHANGED <<weather, fonts, kept, lock>>, KeepHistory,
         Queue', \A c \in Conns : Undisturbed(c) => SettingsKnown(c)'
  PROVE  IInv'
  <1>1. TypeOK'
    BY Typed DEF TypeOK, KeepHistory, IInv
  <1>2. Alone'
    BY DEF IInv, Alone
  <1>3. Protecting'
    BY DEF IInv, Protecting
  <1>4. \A c \in Conns : Undisturbed(c) => WeatherKnown(c)' /\ FontsKnown(c)'
    BY Typed DEF IInv, Known, WeatherKnown, FontsKnown, KeepHistory, Either, Backup
  <1>5. Known'
    BY <1>4 DEF Known, Undisturbed, KeepHistory
  <1> QED
    BY <1>1, <1>2, <1>3, <1>5 DEF IInv

LEMMA SendKeeps == ASSUME IInv, NEW c \in Conns, Send(c) PROVE IInv'
  <1> DEFINE o == IF Reachable THEN "sent" ELSE "lost"
             r == [conn[c] EXCEPT !.call = o]
  <1>1. /\ conn[c].pc \in CallPcs /\ conn[c].call = None /\ conn' = [conn EXCEPT ![c] = r]
        /\ core' = (IF Reachable THEN [core EXCEPT !.inbox = Append(@, Asks(c))] ELSE core)
        /\ spoiled' = (spoiled \/ (~Reachable /\ conn[c].pc = "reimport"))
        /\ UNCHANGED <<settings, faults>> /\ KeepFiles /\ KeepHistory
    BY DEF Send, Outcome
  <1>2. o \in {"sent", "lost"} /\ (o = "sent" <=> Reachable)
    OBVIOUS
  <1>3. /\ r \in Connections /\ r.pc = conn[c].pc /\ r.left = conn[c].left /\ r.call = o
        /\ r.kind = conn[c].kind /\ r.seen = conn[c].seen
    <2> HIDE DEF o
    <2> QED
      BY <1>2, Typed DEF Connections
  <1> HIDE DEF r, o
  <1>4. /\ conn'[c] = r /\ \A d \in Conns : d # c => conn'[d] = conn[d]
        /\ conn' \in [Conns -> Connections]
    BY <1>1, <1>3, Typed
  <1>5. conn[c].pc # "idle" /\ lock = c /\ conn[c] \in Connections
    BY <1>1, Holds DEF CallPcs
  <1>6. /\ conn[c].pc \in {"import", "reimport"} => Asks(c).value \in Versions
        /\ Asks(c) \in Requests /\ Asks(c).op = conn[c].pc /\ Asks(c).from = c
        /\ conn[c].pc = "import" => Asks(c).value = "backup"
        /\ conn[c].pc = "reimport" => Asks(c).value = conn[c].seen.settings
    <2>1. conn[c].pc \in {"import", "reimport"} => conn[c].seen.settings \in Versions
      BY DEF IInv, Protecting, Informed, Moving, Ending
    <2>2. CASE conn[c].pc = "export"
      BY <2>2, NoFontsTyped DEF Asks, Requests, CallPcs
    <2>3. CASE conn[c].pc = "import"
      BY <2>3, NoFontsTyped DEF Asks, Requests, CallPcs
    <2>4. CASE conn[c].pc = "reimport"
      BY <2>1, <2>4, NoFontsTyped DEF Asks, Requests, CallPcs
    <2> QED
      BY <1>1, <2>2, <2>3, <2>4 DEF CallPcs
  <1> DEFINE I == core.inbox
  <1>7. I \in Seq(Requests) /\ core.up \in BOOLEAN /\ Len(I) \in Nat /\ DOMAIN I = 1..Len(I)
    BY InboxTyped
  <1>8. \A i \in DOMAIN I : I[i].from # c
    BY <1>1, ConnsAssumption DEF IInv, Queue, None
  <1>9. \A d \in Conns : /\ conn'[d].pc = conn[d].pc /\ conn'[d].kind = conn[d].kind
                          /\ conn'[d].left = conn[d].left
                          /\ conn'[d].seen.weather = conn[d].seen.weather
                          /\ conn'[d].seen.fonts = conn[d].seen.fonts
    BY <1>3, <1>4
  <1>10. \A d \in Conns : conn'[d].call # None => conn[d].pc \in CallPcs
    BY <1>1, <1>4 DEF IInv, Alone
  <1>11. CASE Reachable
    <2> DEFINE J == Append(I, Asks(c))
    <2>1. core' = [core EXCEPT !.inbox = J]
      BY <1>1, <1>11
    <2>2. /\ J \in Seq(Requests) /\ Len(J) = Len(I) + 1 /\ DOMAIN J = 1..(Len(I) + 1)
          /\ \A i \in DOMAIN I : J[i] = I[i]
          /\ J[Len(J)] = Asks(c)
          /\ \A i \in DOMAIN J : i \in DOMAIN I \/ i = Len(J)
      BY <1>6, <1>7
    <2> HIDE DEF J
    <2>3. core' \in [up : BOOLEAN, inbox : Seq(Requests)] /\ core'.inbox = J
      BY <2>1, <2>2, Typed
    <2>4. Queue'
      <3>1. \A i \in DOMAIN J : /\ J[i].op # "export" => J[i].value \in Versions
                                /\ J[i].from # None => /\ conn'[J[i].from].call = "sent"
                                                       /\ J[i].op = conn'[J[i].from].pc
        <4>1. ASSUME NEW i \in DOMAIN I
              PROVE  /\ J[i].op # "export" => J[i].value \in Versions
                     /\ J[i].from # None => /\ conn'[J[i].from].call = "sent"
                                            /\ J[i].op = conn'[J[i].from].pc
          BY <1>4, <1>8, <2>2, InboxTyped DEF IInv, Queue
        <4>2. /\ J[Len(J)].op # "export" => J[Len(J)].value \in Versions
              /\ conn'[J[Len(J)].from].call = "sent" /\ J[Len(J)].op = conn'[J[Len(J)].from].pc
          BY <1>1, <1>2, <1>3, <1>4, <1>6, <1>11, <2>2 DEF CallPcs
        <4> QED
          BY <2>2, <4>1, <4>2
      <3>2. \A i, j \in DOMAIN J : J[i].from = J[j].from /\ J[i].from # None => i = j
        <4>1. \A i, j \in DOMAIN I : I[i].from = I[j].from /\ I[i].from # None => i = j
          BY DEF IInv, Queue
        <4> QED
          BY <1>6, <1>8, <2>2, <4>1
      <3> QED
        BY <2>3, <3>1, <3>2 DEF Queue
    <2>5. ASSUME ~touched PROVE SettingsKnown(c)'
      <3>1. SettingsKnown(c)
        BY <1>5, <2>5, KnownOf
      <3>2. conn[c].pc \in {"export", "import"} => I = <<>> /\ settings = before.settings
        BY <1>1, <3>1 DEF SettingsKnown, Calm
      <3>3. r.call = "sent" /\ J # <<>>
        BY <1>2, <1>3, <1>7, <1>11, <2>2
      <3>4. conn[c].pc \in {"export", "import"} => Len(J) = 1 /\ J[1] = Asks(c) /\ DOMAIN J = {1}
        BY <2>2, <3>2
      <3>5. Informed(conn'[c]) => conn[c].seen.settings = before.settings
        BY <1>1, <1>3, <1>4, <3>1, <3>3 DEF SettingsKnown, Informed
      <3>6. CASE conn[c].pc = "export"
        BY <1>1, <1>3, <1>4, <1>6, <2>3, <3>2, <3>3, <3>4, <3>5, <3>6
        DEF SettingsKnown, Calm, KeepHistory, None
      <3>7. CASE conn[c].pc = "import"
        BY <1>1, <1>3, <1>4, <1>6, <2>3, <3>2, <3>3, <3>4, <3>5, <3>7
        DEF SettingsKnown, Calm, KeepHistory, None
      <3>8. CASE conn[c].pc = "reimport"
        <4>1. Informed(conn'[c])
          BY <1>3, <1>4, <3>8 DEF Informed, Ending
        <4>2. J[Len(J)].op = "reimport" /\ J[Len(J)].value = before.settings
          BY <1>6, <2>2, <3>5, <3>8, <4>1
        <4> QED
          BY <1>1, <1>3, <1>4, <2>3, <3>3, <3>5, <3>8, <4>2
          DEF SettingsKnown, Calm, KeepHistory, None
      <3> QED
        BY <1>1, <3>6, <3>7, <3>8 DEF CallPcs
    <2>6. \A d \in Conns : Informed(conn'[d]) => conn'[d].seen.settings \in Versions
      BY <1>2, <1>3, <1>4, <1>11 DEF IInv, Protecting, Informed
    <2>8. /\ settings' \in Versions /\ faults' \in 0..MaxFaults
          /\ spoiled' \in BOOLEAN /\ (spoiled => spoiled')
      BY <1>1, Typed
    <2>9. \A d \in Conns : Undisturbed(d) => SettingsKnown(d)'
      BY <1>5, <2>5 DEF Undisturbed
    <2>10. UNCHANGED <<weather, fonts, kept, lock>> /\ KeepHistory
      BY <1>1 DEF KeepFiles
    <2> QED
      BY <1>4, <1>9, <1>10, <2>3, <2>4, <2>6, <2>8, <2>9, <2>10, CoreStep
  <1>12. CASE ~Reachable
    <2>1. core' = core /\ r.call = "lost" /\ (conn[c].pc = "reimport" => spoiled')
      BY <1>1, <1>2, <1>3, <1>12
    <2>2. Queue'
      BY <1>4, <1>8, <2>1, InboxTyped DEF IInv, Queue
    <2>3. ASSUME ~touched PROVE SettingsKnown(c)'
      <3>1. SettingsKnown(c)
        BY <1>5, <2>3, KnownOf
      <3> QED
        BY <1>1, <1>3, <1>4, <2>1, <3>1
        DEF SettingsKnown, Calm, Informed, CallPcs, KeepHistory, None
    <2>4. \A d \in Conns : Informed(conn'[d]) => conn'[d].seen.settings \in Versions
      BY <1>3, <1>4, <2>1 DEF IInv, Protecting, Informed
    <2>6. /\ core' \in [up : BOOLEAN, inbox : Seq(Requests)] /\ settings' \in Versions
          /\ faults' \in 0..MaxFaults /\ spoiled' \in BOOLEAN /\ (spoiled => spoiled')
      BY <1>1, <2>1, Typed
    <2>7. \A d \in Conns : Undisturbed(d) => SettingsKnown(d)'
      BY <1>5, <2>3 DEF Undisturbed
    <2>8. UNCHANGED <<weather, fonts, kept, lock>> /\ KeepHistory
      BY <1>1 DEF KeepFiles
    <2> QED
      BY <1>4, <1>9, <1>10, <2>2, <2>4, <2>6, <2>7, <2>8, CoreStep
  <1> QED
    BY <1>11, <1>12

LEMMA TimesOutKeeps == ASSUME IInv, NEW c \in Conns, TimesOut(c) PROVE IInv'
  <1> DEFINE I == core.inbox
             J == [i \in DOMAIN I |-> IF I[i].from = c THEN [I[i] EXCEPT !.from = None] ELSE I[i]]
             r == [conn[c] EXCEPT !.call = "lost"]
  <1>1. /\ conn[c].call = "sent" /\ conn' = [conn EXCEPT ![c] = r]
        /\ core' = [core EXCEPT !.inbox = J]
        /\ UNCHANGED <<settings, faults, spoiled>> /\ KeepFiles /\ KeepHistory
    BY DEF TimesOut, Outcome
  <1>2. conn[c].pc \in CallPcs /\ conn[c].pc # "idle" /\ conn[c] \in Connections /\ lock = c
    BY <1>1, Holds DEF IInv, Alone, None, CallPcs
  <1>3. /\ r \in Connections /\ r.pc = conn[c].pc /\ r.left = conn[c].left /\ r.call = "lost"
        /\ r.kind = conn[c].kind /\ r.seen = conn[c].seen
    BY <1>2 DEF Connections
  <1> HIDE DEF r
  <1>4. /\ conn'[c] = r /\ \A d \in Conns : d # c => conn'[d] = conn[d]
        /\ conn' \in [Conns -> Connections]
    BY <1>1, <1>3, Typed
  <1>5. I \in Seq(Requests) /\ Len(I) \in Nat /\ DOMAIN I = 1..Len(I)
    BY InboxTyped
  <1>6. \A i \in DOMAIN I : /\ J[i] \in Requests /\ J[i].op = I[i].op /\ J[i].value = I[i].value
                            /\ J[i].from # c /\ (J[i].from # None => J[i].from = I[i].from)
    BY <1>5, ConnsAssumption, InboxTyped DEF Requests
  <1>7. J \in Seq(Requests) /\ Len(J) = Len(I) /\ DOMAIN J = DOMAIN I /\ (J = <<>> <=> I = <<>>)
    <2>1. J \in [1..Len(I) -> Requests]
      BY <1>5, <1>6
    <2> HIDE DEF J
    <2> QED
      BY <1>5, <2>1
  <1> HIDE DEF J
  <1>8. core' \in [up : BOOLEAN, inbox : Seq(Requests)] /\ core'.inbox = J
    BY <1>1, <1>7, Typed
  <1>9. Queue'
    <2>1. \A i \in DOMAIN J : /\ J[i].op # "export" => J[i].value \in Versions
                              /\ J[i].from # None => /\ conn'[J[i].from].call = "sent"
                                                     /\ J[i].op = conn'[J[i].from].pc
      BY <1>4, <1>6, <1>7, InboxTyped DEF IInv, Queue
    <2>2. \A i, j \in DOMAIN J : J[i].from = J[j].from /\ J[i].from # None => i = j
      BY <1>6, <1>7 DEF IInv, Queue
    <2> QED
      BY <1>8, <2>1, <2>2 DEF Queue
  <1>10. ASSUME ~touched PROVE SettingsKnown(c)'
    <2>1. SettingsKnown(c)
      BY <1>2, <1>10, KnownOf
    <2>2. I # <<>> => Len(I) \in DOMAIN I
      BY <1>5
    <2>3. J # <<>> => J[Len(J)].op = I[Len(I)].op /\ J[Len(J)].value = I[Len(I)].value
      BY <1>6, <1>7, <2>2
    <2>4. Informed(conn'[c]) => Informed(conn[c])
      BY <1>3, <1>4 DEF Informed
    <2>5. ~Calm(conn'[c])
      BY <1>2, <1>3, <1>4 DEF Calm, CallPcs, None
    <2> QED
      BY <1>1, <1>2, <1>3, <1>4, <1>6, <1>7, <1>8, <2>1, <2>3, <2>4, <2>5
      DEF SettingsKnown, CallPcs, KeepHistory, None
  <1> QED
    BY <1>1, <1>2, <1>3, <1>4, <1>8, <1>9, <1>10, Typed, CoreStep
    DEF KeepFiles, Undisturbed, IInv, Protecting, Informed, Alone, None

\* The request at the head of the core's socket, and what is left without it.
LEMMA HeadAndTail ==
  ASSUME IInv, core.inbox # <<>>
  PROVE  /\ 1 \in DOMAIN core.inbox /\ Head(core.inbox) = core.inbox[1]
         /\ core.inbox[1] \in Requests /\ core.inbox[1].from \in Conns \cup {None}
         /\ Tail(core.inbox) \in Seq(Requests) /\ Len(Tail(core.inbox)) = Len(core.inbox) - 1
         /\ DOMAIN Tail(core.inbox) = 1..(Len(core.inbox) - 1)
         /\ \A i \in DOMAIN Tail(core.inbox) : /\ i + 1 \in DOMAIN core.inbox
                                               /\ Tail(core.inbox)[i] = core.inbox[i + 1]
         /\ Len(core.inbox) = 1 <=> Tail(core.inbox) = <<>>
         /\ Tail(core.inbox) # <<>> =>
              Tail(core.inbox)[Len(Tail(core.inbox))] = core.inbox[Len(core.inbox)]
  <1> DEFINE I == core.inbox
  <1>1. I \in Seq(Requests) /\ Len(I) \in Nat /\ DOMAIN I = 1..Len(I) /\ I # <<>>
    BY InboxTyped
  <1> HIDE DEF I
  <1>2. /\ 1 \in DOMAIN I /\ Head(I) = I[1] /\ Tail(I) \in Seq(Requests) /\ Len(Tail(I)) = Len(I) - 1
        /\ DOMAIN Tail(I) = 1..(Len(I) - 1)
        /\ \A i \in DOMAIN Tail(I) : i + 1 \in DOMAIN I /\ Tail(I)[i] = I[i + 1]
    BY <1>1
  <1>3. Len(I) = 1 <=> Tail(I) = <<>>
    BY <1>1, <1>2
  <1>4. Tail(I) # <<>> => Tail(I)[Len(Tail(I))] = I[Len(I)]
    BY <1>1, <1>2, <1>3
  <1>5. I[1] \in Requests /\ I[1].from \in Conns \cup {None}
    BY <1>2, InboxTyped DEF I
  <1> QED
    BY <1>2, <1>3, <1>4, <1>5 DEF I

\* What a reply makes of the caller's connection.
LEMMA ReplyMakes ==
  ASSUME IInv, NEW c \in Conns, NEW o \in {"ok", "refused"}, NEW v \in Contents, Reply(c, o, v)
  PROVE  \E r \in Connections :
           /\ conn' = [conn EXCEPT ![c] = r]
           /\ r.pc = conn[c].pc /\ r.left = conn[c].left /\ r.call = o /\ r.kind = conn[c].kind
           /\ r.seen.weather = conn[c].seen.weather /\ r.seen.fonts = conn[c].seen.fonts
           /\ r.seen.settings = IF o = "ok" /\ conn[c].pc = "export" THEN v ELSE conn[c].seen.settings
  <1> DEFINE x == IF o = "ok" /\ conn[c].pc = "export" THEN v ELSE conn[c].seen.settings
             e == [conn[c].seen EXCEPT !.settings = x]
             r == [conn[c] EXCEPT !.call = o, !.seen = e]
  <1>1. conn' = [conn EXCEPT ![c] = r]
    <2>1. conn' = [conn EXCEPT ![c].call = o,
                               ![c].seen.settings = IF o = "ok" /\ conn[c].pc = "export" THEN v ELSE @]
      BY ConnsAssumption DEF Reply
    <2> DEFINE m == [conn[c] EXCEPT !.call = o]
               n == [m EXCEPT !.seen.settings = x]
    <2>2. /\ conn[c] \in Connections /\ conn[c].seen \in Everything
          /\ m \in Connections /\ m.seen = conn[c].seen
      BY Typed DEF Connections
    <2>3. conn' = [conn EXCEPT ![c] = n]
      <3>1. x = IF o = "ok" /\ conn[c].pc = "export" THEN v ELSE m.seen.settings
        BY <2>2
      <3> HIDE DEF x
      <3> QED
        BY <2>1, <3>1, Typed
    <2>4. n = r
      <3> HIDE DEF x
      <3> QED
        BY <2>2 DEF Connections, Everything
    <2> HIDE DEF r, n
    <2> QED
      BY <2>3, <2>4
  <1>2. conn[c] \in Connections /\ conn[c].seen \in Everything
    BY Typed DEF Connections
  <1>3. x \in Contents
    BY <1>2 DEF Everything
  <1> HIDE DEF x
  <1>4. /\ e \in Everything /\ e.settings = x /\ e.weather = conn[c].seen.weather
        /\ e.fonts = conn[c].seen.fonts
    BY <1>2, <1>3 DEF Everything
  <1> HIDE DEF e
  <1>5. /\ r \in Connections /\ r.pc = conn[c].pc /\ r.left = conn[c].left /\ r.call = o
        /\ r.kind = conn[c].kind /\ r.seen = e
    BY <1>2, <1>4 DEF Connections
  <1> HIDE DEF r
  <1> QED
    BY <1>1, <1>4, <1>5 DEF x

\* A request is taken from the socket and answered.
LEMMA ReplyStep ==
  ASSUME IInv, core.inbox # <<>>, NEW o \in {"ok", "refused"}, NEW v \in Contents,
         o = "ok" => v = settings, Reply(Head(core.inbox).from, o, v),
         core' = [core EXCEPT !.inbox = Tail(@)],
         settings' = IF o = "ok" /\ Head(core.inbox).op # "export" THEN Head(core.inbox).value ELSE settings,
         faults' \in 0..MaxFaults, spoiled' \in BOOLEAN, spoiled => spoiled',
         o = "refused" /\ Head(core.inbox).op = "reimport" => spoiled',
         KeepFiles, KeepHistory
  PROVE  IInv'
  <1> DEFINE I == core.inbox  J == Tail(I)  h == I[1]
  <1>1. /\ 1 \in DOMAIN I /\ Head(I) = h /\ h.from \in Conns \cup {None} /\ J \in Seq(Requests)
        /\ \A i \in DOMAIN J : i + 1 \in DOMAIN I /\ J[i] = I[i + 1] /\ i \in Nat \ {0}
        /\ Len(I) = 1 <=> J = <<>>
        /\ J # <<>> => J[Len(J)] = I[Len(I)]
        /\ I # <<>>
    BY HeadAndTail
  <1>2. core' \in [up : BOOLEAN, inbox : Seq(Requests)] /\ core'.inbox = J
    BY <1>1, Typed
  <1>3. Reply(h.from, o, v) /\ settings' = IF o = "ok" /\ h.op # "export" THEN h.value ELSE settings
    BY <1>1
  <1> HIDE DEF J, h
  <1>4. /\ conn' \in [Conns -> Connections]
        /\ \A d \in Conns :
             /\ conn'[d].pc = conn[d].pc /\ conn'[d].kind = conn[d].kind /\ conn'[d].left = conn[d].left
             /\ conn'[d].seen.weather = conn[d].seen.weather /\ conn'[d].seen.fonts = conn[d].seen.fonts
             /\ conn'[d].call = IF d = h.from THEN o ELSE conn[d].call
             /\ conn'[d].seen.settings = IF d = h.from /\ o = "ok" /\ conn[d].pc = "export"
                                         THEN settings ELSE conn[d].seen.settings
    <2>1. CASE h.from = None
      BY <1>3, <2>1, ConnsAssumption, Typed DEF Reply
    <2>2. CASE h.from \in Conns
      <3>1. PICK r \in Connections :
              /\ conn' = [conn EXCEPT ![h.from] = r]
              /\ r.pc = conn[h.from].pc /\ r.left = conn[h.from].left /\ r.call = o
              /\ r.kind = conn[h.from].kind
              /\ r.seen.weather = conn[h.from].seen.weather /\ r.seen.fonts = conn[h.from].seen.fonts
              /\ r.seen.settings = IF o = "ok" /\ conn[h.from].pc = "export"
                                   THEN v ELSE conn[h.from].seen.settings
        BY <1>3, <2>2, ReplyMakes
      <3>2. conn'[h.from] = r /\ \A d \in Conns : d # h.from => conn'[d] = conn[d]
        BY <2>2, <3>1, Typed
      <3> QED
        BY <2>2, <3>1, <3>2, Typed
    <2> QED
      BY <1>1, <2>1, <2>2
  <1>5. /\ h.op # "export" => h.value \in Versions
        /\ \A d \in Conns : d = h.from => conn[d].call = "sent" /\ h.op = conn[d].pc
    BY <1>1, ConnsAssumption DEF IInv, Queue, h
  <1>6. settings' \in Versions
    BY <1>1, <1>5, Typed
  <1>7. \A d \in Conns : conn'[d].call # None => conn[d].pc \in CallPcs
    BY <1>4, <1>5 DEF IInv, Alone, None
  <1>8. \A d \in Conns : Informed(conn'[d]) => conn'[d].seen.settings \in Versions
    <2> TAKE d \in Conns
    <2>1. CASE d = h.from /\ o = "ok" /\ conn[d].pc = "export"
      BY <1>4, <2>1, Typed
    <2>2. CASE ~(d = h.from /\ o = "ok" /\ conn[d].pc = "export")
      BY <1>4, <2>2 DEF IInv, Protecting, Informed
    <2> QED
      BY <2>1, <2>2
  <1>9. Queue'
    <2>1. \A i \in DOMAIN J : J[i].op # "export" => J[i].value \in Versions
      BY <1>1 DEF IInv, Queue
    <2>2. ASSUME NEW i \in DOMAIN J, J[i].from # None
          PROVE  conn'[J[i].from].call = "sent" /\ J[i].op = conn'[J[i].from].pc
      <3>1. i + 1 \in DOMAIN I /\ J[i] = I[i + 1] /\ i + 1 # 1
        BY <1>1
      <3>2. J[i].from # h.from /\ J[i].from \in Conns
        BY <1>1, <2>2, <3>1, InboxTyped DEF IInv, Queue, h
      <3>3. conn[J[i].from].call = "sent" /\ J[i].op = conn[J[i].from].pc
        BY <2>2, <3>1 DEF IInv, Queue
      <3> QED
        BY <1>4, <3>2, <3>3
    <2>3. ASSUME NEW i \in DOMAIN J, NEW j \in DOMAIN J, J[i].from = J[j].from, J[i].from # None
          PROVE  i = j
      <3>1. /\ i + 1 \in DOMAIN I /\ J[i] = I[i + 1] /\ i \in Nat
            /\ j + 1 \in DOMAIN I /\ J[j] = I[j + 1] /\ j \in Nat
        BY <1>1
      <3>2. i + 1 = j + 1
        BY <2>3, <3>1 DEF IInv, Queue
      <3> QED
        BY <3>1, <3>2
    <2> QED
      BY <1>2, <2>1, <2>2, <2>3 DEF Queue
  <1>10. ASSUME NEW d \in Conns, Undisturbed(d) PROVE SettingsKnown(d)'
    <2>1. SettingsKnown(d) /\ conn[d].pc # "idle" /\ before' = before
      BY <1>10 DEF IInv, Known, Alone, Undisturbed, KeepHistory
    <2>2. ~Calm(conn[d]) /\ conn[d].pc # "commit" /\ ~(conn[d].pc = "import" /\ conn[d].call = "ok")
      BY <1>1, <2>1 DEF SettingsKnown
    <2>3. conn[d].pc \in {"export", "import"} =>
            conn[d].call # None /\ conn[d].call # "ok"
      BY <2>2 DEF Calm
    <2>4. ASSUME d = h.from PROVE SettingsKnown(d)'
      <3>1. conn[d].call = "sent" /\ h.op = conn[d].pc /\ conn'[d].call = o /\ conn[d].pc \in CallPcs
        BY <1>4, <1>5, <2>4 DEF IInv, Alone, None
      <3>2. CASE conn[d].pc = "export"
        BY <1>1, <1>2, <1>4, <2>1, <2>4, <3>1, <3>2 DEF SettingsKnown, Calm, Informed, Moving, Ending
      <3>3. CASE conn[d].pc = "import"
        <4>1. /\ settings = before.settings /\ h.value = "backup" /\ J = <<>>
              /\ conn[d].seen.settings = before.settings
          BY <1>1, <2>1, <3>1, <3>3 DEF SettingsKnown, Informed, Moving, h
        <4>2. /\ conn'[d].seen.settings = before.settings /\ conn'[d].call = o /\ conn'[d].pc = "import"
              /\ core'.inbox = <<>> /\ (o = "ok" => settings' = "backup")
          BY <1>2, <1>4, <1>3, <3>1, <3>3, <4>1
        <4> QED
          BY <2>1, <4>2 DEF SettingsKnown, Calm, None
      <3>4. CASE conn[d].pc = "reimport"
        BY <1>1, <1>2, <1>4, <2>1, <2>4, <3>1, <3>4
        DEF SettingsKnown, Calm, Informed, Moving, Ending, h, None
      <3> QED
        BY <3>1, <3>2, <3>3, <3>4 DEF CallPcs
    <2>5. ASSUME d # h.from PROVE SettingsKnown(d)'
      <3>1. /\ conn'[d].call = conn[d].call /\ conn'[d].seen.settings = conn[d].seen.settings
            /\ conn'[d].pc = conn[d].pc
        BY <1>4, <2>5
      <3>2. conn[d].pc \in {"export", "import"} => conn[d].call # "sent"
        BY <2>1, <2>5 DEF SettingsKnown, h
      <3>3. ~Calm(conn'[d]) /\ (Informed(conn'[d]) => Informed(conn[d]))
        BY <2>2, <3>1 DEF Calm, Informed
      <3>4. CASE conn[d].pc = "export"
        BY <1>1, <1>2, <2>1, <2>3, <3>1, <3>2, <3>3, <3>4 DEF SettingsKnown, h
      <3>5. CASE conn[d].pc = "reimport"
        BY <1>1, <1>2, <2>1, <3>1, <3>3, <3>5 DEF SettingsKnown, h
      <3>6. CASE conn[d].pc \notin {"export", "reimport"}
        BY <2>1, <2>2, <2>3, <3>1, <3>2, <3>3, <3>6 DEF SettingsKnown
      <3> QED
        BY <3>4, <3>5, <3>6
    <2> QED
      BY <2>4, <2>5
  <1>11. \A d \in Conns : Undisturbed(d) => SettingsKnown(d)'
    BY <1>10
  <1>12. \A d \in Conns : /\ conn'[d].pc = conn[d].pc /\ conn'[d].kind = conn[d].kind
                          /\ conn'[d].left = conn[d].left
                          /\ conn'[d].seen.weather = conn[d].seen.weather
                          /\ conn'[d].seen.fonts = conn[d].seen.fonts
    BY <1>4
  <1>13. conn' \in [Conns -> Connections] /\ UNCHANGED <<weather, fonts, kept, lock>>
    BY <1>4 DEF KeepFiles
  <1> QED
    BY <1>2, <1>6, <1>7, <1>8, <1>9, <1>11, <1>12, <1>13, CoreStep

LEMMA ServeKeeps == ASSUME IInv, Serve PROVE IInv'
  <1>1. Head(core.inbox).from \in Conns \cup {None} /\ core.inbox # <<>> /\ settings \in Contents
    BY HeadAndTail, Typed, NoFontsTyped DEF Serve
  <1>2. /\ settings' = IF Head(core.inbox).op # "export" THEN Head(core.inbox).value ELSE settings
        /\ Reply(Head(core.inbox).from, "ok", settings) /\ core' = [core EXCEPT !.inbox = Tail(@)]
        /\ UNCHANGED <<faults, spoiled>> /\ KeepFiles /\ KeepHistory
    BY DEF Serve
  <1> QED
    BY <1>1, <1>2, Typed, ReplyStep

LEMMA ServeRefusesKeeps == ASSUME IInv, ServeRefuses PROVE IInv'
  <1>1. core.inbox # <<>> /\ None \in Contents
    BY NoFontsTyped DEF ServeRefuses
  <1>2. /\ Reply(Head(core.inbox).from, "refused", None) /\ core' = [core EXCEPT !.inbox = Tail(@)]
        /\ settings' = settings /\ KeepFiles /\ KeepHistory
        /\ spoiled' = (spoiled \/ Head(core.inbox).op = "reimport")
    BY DEF ServeRefuses
  <1>3. faults' \in 0..MaxFaults
    BY FaultTyped DEF ServeRefuses
  <1>4. spoiled' \in BOOLEAN /\ (spoiled => spoiled') /\ (Head(core.inbox).op = "reimport" => spoiled')
    BY <1>2, Typed
  <1> QED
    BY <1>1, <1>2, <1>3, <1>4, ReplyStep

\* Nothing is in the socket of a core that has just died, and nobody waits for it.
LEMMA CoreCrashKeeps == ASSUME IInv, CoreCrash PROVE IInv'
  <1> DEFINE I == core.inbox
  <1>1. core' \in [up : BOOLEAN, inbox : Seq(Requests)] /\ core'.inbox = <<>>
    BY DEF CoreCrash
  <1>2. /\ conn' \in [Conns -> Connections]
        /\ \A d \in Conns :
             /\ conn'[d].pc = conn[d].pc /\ conn'[d].kind = conn[d].kind /\ conn'[d].left = conn[d].left
             /\ conn'[d].seen = conn[d].seen
             /\ conn'[d].call = IF conn[d].call = "sent" THEN "lost" ELSE conn[d].call
    <2> DEFINE r(d) == [conn[d] EXCEPT !.call = "lost"]
    <2>1. \A d \in Conns : /\ r(d) \in Connections /\ r(d).pc = conn[d].pc /\ r(d).kind = conn[d].kind
                           /\ r(d).left = conn[d].left /\ r(d).seen = conn[d].seen /\ r(d).call = "lost"
      BY Typed DEF Connections
    <2>2. conn' = [d \in Conns |-> IF conn[d].call = "sent" THEN r(d) ELSE conn[d]]
      BY DEF CoreCrash
    <2> HIDE DEF r
    <2> QED
      BY <2>1, <2>2, Typed
  <1>3. /\ settings' = settings \/ (I # <<>> /\ I[1].op # "export" /\ settings' = I[1].value)
        /\ I # <<>> => 1 \in DOMAIN I /\ Len(I) \in DOMAIN I
        /\ I # <<>> /\ I[Len(I)].op = "reimport" => spoiled'
        /\ spoiled' \in BOOLEAN /\ (spoiled => spoiled') /\ faults' \in 0..MaxFaults
        /\ KeepFiles /\ KeepHistory
    <2>1. I # <<>> => Head(I) = I[1] /\ 1 \in DOMAIN I /\ Len(I) \in DOMAIN I
      BY InboxTyped
    <2> QED
      BY <2>1, FaultTyped, Typed DEF CoreCrash
  <1>4. settings' \in Versions
    BY <1>3, Typed DEF IInv, Queue
  <1>5. Queue'
    BY <1>1 DEF Queue
  <1>6. \A d \in Conns : conn'[d].call # None => conn[d].pc \in CallPcs
    BY <1>2 DEF IInv, Alone, None
  <1>7. \A d \in Conns : Informed(conn'[d]) => Informed(conn[d])
    BY <1>2 DEF Informed
  <1>8. \A d \in Conns : Informed(conn'[d]) => conn'[d].seen.settings \in Versions
    BY <1>2, <1>7 DEF IInv, Protecting
  <1>9. ASSUME NEW d \in Conns, Undisturbed(d) PROVE SettingsKnown(d)'
    <2>1. SettingsKnown(d) /\ before' = before
      BY <1>9 DEF IInv, Known, KeepHistory, CoreCrash
    <2>2. Calm(conn'[d]) => Calm(conn[d])
      BY <1>2 DEF Calm, None
    <2>3. CASE I = <<>>
      BY <1>1, <1>2, <1>3, <1>7, <2>1, <2>2, <2>3 DEF SettingsKnown, None
    <2>4. CASE I # <<>>
      <3>1. ~Calm(conn[d]) /\ ~(conn[d].pc = "import" /\ conn[d].call = "ok") /\ conn[d].pc # "commit"
        BY <2>1, <2>4 DEF SettingsKnown
      <3>2. conn[d].pc = "export" => settings' = before.settings
        BY <1>3, <2>1, <2>4 DEF SettingsKnown
      <3>3. conn[d].pc = "reimport" /\ conn[d].call # None => spoiled'
        BY <1>3, <2>1, <2>4 DEF SettingsKnown
      <3> QED
        BY <1>1, <1>2, <1>3, <1>7, <2>1, <2>2, <3>1, <3>2, <3>3 DEF SettingsKnown, None
    <2> QED
      BY <2>3, <2>4
  <1>10. \A d \in Conns : Undisturbed(d) => SettingsKnown(d)'
    BY <1>9
  <1>11. \A d \in Conns : /\ conn'[d].pc = conn[d].pc /\ conn'[d].kind = conn[d].kind
                          /\ conn'[d].left = conn[d].left
                          /\ conn'[d].seen.weather = conn[d].seen.weather
                          /\ conn'[d].seen.fonts = conn[d].seen.fonts
    BY <1>2
  <1>12. conn' \in [Conns -> Connections] /\ UNCHANGED <<weather, fonts, kept, lock>>
    BY <1>2, <1>3 DEF KeepFiles
  <1> QED
    BY <1>1, <1>3, <1>4, <1>5, <1>6, <1>8, <1>10, <1>11, <1>12, CoreStep

LEMMA CoreStartKeeps == ASSUME IInv, CoreStart PROVE IInv'
  <1>1. core' \in [up : BOOLEAN, inbox : Seq(Requests)] /\ core'.inbox = core.inbox
    BY Typed DEF CoreStart
  <1>2. UNCHANGED <<settings, weather, fonts, kept, lock, conn, answer, faults, others, before, touched, spoiled>>
    BY DEF CoreStart, KeepFiles, KeepHistory
  <1>3. TypeOK'
    BY <1>1, <1>2 DEF IInv, TypeOK
  <1>4. Alone' /\ Protecting'
    BY <1>2 DEF IInv, Alone, Protecting
  <1>5. Queue'
    BY <1>1, <1>2 DEF IInv, Queue
  <1>6. Known'
    BY <1>1, <1>2 DEF IInv, Known, Undisturbed, SettingsKnown, WeatherKnown, FontsKnown, Either
  <1> QED
    BY <1>3, <1>4, <1>5, <1>6 DEF IInv

-----------------------------------------------------------------------------
(* The invariant.                                                           *)

\* Another request disturbs whoever holds the lock.
LEMMA OthersKeep == ASSUME IInv, OtherFont \/ OtherWeather \/ OtherSettings PROVE IInv'
  <1>1. /\ others' \in 0..MaxOthers /\ touched' = (lock # None)
        /\ UNCHANGED <<settings, kept, lock, conn, answer, faults, before, spoiled>>
    BY Typed DEF OtherFont, OtherWeather, OtherSettings, Other, KeepRequests
  <1>2. weather' \in [source : Versions, frames : Versions] /\ fonts' \in [Fonts -> Contents]
    <2>1. CASE OtherFont
      BY <2>1, Typed, NoFontsTyped DEF OtherFont
    <2>2. CASE OtherWeather
      BY <2>2, Typed, NoFontsTyped DEF OtherWeather
    <2>3. CASE OtherSettings
      BY <2>3, Typed DEF OtherSettings
    <2> QED
      BY <2>1, <2>2, <2>3
  <1>3. core' \in [up : BOOLEAN, inbox : Seq(Requests)] /\ Queue'
    <2>1. CASE core' = core
      BY <1>1, <2>1, Typed DEF IInv, Queue
    <2>2. CASE OtherSettings
      <3> DEFINE I == core.inbox
                 a == [op |-> "set", from |-> None, value |-> "other"]
                 J == Append(I, a)
      <3>1. a \in Requests /\ a.from = None /\ a.value \in Versions
        BY NoFontsTyped DEF Requests
      <3>2. I \in Seq(Requests) /\ DOMAIN I = 1..Len(I) /\ Len(I) \in Nat
        BY InboxTyped
      <3> HIDE DEF a
      <3>3. /\ J \in Seq(Requests) /\ \A i \in DOMAIN I : J[i] = I[i]
            /\ J[Len(I) + 1] = a /\ DOMAIN J = 1..(Len(I) + 1)
            /\ \A i \in DOMAIN J : i \in DOMAIN I \/ i = Len(I) + 1
        BY <3>1, <3>2
      <3>4. core' = [core EXCEPT !.inbox = J]
        BY <2>2 DEF OtherSettings, a
      <3> HIDE DEF J
      <3>5. core' \in [up : BOOLEAN, inbox : Seq(Requests)] /\ core'.inbox = J
        BY <3>3, <3>4, Typed
      <3>6. \A i \in DOMAIN J : /\ J[i].op # "export" => J[i].value \in Versions
                                /\ J[i].from # None => i \in DOMAIN I
        BY <3>1, <3>3 DEF IInv, Queue
      <3> QED
        BY <1>1, <3>3, <3>5, <3>6 DEF IInv, Queue
    <2> QED
      BY <2>1, <2>2 DEF OtherFont, OtherWeather
  <1>4. TypeOK'
    BY <1>1, <1>2, <1>3, Typed DEF IInv, TypeOK
  <1>5. Alone' /\ Protecting'
    BY <1>1 DEF IInv, Alone, Protecting
  <1>6. Known'
    BY <1>1, ConnsAssumption DEF Known, Undisturbed
  <1> QED
    BY <1>3, <1>4, <1>5, <1>6 DEF IInv

LEMMA InitHolds == Init => IInv
  <1> SUFFICES ASSUME Init PROVE IInv
    OBVIOUS
  <1>1. \A c \in Conns : conn[c] = Quiet
    BY DEF Init
  <1>2. TypeOK
    <2>1. /\ settings \in Versions /\ weather \in [source : Versions, frames : Versions]
          /\ fonts \in [Fonts -> Contents] /\ kept \in [Fonts -> Contents] /\ kept = NoFonts
      BY NoFontsTyped DEF Init
    <2>2. core \in [up : BOOLEAN, inbox : Seq(Requests)]
      BY DEF Init
    <2>3. conn \in [Conns -> Connections] /\ before \in Everything
      BY QuietTyped, NothingTyped DEF Init
    <2>4. /\ lock \in Conns \cup {None} /\ answer \in {None, "ok", "failed", "unprotected", "refused"}
          /\ touched \in BOOLEAN /\ spoiled \in BOOLEAN
      BY DEF Init
    <2>5. faults \in 0..MaxFaults /\ others \in 0..MaxOthers
      BY BoundsAssumption DEF Init
    <2> QED
      BY <2>1, <2>2, <2>3, <2>4, <2>5 DEF TypeOK
  <1>3. Alone /\ Protecting
    BY <1>1, QuietTyped, ConnsAssumption
    DEF Init, Alone, Protecting, Informed, Moving, Ending
  <1>4. Queue
    BY DEF Init, Queue
  <1>5. Known
    BY ConnsAssumption DEF Init, Known, Undisturbed
  <1> QED
    BY <1>2, <1>3, <1>4, <1>5 DEF IInv

LEMMA StepKeeps == ASSUME IInv, [Next]_vars PROVE IInv'
  <1>1. ASSUME NEW c \in Conns, Restore(c) PROVE IInv'
    BY <1>1, PrepareKeeps, MoveOutKeeps, ProtectedKeeps, CopyFontKeeps, CopiedKeeps, CopyFailsKeeps,
       WriteSourceKeeps, WriteFramesKeeps, WriteFailsKeeps, ImportedKeeps, ClearFontKeeps, ClearedKeeps,
       MoveBackKeeps, FontsBackKeeps, RewriteSourceKeeps, RewriteFramesKeeps, AnswersKeep
    DEF Restore
  <1>2. ASSUME NEW c \in Conns, Step(c) PROVE IInv'
    BY <1>1, <1>2, SendKeeps, TimesOutKeeps, ExportedKeeps, ReadWeatherKeeps, ZipFontKeeps, AnswersKeep
    DEF Step
  <1>3. ASSUME NEW c \in Conns, NEW kind \in {"restore", "download"}, Begin(c, kind) PROVE IInv'
    BY <1>3, TakeLockKeeps DEF Begin
  <1>4. CASE Serve \/ ServeRefuses \/ CoreCrash \/ CoreStart \/ OtherFont \/ OtherWeather \/ OtherSettings
    BY <1>4, ServeKeeps, ServeRefusesKeeps, CoreCrashKeeps, CoreStartKeeps, OthersKeep
  <1>5. CASE UNCHANGED vars
    BY <1>5 DEF vars, IInv, TypeOK, Alone, Protecting, Queue, Known, Undisturbed, SettingsKnown,
                WeatherKnown, FontsKnown, Either
  <1> QED
    BY <1>2, <1>3, <1>4, <1>5 DEF Next

LEMMA Invariance == Spec => []IInv
  BY InitHolds, StepKeeps, PTL DEF Spec

\* Well-typed, and whatever a restore does with the fonts, and wherever it fails, each
\* of those there were is in its place or aside (stage_current_fonts, restore_backup_locked).
THEOREM FontsCorrect == Spec => []BackupInv
  <1>1. IInv => BackupInv
    <2> SUFFICES ASSUME IInv, NEW c \in Conns, ~touched, ~spoiled, NEW f \in Fonts, before.fonts[f] # None,
                        conn[c].pc \in {"protect", "copy", "source", "frames", "import", "clear", "back"}
                 PROVE  before.fonts[f] \in {fonts[f], kept[f]}
      BY DEF BackupInv, FontsSafe, IInv
    <2> QED
      BY KnownOf DEF FontsKnown, Either
  <1> QED
    BY <1>1, Invariance, PTL

-----------------------------------------------------------------------------
(* What the answers say.                                                    *)

\* What the core does to a connection leaves it where it is.
LEMMA CoreKeepsPc ==
  ASSUME IInv, Serve \/ ServeRefuses \/ CoreCrash, NEW c \in Conns
  PROVE  conn'[c].pc = conn[c].pc
  <1>1. CASE Serve \/ ServeRefuses
    <2>1. PICK o \in {"ok", "refused"}, v \in Contents : Reply(Head(core.inbox).from, o, v)
      BY <1>1, Typed, NoFontsTyped DEF Serve, ServeRefuses
    <2>2. Head(core.inbox).from \in Conns \cup {None}
      BY <1>1, HeadAndTail DEF Serve, ServeRefuses
    <2>3. CASE Head(core.inbox).from = None
      BY <2>1, <2>3 DEF Reply
    <2>4. CASE Head(core.inbox).from \in Conns
      <3> DEFINE d == Head(core.inbox).from
      <3>1. PICK r \in Connections : conn' = [conn EXCEPT ![d] = r] /\ r.pc = conn[d].pc
        BY <2>1, <2>4, ReplyMakes
      <3> QED
        BY <2>4, <3>1, Typed
    <2> QED
      BY <2>2, <2>3, <2>4
  <1>2. CASE CoreCrash
    BY <1>2, Typed DEF CoreCrash, Connections
  <1> QED
    BY <1>1, <1>2

\* A request ends with one of these answers.
LEMMA Ended ==
  ASSUME IInv, [Next]_vars, NEW c \in Conns, conn[c].pc # "idle", conn'[c].pc = "idle"
  PROVE  \/ Refuse(c) \/ NotExported(c) \/ ReadFails(c) \/ ProtectFails(c) \/ Commit(c)
         \/ Undone(c) \/ Zipped(c)
  <1>1. conn[c] \in Connections /\ \A d \in Conns : d # c => conn[d].pc = "idle"
    BY Holds
  <1>2. ~(Serve \/ ServeRefuses \/ CoreCrash)
    BY CoreKeepsPc
  <1>3. ~(CoreStart \/ OtherFont \/ OtherWeather \/ OtherSettings \/ UNCHANGED vars)
    BY DEF CoreStart, OtherFont, OtherWeather, OtherSettings, KeepRequests, vars
  <1>4. \A d \in Conns, kind \in {"restore", "download"} : ~Begin(d, kind)
    BY Holds, ConnsAssumption DEF Begin
  <1>5. \A d \in Conns : Step(d) => d = c
    <2>1. ASSUME NEW d \in Conns, Step(d) PROVE conn[d].pc # "idle"
      <3>1. conn[d].call = "sent" => conn[d].pc \in CallPcs
        BY DEF IInv, Alone, None
      <3>2. CASE Restore(d)
        BY <3>2 DEF Restore, Prepare, Refuse, MoveOut, Protected, ProtectFails, CopyFont, Copied,
          CopyFails, WriteSource, WriteFrames, WriteFails, Imported, Commit, ClearFont, Cleared, MoveBack,
          FontsBack, RewriteSource, RewriteFrames, Undone
      <3>3. CASE ~Restore(d)
        BY <2>1, <3>1, <3>3 DEF Step, Send, TimesOut, Exported, NotExported, ReadWeather, ReadFails,
          ZipFont, Zipped, CallPcs
      <3> QED
        BY <3>2, <3>3
    <2> QED
      BY <1>1, <2>1
  <1>6. \A to \in Pcs : to # "idle" => ~Move(c, to)
    BY Typed DEF Move, Connections
  <1>7. \A to \in Pcs : \A left : to # "idle" => ~MoveTo(c, to, left)
    BY Typed DEF MoveTo, Connections
  <1>8. \A f : ~Seen(c, f)
    BY Typed DEF Seen, Connections
  <1>9. \A o : ~Outcome(c, o)
    BY Typed DEF Outcome, Connections
  <1>10. ~(Prepare(c) \/ Protected(c) \/ Copied(c) \/ CopyFails(c) \/ WriteSource(c) \/ WriteFrames(c)
            \/ WriteFails(c) \/ Cleared(c) \/ FontsBack(c) \/ RewriteSource(c) \/ RewriteFrames(c))
    BY <1>6, <1>7 DEF Prepare, Protected, Copied, CopyFails, WriteSource, WriteFrames, WriteFails,
      Cleared, FontsBack, RewriteSource, RewriteFrames, Pcs, CallPcs
  <1>11. ~(MoveOut(c) \/ CopyFont(c) \/ ClearFont(c) \/ MoveBack(c))
    BY <1>8 DEF MoveOut, CopyFont, ClearFont, MoveBack
  <1>12. ~(Send(c) \/ TimesOut(c))
    BY <1>9 DEF Send, TimesOut
  <1>13. ~Imported(c)
    BY Typed DEF Imported, Connections
  <1>14. ~Exported(c)
    BY Typed DEF Exported, Connections
  <1>15. ~ReadWeather(c)
    BY Typed DEF ReadWeather, Connections
  <1>16. ~ZipFont(c)
    BY ZipMakes, Typed
  <1> QED
    BY <1>2, <1>3, <1>4, <1>5, <1>10, <1>11, <1>12, <1>13, <1>14, <1>15, <1>16 DEF Next, Step, Restore

\* An empty socket changes nothing, and what is last in it decides.
LEMMA LastDecides ==
  ASSUME IInv
  PROVE  /\ (\A i \in DOMAIN core.inbox : core.inbox[i].op = "export") => OnceServed = settings
         /\ core.inbox # <<>> /\ core.inbox[Len(core.inbox)].op # "export" =>
              OnceServed = core.inbox[Len(core.inbox)].value
  <1> DEFINE I == core.inbox
             stores == {i \in DOMAIN I : I[i].op # "export"}
  <1>1. OnceServed = IF stores = {} THEN settings ELSE I[Max(stores)].value
    BY DEF OnceServed
  <1>2. Len(I) \in Nat /\ DOMAIN I = 1..Len(I) /\ I \in Seq(Requests)
    BY InboxTyped
  <1>3. ASSUME I # <<>>, I[Len(I)].op # "export" PROVE stores # {} /\ Max(stores) = Len(I)
    <2>1. Len(I) \in DOMAIN I
      BY <1>2, <1>3
    <2>2. Len(I) \in stores /\ \A x \in stores : x \in Nat /\ Len(I) >= x
      BY <1>2, <1>3, <2>1
    <2> HIDE DEF stores, I
    <2>3. \A x \in stores : (\A y \in stores : x >= y) => x = Len(I)
      BY <1>2, <2>2
    <2> QED
      BY <2>2, <2>3 DEF Max
  <1>4. (\A i \in DOMAIN I : I[i].op = "export") => stores = {}
    OBVIOUS
  <1> HIDE DEF stores
  <1> QED
    BY <1>1, <1>3, <1>4

\* What the clock will be, from its three parts.
LEMMA OutlookIs ==
  ASSUME IInv, NEW all, all = [settings |-> all.settings, weather |-> all.weather, fonts |-> all.fonts],
         OnceServed = all.settings, weather = all.weather, fonts = all.fonts
  PROVE  Outlook = all
  BY DEF Outlook, Now

\* A restore that reports success has put the archive's settings, weather files and
\* fonts in place and left none of the old ones, and one that reports failure or
\* refusal leaves all as it was once the core has served its socket, unless a step of
\* the way back failed (restore_backup_locked).
THEOREM RestoreCorrect == Spec => RestoreAllOrNothing
  <1> DEFINE Whole(c) == Answers(c, "restore", "ok") /\ ~touched => Outlook' = Backup
             Undo(c) == (Answers(c, "restore", "failed") \/ Answers(c, "restore", "refused"))
                          /\ ~touched /\ ~spoiled => Outlook' = before
  <1>1. ASSUME IInv, [Next]_vars, NEW c \in Conns,
               conn[c].kind = "restore", conn[c].pc # "idle", conn'[c].pc = "idle", ~touched
        PROVE  /\ answer' = "ok" => Outlook' = Backup
               /\ answer' \in {"failed", "refused"} /\ ~spoiled => Outlook' = before
    <2>1. /\ Refuse(c) \/ NotExported(c) \/ ReadFails(c) \/ ProtectFails(c) \/ Commit(c) \/ Undone(c)
          /\ UNCHANGED <<settings, weather, fonts, core>>
      <3>1. ~Zipped(c)
        BY <1>1 DEF Zipped, IInv, Alone
      <3> QED
        BY <1>1, <3>1, Ended DEF Refuse, NotExported, ReadFails, ProtectFails, Commit, Undone
    <2>2. Outlook' = Outlook
      BY <2>1 DEF Outlook, Now, OnceServed
    <2>3. SettingsKnown(c) /\ WeatherKnown(c) /\ FontsKnown(c)
      BY <1>1, KnownOf
    <2>4. before = [settings |-> before.settings, weather |-> before.weather, fonts |-> before.fonts]
      BY <1>1, Typed DEF Everything
    <2>5. CASE Commit(c)
      <3>1. answer' = "ok" /\ conn[c].pc = "commit"
        BY <2>5 DEF Commit, Answer
      <3>2. core.inbox = <<>> /\ settings = "backup" /\ weather = Backup.weather /\ fonts = Backup.fonts
        BY <2>3, <3>1 DEF SettingsKnown, WeatherKnown, FontsKnown
      <3>3. OnceServed = Backup.settings
        BY <1>1, <3>2, LastDecides DEF Backup
      <3>4. Outlook = Backup
        BY <1>1, <3>2, <3>3, OutlookIs DEF Backup
      <3> QED
        BY <2>2, <3>1, <3>4
    <2>6. CASE Refuse(c) \/ NotExported(c) \/ ReadFails(c)
      <3>1. answer' = "refused" /\ conn[c].pc \in {"prepare", "export", "weather"}
        BY <2>6 DEF Refuse, NotExported, ReadFails, Answer
      <3>2. /\ settings = before.settings /\ weather = before.weather /\ fonts = before.fonts
            /\ \A i \in DOMAIN core.inbox : core.inbox[i].op = "export"
        BY <2>3, <3>1 DEF SettingsKnown, WeatherKnown, FontsKnown, Calm
      <3>3. OnceServed = before.settings
        BY <1>1, <3>2, LastDecides
      <3>4. Outlook = before
        BY <1>1, <2>4, <3>2, <3>3, OutlookIs
      <3> QED
        BY <2>2, <3>1, <3>4
    <2>7. CASE ProtectFails(c)
      BY <2>7 DEF ProtectFails, Answer
    <2>8. CASE Undone(c)
      <3>1. answer' = "failed" /\ conn[c].pc = "reimport" /\ conn[c].call # None
        BY <2>8 DEF Undone, Answer, None
      <3>2. ASSUME ~spoiled PROVE Outlook = before
        <4>1. weather = before.weather /\ fonts = before.fonts
          BY <2>3, <3>1, <3>2 DEF WeatherKnown, FontsKnown, Ending
        <4>2. CASE core.inbox = <<>>
          <5>1. OnceServed = before.settings
            BY <1>1, <2>3, <3>1, <3>2, <4>2, LastDecides DEF SettingsKnown
          <5> QED
            BY <1>1, <2>4, <4>1, <5>1, OutlookIs
        <4>3. CASE core.inbox # <<>>
          <5>1. /\ core.inbox[Len(core.inbox)].op = "reimport"
                /\ core.inbox[Len(core.inbox)].value = before.settings
            BY <2>3, <3>1, <3>2, <4>3 DEF SettingsKnown
          <5>2. OnceServed = before.settings
            BY <1>1, <4>3, <5>1, LastDecides
          <5> QED
            BY <1>1, <2>4, <4>1, <5>2, OutlookIs
        <4> QED
          BY <4>2, <4>3
      <3> QED
        BY <2>2, <3>1, <3>2
    <2> QED
      BY <2>1, <2>5, <2>6, <2>7, <2>8
  <1>2. IInv /\ [Next]_vars => [\A c \in Conns : Whole(c)]_vars /\ [\A c \in Conns : Undo(c)]_vars
    BY <1>1 DEF Answers
  <1>3. RestoreAllOrNothing <=> [][\A c \in Conns : Whole(c)]_vars /\ [][\A c \in Conns : Undo(c)]_vars
    BY DEF RestoreAllOrNothing, RestoredWhole, UndoneWhole
  <1> HIDE DEF Whole, Undo
  <1> QED
    BY <1>2, <1>3, Invariance, PTL DEF Spec

\* A backup that was answered is the settings, the weather files and the fonts of the
\* clock at one moment, and no restore comes in between (build_adult_backup).
THEOREM BackupCorrect == Spec => BackupTrue
  <1>1. ASSUME IInv, [Next]_vars, NEW c \in Conns, Answers(c, "download", "ok"), ~touched
        PROVE  conn[c].seen = before /\ Now' = before
    <2>1. Zipped(c) /\ UNCHANGED <<settings, weather, fonts>>
      <3>1. ~Commit(c)
        BY <1>1 DEF Commit, IInv, Alone, Moving, Answers
      <3> QED
        BY <1>1, <3>1, Ended DEF Answers, Refuse, NotExported, ReadFails, ProtectFails, Undone, Answer, Zipped
    <2>2. conn[c].pc = "zip" /\ conn[c].left = {}
      BY <2>1 DEF Zipped
    <2>3. SettingsKnown(c) /\ WeatherKnown(c) /\ FontsKnown(c)
      BY <1>1, <2>2, KnownOf
    <2>4. settings = before.settings /\ weather = before.weather /\ fonts = before.fonts
      BY <2>2, <2>3 DEF SettingsKnown, WeatherKnown, FontsKnown, Calm
    <2>5. conn[c].seen.settings = before.settings /\ conn[c].seen.weather = before.weather
      BY <2>2, <2>3 DEF SettingsKnown, WeatherKnown, Informed
    <2>6. /\ before \in Everything /\ conn[c].seen \in Everything
          /\ before.fonts \in [Fonts -> Contents] /\ conn[c].seen.fonts \in [Fonts -> Contents]
      BY <1>1, Typed DEF Connections, Everything
    <2>7. conn[c].seen.fonts = before.fonts
      <3>1. \A f \in Fonts : conn[c].seen.fonts[f] = before.fonts[f]
        BY <2>2, <2>3, <2>4 DEF FontsKnown
      <3> QED
        BY <2>6, <3>1
    <2>8. before = [settings |-> before.settings, weather |-> before.weather, fonts |-> before.fonts]
      BY <2>6 DEF Everything
    <2>9. conn[c].seen = [settings |-> conn[c].seen.settings, weather |-> conn[c].seen.weather,
                          fonts |-> conn[c].seen.fonts]
      BY <2>6 DEF Everything
    <2> QED
      BY <2>1, <2>4, <2>5, <2>7, <2>8, <2>9 DEF Now
  <1>2. IInv /\ [Next]_vars =>
          [\A c \in Conns : Answers(c, "download", "ok") /\ ~touched => conn[c].seen = before /\ Now' = before]_vars
    BY <1>1
  <1> QED
    BY <1>2, Invariance, PTL DEF Spec, BackupTrue

=============================================================================
