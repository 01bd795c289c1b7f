------------------------- MODULE ConfigStore_proofs -------------------------
(***************************************************************************)
(* Proofs about ConfigStore, for any alarms, files, clocks, backups and    *)
(* requests, and any number of restarts and power losses.                  *)
(***************************************************************************)
EXTENDS ConfigStore, TLAPS

-----------------------------------------------------------------------------
(* The inductive invariant.                                                *)

SavePcs == {"open", "copy", "flush", "rename", "sync"}
Restoring == {"activate", "reset", "load", "assign"}

\* Which thread does what, and that the others wait until the boot is over.
Roles ==
  /\ \/ th["main"].pc = "idle" /\ th["main"].op = "none"
     \/ th["main"].pc \in SavePcs /\ th["main"].op \in {"boot", "fire"}
     \/ th["main"].pc = "fired" /\ th["main"].op = "fire"
  /\ \/ th["audio"].pc = "idle" /\ th["audio"].op = "none"
     \/ th["audio"].pc \in SavePcs \cup {"opening"} /\ th["audio"].op = "sound"
  /\ \/ th["ipc"].pc = "idle" /\ th["ipc"].op = "none"
     \/ th["ipc"].pc \in SavePcs /\ th["ipc"].op \in {"alarm", "settings", "export", "import"}
     \/ th["ipc"].pc = "read" /\ th["ipc"].op = "export"
     \/ th["ipc"].pc \in Restoring /\ th["ipc"].op = "import"
  /\ up <=> th["main"].op # "boot"
  /\ ~up => th["ipc"].pc = "idle" /\ th["audio"].pc = "idle"
  /\ th["main"].op = "fire" => th["main"].alarm \in Alarms /\ th["main"].day \in 1..Today
  /\ th["audio"].pc = "opening" => th["audio"].alarm \in Alarms /\ th["audio"].day \in 1..Today

\* Who has which file open, and which names there are.
Hands ==
  /\ \A t \in Threads :
       /\ th[t].fd # NoFile <=> th[t].pc \in {"copy", "flush", "activate"}
       /\ th[t].pc \in {"flush", "assign"} => th[t].buf \in Config
  /\ name.tmp \notin {name.config, name.durable}
  /\ th["ipc"].pc = "activate" =>
       /\ th["ipc"].fd \notin {name.config, name.durable, name.tmp, th["main"].fd, th["audio"].fd}
       /\ file[th["ipc"].fd].text \in Config

\* An empty file will be filled: a thread that has truncated it has yet to write it.
Filling(i) == \E t \in Threads : th[t].pc \in {"copy", "flush"} /\ th[t].fd = i
Whole ==
  ~failed =>
    IF up THEN /\ file[name.config].text = Empty => Filling(name.config)
               /\ name.tmp # NoFile /\ file[name.tmp].text = Empty => Filling(name.tmp)
    ELSE /\ th["main"].pc \in {"copy", "flush"} => name.tmp = th["main"].fd
         /\ th["main"].pc = "rename" => name.tmp # NoFile /\ file[name.tmp].text # Empty
         /\ th["main"].pc = "sync" => name.tmp = NoFile /\ file[name.config].text # Empty

\* Where no save overlaps another, a save writes what is in memory.
Written(i) == file[i].text = mem /\ file[i].card = mem
Saving ==
  /\ \A t, o \in Threads : Busy(t) /\ Busy(o) => t = o
  /\ \A t \in Threads :
       /\ th[t].pc \in {"copy", "flush"} => name.tmp = th[t].fd
       /\ th[t].pc = "flush" => th[t].buf = mem
       /\ th[t].pc = "rename" => name.tmp # NoFile /\ Written(name.tmp)
       /\ th[t].pc = "sync" => name.tmp = NoFile /\ Written(name.config)
  /\ up /\ (\A t \in Threads : ~Busy(t)) =>
       name.tmp = NoFile /\ name.config = name.durable /\ Written(name.config)

\* Memory and whatever a start may read know of the alarms that have sounded.
Knows(text) == \A x \in sounded : text # Empty /\ text.slot[x[1]].fired \in x[2]..Today
Remembered ==
  /\ Knows(mem)
  /\ Knows(file[name.config].text) /\ Knows(file[name.config].card)
  /\ Knows(file[name.durable].text) /\ Knows(file[name.durable].card)
  /\ th["ipc"].op = "import" /\ th["ipc"].pc # "activate" => sounded = {}

Orderly == Clean => Saving /\ Remembered /\ Committed

IInv == TypeOK /\ Roles /\ Hands /\ Whole /\ Orderly

-----------------------------------------------------------------------------
(* Days, configurations and threads.                                       *)

\* Today is a day of the instance, and it never goes back.
LEMMA DayTyped ==
  ASSUME NEW x \in 0..MaxClock
  PROVE  /\ 1 + x \div DayLength \in Days /\ 1 + x \div DayLength \in Nat \ {0}
         /\ x % DayLength \in 0..(DayLength - 1)
  <1>1. DayLength \in Nat \ {0} /\ MaxClock \in Nat /\ x \in Nat /\ x <= MaxClock
    BY StoreAssumption
  <1>2. x \div DayLength \in Nat /\ MaxClock \div DayLength \in Nat /\ x % DayLength \in 0..(DayLength - 1)
    BY <1>1
  <1>3. x \div DayLength <= MaxClock \div DayLength
    BY <1>1
  <1> QED
    BY <1>2, <1>3 DEF Days

LEMMA NextDay ==
  ASSUME clock \in 0..MaxClock, clock < MaxClock, clock' = clock + 1
  PROVE  Today <= Today' /\ Today \in Nat /\ Today' \in Nat
  <1>1. DayLength \in Nat \ {0} /\ clock \in Nat /\ clock + 1 \in Nat /\ clock <= clock + 1
    BY StoreAssumption
  <1>2. /\ clock \div DayLength <= (clock + 1) \div DayLength
        /\ clock \div DayLength \in Nat /\ (clock + 1) \div DayLength \in Nat
    BY <1>1
  <1> QED
    BY <1>2 DEF Today

\* A file without alarms is no configuration.
LEMMA EmptyIs == /\ Empty \notin Config /\ Empty \in Texts /\ Config \subseteq Texts
                 /\ Blank \in [text : Texts, card : Texts]
  <1>1. Alarms # {} /\ DOMAIN Empty.slot = {}
    BY StoreAssumption DEF Empty
  <1>2. \A c \in Config : DOMAIN c.slot = Alarms
    BY DEF Config
  <1>3. Empty \notin Config
    BY <1>1, <1>2
  <1> QED
    BY <1>3 DEF Texts, Blank

LEMMA DefaultsTyped == Defaults \in Config /\ \A a \in Alarms : Defaults.slot[a].fired = NoDay
  <1>1. 0 \in 0..(DayLength - 1) /\ 0 \in Volumes
    BY StoreAssumption
  <1>2. [on |-> FALSE, at |-> 0, fired |-> NoDay] \in Slot
    BY <1>1 DEF Slot
  <1> QED
    BY <1>1, <1>2 DEF Defaults, Config

LEMMA AtIs ==
  ASSUME NEW l \in Pcs, NEW o \in Ops
  PROVE  /\ At(l, o) \in Thread /\ At(l, o).pc = l /\ At(l, o).op = o /\ At(l, o).fd = NoFile
         /\ Idle \in Thread /\ Idle.pc = "idle" /\ Idle.op = "none" /\ Idle.fd = NoFile
  <1>1. Idle \in Thread
    BY EmptyIs DEF Idle, Thread, Pcs, Ops
  <1> QED
    BY <1>1 DEF At, Idle, Thread

LEMMA AlarmAtIs ==
  ASSUME NEW l \in Pcs, NEW o \in Ops, NEW a \in Alarms \cup {0}, NEW d \in Days \cup {NoDay}
  PROVE  /\ AlarmAt(l, o, a, d) \in Thread /\ AlarmAt(l, o, a, d).pc = l /\ AlarmAt(l, o, a, d).op = o
         /\ AlarmAt(l, o, a, d).fd = NoFile
         /\ AlarmAt(l, o, a, d).alarm = a /\ AlarmAt(l, o, a, d).day = d
  <1>1. At(l, o) \in Thread /\ At(l, o).pc = l /\ At(l, o).op = o /\ At(l, o).fd = NoFile
    BY AtIs
  <1> QED
    BY <1>1 DEF AlarmAt, Thread

LEMMA Typed ==
  ASSUME IInv
  PROVE  /\ clock \in 0..MaxClock /\ mem \in Config /\ up \in BOOLEAN /\ th \in [Threads -> Thread]
         /\ name \in [config : Inodes, tmp : Inodes \cup {NoFile}, durable : Inodes]
         /\ name.config \in Inodes /\ name.durable \in Inodes /\ name.tmp \in Inodes \cup {NoFile}
         /\ file \in [Inodes -> [text : Texts, card : Texts]]
         /\ sounded \subseteq Alarms \X Days /\ overlap \in BOOLEAN /\ failed \in BOOLEAN
         /\ NoFile \notin Inodes /\ Today \in Days /\ Today \in Nat \ {0}
         /\ Minute \in 0..(DayLength - 1)
         /\ "main" \in Threads /\ "ipc" \in Threads /\ "audio" \in Threads
  <1>1. clock \in 0..MaxClock
    BY DEF IInv, TypeOK
  <1>2. Today \in Days /\ Today \in Nat \ {0} /\ Minute \in 0..(DayLength - 1)
    BY <1>1, DayTyped DEF Today, Minute
  <1> QED
    BY <1>2, StoreAssumption DEF IInv, TypeOK, NoFile, Threads

-----------------------------------------------------------------------------
(* save_config.                                                            *)

\* What every step within save_config has in common.
LEMMA SaveStep ==
  ASSUME IInv, NEW t \in Threads, NEW r \in Thread, th[t].pc \in SavePcs, r.pc \in SavePcs,
         r.op = th[t].op, r.alarm = th[t].alarm, r.day = th[t].day, th' = [th EXCEPT ![t] = r],
         UNCHANGED <<clock, up>>
  PROVE  /\ th' \in [Threads -> Thread] /\ th'[t] = r /\ \A o \in Threads : o # t => th'[o] = th[o]
         /\ Roles' /\ (~up => t = "main")
         /\ Clean => \A o \in Threads : o # t => ~Busy(o) /\ th'[o] = th[o]
         /\ Busy(t) /\ (Busy(t))'
  <1>1. th' \in [Threads -> Thread] /\ th'[t] = r /\ \A o \in Threads : o # t => th'[o] = th[o]
    BY Typed
  <1>2. Busy(t) /\ (Busy(t))'
    BY <1>1 DEF Busy, SavePcs
  <1>3. Clean => \A o \in Threads : o # t => ~Busy(o) /\ th'[o] = th[o]
    BY <1>1, <1>2 DEF IInv, Orderly, Saving
  <1>4. ~up => t = "main"
    BY DEF IInv, Roles, SavePcs, Threads
  <1>5. Roles'
    <2>1. Today' = Today
      BY DEF Today
    <2>2. CASE t = "main"
      BY <1>1, <2>1, <2>2 DEF IInv, Roles, Threads, SavePcs
    <2>3. CASE t = "ipc"
      BY <1>1, <2>1, <2>3 DEF IInv, Roles, Threads, SavePcs
    <2>4. CASE t = "audio"
      BY <1>1, <2>1, <2>4 DEF IInv, Roles, Threads, SavePcs
    <2> QED
      BY <2>2, <2>3, <2>4 DEF Threads
  <1> QED
    BY <1>1, <1>2, <1>3, <1>4, <1>5

\* What is remembered stays so while the files that may be loaded stay as they are.
LEMMA RememberedStays ==
  ASSUME IInv, Clean, name'.config = name.config, name'.durable = name.durable,
         file'[name.config] = file[name.config], file'[name.durable] = file[name.durable],
         UNCHANGED <<clock, mem, sounded>>,
         th'["ipc"].op = "import" /\ th'["ipc"].pc # "activate" => sounded = {}
  PROVE  Remembered'
  <1>1. Remembered /\ Today' = Today
    BY DEF IInv, Orderly, Today
  <1> QED
    BY <1>1 DEF Remembered, Knows

\* A step of save_config before the rename.
LEMMA SaveOrder ==
  ASSUME IInv, NEW t \in Threads, NEW r \in Thread, th[t].pc \in SavePcs, r.pc \in SavePcs,
         r.op = th[t].op, r.alarm = th[t].alarm, r.day = th[t].day, th' = [th EXCEPT ![t] = r],
         UNCHANGED <<clock, mem, up, sounded, overlap, failed>>,
         name'.config = name.config, name'.durable = name.durable,
         file'[name.config] = file[name.config], file'[name.durable] = file[name.durable],
         r.pc \in {"copy", "flush", "rename"},
         Clean => /\ r.pc \in {"copy", "flush"} => name'.tmp = r.fd
                  /\ r.pc = "flush" => r.buf = mem
                  /\ r.pc = "rename" => name'.tmp # NoFile /\ Written(name.tmp)'
  PROVE  Orderly'
  <1> SUFFICES ASSUME Clean' PROVE Saving' /\ Remembered' /\ Committed'
    BY DEF Orderly
  <1>1. Clean /\ Saving /\ Remembered /\ Committed
    BY DEF Clean, IInv, Orderly
  <1>2. /\ th'[t] = r /\ \A o \in Threads : o # t => th'[o] = th[o] /\ ~Busy(o)
        /\ (Busy(t))'
    BY <1>1, SaveStep
  <1>3. Saving'
    <2>1. \A o \in Threads : o # t => ~(Busy(o))'
      BY <1>2 DEF Busy
    <2>2. \A o \in Threads : o # t => th'[o].pc \notin SavePcs
      BY <1>2 DEF Busy, SavePcs
    <2>3. \A o, p \in Threads : (Busy(o))' /\ (Busy(p))' => o = p
      BY <2>1
    <2>4. \A o \in Threads :
            /\ th'[o].pc \in {"copy", "flush"} => name'.tmp = th'[o].fd
            /\ th'[o].pc = "flush" => th'[o].buf = mem'
            /\ th'[o].pc = "rename" => name'.tmp # NoFile /\ Written(name.tmp)'
            /\ th'[o].pc = "sync" => name'.tmp = NoFile /\ Written(name.config)'
      BY <1>1, <1>2, <2>2 DEF SavePcs
    <2> QED
      BY <1>2, <2>3, <2>4 DEF Saving
  <1>4. Remembered'
    <2>1. th'["ipc"].op = "import" /\ th'["ipc"].pc # "activate" => sounded = {}
      BY <1>1, <1>2, Typed DEF Remembered, SavePcs
    <2> QED
      BY <1>1, <2>1, RememberedStays
  <1>5. Committed'
    <2>1. name'.durable \in Inodes /\ Card(name.durable)' = Card(name.durable)
      BY Typed DEF Card
    <2>2. th'["main"].pc = "fired" => th'["main"] = th["main"]
      BY <1>2, Typed
    <2>3. th'["ipc"].op = th["ipc"].op
      BY <1>2, Typed
    <2> QED
      BY <1>1, <2>1, <2>2, <2>3 DEF Committed, Fired
  <1> QED
    BY <1>3, <1>4, <1>5

\* Files that have a name, or that somebody has open, are there after a step.
LEMMA KeptIs ==
  ASSUME NEW f \in [Inodes -> [text : Texts, card : Texts]], file' = Kept(f)
  PROVE  /\ file' \in [Inodes -> [text : Texts, card : Texts]]
         /\ \A i \in Inodes : i \in {name'.config, name'.tmp, name'.durable} => file'[i] = f[i]
         /\ \A i \in Inodes, t \in Threads : i = th'[t].fd => file'[i] = f[i]
  BY EmptyIs DEF Kept, Linked

LEMMA OpenKeeps == ASSUME IInv, NEW t \in Threads, Open(t) PROVE IInv'
  <1>1. PICK i \in Inodes :
          /\ (name.tmp # NoFile /\ i = name.tmp) \/ (name.tmp = NoFile /\ i \in Unused)
          /\ th' = [th EXCEPT ![t].pc = "copy", ![t].fd = i]
          /\ name' = [name EXCEPT !.tmp = i]
          /\ file' = [file EXCEPT ![i] = [text |-> Empty, card |-> IF i \in Unused THEN Empty ELSE @.card]]
    BY Typed DEF Open, New, Unused
  <1> DEFINE r == [th[t] EXCEPT !.pc = "copy", !.fd = i]
  <1>2. /\ th[t].pc = "open" /\ th[t].pc \in SavePcs /\ th[t] \in Thread
        /\ UNCHANGED <<clock, mem, up, sounded, overlap, failed>>
    BY Typed DEF Open, SavePcs
  <1>3. /\ r \in Thread /\ r.pc = "copy" /\ r.fd = i /\ r.op = th[t].op
        /\ r.alarm = th[t].alarm /\ r.day = th[t].day /\ r.pc \in SavePcs
    BY <1>2 DEF Thread, Pcs, SavePcs
  <1>4. th' = [th EXCEPT ![t] = r]
    BY <1>1
  <1> HIDE DEF r
  <1>5. /\ th' \in [Threads -> Thread] /\ th'[t] = r /\ \A o \in Threads : o # t => th'[o] = th[o]
        /\ Roles' /\ (~up => t = "main")
    BY <1>2, <1>3, <1>4, SaveStep
  <1>6. i \notin {name.config, name.durable} /\ (th["ipc"].pc = "activate" => th["ipc"].fd # i)
    BY <1>1, Typed DEF Unused, Linked, IInv, Hands
  <1>7. /\ name' \in [config : Inodes, tmp : Inodes \cup {NoFile}, durable : Inodes]
        /\ name'.config = name.config /\ name'.durable = name.durable /\ name'.tmp = i
    BY <1>1, Typed
  <1>8. /\ file' \in [Inodes -> [text : Texts, card : Texts]]
        /\ \A j \in Inodes : j # i => file'[j] = file[j]
    BY <1>1, EmptyIs, Typed
  <1>9. TypeOK'
    BY <1>2, <1>5, <1>7, <1>8 DEF IInv, TypeOK
  <1>10. Hands'
    <2>1. \A o \in Threads : /\ th'[o].fd # NoFile <=> th'[o].pc \in {"copy", "flush", "activate"}
                             /\ th'[o].pc \in {"flush", "assign"} => th'[o].buf \in Config
      BY <1>3, <1>5, Typed DEF IInv, Hands
    <2>2. th'["ipc"].pc = "activate" => t # "ipc"
      BY <1>3, <1>5
    <2>3. th'["ipc"].pc = "activate" =>
            /\ th'["ipc"].fd \notin {name'.config, name'.durable, name'.tmp, th'["main"].fd, th'["audio"].fd}
            /\ file'[th'["ipc"].fd].text \in Config
      BY <1>3, <1>5, <1>6, <1>7, <1>8, <2>2, Typed DEF IInv, Hands, Thread
    <2> QED
      BY <1>6, <1>7, <2>1, <2>3 DEF Hands
  <1>11. Whole'
    <2>1. Filling(i)'
      BY <1>3, <1>5 DEF Filling
    <2>2. Filling(name.config) => Filling(name.config)'
      BY <1>2, <1>5, <1>7 DEF Filling
    <2>3. file'[name.config] = file[name.config]
      BY <1>6, <1>8, Typed
    <2> QED
      BY <1>2, <1>3, <1>5, <1>7, <2>1, <2>2, <2>3 DEF IInv, Whole
  <1>12. Orderly'
    <2>1. file'[name.config] = file[name.config] /\ file'[name.durable] = file[name.durable]
      BY <1>6, <1>8, Typed
    <2> QED
      BY <1>2, <1>3, <1>4, <1>7, <2>1, SaveOrder
  <1> QED
    BY <1>5, <1>9, <1>10, <1>11, <1>12 DEF IInv

\* Where an operation goes on after save_config.
LEMMA SavedStep ==
  ASSUME IInv, NEW t \in Threads, th[t].pc \in SavePcs, Saved(t), clock' = clock
  PROVE  \E r \in Thread :
           /\ th' = [th EXCEPT ![t] = r] /\ r.fd = NoFile /\ r.pc \in {"idle", "fired", "read"}
           /\ r.op # "import" /\ up' = TRUE
           /\ r.pc = "fired" => t = "main" /\ r.alarm = th[t].alarm /\ r.day = th[t].day
           /\ Roles'
  <1>1. th[t] \in Thread /\ Today' = Today
    BY Typed DEF Today
  <1> DEFINE f == AlarmAt("fired", "fire", th[t].alarm, th[t].day)
             e == At("read", "export")
  <1>2. /\ Idle \in Thread /\ Idle.pc = "idle" /\ Idle.op = "none" /\ Idle.fd = NoFile
        /\ e \in Thread /\ e.pc = "read" /\ e.op = "export" /\ e.fd = NoFile
    BY AtIs DEF Pcs, Ops
  <1>3. /\ f \in Thread /\ f.pc = "fired" /\ f.op = "fire" /\ f.fd = NoFile
        /\ f.alarm = th[t].alarm /\ f.day = th[t].day
    <2>1. th[t].alarm \in Alarms \cup {0} /\ th[t].day \in Days \cup {NoDay}
      BY <1>1 DEF Thread
    <2>2. "fired" \in Pcs /\ "fire" \in Ops
      BY DEF Pcs, Ops
    <2> QED
      BY <2>1, <2>2, AlarmAtIs
  <1> HIDE DEF e, f
  <1>4. CASE th[t].op = "boot"
    <2>1. up' = TRUE /\ th' = [th EXCEPT ![t] = Idle]
      BY <1>4 DEF Saved
    <2>2. t = "main"
      BY <1>4 DEF IInv, Roles, Threads, SavePcs
    <2>3. Roles'
      BY <1>1, <1>2, <1>4, <2>1, <2>2, Typed DEF IInv, Roles, SavePcs
    <2> QED
      BY <1>2, <2>1, <2>3
  <1>5. CASE th[t].op = "fire"
    <2>1. UNCHANGED up /\ th' = [th EXCEPT ![t] = f]
      BY <1>5 DEF Saved, f
    <2>2. t = "main" /\ up
      BY <1>5, Typed DEF IInv, Roles, Threads, SavePcs
    <2>3. Roles'
      BY <1>1, <1>3, <1>5, <2>1, <2>2, Typed DEF IInv, Roles, SavePcs
    <2> QED
      BY <1>3, <2>1, <2>2, <2>3, Typed
  <1>6. CASE th[t].op = "export"
    <2>1. UNCHANGED up /\ th' = [th EXCEPT ![t] = e]
      BY <1>6 DEF Saved, e
    <2>2. t = "ipc" /\ up
      BY <1>6, Typed DEF IInv, Roles, Threads, SavePcs
    <2>3. Roles'
      BY <1>1, <1>2, <1>6, <2>1, <2>2, Typed DEF IInv, Roles, SavePcs
    <2> QED
      BY <1>2, <2>1, <2>2, <2>3, Typed
  <1>7. CASE th[t].op \notin {"boot", "fire", "export"}
    <2>1. UNCHANGED up /\ th' = [th EXCEPT ![t] = Idle]
      BY <1>7 DEF Saved
    <2>2. t \in {"ipc", "audio"} /\ up
      BY <1>7, Typed DEF IInv, Roles, Threads, SavePcs
    <2>3. CASE t = "ipc"
      <3>1. Roles'
        BY <1>1, <1>2, <2>1, <2>2, <2>3, Typed DEF IInv, Roles, SavePcs
      <3> QED
        BY <1>2, <2>1, <2>2, <3>1, Typed
    <2>4. CASE t = "audio"
      <3>1. Roles'
        BY <1>1, <1>2, <2>1, <2>2, <2>4, Typed DEF IInv, Roles, SavePcs
      <3> QED
        BY <1>2, <2>1, <2>2, <3>1, Typed
    <2> QED
      BY <2>2, <2>3, <2>4
  <1> QED
    BY <1>4, <1>5, <1>6, <1>7

\* save_config gives up: from then on nothing is said of the files.
LEMMA FailsKeeps == ASSUME IInv, NEW t \in Threads, OpenFails(t) \/ FlushFails(t) PROVE IInv'
  <1>1. /\ th[t].pc \in SavePcs /\ Saved(t) /\ failed' = TRUE
        /\ UNCHANGED <<clock, mem, sounded, overlap>>
    BY DEF OpenFails, FlushFails, SavePcs
  <1>2. PICK r \in Thread :
          /\ th' = [th EXCEPT ![t] = r] /\ r.fd = NoFile /\ r.pc \in {"idle", "fired", "read"}
          /\ r.op # "import" /\ up' = TRUE
          /\ r.pc = "fired" => t = "main" /\ r.alarm = th[t].alarm /\ r.day = th[t].day
          /\ Roles'
    BY <1>1, SavedStep
  <1>3. th' \in [Threads -> Thread] /\ th'[t] = r /\ \A o \in Threads : o # t => th'[o] = th[o]
    BY <1>2, Typed
  <1>4. /\ name' \in [config : Inodes, tmp : Inodes \cup {NoFile}, durable : Inodes]
        /\ name'.config = name.config /\ name'.durable = name.durable
        /\ name'.tmp \in {name.tmp, NoFile}
    BY Typed DEF OpenFails, FlushFails
  <1>5. /\ file' \in [Inodes -> [text : Texts, card : Texts]]
        /\ \A i \in Inodes : i = th'["ipc"].fd => file'[i] = file[i]
    BY KeptIs, Typed DEF OpenFails, FlushFails
  <1>6. TypeOK'
    BY <1>1, <1>2, <1>3, <1>4, <1>5 DEF IInv, TypeOK
  <1>7. Hands'
    <2>1. \A o \in Threads : /\ th'[o].fd # NoFile <=> th'[o].pc \in {"copy", "flush", "activate"}
                             /\ th'[o].pc \in {"flush", "assign"} => th'[o].buf \in Config
      BY <1>2, <1>3, Typed DEF IInv, Hands
    <2>2. th'["ipc"].pc = "activate" => th'["ipc"] = th["ipc"]
      BY <1>2, <1>3, Typed
    <2>3. th["ipc"].pc = "activate" => th["ipc"].fd \in Inodes
      BY Typed DEF IInv, Hands, Thread
    <2>4. th'["ipc"].pc = "activate" =>
            /\ th'["ipc"].fd \notin {name'.config, name'.durable, name'.tmp, th'["main"].fd, th'["audio"].fd}
            /\ file'[th'["ipc"].fd].text \in Config
      BY <1>2, <1>3, <1>4, <1>5, <2>2, <2>3, Typed DEF IInv, Hands
    <2> QED
      BY <1>4, <2>1, <2>4, Typed DEF IInv, Hands
  <1>8. Whole' /\ Orderly'
    BY <1>1 DEF Whole, Orderly, Clean
  <1> QED
    BY <1>2, <1>6, <1>7, <1>8 DEF IInv

LEMMA CopyKeeps == ASSUME IInv, NEW t \in Threads, Copy(t) PROVE IInv'
  <1> DEFINE r == [th[t] EXCEPT !.pc = "flush", !.buf = mem]
  <1>1. /\ th[t].pc = "copy" /\ th[t].pc \in SavePcs /\ th[t] \in Thread /\ th' = [th EXCEPT ![t] = r]
        /\ UNCHANGED <<clock, mem, up, name, file, sounded, overlap, failed>>
    BY Typed DEF Copy, SavePcs
  <1>2. /\ r \in Thread /\ r.pc = "flush" /\ r.fd = th[t].fd /\ r.op = th[t].op /\ r.buf = mem
        /\ r.alarm = th[t].alarm /\ r.day = th[t].day /\ r.pc \in SavePcs
    BY <1>1, Typed, EmptyIs DEF Thread, Pcs, SavePcs
  <1> HIDE DEF r
  <1>3. /\ th' \in [Threads -> Thread] /\ th'[t] = r /\ \A o \in Threads : o # t => th'[o] = th[o]
        /\ Roles' /\ (~up => t = "main")
    BY <1>1, <1>2, SaveStep
  <1>4. TypeOK'
    BY <1>1, <1>3 DEF IInv, TypeOK
  <1>5. Hands'
    <2>1. \A o \in Threads : /\ th'[o].fd = th[o].fd
                             /\ th'[o].pc = "activate" <=> th[o].pc = "activate"
      BY <1>1, <1>2, <1>3
    <2>2. \A o \in Threads : /\ th'[o].fd # NoFile <=> th'[o].pc \in {"copy", "flush", "activate"}
                             /\ th'[o].pc \in {"flush", "assign"} => th'[o].buf \in Config
      BY <1>1, <1>2, <1>3, Typed DEF IInv, Hands
    <2> QED
      BY <1>1, <2>1, <2>2, Typed DEF IInv, Hands
  <1>6. Whole'
    <2>1. \A i \in Inodes : Filling(i) => Filling(i)'
      BY <1>1, <1>2, <1>3 DEF Filling
    <2> QED
      BY <1>1, <1>2, <1>3, <2>1, Typed DEF IInv, Whole
  <1>7. Orderly'
    <2>1. Clean => name.tmp = th[t].fd
      BY <1>1 DEF IInv, Orderly, Saving
    <2> QED
      BY <1>1, <1>2, <2>1, SaveOrder
  <1> QED
    BY <1>3, <1>4, <1>5, <1>6, <1>7 DEF IInv

LEMMA FlushKeeps == ASSUME IInv, NEW t \in Threads, Flush(t) PROVE IInv'
  <1> DEFINE r == [th[t] EXCEPT !.pc = "rename", !.buf = Empty, !.fd = NoFile]
             i == th[t].fd
             f == [file EXCEPT ![i] = [text |-> th[t].buf, card |-> th[t].buf]]
  <1>1. /\ th[t].pc = "flush" /\ th[t].pc \in SavePcs /\ th[t] \in Thread /\ th' = [th EXCEPT ![t] = r]
        /\ UNCHANGED <<clock, mem, up, name, sounded, overlap, failed>> /\ file' = Kept(f)
    BY Typed DEF Flush, SavePcs
  <1>2. /\ r \in Thread /\ r.pc = "rename" /\ r.fd = NoFile /\ r.op = th[t].op
        /\ r.alarm = th[t].alarm /\ r.day = th[t].day /\ r.pc \in SavePcs
    BY <1>1, EmptyIs DEF Thread, Pcs, SavePcs
  <1>3. i \in Inodes /\ th[t].buf \in Config /\ th[t].buf \in Texts /\ th[t].buf # Empty
    BY <1>1, EmptyIs DEF IInv, Hands, Thread
  <1>4. /\ f \in [Inodes -> [text : Texts, card : Texts]] /\ \A j \in Inodes : j # i => f[j] = file[j]
        /\ f[i].text = th[t].buf /\ f[i].card = th[t].buf
    BY <1>3, Typed
  <1> HIDE DEF r, f
  <1>5. /\ th' \in [Threads -> Thread] /\ th'[t] = r /\ \A o \in Threads : o # t => th'[o] = th[o]
        /\ Roles' /\ (~up => t = "main")
    BY <1>1, <1>2, SaveStep
  <1>6. /\ file' \in [Inodes -> [text : Texts, card : Texts]]
        /\ \A j \in Inodes : j \in {name.config, name.tmp, name.durable} => file'[j] = f[j]
        /\ \A j \in Inodes, o \in Threads : j = th'[o].fd => file'[j] = f[j]
    BY <1>1, <1>4, KeptIs
  <1>7. TypeOK'
    BY <1>1, <1>5, <1>6 DEF IInv, TypeOK
  <1>8. Hands'
    <2>1. \A o \in Threads : /\ th'[o].fd # NoFile <=> th'[o].pc \in {"copy", "flush", "activate"}
                             /\ th'[o].pc \in {"flush", "assign"} => th'[o].buf \in Config
      BY <1>2, <1>5, Typed DEF IInv, Hands
    <2>2. ASSUME th'["ipc"].pc = "activate"
          PROVE  /\ th'["ipc"].fd \notin {name'.config, name'.durable, name'.tmp, th'["main"].fd, th'["audio"].fd}
                 /\ file'[th'["ipc"].fd].text \in Config
      <3>1. t # "ipc" /\ th'["ipc"] = th["ipc"] /\ th["ipc"].fd \in Inodes
        BY <1>2, <1>5, <2>2, Typed DEF IInv, Hands, Thread
      <3>2. th["ipc"].fd # i
        BY <2>2, <3>1 DEF IInv, Hands, Threads
      <3>3. file'[th["ipc"].fd] = file[th["ipc"].fd]
        BY <1>4, <1>6, <3>1, <3>2, Typed
      <3> QED
        BY <1>1, <1>2, <1>5, <2>2, <3>1, <3>3, Typed DEF IInv, Hands
    <2> QED
      BY <1>1, <2>1, <2>2 DEF IInv, Hands
  <1>9. Whole'
    <2>1. \A j \in Inodes : j \in {name.config, name.tmp} /\ file'[j].text = Empty =>
            file[j].text = Empty /\ j # i
      BY <1>3, <1>4, <1>6
    <2>2. \A j \in Inodes : Filling(j) /\ j # i => Filling(j)'
      BY <1>1, <1>5 DEF Filling
    <2>3. CASE up
      BY <1>1, <2>1, <2>2, <2>3, Typed DEF IInv, Whole
    <2>4. CASE ~up
      <3>1. ~failed => name.tmp = i
        BY <1>1, <1>5, <2>4 DEF IInv, Whole
      <3> QED
        BY <1>1, <1>2, <1>3, <1>4, <1>5, <1>6, <2>4, <3>1, Typed DEF Whole
    <2> QED
      BY <2>3, <2>4
  <1>10. Orderly'
    <2>1. Clean => name.tmp = i /\ th[t].buf = mem
      BY <1>1 DEF IInv, Orderly, Saving
    <2>2. CASE Clean
      <3>1. i \notin {name.config, name.durable} /\ i # NoFile
        BY <1>3, <2>1, <2>2, Typed DEF IInv, Hands
      <3>2. file'[name.config] = file[name.config] /\ file'[name.durable] = file[name.durable]
        BY <1>4, <1>6, <3>1, Typed
      <3>3. name'.tmp # NoFile /\ Written(name.tmp)'
        BY <1>1, <1>3, <1>4, <1>6, <2>1, <2>2, <3>1 DEF Written
      <3> QED
        BY <1>1, <1>2, <3>2, <3>3, SaveOrder
    <2>3. CASE ~Clean
      BY <1>1, <2>3 DEF Orderly, Clean
    <2> QED
      BY <2>2, <2>3
  <1> QED
    BY <1>5, <1>7, <1>8, <1>9, <1>10 DEF IInv

LEMMA RenameKeeps == ASSUME IInv, NEW t \in Threads, Rename(t) PROVE IInv'
  <1> DEFINE r == [th[t] EXCEPT !.pc = "sync"]
  <1>1. /\ th[t].pc = "rename" /\ th[t].pc \in SavePcs /\ th[t] \in Thread /\ th' = [th EXCEPT ![t] = r]
        /\ UNCHANGED <<clock, mem, up, sounded, overlap, failed>> /\ file' = Kept(file)
        /\ name.tmp # NoFile /\ name.tmp \in Inodes
        /\ name' = [name EXCEPT !.config = name.tmp, !.tmp = NoFile]
    BY Typed DEF Rename, Goto, SavePcs
  <1>2. /\ r \in Thread /\ r.pc = "sync" /\ r.fd = th[t].fd /\ r.op = th[t].op
        /\ r.alarm = th[t].alarm /\ r.day = th[t].day /\ r.pc \in SavePcs /\ r.buf = th[t].buf
    BY <1>1 DEF Thread, Pcs, SavePcs
  <1> HIDE DEF r
  <1>3. /\ th' \in [Threads -> Thread] /\ th'[t] = r /\ \A o \in Threads : o # t => th'[o] = th[o]
        /\ Roles' /\ (~up => t = "main")
        /\ (Clean => \A o \in Threads : o # t => ~Busy(o)) /\ (Busy(t))'
    BY <1>1, <1>2, SaveStep
  <1>4. /\ name' \in [config : Inodes, tmp : Inodes \cup {NoFile}, durable : Inodes]
        /\ name'.config = name.tmp /\ name'.durable = name.durable /\ name'.tmp = NoFile
    BY <1>1, Typed
  <1>5. /\ file' \in [Inodes -> [text : Texts, card : Texts]]
        /\ file'[name.tmp] = file[name.tmp] /\ file'[name.durable] = file[name.durable]
        /\ \A j \in Inodes, o \in Threads : j = th'[o].fd => file'[j] = file[j]
    BY <1>1, <1>4, KeptIs, Typed
  <1>6. TypeOK'
    BY <1>1, <1>3, <1>4, <1>5 DEF IInv, TypeOK
  <1>7. Hands'
    <2>1. \A o \in Threads : /\ th'[o].fd = th[o].fd /\ th'[o].buf = th[o].buf
                             /\ th'[o].pc \in {"copy", "flush", "activate"}
                                  <=> th[o].pc \in {"copy", "flush", "activate"}
                             /\ th'[o].pc \in {"flush", "assign"} => th[o].pc \in {"flush", "assign"}
      BY <1>1, <1>2, <1>3
    <2>2. ASSUME th'["ipc"].pc = "activate" PROVE th'["ipc"] = th["ipc"] /\ th["ipc"].fd \in Inodes
      BY <1>2, <1>3, <2>2, Typed DEF IInv, Hands, Thread
    <2>3. \A o \in Threads : /\ th'[o].fd # NoFile <=> th'[o].pc \in {"copy", "flush", "activate"}
                             /\ th'[o].pc \in {"flush", "assign"} => th'[o].buf \in Config
      BY <2>1 DEF IInv, Hands
    <2>4. th'["ipc"].pc = "activate" =>
            /\ th'["ipc"].fd \notin {name'.config, name'.durable, name'.tmp, th'["main"].fd, th'["audio"].fd}
            /\ file'[th'["ipc"].fd].text \in Config
      BY <1>4, <1>5, <2>1, <2>2, Typed DEF IInv, Hands
    <2> QED
      BY <1>4, <2>3, <2>4, Typed DEF Hands
  <1>8. Whole'
    <2>1. \A j \in Inodes : Filling(j) => Filling(j)'
      BY <1>1, <1>3 DEF Filling
    <2> QED
      BY <1>1, <1>2, <1>3, <1>4, <1>5, <2>1, Typed DEF IInv, Whole
  <1>9. ASSUME Clean' PROVE Saving' /\ Remembered' /\ Committed'
    <2>1. Clean /\ Saving /\ Remembered /\ Committed
      BY <1>1, <1>9 DEF Clean, IInv, Orderly
    <2>2. Written(name.tmp) /\ Written(name.config)'
      BY <1>1, <1>4, <1>5, <2>1 DEF Saving, Written
    <2>3. \A o \in Threads : o # t => ~(Busy(o))' /\ th'[o].pc \notin SavePcs
      BY <1>3, <2>1 DEF Busy, SavePcs
    <2>4. \A o, p \in Threads : (Busy(o))' /\ (Busy(p))' => o = p
      BY <2>3
    <2>5. \A o \in Threads :
            /\ th'[o].pc \in {"copy", "flush"} => name'.tmp = th'[o].fd
            /\ th'[o].pc = "flush" => th'[o].buf = mem'
            /\ th'[o].pc = "rename" => name'.tmp # NoFile /\ Written(name.tmp)'
            /\ th'[o].pc = "sync" => name'.tmp = NoFile /\ Written(name.config)'
      BY <1>2, <1>3, <1>4, <2>2, <2>3 DEF SavePcs
    <2>6. Saving'
      BY <1>3, <2>4, <2>5 DEF Saving
    <2>7. Remembered'
      <3>1. Today' = Today
        BY <1>1 DEF Today
      <3>2. th'["ipc"].op = "import" /\ th'["ipc"].pc # "activate" => sounded = {}
        BY <1>1, <1>2, <1>3, <2>1, Typed DEF Remembered
      <3> QED
        BY <1>1, <1>4, <1>5, <2>1, <2>2, <3>1, <3>2 DEF Remembered, Knows, Written
    <2>8. Committed'
      <3>1. name'.durable \in Inodes /\ Card(name.durable)' = Card(name.durable)
        BY <1>4, <1>5, Typed DEF Card
      <3>2. th'["main"].pc = "fired" => th'["main"] = th["main"]
        BY <1>2, <1>3, Typed
      <3>3. th'["ipc"].op = th["ipc"].op
        BY <1>2, <1>3, Typed
      <3> QED
        BY <1>1, <2>1, <3>1, <3>2, <3>3 DEF Committed, Fired
    <2> QED
      BY <2>6, <2>7, <2>8
  <1> QED
    BY <1>3, <1>6, <1>7, <1>8, <1>9 DEF IInv, Orderly

\* save_config returns, with the names and files as they are or the name synced.
LEMMA ReturnHands ==
  ASSUME IInv, NEW t \in Threads, NEW r \in Thread, th[t].pc \in SavePcs, th' = [th EXCEPT ![t] = r],
         r.fd = NoFile, r.pc \in {"idle", "fired", "read"}, UNCHANGED <<clock, mem, sounded, overlap, failed>>,
         up' = TRUE, name'.config = name.config, name'.tmp = name.tmp,
         name' \in [config : Inodes, tmp : Inodes \cup {NoFile}, durable : Inodes],
         name'.durable \in {name.config, name.durable}, file' \in {file, Kept(file)}
  PROVE  /\ TypeOK' /\ Hands'
         /\ th'[t] = r /\ \A o \in Threads : o # t => th'[o] = th[o]
         /\ \A i \in Inodes : i \in {name'.config, name'.tmp, name'.durable} => file'[i] = file[i]
         /\ \A i \in Inodes : Filling(i) => Filling(i)' \/ th[t].fd = i
  <1>1. th' \in [Threads -> Thread] /\ th'[t] = r /\ \A o \in Threads : o # t => th'[o] = th[o]
    BY Typed
  <1>2. /\ file' \in [Inodes -> [text : Texts, card : Texts]]
        /\ \A i \in Inodes : i \in {name'.config, name'.tmp, name'.durable} => file'[i] = file[i]
        /\ \A i \in Inodes, o \in Threads : i = th'[o].fd => file'[i] = file[i]
    BY KeptIs, Typed
  <1>3. TypeOK'
    BY <1>1, <1>2 DEF IInv, TypeOK
  <1>4. \A o \in Threads : /\ th'[o].fd # NoFile <=> th'[o].pc \in {"copy", "flush", "activate"}
                           /\ th'[o].pc \in {"flush", "assign"} => th'[o].buf \in Config
    BY <1>1 DEF IInv, Hands
  <1>5. ASSUME th'["ipc"].pc = "activate" PROVE th'["ipc"] = th["ipc"] /\ th["ipc"].fd \in Inodes
    BY <1>1, <1>5, Typed DEF IInv, Hands, Thread
  <1>6. th'["ipc"].pc = "activate" =>
          /\ th'["ipc"].fd \notin {name'.config, name'.durable, name'.tmp, th'["main"].fd, th'["audio"].fd}
          /\ file'[th'["ipc"].fd].text \in Config
    BY <1>1, <1>2, <1>5, Typed DEF IInv, Hands
  <1>7. \A i \in Inodes : Filling(i) => Filling(i)' \/ th[t].fd = i
    BY <1>1 DEF Filling
  <1>8. Hands'
    BY <1>4, <1>6, Typed DEF IInv, Hands
  <1> QED
    BY <1>1, <1>2, <1>3, <1>7, <1>8

LEMMA RenameFailsKeeps == ASSUME IInv, NEW t \in Threads, RenameFails(t) PROVE IInv'
  <1>1. /\ th[t].pc = "rename" /\ th[t].pc \in SavePcs /\ Saved(t) /\ name.tmp = NoFile
        /\ UNCHANGED <<clock, mem, name, file, sounded, overlap, failed>>
    BY DEF RenameFails, SavePcs
  <1>2. PICK r \in Thread :
          /\ th' = [th EXCEPT ![t] = r] /\ r.fd = NoFile /\ r.pc \in {"idle", "fired", "read"}
          /\ r.op # "import" /\ up' = TRUE
          /\ r.pc = "fired" => t = "main" /\ r.alarm = th[t].alarm /\ r.day = th[t].day
          /\ Roles'
    BY <1>1, SavedStep
  <1>3. TypeOK' /\ Hands' /\ \A i \in Inodes : Filling(i) => Filling(i)' \/ th[t].fd = i
    BY <1>1, <1>2, Typed, ReturnHands
  <1>4. th[t].fd = NoFile
    BY <1>1 DEF IInv, Hands
  <1>5. Whole'
    <2>1. ASSUME ~failed PROVE up
      <3>1. ~up => t = "main"
        BY <1>1 DEF IInv, Roles, Threads, SavePcs
      <3> QED
        BY <1>1, <2>1, <3>1 DEF IInv, Whole
    <2> QED
      BY <1>1, <1>2, <1>3, <1>4, <2>1, Typed DEF IInv, Whole
  <1>6. Orderly'
    BY <1>1 DEF IInv, Orderly, Saving, Clean
  <1> QED
    BY <1>2, <1>3, <1>5, <1>6 DEF IInv

LEMMA SyncNameKeeps == ASSUME IInv, NEW t \in Threads, SyncName(t) PROVE IInv'
  <1>1. /\ th[t].pc = "sync" /\ th[t].pc \in SavePcs /\ Saved(t)
        /\ UNCHANGED <<clock, mem, sounded, overlap, failed>>
        /\ name' = [name EXCEPT !.durable = name.config] /\ file' = Kept(file)
    BY DEF SyncName, SavePcs
  <1>2. PICK r \in Thread :
          /\ th' = [th EXCEPT ![t] = r] /\ r.fd = NoFile /\ r.pc \in {"idle", "fired", "read"}
          /\ r.op # "import" /\ up' = TRUE
          /\ r.pc = "fired" => t = "main" /\ r.alarm = th[t].alarm /\ r.day = th[t].day
          /\ Roles'
    BY <1>1, SavedStep
  <1>3. /\ name' \in [config : Inodes, tmp : Inodes \cup {NoFile}, durable : Inodes]
        /\ name'.config = name.config /\ name'.durable = name.config /\ name'.tmp = name.tmp
    BY <1>1, Typed
  <1>4. /\ TypeOK' /\ Hands'
        /\ th'[t] = r /\ \A o \in Threads : o # t => th'[o] = th[o]
        /\ \A i \in Inodes : i \in {name'.config, name'.tmp, name'.durable} => file'[i] = file[i]
        /\ \A i \in Inodes : Filling(i) => Filling(i)' \/ th[t].fd = i
    BY <1>1, <1>2, <1>3, Typed, ReturnHands
  <1>5. th[t].fd = NoFile
    BY <1>1 DEF IInv, Hands
  <1>6. Whole'
    <2>1. ~up => t = "main"
      BY <1>1 DEF IInv, Roles, Threads, SavePcs
    <2> QED
      BY <1>1, <1>2, <1>3, <1>4, <1>5, <2>1, Typed DEF IInv, Whole
  <1>7. ASSUME Clean' PROVE Saving' /\ Remembered' /\ Committed'
    <2>1. Clean /\ Saving /\ Remembered /\ Committed
      BY <1>1, <1>7 DEF Clean, IInv, Orderly
    <2>2. name.tmp = NoFile /\ Written(name.config) /\ Written(name.config)' /\ Written(name.durable)'
      BY <1>1, <1>3, <1>4, <2>1, Typed DEF Saving, Written
    <2>3. \A o \in Threads : ~(Busy(o))' /\ th'[o].pc \notin SavePcs
      BY <1>1, <1>2, <1>4, <2>1 DEF Saving, Busy, SavePcs
    <2>4. Saving'
      BY <1>3, <2>2, <2>3 DEF Saving, SavePcs
    <2>5. Remembered'
      <3>1. Today' = Today
        BY <1>1 DEF Today
      <3>2. th'["ipc"].op = "import" /\ th'["ipc"].pc # "activate" => sounded = {}
        BY <1>2, <1>4, <2>1, Typed DEF Remembered
      <3> QED
        BY <1>1, <1>3, <2>1, <2>2, <3>1, <3>2 DEF Remembered, Knows, Written
    <2>6. Committed'
      <3>1. name'.durable # NoFile /\ file'[name'.durable].card = mem
        BY <1>1, <1>3, <2>2, Typed DEF Written
      <3>2. Card(name.durable)' = mem
        BY <3>1 DEF Card
      <3>3. mem # Empty
        BY Typed, EmptyIs
      <3> QED
        BY <1>1, <3>2, <3>3 DEF Committed, Fired
    <2> QED
      BY <2>4, <2>5, <2>6
  <1> QED
    BY <1>2, <1>4, <1>6, <1>7 DEF IInv, Orderly
-----------------------------------------------------------------------------
(* The operations begin and end.                                           *)

\* A step that opens, closes and renames nothing.
LEMMA FilesStay ==
  ASSUME IInv, UNCHANGED <<name, file, failed>>, up' = up, ~up => th' = th, th' \in [Threads -> Thread],
         \A t \in Threads : th'[t].fd = th[t].fd /\ (th'[t].pc = "flush" => th'[t].buf = th[t].buf),
         \A t \in Threads : \A l \in {"copy", "flush", "activate"} : th'[t].pc = l <=> th[t].pc = l,
         \A t \in Threads : th'[t].pc = "assign" => th'[t].buf \in Config
  PROVE  Hands' /\ Whole'
  <1>1. Hands'
    <2>1. \A t \in Threads : th'[t].fd # NoFile <=> th'[t].pc \in {"copy", "flush", "activate"}
      BY DEF IInv, Hands
    <2>2. \A t \in Threads : th'[t].pc \in {"flush", "assign"} => th'[t].buf \in Config
      BY DEF IInv, Hands
    <2>3. /\ th'["ipc"].pc = "activate" <=> th["ipc"].pc = "activate"
          /\ th'["ipc"].fd = th["ipc"].fd /\ th'["main"].fd = th["main"].fd /\ th'["audio"].fd = th["audio"].fd
      BY Typed
    <2> QED
      BY <2>1, <2>2, <2>3 DEF IInv, Hands
  <1>2. \A i \in Inodes : Filling(i) => Filling(i)'
    BY DEF Filling
  <1>3. Filling(name.config) => Filling(name.config)'
    BY <1>2, Typed
  <1>4. name.tmp # NoFile /\ Filling(name.tmp) => Filling(name.tmp)'
    BY <1>2, Typed
  <1>5. Whole'
    <2>1. SUFFICES ASSUME ~failed' PROVE Whole'
      BY DEF Whole
    <2>2. CASE up
      BY <1>3, <1>4, <2>1, <2>2 DEF IInv, Whole
    <2>3. CASE ~up
      BY <2>1, <2>3 DEF IInv, Whole
    <2> QED
      BY <2>2, <2>3
  <1> QED
    BY <1>1, <1>5

\* When nothing is being saved, the card holds what is remembered.
LEMMA Quiet ==
  ASSUME IInv, Clean, up, \A t \in Threads : ~Busy(t)
  PROVE  /\ name.tmp = NoFile /\ name.config = name.durable
         /\ file[name.config].text = mem /\ file[name.config].card = mem /\ Card(name.durable) = mem
         /\ th["ipc"].op # "import"
  <1>1. name.tmp = NoFile /\ name.config = name.durable /\ Written(name.config)
    BY DEF IInv, Orderly, Saving
  <1>2. th["ipc"].op # "import"
    BY Typed DEF IInv, Roles, Busy, SavePcs, Restoring
  <1> QED
    BY <1>1, <1>2, Typed DEF Written, Card

\* An operation that saves begins.
LEMMA StartOrder ==
  ASSUME IInv, NEW t \in Threads, NEW r \in Thread, ~Busy(t), up, r.pc = "open", r.op # "import",
         th' = [th EXCEPT ![t] = r], Notice(t), UNCHANGED <<clock, up, name, file, failed>>,
         Clean => \A x \in sounded' : mem.slot[x[1]].fired \in x[2]..Today,
         Clean => \A x \in sounded' : mem'.slot[x[1]].fired \in x[2]..Today,
         t # "main" => \A a \in Alarms : mem'.slot[a].fired \in {mem.slot[a].fired, NoDay},
         mem' \in Config
  PROVE  Orderly'
  <1> SUFFICES ASSUME Clean' PROVE Saving' /\ Remembered' /\ Committed'
    BY DEF Orderly
  <1>1. Clean /\ \A o \in Threads : ~Busy(o)
    BY DEF Notice, Clean
  <1>2. /\ name.tmp = NoFile /\ name.config = name.durable
        /\ file[name.config].text = mem /\ file[name.config].card = mem /\ Card(name.durable) = mem
        /\ th["ipc"].op # "import"
    BY <1>1, Quiet
  <1>3. th'[t] = r /\ (\A o \in Threads : o # t => th'[o] = th[o]) /\ Today' = Today
    BY Typed DEF Today
  <1>4. (Busy(t))' /\ \A o \in Threads : o # t => ~(Busy(o))' /\ th'[o].pc \notin SavePcs
    BY <1>1, <1>3 DEF Busy, SavePcs
  <1>5. Saving'
    BY <1>3, <1>4 DEF Saving, SavePcs
  <1>6. Remembered'
    <2>1. Knows(mem)' /\ mem # Empty
      BY <1>1, <1>3, EmptyIs, Typed DEF Knows
    <2>2. \A x \in sounded' : mem.slot[x[1]].fired \in x[2]..Today'
      BY <1>1, <1>3
    <2>3. file'[name'.config].text = mem /\ file'[name'.config].card = mem /\ name'.durable = name'.config
      BY <1>2
    <2>4. th'["ipc"].op # "import"
      BY <1>2, <1>3, Typed
    <2> QED
      BY <2>1, <2>2, <2>3, <2>4 DEF Remembered, Knows
  <1>7. Committed'
    <2>1. SUFFICES ASSUME th'["main"].pc = "fired",
                          mem'.slot[th'["main"].alarm].fired = th'["main"].day
                   PROVE  Fired(Card(name.durable), th["main"].alarm, th["main"].day)'
      BY DEF Committed
    <2>2. t # "main" /\ th'["main"] = th["main"]
      BY <1>3, <2>1, Typed
    <2>3. th["main"].alarm \in Alarms /\ th["main"].day \in 1..Today
      BY <2>1, <2>2 DEF IInv, Roles
    <2>4. mem.slot[th["main"].alarm].fired = th["main"].day
      BY <2>1, <2>2, <2>3, Typed DEF NoDay
    <2>5. Card(name.durable)' = mem
      BY <1>2, Typed DEF Card
    <2> QED
      BY <2>2, <2>4, <2>5, Typed, EmptyIs DEF Fired
  <1> QED
    BY <1>5, <1>6, <1>7

\* One alarm is changed.
LEMMA SlotSet ==
  ASSUME NEW c \in Config, NEW a \in Alarms, NEW s \in Slot
  PROVE  /\ [c EXCEPT !.slot[a] = s] \in Config
         /\ [c EXCEPT !.slot[a] = s].slot[a] = s
         /\ \A b \in Alarms : b # a => [c EXCEPT !.slot[a] = s].slot[b] = c.slot[b]
         /\ [c EXCEPT !.slot[a] = s].vol = c.vol
  BY DEF Config

LEMMA CheckAlarmKeeps == ASSUME IInv, CheckAlarm PROVE IInv'
  <1>1. PICK a \in Alarms :
          /\ Due(a) /\ mem' = [mem EXCEPT !.slot[a].fired = Today]
          /\ th' = [th EXCEPT !["main"] = AlarmAt("open", "fire", a, Today)]
    BY DEF CheckAlarm
  <1>2. /\ up /\ th["main"].pc = "idle" /\ Notice("main")
        /\ UNCHANGED <<clock, up, name, file, sounded, failed>>
    BY DEF CheckAlarm
  <1> DEFINE r == AlarmAt("open", "fire", a, Today)
             s == [mem.slot[a] EXCEPT !.fired = Today]
  <1>3. /\ r \in Thread /\ r.pc = "open" /\ r.op = "fire" /\ r.fd = NoFile
        /\ r.alarm = a /\ r.day = Today /\ r.day \in 1..Today
    <2>1. "open" \in Pcs /\ "fire" \in Ops /\ Today \in Days /\ Today \in 1..Today
      BY Typed DEF Pcs, Ops
    <2> QED
      BY <2>1, AlarmAtIs
  <1>4. s \in Slot /\ s.fired = Today
    BY Typed DEF Config, Slot
  <1>5. mem' = [mem EXCEPT !.slot[a] = s]
    BY <1>1
  <1>6. th' = [th EXCEPT !["main"] = r]
    BY <1>1
  <1> HIDE DEF r, s
  <1>7. /\ mem' \in Config /\ mem'.slot[a].fired = Today
        /\ \A b \in Alarms : b # a => mem'.slot[b] = mem.slot[b]
    BY <1>4, <1>5, SlotSet, Typed
  <1>8. /\ th' \in [Threads -> Thread] /\ th'["main"] = r /\ th'["ipc"] = th["ipc"] /\ th'["audio"] = th["audio"]
        /\ \A o \in Threads : o # "main" => th'[o] = th[o]
    BY <1>3, <1>6, Typed
  <1>9. TypeOK' /\ overlap' \in BOOLEAN
    BY <1>2, <1>7, <1>8, Typed DEF TypeOK, Notice
  <1>10. Roles'
    <2>1. Today' = Today
      BY <1>2 DEF Today
    <2> QED
      BY <1>2, <1>3, <1>8, <2>1 DEF IInv, Roles, SavePcs
  <1>11. Hands' /\ Whole'
    <2>1. th["main"].fd = NoFile
      BY <1>2, Typed DEF IInv, Hands
    <2>2. \A t \in Threads : /\ th'[t].fd = th[t].fd /\ (th'[t].pc = "flush" => th'[t].buf = th[t].buf)
                             /\ \A l \in {"copy", "flush", "activate"} : th'[t].pc = l <=> th[t].pc = l
                             /\ th'[t].pc = "assign" => th'[t].buf \in Config
      BY <1>2, <1>3, <1>8, <2>1, Typed DEF IInv, Hands
    <2> QED
      BY <1>2, <1>8, <2>2, FilesStay
  <1>12. Orderly'
    <2>1. ASSUME Clean, NEW x \in sounded'
          PROVE  mem.slot[x[1]].fired \in x[2]..Today /\ mem'.slot[x[1]].fired \in x[2]..Today
      <3>1. x[1] \in Alarms /\ x[2] \in Days /\ x[2] \in Nat
        BY <1>2, <2>1, Typed DEF Days
      <3>2. mem.slot[x[1]].fired \in x[2]..Today
        BY <1>2, <2>1, Typed, EmptyIs DEF IInv, Orderly, Remembered, Knows
      <3>3. x[2] <= Today
        BY <3>1, <3>2, Typed
      <3> QED
        BY <1>7, <3>1, <3>2, <3>3, Typed
    <2>2. ~Busy("main")
      BY <1>2 DEF Busy
    <2>3. Clean => \A x \in sounded' : mem.slot[x[1]].fired \in x[2]..Today
      BY <2>1
    <2>4. Clean => \A x \in sounded' : mem'.slot[x[1]].fired \in x[2]..Today
      BY <2>1
    <2> QED
      BY <1>2, <1>3, <1>6, <1>7, <2>2, <2>3, <2>4, StartOrder, Typed
  <1> QED
    BY <1>9, <1>10, <1>11, <1>12 DEF IInv
\* A step outside save_config and the restore.
LEMMA PassOrder ==
  ASSUME IInv, UNCHANGED <<mem, up, name, file, sounded, overlap, failed>>,
         Today \in Nat, Today' \in Nat, Today <= Today',
         \A t \in Threads : Busy(t) \/ (Busy(t))' => th'[t] = th[t],
         th'["main"].pc = "fired" => th'["main"] = th["main"],
         th'["ipc"].op = "import" => th'["ipc"] = th["ipc"]
  PROVE  Orderly'
  <1> SUFFICES ASSUME Clean' PROVE Saving' /\ Remembered' /\ Committed'
    BY DEF Orderly
  <1>1. Clean /\ Saving /\ Remembered /\ Committed
    BY DEF Clean, IInv, Orderly
  <1>2. \A t \in Threads : (Busy(t))' <=> Busy(t)
    BY DEF Busy
  <1>3. \A t \in Threads : th'[t].pc \in {"copy", "flush", "rename", "sync"} => th'[t] = th[t]
    BY DEF Busy
  <1>4. th["ipc"].op = "import" => Busy("ipc")
    BY DEF IInv, Roles, Busy, SavePcs, Restoring
  <1>5. Saving'
    <2>1. \A t, o \in Threads : (Busy(t))' /\ (Busy(o))' => t = o
      BY <1>1, <1>2 DEF Saving
    <2>2. \A t \in Threads :
            /\ th'[t].pc \in {"copy", "flush"} => name'.tmp = th'[t].fd
            /\ th'[t].pc = "flush" => th'[t].buf = mem'
            /\ th'[t].pc = "rename" => name'.tmp # NoFile /\ Written(name.tmp)'
            /\ th'[t].pc = "sync" => name'.tmp = NoFile /\ Written(name.config)'
      BY <1>1, <1>3 DEF Saving, Written
    <2>3. up' /\ (\A t \in Threads : ~(Busy(t))') =>
            name'.tmp = NoFile /\ name'.config = name'.durable /\ Written(name.config)'
      BY <1>1, <1>2 DEF Saving, Written
    <2> QED
      BY <2>1, <2>2, <2>3 DEF Saving
  <1>6. \A t : Knows(t) => \A x \in sounded' : t # Empty /\ t.slot[x[1]].fired \in x[2]..Today'
    <2> SUFFICES ASSUME NEW t, Knows(t), NEW x \in sounded'
                 PROVE  t # Empty /\ t.slot[x[1]].fired \in x[2]..Today'
      OBVIOUS
    <2>1. t # Empty /\ t.slot[x[1]].fired \in x[2]..Today
      BY DEF Knows
    <2> QED
      BY <2>1
  <1>7. th["ipc"].op = "import" \/ th'["ipc"].op = "import" => th'["ipc"] = th["ipc"]
    BY <1>4, Typed
  <1>8. Remembered'
    BY <1>1, <1>6, <1>7 DEF Remembered, Knows
  <1>9. Committed'
    BY <1>1, <1>7 DEF Committed, Card, Fired
  <1> QED
    BY <1>5, <1>8, <1>9

LEMMA StartAlarmKeeps == ASSUME IInv, StartAlarm PROVE IInv'
  <1> DEFINE a == th["main"].alarm
             d == th["main"].day
             s == AlarmAt("opening", "sound", a, d)
  <1>1. /\ th["main"].pc = "fired" /\ th["main"].op = "fire" /\ a \in Alarms /\ d \in 1..Today /\ up
        /\ th["main"] \in Thread
        /\ UNCHANGED <<clock, mem, up, name, file, sounded, overlap, failed>>
    BY Typed DEF StartAlarm, IInv, Roles, SavePcs
  <1>2. Idle \in Thread /\ Idle.pc = "idle" /\ Idle.op = "none" /\ Idle.fd = NoFile
    BY AtIs DEF Pcs, Ops
  <1>3. /\ s \in Thread /\ s.pc = "opening" /\ s.op = "sound" /\ s.fd = NoFile
        /\ s.alarm = a /\ s.day = d
    <2>1. "opening" \in Pcs /\ "sound" \in Ops /\ d \in Days \cup {NoDay}
      BY <1>1 DEF Pcs, Ops, Thread
    <2> QED
      BY <1>1, <2>1, AlarmAtIs
  <1>4. \/ th["audio"].pc = "idle" /\ th' = [th EXCEPT !["main"] = Idle, !["audio"] = s]
        \/ th' = [th EXCEPT !["main"] = Idle]
    BY DEF StartAlarm
  <1> HIDE DEF s, a, d
  <1>5. /\ th' \in [Threads -> Thread] /\ th'["main"] = Idle /\ th'["ipc"] = th["ipc"]
        /\ th'["audio"] = th["audio"] \/ (th["audio"].pc = "idle" /\ th'["audio"] = s)
    BY <1>2, <1>3, <1>4, Typed
  <1>6. TypeOK'
    BY <1>1, <1>5 DEF IInv, TypeOK
  <1>7. Today' = Today
    BY <1>1 DEF Today
  <1>8. Roles'
    BY <1>1, <1>2, <1>3, <1>5, <1>7 DEF IInv, Roles, SavePcs
  <1>9. Hands' /\ Whole'
    <2>1. \A t \in Threads : th[t].pc \in {"idle", "fired"} => th[t].fd = NoFile
      BY DEF IInv, Hands
    <2>2. \A t \in Threads : /\ th'[t].fd = th[t].fd /\ (th'[t].pc = "flush" => th'[t].buf = th[t].buf)
                             /\ \A l \in {"copy", "flush", "activate"} : th'[t].pc = l <=> th[t].pc = l
                             /\ th'[t].pc = "assign" => th'[t].buf \in Config
      BY <1>1, <1>2, <1>3, <1>5, <2>1, Typed DEF IInv, Hands, Threads
    <2> QED
      BY <1>1, <1>5, <2>2, FilesStay
  <1>10. Orderly'
    <2>1. \A t \in Threads : Busy(t) \/ (Busy(t))' => th'[t] = th[t]
      BY <1>1, <1>2, <1>3, <1>5 DEF Busy, Threads
    <2> QED
      BY <1>1, <1>2, <1>5, <1>7, <2>1, PassOrder, Typed
  <1> QED
    BY <1>6, <1>8, <1>9, <1>10 DEF IInv

LEMMA EndKeeps == ASSUME IInv, SoundFails \/ ReadExport PROVE IInv'
  <1>1. PICK t \in {"ipc", "audio"} :
          /\ th[t].pc \in {"opening", "read"} /\ th' = [th EXCEPT ![t] = Idle]
          /\ UNCHANGED <<clock, mem, up, name, file, sounded, overlap, failed>>
    BY DEF SoundFails, ReadExport
  <1>2. Idle \in Thread /\ Idle.pc = "idle" /\ Idle.op = "none" /\ Idle.fd = NoFile
    BY AtIs DEF Pcs, Ops
  <1>3. th' \in [Threads -> Thread] /\ th'[t] = Idle /\ \A o \in Threads : o # t => th'[o] = th[o]
    BY <1>1, <1>2, Typed
  <1>4. TypeOK'
    BY <1>1, <1>3 DEF IInv, TypeOK
  <1>5. Today' = Today
    BY <1>1 DEF Today
  <1>6. Roles' /\ up
    BY <1>1, <1>2, <1>3, <1>5, Typed DEF IInv, Roles
  <1>7. Hands' /\ Whole'
    <2>1. th[t].fd = NoFile
      BY <1>1, Typed DEF IInv, Hands
    <2>2. \A o \in Threads : /\ th'[o].fd = th[o].fd /\ (th'[o].pc = "flush" => th'[o].buf = th[o].buf)
                             /\ \A l \in {"copy", "flush", "activate"} : th'[o].pc = l <=> th[o].pc = l
                             /\ th'[o].pc = "assign" => th'[o].buf \in Config
      BY <1>1, <1>2, <1>3, <2>1, Typed DEF IInv, Hands
    <2> QED
      BY <1>1, <1>3, <1>6, <2>2, FilesStay
  <1>8. Orderly'
    <2>1. \A o \in Threads : Busy(o) \/ (Busy(o))' => th'[o] = th[o]
      BY <1>1, <1>2, <1>3 DEF Busy
    <2>2. th'["main"] = th["main"] /\ (th'["ipc"].op = "import" => th'["ipc"] = th["ipc"])
      BY <1>1, <1>2, <1>3, Typed
    <2>3. Today <= Today' /\ Today \in Nat /\ Today' \in Nat
      BY <1>5, Typed
    <2> QED
      BY <1>1, <2>1, <2>2, <2>3, PassOrder
  <1> QED
    BY <1>4, <1>6, <1>7, <1>8 DEF IInv

LEMMA TickKeeps == ASSUME IInv, Tick PROVE IInv'
  <1>1. /\ clock < MaxClock /\ clock' = clock + 1
        /\ UNCHANGED <<mem, up, th, name, file, sounded, overlap, failed>>
    BY DEF Tick
  <1>2. Today <= Today' /\ Today \in Nat /\ Today' \in Nat
    BY <1>1, NextDay, Typed
  <1>3. clock' \in 0..MaxClock
    BY <1>1, StoreAssumption, Typed
  <1>4. TypeOK'
    BY <1>1, <1>3 DEF IInv, TypeOK
  <1>5. \A d \in 1..Today : d \in 1..Today'
    BY <1>2
  <1>6. Roles'
    BY <1>1, <1>5 DEF IInv, Roles
  <1>7. Hands' /\ Whole'
    <2>1. \A t \in Threads : th[t].pc = "assign" => th[t].buf \in Config
      BY DEF IInv, Hands
    <2> QED
      BY <1>1, <2>1, FilesStay, Typed
  <1>8. Orderly'
    BY <1>1, <1>2, PassOrder
  <1> QED
    BY <1>4, <1>6, <1>7, <1>8 DEF IInv

LEMMA SoundAlarmKeeps == ASSUME IInv, SoundAlarm PROVE IInv'
  <1> DEFINE a == th["audio"].alarm
             d == th["audio"].day
             r == At("open", "sound")
  <1>1. /\ th["audio"].pc = "opening" /\ a \in Alarms /\ d \in 1..Today /\ up /\ d \in Days
        /\ th' = [th EXCEPT !["audio"] = r] /\ Notice("audio")
        /\ UNCHANGED <<clock, mem, up, name, file, failed>>
        /\ sounded' = IF mem.slot[a].fired = d THEN sounded \cup {<<a, d>>} ELSE sounded
    <2>1. th["audio"].pc = "opening" /\ th["audio"] \in Thread
      BY Typed DEF SoundAlarm
    <2>2. a \in Alarms /\ d \in 1..Today /\ up
      BY <2>1 DEF IInv, Roles
    <2>3. d \in Days
      BY <2>1, <2>2 DEF Thread, NoDay
    <2> QED
      BY <2>1, <2>2, <2>3 DEF SoundAlarm
  <1>2. r \in Thread /\ r.pc = "open" /\ r.op = "sound" /\ r.fd = NoFile
    BY AtIs DEF Pcs, Ops
  <1> HIDE DEF a, d, r
  <1>3. /\ th' \in [Threads -> Thread] /\ th'["audio"] = r /\ th'["ipc"] = th["ipc"] /\ th'["main"] = th["main"]
        /\ \A o \in Threads : o # "audio" => th'[o] = th[o]
    BY <1>1, <1>2, Typed
  <1>4. TypeOK'
    <2>1. sounded' \subseteq Alarms \X Days /\ overlap' \in BOOLEAN
      BY <1>1, Typed DEF Notice
    <2> QED
      BY <1>1, <1>3, <2>1 DEF IInv, TypeOK
  <1>5. Roles'
    <2>1. Today' = Today
      BY <1>1 DEF Today
    <2> QED
      BY <1>1, <1>2, <1>3, <2>1 DEF IInv, Roles, SavePcs
  <1>6. Hands' /\ Whole'
    <2>1. th["audio"].fd = NoFile
      BY <1>1, Typed DEF IInv, Hands
    <2>2. \A o \in Threads : /\ th'[o].fd = th[o].fd /\ (th'[o].pc = "flush" => th'[o].buf = th[o].buf)
                             /\ \A l \in {"copy", "flush", "activate"} : th'[o].pc = l <=> th[o].pc = l
                             /\ th'[o].pc = "assign" => th'[o].buf \in Config
      BY <1>1, <1>2, <1>3, <2>1, Typed DEF IInv, Hands
    <2> QED
      BY <1>1, <1>3, <2>2, FilesStay
  <1>7. Orderly'
    <2>1. ASSUME Clean, NEW x \in sounded' PROVE mem.slot[x[1]].fired \in x[2]..Today
      <3>1. CASE x \in sounded
        BY <2>1, <3>1 DEF IInv, Orderly, Remembered, Knows
      <3>2. CASE x \notin sounded
        BY <1>1, <3>2, Typed
      <3> QED
        BY <3>1, <3>2
    <2>2. ~Busy("audio") /\ Clean => \A x \in sounded' : mem.slot[x[1]].fired \in x[2]..Today
      BY <2>1
    <2>3. ~Busy("audio")
      BY <1>1 DEF Busy
    <2>4. \A b \in Alarms : mem'.slot[b].fired \in {mem.slot[b].fired, NoDay}
      BY <1>1
    <2> QED
      BY <1>1, <1>2, <2>2, <2>3, <2>4, StartOrder, Typed
  <1> QED
    BY <1>4, <1>5, <1>6, <1>7 DEF IInv
-----------------------------------------------------------------------------
(* The IPC thread.                                                         *)

\* A request that changes the settings, or none, and saves.
LEMMA RequestKeeps ==
  ASSUME IInv, NEW o \in {"alarm", "settings", "export"}, Request(o), mem' \in Config,
         UNCHANGED <<clock, up, name, file, failed>>, sounded' \subseteq sounded,
         \A x \in sounded' : mem'.slot[x[1]].fired = mem.slot[x[1]].fired,
         \A a \in Alarms : mem'.slot[a].fired \in {mem.slot[a].fired, NoDay}
  PROVE  IInv'
  <1> DEFINE r == At("open", o)
  <1>1. up /\ th["ipc"].pc = "idle" /\ th' = [th EXCEPT !["ipc"] = r] /\ Notice("ipc")
    BY DEF Request
  <1>2. r \in Thread /\ r.pc = "open" /\ r.op = o /\ r.fd = NoFile
    BY AtIs DEF Pcs, Ops
  <1> HIDE DEF r
  <1>3. /\ th' \in [Threads -> Thread] /\ th'["ipc"] = r /\ th'["audio"] = th["audio"] /\ th'["main"] = th["main"]
        /\ \A t \in Threads : t # "ipc" => th'[t] = th[t]
    BY <1>1, <1>2, Typed
  <1>4. TypeOK'
    BY <1>1, <1>3, Typed DEF TypeOK, Notice
  <1>5. Roles'
    <2>1. Today' = Today
      BY DEF Today
    <2> QED
      BY <1>1, <1>2, <1>3, <2>1 DEF IInv, Roles, SavePcs
  <1>6. Hands' /\ Whole'
    <2>1. th["ipc"].fd = NoFile
      BY <1>1, Typed DEF IInv, Hands
    <2>2. \A t \in Threads : /\ th'[t].fd = th[t].fd /\ (th'[t].pc = "flush" => th'[t].buf = th[t].buf)
                             /\ \A l \in {"copy", "flush", "activate"} : th'[t].pc = l <=> th[t].pc = l
                             /\ th'[t].pc = "assign" => th'[t].buf \in Config
      BY <1>1, <1>2, <1>3, <2>1, Typed DEF IInv, Hands
    <2> QED
      BY <1>1, <1>3, <2>2, FilesStay
  <1>7. Orderly'
    <2>1. Clean => \A x \in sounded' : mem.slot[x[1]].fired \in x[2]..Today
      BY DEF IInv, Orderly, Remembered, Knows
    <2>2. Clean => \A x \in sounded' : mem'.slot[x[1]].fired \in x[2]..Today
      BY <2>1
    <2>3. ~Busy("ipc") /\ r.op # "import"
      BY <1>1, <1>2 DEF Busy
    <2> QED
      BY <1>1, <1>2, <2>1, <2>2, <2>3, StartOrder, Typed
  <1> QED
    BY <1>4, <1>5, <1>6, <1>7 DEF IInv

LEMMA SetAlarmKeeps == ASSUME IInv, SetAlarm PROVE IInv'
  <1>1. Request("alarm") /\ UNCHANGED <<clock, up, name, file, failed>>
    BY DEF SetAlarm
  <1>2. PICK a \in Alarms, at \in 0..(DayLength - 1), on \in BOOLEAN :
          /\ mem' = [mem EXCEPT !.slot[a] =
                       [on |-> on, at |-> at,
                        fired |-> IF at = mem.slot[a].at THEN @.fired ELSE NoDay]]
          /\ sounded' = {x \in sounded : x[1] # a \/ at = mem.slot[a].at}
    BY DEF SetAlarm
  <1> DEFINE s == [on |-> on, at |-> at,
                   fired |-> IF at = mem.slot[a].at THEN mem.slot[a].fired ELSE NoDay]
  <1>3. s \in Slot
    BY Typed DEF Config, Slot
  <1>4. mem' = [mem EXCEPT !.slot[a] = s]
    BY <1>2, Typed
  <1>5. s.fired = IF at = mem.slot[a].at THEN mem.slot[a].fired ELSE NoDay
    OBVIOUS
  <1> HIDE DEF s
  <1>6. /\ mem' \in Config /\ mem'.slot[a] = s
        /\ \A b \in Alarms : b # a => mem'.slot[b] = mem.slot[b]
    BY <1>3, <1>4, SlotSet, Typed
  <1>7. \A b \in Alarms : mem'.slot[b].fired \in {mem.slot[b].fired, NoDay}
    BY <1>5, <1>6
  <1>8. \A x \in sounded' : mem'.slot[x[1]].fired = mem.slot[x[1]].fired
    <2> SUFFICES ASSUME NEW x \in sounded' PROVE mem'.slot[x[1]].fired = mem.slot[x[1]].fired
      OBVIOUS
    <2>1. x[1] \in Alarms /\ (x[1] # a \/ at = mem.slot[a].at)
      BY <1>2, Typed
    <2> QED
      BY <1>5, <1>6, <2>1
  <1>9. sounded' \subseteq sounded
    BY <1>2
  <1> QED
    BY <1>1, <1>6, <1>7, <1>8, <1>9, RequestKeeps

LEMMA ChangeSettingsKeeps == ASSUME IInv, ChangeSettings PROVE IInv'
  <1>1. Request("settings") /\ UNCHANGED <<clock, up, name, file, sounded, failed>>
    BY DEF ChangeSettings
  <1>2. PICK v \in Volumes : mem' = [mem EXCEPT !.vol = v]
    BY DEF ChangeSettings
  <1>3. mem' \in Config /\ mem'.slot = mem.slot
    BY <1>2, Typed DEF Config
  <1> QED
    BY <1>1, <1>3, RequestKeeps

LEMMA ExportKeeps == ASSUME IInv, Export PROVE IInv'
  <1>1. Request("export") /\ UNCHANGED <<clock, mem, up, name, file, sounded, failed>>
    BY DEF Export
  <1> QED
    BY <1>1, RequestKeeps, Typed
\* Within a restore nobody else saves, and no alarm is remembered to have sounded.
LEMMA RestoreOrder ==
  ASSUME IInv, th["ipc"].pc \in Restoring, th'["ipc"].op = "import", th'["ipc"].pc \in (Restoring \ {"activate"}) \cup {"open"},
         \A t \in Threads : t # "ipc" => th'[t] = th[t], UNCHANGED <<up, overlap, failed>>,
         Clean => sounded' = {}
  PROVE  Orderly'
  <1> SUFFICES ASSUME Clean' PROVE Saving' /\ Remembered' /\ Committed'
    BY DEF Orderly
  <1>1. Clean /\ Saving
    BY DEF Clean, IInv, Orderly
  <1>2. \A t \in Threads : t # "ipc" => ~(Busy(t))' /\ th'[t].pc \notin SavePcs
    BY <1>1, Typed DEF Saving, Busy, SavePcs, Restoring
  <1>3. (Busy("ipc"))' /\ th'["ipc"].pc \notin {"copy", "flush", "rename", "sync"}
    BY DEF Busy, Restoring
  <1>4. Saving'
    <2>1. \A t, o \in Threads : (Busy(t))' /\ (Busy(o))' => t = o
      BY <1>2
    <2>2. \A t \in Threads : th'[t].pc \notin {"copy", "flush", "rename", "sync"}
      BY <1>2, <1>3 DEF SavePcs
    <2> QED
      BY <1>3, <2>1, <2>2, Typed DEF Saving
  <1>5. Remembered'
    BY <1>1 DEF Remembered, Knows
  <1>6. Committed'
    BY DEF Committed
  <1> QED
    BY <1>4, <1>5, <1>6

\* The IPC thread goes from one step of a restore to the next.
LEMMA RestoreRoles ==
  ASSUME IInv, NEW r \in Thread, th["ipc"].pc \in Restoring, r.op = "import",
         r.pc \in (Restoring \ {"activate"}) \cup {"open"}, th' = [th EXCEPT !["ipc"] = r],
         UNCHANGED <<clock, up>>
  PROVE  /\ th' \in [Threads -> Thread] /\ th'["ipc"] = r /\ \A t \in Threads : t # "ipc" => th'[t] = th[t]
         /\ Roles' /\ up
  <1>1. th' \in [Threads -> Thread] /\ th'["ipc"] = r /\ \A t \in Threads : t # "ipc" => th'[t] = th[t]
    BY Typed
  <1>2. Today' = Today
    BY DEF Today
  <1>3. up
    BY DEF IInv, Roles, Restoring
  <1> QED
    BY <1>1, <1>2, <1>3, Typed DEF IInv, Roles, SavePcs, Restoring

\* A step of a restore that leaves the files alone.
LEMMA RestoreKeeps ==
  ASSUME IInv, NEW r \in Thread, th["ipc"].pc \in Restoring \ {"activate"}, r.op = "import",
         r.pc \in (Restoring \ {"activate"}) \cup {"open"}, th' = [th EXCEPT !["ipc"] = r],
         r.fd = th["ipc"].fd, r.pc = "assign" => r.buf \in Config, mem' \in Config,
         UNCHANGED <<clock, up, name, file, sounded, overlap, failed>>
  PROVE  IInv'
  <1>1. /\ th' \in [Threads -> Thread] /\ th'["ipc"] = r /\ \A t \in Threads : t # "ipc" => th'[t] = th[t]
        /\ Roles' /\ up
    BY RestoreRoles
  <1>2. TypeOK'
    BY <1>1 DEF IInv, TypeOK
  <1>3. th["ipc"].op = "import"
    BY DEF IInv, Roles, Restoring, SavePcs
  <1>4. Hands' /\ Whole'
    <2>1. \A t \in Threads : /\ th'[t].fd = th[t].fd /\ (th'[t].pc = "flush" => th'[t].buf = th[t].buf)
                             /\ \A l \in {"copy", "flush", "activate"} : th'[t].pc = l <=> th[t].pc = l
                             /\ th'[t].pc = "assign" => th'[t].buf \in Config
      BY <1>1 DEF IInv, Hands, Restoring
    <2> QED
      BY <1>1, <2>1, FilesStay
  <1>5. Orderly'
    <2>1. Clean => sounded' = {}
      BY <1>3 DEF IInv, Orderly, Remembered
    <2> QED
      BY <1>1, <2>1, RestoreOrder
  <1> QED
    BY <1>1, <1>2, <1>4, <1>5 DEF IInv

LEMMA ImportKeeps == ASSUME IInv, Import PROVE IInv'
  <1>1. /\ up /\ th["ipc"].pc = "idle" /\ Notice("ipc")
        /\ UNCHANGED <<clock, mem, up, name, sounded, failed>>
    BY DEF Import
  <1>2. PICK b \in Backups, i \in Unused :
          /\ th' = [th EXCEPT !["ipc"] = [At("activate", "import") EXCEPT !.fd = i]]
          /\ file' = [file EXCEPT ![i] = [text |-> b, card |-> b]]
    BY DEF Import, New
  <1> DEFINE r == [At("activate", "import") EXCEPT !.fd = i]
  <1>3. i \in Inodes /\ i # NoFile /\ b \in Config /\ b \in Texts
    BY TextsAssumption, EmptyIs, Typed DEF Unused
  <1>4. /\ i \notin {name.config, name.tmp, name.durable}
        /\ \A t \in Threads : th[t].fd # i
    BY DEF Unused, Linked
  <1>5. r \in Thread /\ r.pc = "activate" /\ r.op = "import" /\ r.fd = i
    <2>1. "activate" \in Pcs /\ "import" \in Ops
      BY DEF Pcs, Ops
    <2>2. At("activate", "import") \in Thread /\ At("activate", "import").pc = "activate" /\ At("activate", "import").op = "import"
      BY <2>1, AtIs
    <2> QED
      BY <1>3, <2>2 DEF Thread
  <1>6. th' = [th EXCEPT !["ipc"] = r]
    BY <1>2
  <1> HIDE DEF r
  <1>7. /\ th' \in [Threads -> Thread] /\ th'["ipc"] = r /\ th'["audio"] = th["audio"] /\ th'["main"] = th["main"]
        /\ \A t \in Threads : t # "ipc" => th'[t] = th[t]
    BY <1>5, <1>6, Typed
  <1>8. /\ file' \in [Inodes -> [text : Texts, card : Texts]]
        /\ file'[i].text = b /\ \A j \in Inodes : j # i => file'[j] = file[j]
    BY <1>2, <1>3, Typed
  <1>9. TypeOK'
    BY <1>1, <1>7, <1>8, Typed DEF TypeOK, Notice
  <1>10. Roles'
    <2>1. Today' = Today
      BY <1>1 DEF Today
    <2> QED
      BY <1>1, <1>5, <1>7, <2>1 DEF IInv, Roles, SavePcs, Restoring
  <1>11. Hands'
    <2>1. \A t \in Threads : /\ th'[t].fd # NoFile <=> th'[t].pc \in {"copy", "flush", "activate"}
                             /\ th'[t].pc \in {"flush", "assign"} => th'[t].buf \in Config
      BY <1>3, <1>5, <1>7, Typed DEF IInv, Hands
    <2>2. /\ th'["ipc"].fd \notin {name'.config, name'.durable, name'.tmp, th'["main"].fd, th'["audio"].fd}
          /\ file'[th'["ipc"].fd].text \in Config
      BY <1>1, <1>3, <1>4, <1>5, <1>7, <1>8, Typed
    <2> QED
      BY <1>1, <2>1, <2>2 DEF IInv, Hands
  <1>12. /\ file'[name.config] = file[name.config] /\ file'[name.durable] = file[name.durable]
         /\ name.tmp # NoFile => file'[name.tmp] = file[name.tmp]
    BY <1>4, <1>8, Typed
  <1>13. Whole'
    <2>1. \A j \in Inodes : Filling(j) => Filling(j)'
      BY <1>1, <1>7 DEF Filling
    <2> QED
      BY <1>1, <1>12, <2>1, Typed DEF IInv, Whole
  <1>14. ASSUME Clean' PROVE Saving' /\ Remembered' /\ Committed'
    <2>1. Clean /\ Remembered /\ (\A t \in Threads : t # "ipc" => ~Busy(t))
      BY <1>1, <1>14 DEF Clean, Notice, IInv, Orderly
    <2>2. \A t \in Threads : t # "ipc" => ~(Busy(t))' /\ th'[t].pc \notin SavePcs
      BY <1>7, <2>1 DEF Busy, SavePcs
    <2>3. (Busy("ipc"))' /\ th'["ipc"].pc \notin SavePcs
      BY <1>5, <1>7 DEF Busy, SavePcs
    <2>4. Saving'
      BY <2>2, <2>3, Typed DEF Saving, SavePcs
    <2>5. Remembered'
      <3>1. th'["ipc"].pc = "activate"
        BY <1>5, <1>7
      <3> QED
        BY <1>1, <1>12, <2>1, <3>1, RememberedStays
    <2>6. Committed'
      BY <1>5, <1>7 DEF Committed
    <2> QED
      BY <2>4, <2>5, <2>6
  <1> QED
    BY <1>9, <1>10, <1>11, <1>13, <1>14 DEF IInv, Orderly

LEMMA ActivateKeeps == ASSUME IInv, Activate PROVE IInv'
  <1> DEFINE r == [th["ipc"] EXCEPT !.pc = "reset", !.fd = NoFile]
             i == th["ipc"].fd
  <1>1. /\ th["ipc"].pc = "activate" /\ name' = [name EXCEPT !.config = i] /\ sounded' = {}
        /\ th' = [th EXCEPT !["ipc"] = r] /\ file' = Kept(file) /\ th["ipc"] \in Thread
        /\ UNCHANGED <<clock, mem, up, overlap, failed>>
    BY Typed DEF Activate
  <1>2. r \in Thread /\ r.pc = "reset" /\ r.op = "import" /\ r.fd = NoFile
    <2>1. th["ipc"].op = "import"
      BY <1>1 DEF IInv, Roles, SavePcs, Restoring
    <2> QED
      BY <1>1, <2>1 DEF Thread, Pcs
  <1>3. /\ i \in Inodes /\ i \notin {name.config, name.durable, name.tmp}
        /\ file[i].text \in Config
    BY <1>1, Typed DEF IInv, Hands, Thread
  <1> HIDE DEF r, i
  <1>4. /\ th' \in [Threads -> Thread] /\ th'["ipc"] = r /\ \A t \in Threads : t # "ipc" => th'[t] = th[t]
        /\ Roles' /\ up
    BY <1>1, <1>2, RestoreRoles DEF Restoring
  <1>5. /\ name' \in [config : Inodes, tmp : Inodes \cup {NoFile}, durable : Inodes]
        /\ name'.config = i /\ name'.durable = name.durable /\ name'.tmp = name.tmp
    BY <1>1, <1>3, Typed
  <1>6. /\ file' \in [Inodes -> [text : Texts, card : Texts]]
        /\ file'[i] = file[i] /\ (name.tmp # NoFile => file'[name.tmp] = file[name.tmp])
    BY <1>1, <1>3, <1>5, KeptIs, Typed
  <1>7. TypeOK'
    BY <1>1, <1>4, <1>5, <1>6 DEF IInv, TypeOK
  <1>8. Hands'
    <2>1. \A t \in Threads : /\ th'[t].fd # NoFile <=> th'[t].pc \in {"copy", "flush", "activate"}
                             /\ th'[t].pc \in {"flush", "assign"} => th'[t].buf \in Config
      BY <1>2, <1>4 DEF IInv, Hands
    <2>2. th'["ipc"].pc # "activate"
      BY <1>2, <1>4
    <2> QED
      BY <1>3, <1>5, <2>1, <2>2 DEF IInv, Hands
  <1>9. Whole'
    <2>1. \A j \in Inodes : Filling(j) => Filling(j)'
      BY <1>1, <1>4 DEF Filling
    <2>2. file'[name'.config].text # Empty
      BY <1>3, <1>5, <1>6, EmptyIs
    <2> QED
      BY <1>1, <1>4, <1>5, <1>6, <2>1, <2>2, Typed DEF IInv, Whole
  <1>10. Orderly'
    BY <1>1, <1>2, <1>4, RestoreOrder DEF Restoring
  <1> QED
    BY <1>4, <1>7, <1>8, <1>9, <1>10 DEF IInv
LEMMA ResetKeeps == ASSUME IInv, Reset PROVE IInv'
  <1> DEFINE r == [th["ipc"] EXCEPT !.pc = "load"]
  <1>1. /\ th["ipc"].pc = "reset" /\ th["ipc"] \in Thread /\ mem' = Defaults /\ th' = [th EXCEPT !["ipc"] = r]
        /\ UNCHANGED <<clock, up, name, file, sounded, overlap, failed>>
    BY Typed DEF Reset, Goto
  <1>2. th["ipc"].op = "import"
    BY <1>1 DEF IInv, Roles, SavePcs
  <1>3. r \in Thread /\ r.pc = "load" /\ r.op = "import" /\ r.fd = th["ipc"].fd
    BY <1>1, <1>2 DEF Thread, Pcs
  <1> HIDE DEF r
  <1> QED
    BY <1>1, <1>3, RestoreKeeps, DefaultsTyped DEF Restoring

LEMMA LoadKeeps == ASSUME IInv, Load PROVE IInv'
  <1> DEFINE text == Text(name.config)
             o == [th["ipc"] EXCEPT !.pc = "open"]
             r == [th["ipc"] EXCEPT !.pc = "assign", !.buf = text, !.todo = Alarms \X Fields]
  <1>1. /\ th["ipc"].pc = "load" /\ th["ipc"] \in Thread
        /\ UNCHANGED <<clock, up, name, file, sounded, overlap, failed>>
        /\ \/ text = Empty /\ th' = [th EXCEPT !["ipc"] = o] /\ mem' = mem
           \/ text # Empty /\ th' = [th EXCEPT !["ipc"] = r] /\ mem' = [mem EXCEPT !.vol = text.vol]
    BY Typed DEF Load
  <1>2. th["ipc"].op = "import"
    BY <1>1 DEF IInv, Roles, SavePcs
  <1>3. text \in Texts
    BY Typed DEF Text
  <1>4. /\ o \in Thread /\ o.pc = "open" /\ o.op = "import" /\ o.fd = th["ipc"].fd
        /\ r \in Thread /\ r.pc = "assign" /\ r.op = "import" /\ r.fd = th["ipc"].fd /\ r.buf = text
    BY <1>1, <1>2, <1>3 DEF Thread, Pcs
  <1>5. text # Empty => text \in Config /\ [mem EXCEPT !.vol = text.vol] \in Config
    <2>1. text # Empty => text \in Config
      BY <1>3 DEF Texts
    <2> QED
      BY <2>1, Typed DEF Config
  <1> HIDE DEF o, r, text
  <1>6. CASE text = Empty
    BY <1>1, <1>4, <1>6, RestoreKeeps, Typed DEF Restoring
  <1>7. CASE text # Empty
    BY <1>1, <1>4, <1>5, <1>7, RestoreKeeps DEF Restoring
  <1> QED
    BY <1>6, <1>7

\* One field of one alarm is taken over from another configuration.
LEMMA FieldSet ==
  ASSUME NEW c \in Config, NEW n \in Config, NEW a \in Alarms, NEW f \in Fields
  PROVE  [c EXCEPT !.slot[a][f] = n.slot[a][f]] \in Config
  <1> DEFINE s == [c.slot[a] EXCEPT ![f] = n.slot[a][f]]
  <1>1. c.slot[a] \in Slot /\ n.slot[a] \in Slot
    BY DEF Config
  <1>2. CASE f = "on"
    BY <1>1, <1>2, SlotSet DEF Slot
  <1>3. CASE f = "at"
    BY <1>1, <1>3, SlotSet DEF Slot
  <1>4. CASE f = "fired"
    BY <1>1, <1>4, SlotSet DEF Slot
  <1> QED
    BY <1>2, <1>3, <1>4 DEF Fields

LEMMA AssignKeeps == ASSUME IInv, Assign PROVE IInv'
  <1>1. /\ th["ipc"].pc = "assign" /\ th["ipc"] \in Thread /\ th["ipc"].op = "import"
        /\ UNCHANGED <<clock, up, name, file, sounded, overlap, failed>>
        /\ th["ipc"].buf \in Config /\ th["ipc"].todo \subseteq Alarms \X Fields
    BY Typed DEF Assign, IInv, Roles, Hands, SavePcs, Thread
  <1> DEFINE o == [th["ipc"] EXCEPT !.pc = "open"]
  <1>2. CASE th["ipc"].todo = {}
    <2>1. th' = [th EXCEPT !["ipc"] = o] /\ mem' = mem
      BY <1>2 DEF Assign, Goto
    <2>2. o \in Thread /\ o.pc = "open" /\ o.op = "import" /\ o.fd = th["ipc"].fd
      BY <1>1 DEF Thread, Pcs
    <2> HIDE DEF o
    <2> QED
      BY <1>1, <2>1, <2>2, RestoreKeeps, Typed DEF Restoring
  <1>3. CASE th["ipc"].todo # {}
    <2>1. PICK x \in th["ipc"].todo :
            /\ mem' = [mem EXCEPT !.slot[x[1]][x[2]] = th["ipc"].buf.slot[x[1]][x[2]]]
            /\ th' = [th EXCEPT !["ipc"].todo = th["ipc"].todo \ {x}]
      BY <1>3 DEF Assign
    <2> DEFINE r == [th["ipc"] EXCEPT !.todo = th["ipc"].todo \ {x}]
    <2>2. th' = [th EXCEPT !["ipc"] = r]
      BY <2>1
    <2>3. r \in Thread /\ r.pc = "assign" /\ r.op = "import" /\ r.fd = th["ipc"].fd /\ r.buf = th["ipc"].buf
      BY <1>1 DEF Thread
    <2> HIDE DEF r
    <2>4. x[1] \in Alarms /\ x[2] \in Fields
      BY <1>1
    <2>5. mem' \in Config
      BY <1>1, <2>1, <2>4, FieldSet, Typed
    <2> QED
      BY <1>1, <2>2, <2>3, <2>5, RestoreKeeps DEF Restoring
  <1> QED
    BY <1>2, <1>3

-----------------------------------------------------------------------------
(* Restarts and power losses.                                              *)

\* The process starts with the names and files it finds.
LEMMA BootKeeps ==
  ASSUME IInv, NEW f \in [Inodes -> [text : Texts, card : Texts]], NEW text \in Texts, Boot(text),
         file' = Kept(f), UNCHANGED <<clock, sounded, overlap, failed>>,
         name' \in [config : Inodes, tmp : Inodes \cup {NoFile}, durable : Inodes],
         name'.config \in {name.config, name.durable}, name'.durable \in {name.config, name.durable},
         name'.tmp \in {name.tmp, NoFile},
         Clean => Knows(text),
         Clean => Knows(f[name'.config].text) /\ Knows(f[name'.config].card),
         Clean => Knows(f[name'.durable].text) /\ Knows(f[name'.durable].card)
  PROVE  IInv'
  <1>1. /\ mem' = (IF text = Empty THEN Defaults ELSE text) /\ up' = FALSE
        /\ th' = [t \in Threads |-> IF t = "main" THEN At("open", "boot") ELSE Idle]
    BY DEF Boot
  <1>2. /\ At("open", "boot") \in Thread /\ At("open", "boot").pc = "open"
        /\ At("open", "boot").op = "boot" /\ At("open", "boot").fd = NoFile
        /\ Idle \in Thread /\ Idle.pc = "idle" /\ Idle.op = "none" /\ Idle.fd = NoFile
    BY AtIs DEF Pcs, Ops
  <1>3. /\ th' \in [Threads -> Thread] /\ th'["main"].pc = "open" /\ th'["main"].op = "boot"
        /\ \A t \in Threads : t # "main" => th'[t] = Idle
        /\ \A t \in Threads : th'[t].fd = NoFile /\ th'[t].pc \in {"idle", "open"}
    BY <1>1, <1>2, Typed
  <1>4. mem' \in Config
    BY <1>1, DefaultsTyped DEF Texts
  <1>5. /\ file' \in [Inodes -> [text : Texts, card : Texts]]
        /\ file'[name'.config] = f[name'.config] /\ file'[name'.durable] = f[name'.durable]
    BY KeptIs, Typed
  <1>6. TypeOK'
    BY <1>1, <1>3, <1>4, <1>5, Typed DEF TypeOK
  <1>7. Roles'
    BY <1>1, <1>2, <1>3, Typed DEF Roles, SavePcs
  <1>8. Hands'
    <2>1. name'.tmp \notin {name'.config, name'.durable}
      BY Typed DEF IInv, Hands
    <2> QED
      BY <1>3, <2>1, Typed DEF Hands
  <1>9. Whole'
    BY <1>1, <1>3 DEF Whole
  <1>10. ASSUME Clean' PROVE Saving' /\ Remembered' /\ Committed'
    <2>1. /\ Clean /\ Knows(text) /\ Knows(f[name'.config].text) /\ Knows(f[name'.config].card)
          /\ Knows(f[name'.durable].text) /\ Knows(f[name'.durable].card) /\ Today' = Today
      BY <1>10 DEF Clean, Today
    <2>2. Saving'
      BY <1>1, <1>2, <1>3, Typed DEF Saving, Busy
    <2>3. Remembered'
      <3>1. Knows(mem)'
        BY <1>1, <1>4, <2>1, EmptyIs DEF Knows
      <3>2. th'["ipc"].op # "import"
        BY <1>2, <1>3, Typed
      <3>3. \A x \in sounded' :
              /\ f[name'.config].text # Empty /\ f[name'.config].text.slot[x[1]].fired \in x[2]..Today'
              /\ f[name'.config].card # Empty /\ f[name'.config].card.slot[x[1]].fired \in x[2]..Today'
              /\ f[name'.durable].text # Empty /\ f[name'.durable].text.slot[x[1]].fired \in x[2]..Today'
              /\ f[name'.durable].card # Empty /\ f[name'.durable].card.slot[x[1]].fired \in x[2]..Today'
        BY <2>1 DEF Knows
      <3> QED
        BY <1>5, <3>1, <3>2, <3>3 DEF Remembered, Knows
    <2>4. Committed'
      BY <1>3 DEF Committed
    <2> QED
      BY <2>2, <2>3, <2>4
  <1> QED
    BY <1>6, <1>7, <1>8, <1>9, <1>10 DEF IInv, Orderly

LEMMA RestartKeeps == ASSUME IInv, Restart PROVE IInv'
  <1>1. Boot(Text(name.config)) /\ file' = Kept(file) /\ UNCHANGED <<clock, name, sounded, overlap, failed>>
    BY DEF Restart
  <1>2. Text(name.config) = file[name.config].text /\ Text(name.config) \in Texts
    BY Typed DEF Text
  <1>3. Clean => /\ Knows(file[name.config].text) /\ Knows(file[name.config].card)
                 /\ Knows(file[name.durable].text) /\ Knows(file[name.durable].card)
    BY DEF IInv, Orderly, Remembered
  <1> QED
    BY <1>1, <1>2, <1>3, BootKeeps, Typed

LEMMA PowerLossKeeps == ASSUME IInv, PowerLoss PROVE IInv'
  <1>1. PICK c \in {name.config, name.durable}, t \in {name.tmp, NoFile}, f \in {file, OnCard} :
          /\ name' = [config |-> c, tmp |-> t, durable |-> c]
          /\ Boot(IF c = NoFile THEN Empty ELSE f[c].text)
          /\ file' = Kept(f)
          /\ UNCHANGED <<clock, sounded, overlap, failed>>
    BY DEF PowerLoss
  <1>2. c \in Inodes /\ c # NoFile /\ t \in Inodes \cup {NoFile}
    BY Typed
  <1>3. /\ OnCard \in [Inodes -> [text : Texts, card : Texts]]
        /\ \A i \in Inodes : OnCard[i].text = file[i].card /\ OnCard[i].card = file[i].card
    BY Typed DEF OnCard
  <1>4. f \in [Inodes -> [text : Texts, card : Texts]]
    BY <1>3, Typed
  <1>5. Clean => Knows(f[c].text) /\ Knows(f[c].card)
    <2>1. Clean => /\ Knows(file[name.config].text) /\ Knows(file[name.config].card)
                   /\ Knows(file[name.durable].text) /\ Knows(file[name.durable].card)
      BY DEF IInv, Orderly, Remembered
    <2> QED
      BY <1>2, <1>3, <2>1
  <1>6. Boot(f[c].text) /\ f[c].text \in Texts
    BY <1>1, <1>2, <1>4
  <1>7. /\ name' \in [config : Inodes, tmp : Inodes \cup {NoFile}, durable : Inodes]
        /\ name'.config = c /\ name'.durable = c /\ name'.tmp = t
    BY <1>1, <1>2
  <1> QED
    BY <1>1, <1>4, <1>5, <1>6, <1>7, BootKeeps

-----------------------------------------------------------------------------
(* The theorems.                                                           *)

LEMMA InitHolds == Init => IInv
  <1> SUFFICES ASSUME Init PROVE IInv
    OBVIOUS
  <1>1. /\ clock = 0 /\ mem \in Config /\ mem \in Texts /\ up = FALSE /\ sounded = {} /\ overlap = FALSE /\ failed = FALSE
        /\ th = [t \in Threads |-> IF t = "main" THEN At("open", "boot") ELSE Idle]
    BY TextsAssumption, EmptyIs DEF Init
  <1>2. PICK i \in Inodes :
          /\ name = [config |-> i, tmp |-> NoFile, durable |-> i]
          /\ file = [j \in Inodes |-> IF j = i THEN [text |-> mem, card |-> mem] ELSE Blank]
    BY DEF Init
  <1>3. /\ At("open", "boot") \in Thread /\ At("open", "boot").pc = "open"
        /\ At("open", "boot").op = "boot" /\ At("open", "boot").fd = NoFile
        /\ Idle \in Thread /\ Idle.pc = "idle" /\ Idle.op = "none" /\ Idle.fd = NoFile
    BY AtIs DEF Pcs, Ops
  <1>4. "main" \in Threads /\ "ipc" \in Threads /\ "audio" \in Threads /\ 0 \in 0..MaxClock /\ i # NoFile
    BY StoreAssumption DEF Threads, NoFile
  <1>5. /\ th \in [Threads -> Thread] /\ th["main"].pc = "open" /\ th["main"].op = "boot"
        /\ \A t \in Threads : t # "main" => th[t] = Idle
        /\ \A t \in Threads : th[t].fd = NoFile /\ th[t].pc \in {"idle", "open"}
    BY <1>1, <1>3, <1>4
  <1>6. /\ file \in [Inodes -> [text : Texts, card : Texts]]
        /\ name \in [config : Inodes, tmp : Inodes \cup {NoFile}, durable : Inodes]
    BY <1>1, <1>2, EmptyIs
  <1>7. TypeOK
    BY <1>1, <1>4, <1>5, <1>6 DEF TypeOK
  <1>8. Roles
    BY <1>1, <1>3, <1>4, <1>5 DEF Roles, SavePcs
  <1>9. Hands
    BY <1>2, <1>4, <1>5 DEF Hands
  <1>10. Whole
    BY <1>1, <1>5 DEF Whole
  <1>11. Saving
    BY <1>1, <1>3, <1>4, <1>5 DEF Saving, Busy
  <1>12. Remembered /\ Committed
    BY <1>1, <1>3, <1>4, <1>5 DEF Remembered, Knows, Committed
  <1> QED
    BY <1>7, <1>8, <1>9, <1>10, <1>11, <1>12 DEF IInv, Orderly

LEMMA StepKeeps == IInv /\ [Next]_vars => IInv'
  <1> SUFFICES ASSUME IInv, [Next]_vars PROVE IInv'
    OBVIOUS
  <1>1. CASE UNCHANGED vars
    <2>1. UNCHANGED <<clock, mem, up, th, name, file, sounded, overlap, failed>>
      BY <1>1 DEF vars
    <2>2. Today' = Today
      BY <2>1 DEF Today
    <2>3. TypeOK' /\ Roles'
      BY <2>1, <2>2 DEF IInv, TypeOK, Roles
    <2>4. Hands' /\ Whole'
      <3>1. \A t \in Threads : th[t].pc = "assign" => th[t].buf \in Config
        BY DEF IInv, Hands
      <3> QED
        BY <2>1, <3>1, FilesStay, Typed
    <2>5. Orderly'
      BY <2>1, <2>2, PassOrder, Typed
    <2> QED
      BY <2>3, <2>4, <2>5 DEF IInv
  <1>2. ASSUME NEW t \in Threads, Save(t) PROVE IInv'
    BY <1>2, OpenKeeps, FailsKeeps, CopyKeeps, FlushKeeps, RenameKeeps, RenameFailsKeeps, SyncNameKeeps DEF Save
  <1> QED
    BY <1>1, <1>2, CheckAlarmKeeps, StartAlarmKeeps, SoundAlarmKeeps, EndKeeps, SetAlarmKeeps,
       ChangeSettingsKeeps, ExportKeeps, ImportKeeps, ActivateKeeps, ResetKeeps, LoadKeeps, AssignKeeps,
       TickKeeps, RestartKeeps, PowerLossKeeps
    DEF Next

LEMMA Invariance == Spec => []IInv
  BY InitHolds, StepKeeps, PTL DEF Spec

\* The settings, the threads and the files have the values their types in
\* mk-piclock.c allow (app_state_t, save_config, load_config).
THEOREM StoreTyped == Spec => []TypeOK
  <1>1. IInv => TypeOK
    BY DEF IInv
  <1> QED
    BY <1>1, Invariance, PTL

\* When check_alarm goes on to an alarm's audio, what a power loss would leave
\* behind knows that the alarm has fired: save_config has returned.
THEOREM CommitCorrect == Spec => []CommittedIfClean
  <1>1. IInv => CommittedIfClean
    BY DEF IInv, Orderly, CommittedIfClean
  <1> QED
    BY <1>1, Invariance, PTL

\* Once every save_config has returned, the card holds what the daemon remembers,
\* and a whole file even where saves have overlapped.
THEOREM KeptCorrect == Spec => []SettingsKept
  <1>1. ASSUME IInv PROVE Settled
    <2> SUFFICES ASSUME Clean, up, \A t \in Threads : ~Busy(t)
                 PROVE  /\ name.config = name.durable
                        /\ Text(name.config) = mem /\ Card(name.config) = mem
      BY DEF Settled
    <2> QED
      BY <1>1, Quiet, Typed DEF Text, Card
  <1>2. ASSUME IInv PROVE WholeWhenQuiet
    <2> SUFFICES ASSUME ~failed, up, \A t \in Threads : ~Busy(t) PROVE Text(name.config) # Empty
      BY DEF WholeWhenQuiet
    <2>1. ~Filling(name.config)
      BY DEF Filling, Busy
    <2> QED
      BY <1>2, <2>1, Typed DEF IInv, Whole, Text
  <1> QED
    BY <1>1, <1>2, Invariance, PTL DEF SettingsKept

\* An alarm that has sounded on a day is not started again on that day by
\* check_alarm, whatever restarts and power losses come in between, unless it
\* was set again or a backup was restored.
THEOREM ReplayCorrect == Spec => NoReplay
  <1>1. ASSUME IInv, NEW a \in Alarms, Clean, CheckAlarm, mem'.slot[a].fired # mem.slot[a].fired
        PROVE  <<a, Today>> \notin sounded
    <2>1. PICK b \in Alarms : Due(b) /\ mem' = [mem EXCEPT !.slot[b].fired = Today]
      BY <1>1 DEF CheckAlarm
    <2>2. a = b
      BY <1>1, <2>1, Typed DEF Config
    <2>3. SUFFICES ASSUME <<a, Today>> \in sounded PROVE FALSE
      OBVIOUS
    <2>4. mem.slot[a].fired \in Today..Today
      BY <1>1, <2>3 DEF IInv, Orderly, Remembered, Knows
    <2>5. mem.slot[a].fired # Today
      BY <2>1, <2>2 DEF Due
    <2> QED
      BY <1>1, <2>4, <2>5, Typed
  <1>2. IInv /\ [Next]_vars =>
          [\A a \in Alarms :
             Clean /\ CheckAlarm /\ mem'.slot[a].fired # mem.slot[a].fired
               => <<a, Today>> \notin sounded]_vars
    BY <1>1
  <1> QED
    BY <1>2, Invariance, PTL DEF NoReplay, Spec

=============================================================================
