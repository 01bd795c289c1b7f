---------------------------- MODULE PodcastHistory ----------------------------
(* Random podcasts without repeats: the play history file of the core, the      *)
(* touch thread that picks an unplayed podcast after ten taps, and the IPC      *)
(* thread that plays one by hand, resets the history, or forgets an entry when  *)
(* the HTTP service reports an import or a deletion.                            *)
(*                                                                              *)
(* Each history function holds g_podcast_history_lock from its first read to    *)
(* its last write and is one step; choosing, stopping what plays and marking    *)
(* are separate steps.  The audio session itself is AudioPlayer's.              *)
EXTENDS Integers, FiniteSets, Sequences, Functions

CONSTANTS Order,       \* file names the library may hold, in the order readdir lists them
          ScanMax,     \* ASSET_LIST_MAX_FILES
          MaxLines     \* bound on the length of the history file

Podcasts == Range(Order)

ASSUME OrderAssumption ==
  /\ Order \in Seq(Podcasts) /\ {"none", "all"} \cap Podcasts = {}
  /\ \A i, j \in DOMAIN Order : i # j => Order[i] # Order[j]
ASSUME ScanAssumption == ScanMax \in Nat \ {0} /\ MaxLines \in Nat

VARIABLES
  library,   \* files in the podcast directory
  history,   \* lines of podcast-history.txt
  random,    \* the touch thread's random request
  manual,    \* the IPC thread's request
  notices,   \* podcasts the HTTP service is reporting as changed, All for a deletion of all
  marked     \* podcasts whose play was recorded since they were last forgotten

vars == <<library, history, random, manual, notices, marked>>

None == "none"
Resting == [pc |-> "idle", files |-> {}, file |-> None, stale |-> FALSE]
Waiting == [pc |-> "idle", file |-> None]
All == "all"

Init ==
  /\ library = Podcasts /\ history = <<>> /\ marked = {}
  /\ random = Resting /\ manual = Waiting /\ notices = {}

\* The members of set, in the order of seq: the loops that copy the lines or names to keep.
Those(seq, set) ==
  LET kept[n \in 0..Len(seq)] ==
        IF n = 0 THEN <<>>
        ELSE IF seq[n] \in set THEN Append(kept[n - 1], seq[n]) ELSE kept[n - 1]
  IN  kept[Len(seq)]

\* podcast_history_load_locked: the first ScanMax lines.
Front(seq) == SubSeq(seq, 1, IF Len(seq) < ScanMax THEN Len(seq) ELSE ScanMax)
Loaded == Front(history)
Known == Range(Loaded)

\* podcast_history_mark_played, podcast_history_forget, podcast_history_reset.
MarkAgain(f) ==   \* mutant: the list is not searched
  /\ history' = Append(history, f) /\ Len(history') <= MaxLines
  /\ marked' = marked \cup {f}
Mark(f) ==
  /\ history' = IF f \in Known THEN history ELSE Append(history, f)
  /\ Len(history') <= MaxLines
  /\ marked' = marked \cup {f}

Forget(f) ==
  /\ history' = IF f \in Known THEN Those(Loaded, Podcasts \ {f}) ELSE history
  /\ marked' = marked \ {f}

Reset == history' = <<>> /\ marked' = {}

\* ------------------------------------------------ the touch thread

\* collect_podcast_files: the first ScanMax files readdir answers.
Listing == Those(Order, library)

Collect ==
  /\ random.pc = "idle" /\ library # {}
  /\ random' = [Resting EXCEPT !.pc = "load", !.files = Range(Front(Listing))]
  /\ UNCHANGED <<library, history, manual, notices, marked>>

AvailableAll == random.files   \* mutant: played ones as well
Available == random.files \ Known

\* An unplayed file if there is one.
Choose ==
  /\ random.pc = "load" /\ Available # {}
  /\ \E f \in Available : random' = [random EXCEPT !.pc = "stop", !.files = {}, !.file = f]
  /\ UNCHANGED <<library, history, manual, notices, marked>>

\* All files found are played: the history is reset later, under a new lock.
ExhaustedEarly ==   \* mutant: one played podcast is enough
  /\ random.pc = "load" /\ random.files \cap Known # {}
  /\ random' = [random EXCEPT !.pc = "reset"]
  /\ UNCHANGED <<library, history, manual, notices, marked>>
Exhausted ==
  /\ random.pc = "load" /\ Available = {}
  /\ random' = [random EXCEPT !.pc = "reset"]
  /\ UNCHANGED <<library, history, manual, notices, marked>>

NewCycle ==
  /\ random.pc = "reset" /\ Reset
  /\ \E f \in random.files : random' = [random EXCEPT !.pc = "stop", !.files = {}, !.file = f]
  /\ UNCHANGED <<library, manual, notices>>

\* audio_play_podcast_file: the file is there, and what plays has stopped.
Stopped ==
  /\ random.pc = "stop" /\ random.file \in library
  /\ random' = [random EXCEPT !.pc = "mark"]
  /\ UNCHANGED <<library, history, manual, notices, marked>>

\* The file is gone, the player did not stop in time, or the reset or the mark failed.
GiveUp ==
  /\ random.pc \in {"reset", "stop", "mark"}
  /\ random' = Resting
  /\ UNCHANGED <<library, history, manual, notices, marked>>

MarkRandom ==
  /\ random.pc = "mark" /\ Mark(random.file)
  /\ random' = [random EXCEPT !.pc = "start"]
  /\ UNCHANGED <<library, manual, notices>>

StartRandom ==
  /\ random.pc = "start" /\ random' = Resting
  /\ UNCHANGED <<library, history, manual, notices, marked>>

\* pthread_create fails: the mark is taken back, whoever made it.
RandomFails ==
  /\ random.pc = "start" /\ Forget(random.file)
  /\ random' = Resting
  /\ UNCHANGED <<library, manual, notices>>

\* ------------------------------------------------ the IPC thread

\* Something changes while a random request is between its steps.
Overtaken == random' = IF random.pc = "idle" THEN random ELSE [random EXCEPT !.stale = TRUE]
Free == manual.pc = "idle"

PlayManual(f) ==
  /\ Free /\ f \in library
  /\ manual' = [pc |-> "mark", file |-> f]
  /\ UNCHANGED <<library, history, random, notices, marked>>

MarkManual ==
  /\ manual.pc = "mark" /\ Mark(manual.file) /\ Overtaken
  /\ manual' = [manual EXCEPT !.pc = "start"]
  /\ UNCHANGED <<library, notices>>

\* The play starts, or it was given up before the mark.
EndManual ==
  /\ ~Free /\ manual' = Waiting
  /\ UNCHANGED <<library, history, random, notices, marked>>

ManualFails ==
  /\ manual.pc = "start" /\ Forget(manual.file) /\ Overtaken
  /\ manual' = Waiting
  /\ UNCHANGED <<library, notices>>

\* Reset play history, from the web page.
ResetManual ==
  /\ Free /\ Reset /\ Overtaken
  /\ UNCHANGED <<library, manual, notices>>

\* ipc_asset_event.
Notice(n) ==
  /\ Free /\ n \in notices /\ Overtaken
  /\ notices' = notices \ {n}
  /\ IF n = All THEN Reset ELSE Forget(n)
  /\ UNCHANGED <<library, manual>>

\* ------------------------------------------------ the HTTP service and the core's life

\* An import renames the file into place, a deletion unlinks it; the core hears later.
Import(f) ==
  /\ library' = library \cup {f} /\ notices' = notices \cup {f} /\ Overtaken
  /\ UNCHANGED <<history, manual, marked>>

Remove(f) ==
  /\ f \in library /\ library' = library \ {f}
  /\ notices' = notices \cup {f} /\ Overtaken
  /\ UNCHANGED <<history, manual, marked>>

RemoveAll ==
  /\ library # {} /\ library' = {}
  /\ notices' = notices \cup {All} /\ Overtaken
  /\ UNCHANGED <<history, manual, marked>>

\* The core does not answer: the request reports it and is not repeated.
LoseNotice(n) ==
  /\ n \in notices /\ notices' = notices \ {n}
  /\ UNCHANGED <<library, history, random, manual, marked>>

\* The core restarts; the history file stays.
Restart ==
  /\ random' = Resting /\ manual' = Waiting
  /\ UNCHANGED <<library, history, notices, marked>>

Random == \/ Collect \/ Choose \/ Exhausted \/ NewCycle \/ Stopped \/ GiveUp
          \/ MarkRandom \/ StartRandom \/ RandomFails
Manual == \/ \E f \in Podcasts : PlayManual(f)
          \/ MarkManual \/ EndManual \/ ManualFails \/ ResetManual
Library == \/ \E f \in Podcasts : Import(f) \/ Remove(f)
           \/ RemoveAll
           \/ \E n \in notices : Notice(n) \/ LoseNotice(n)

Next == Random \/ Manual \/ Library \/ Restart

Spec == Init /\ [][Next]_vars

\* ------------------------------------------------ properties

\* Every variable holds a value of its type.
TypeOK ==
  /\ library \subseteq Podcasts /\ marked \subseteq Podcasts
  /\ history \in Seq(Podcasts) /\ Len(history) <= MaxLines
  /\ random \in [pc : {"idle", "load", "reset", "stop", "mark", "start"},
                 files : SUBSET Podcasts, file : Podcasts \cup {None}, stale : BOOLEAN]
  /\ manual \in [pc : {"idle", "mark", "start"}, file : Podcasts \cup {None}]
  /\ notices \subseteq Podcasts \cup {All}

\* The file names exactly the podcasts recorded as played and not forgotten since,
\* each once: rewriting it for one podcast never loses or doubles another.
HistoryTrue ==
  /\ Range(history) = marked
  /\ \A i, j \in DOMAIN history : i # j => history[i] # history[j]

\* Well-typed, and the file says exactly what was played (podcast_history_mark_played and the
\* rewriting of the file by the other three operations).
HistoryInv == TypeOK /\ HistoryTrue

\* "Random playback excludes played podcasts": a random request records a podcast
\* already played only if another request changed something since it looked.
NoRepeat == [][MarkRandom => random.file \notin marked \/ random.stale]_vars

\* "After all podcasts have played, the next random request clears history": not
\* before, unless another request changed something since it looked.
CycleComplete == [][NewCycle => library \subseteq marked \/ random.stale]_vars
=============================================================================
