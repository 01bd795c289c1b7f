---------------------------- MODULE AudioPlayer ----------------------------
(***************************************************************************)
(* Playback in the core daemon (mk-piclock.c).  Three threads ask for      *)
(* audio: the main loop fires alarms, the touch thread starts music or     *)
(* podcasts and stops playback, and the IPC thread serves the web API.     *)
(* Every start spawns a detached decoder thread.  The threads share two    *)
(* records, each behind its own mutex:                                     *)
(*   g_audio  running, stop_requested, alarm_mode, timed_out, deadline     *)
(*   g_state  audio_playing, audio_content_kind, audio_file, alarm_active  *)
(* One action is one critical section, so every order the two mutexes      *)
(* allow is a behaviour.  PCM data, volumes and titles are left out.       *)
(***************************************************************************)
EXTENDS Naturals

CONSTANTS Decoders,   \* names for decoder threads: bounds how many coexist
          Files,      \* files of the music library
          Podcasts,   \* files of the podcast library
          Requests    \* the operations each thread issues in an instance

Callers == {"main", "touch", "ipc"}

NoFile       == "none"      \* the empty string
BuiltinAlarm == "builtin"   \* DEFAULT_ALARM_LABEL
ChimeFile    == "chime"     \* MESSAGE_CHIME_LABEL

StartOps  == {"music", "podcast", "alarm"}
DeleteOps == {"delete", "deletePodcast", "deleteAll", "deleteAllPodcasts"}
PlayKinds == StartOps \cup {"chime"}

\* Every operation a thread's code can issue, as <<operation, file>>.  An
\* alarm falls back to the built-in sound, so it always has a file.
Issues ==
  [c \in Callers |->
     CASE c = "main"  -> {"alarm"} \X (Files \cup {BuiltinAlarm})
       [] c = "touch" -> ({"music"} \X Files) \cup ({"podcast"} \X Podcasts)
                           \cup {<<"stop", NoFile>>}
       [] c = "ipc"   -> ({"music", "delete"} \X Files)
                           \cup ({"podcast", "deletePodcast"} \X Podcasts)
                           \cup ({"stop", "import", "deleteAll",
                                  "deleteAllPodcasts"} \X {NoFile})
                           \cup {<<"chime", ChimeFile>>}]

ASSUME RequestsAssumption ==
  /\ DOMAIN Requests = Callers
  /\ \A c \in Callers : Requests[c] \subseteq Issues[c]

VARIABLES
  audio,   \* g_audio; "due" stands for now >= alarm_deadline_ms > 0
  vis,     \* g_state.audio_playing, audio_content_kind, audio_file
  alarmActive, \* g_state.alarm_active
  pc,      \* where each caller is in the operation it executes
  req,     \* that operation, <<op, file>>
  dec,     \* the decoder threads
  overlap  \* history: a start was let through while another was being made

vars == <<audio, vis, alarmActive, pc, req, dec, overlap>>

NoAudio == [running |-> FALSE, stop |-> FALSE, alarmMode |-> FALSE,
            timedOut |-> FALSE, due |-> FALSE]
NoVis   == [playing |-> FALSE, kind |-> "none", file |-> NoFile]
Free    == [st |-> "free", kind |-> "none", file |-> NoFile]
NoReq   == <<"none", NoFile>>

Op(c)   == req[c][1]
File(c) == req[c][2]

Init ==
  /\ audio = NoAudio
  /\ vis = NoVis
  /\ alarmActive = FALSE
  /\ pc = [c \in Callers |-> "idle"]
  /\ req = [c \in Callers |-> NoReq]
  /\ dec = [d \in Decoders |-> Free]
  /\ overlap = FALSE

Return(c) == /\ pc' = [pc EXCEPT ![c] = "idle"]
             /\ req' = [req EXCEPT ![c] = NoReq]

Goto(c, l) == pc' = [pc EXCEPT ![c] = l] /\ UNCHANGED req

-----------------------------------------------------------------------------
(***************************************************************************)
(* Requests.  A caller takes one operation at a time: the IPC thread is    *)
(* serial, and so are the main loop and the touch thread.                  *)
(***************************************************************************)
\* Does the visible session concern the deleted asset (ipc_asset_event)?
Concerns(op, f) ==
  CASE op = "delete"            -> vis.kind # "podcast" /\ vis.file = f
    [] op = "deletePodcast"     -> vis.kind = "podcast" /\ vis.file = f
    [] op = "deleteAll"         -> vis.kind \in {"music", "alarm"}
    [] op = "deleteAllPodcasts" -> vis.kind = "podcast"

\* audio_play_music_file and audio_play_podcast_file up to the stop request;
\* a file that is missing or unreadable ends the call without any effect.  Ten
\* taps start a podcast, and only while nothing is reported as playing.
RequestPlay(c) ==
  \E r \in Requests[c] :
    /\ pc[c] = "idle"
    /\ r[1] \in StartOps
    /\ (c = "touch" /\ r[1] = "podcast") => ~vis.playing
    /\ pc' = [pc EXCEPT ![c] = "flag"]
    /\ req' = [req EXCEPT ![c] = r]
    /\ UNCHANGED <<audio, vis, alarmActive, dec, overlap>>

\* A short press stops only what audio_is_playing() reports; the web API and
\* a configuration import stop unconditionally.
RequestStop(c) ==
  \E r \in Requests[c] :
    /\ pc[c] = "idle"
    /\ r[1] \in {"stop", "import"}
    /\ c = "touch" => vis.playing
    /\ pc' = [pc EXCEPT ![c] = "flag"]
    /\ req' = [req EXCEPT ![c] = r]
    /\ UNCHANGED <<audio, vis, alarmActive, dec, overlap>>

\* An asset was deleted: its playback is stopped if the screen shows it.
RequestDelete(c) ==
  \E r \in Requests[c] :
    /\ pc[c] = "idle"
    /\ r[1] \in DeleteOps
    /\ Concerns(r[1], r[2])
    /\ pc' = [pc EXCEPT ![c] = "flag"]
    /\ req' = [req EXCEPT ![c] = r]
    /\ UNCHANGED <<audio, vis, alarmActive, dec, overlap>>

-----------------------------------------------------------------------------
(***************************************************************************)
(* audio_request_stop: three critical sections.                            *)
(***************************************************************************)
FlagStop(c) ==
  /\ pc[c] = "flag"
  /\ audio' = [audio EXCEPT !.stop = audio.running \/ audio.stop]
  /\ Goto(c, "quiet")
  /\ UNCHANGED <<vis, alarmActive, dec, overlap>>

QuietAlarm(c) ==
  /\ pc[c] = "quiet"
  /\ alarmActive' = FALSE
  /\ Goto(c, "clear")
  /\ UNCHANGED <<audio, vis, dec, overlap>>

\* After the visible state is cleared each operation goes its own way.
ClearVisible(c) ==
  /\ pc[c] = "clear"
  /\ vis' = NoVis
  /\ \/ Op(c) = "stop" /\ Return(c)
     \/ Op(c) \in StartOps \cup {"import"} /\ Goto(c, "wait")
     \/ Op(c) \in DeleteOps /\ Goto(c, "erase")
  /\ UNCHANGED <<audio, alarmActive, dec, overlap>>

\* ipc_asset_event clears the visible session once more.
EraseDeleted(c) ==
  /\ pc[c] = "erase"
  /\ vis' = NoVis
  /\ Return(c)
  /\ UNCHANGED <<audio, alarmActive, dec, overlap>>

-----------------------------------------------------------------------------
(***************************************************************************)
(* Starting a session.                                                     *)
(***************************************************************************)
\* Variant: the wait does not test running.
WaitUntested(c) ==
  /\ pc[c] = "wait"
  /\ IF Op(c) = "import" THEN Return(c) ELSE Goto(c, "ready")
  /\ UNCHANGED <<audio, vis, alarmActive, dec, overlap>>

\* audio_wait_stopped saw running = 0.  g_audio.lock is released again here,
\* before the caller publishes its own session.
WaitStopped(c) ==
  /\ pc[c] = "wait"
  /\ ~audio.running
  /\ IF Op(c) = "import"
       THEN Return(c) /\ UNCHANGED overlap
       ELSE /\ Goto(c, "ready")
            /\ overlap' = (overlap \/ \E o \in Callers \ {c} : pc[o] = "ready")
  /\ UNCHANGED <<audio, vis, alarmActive, dec>>

\* The old decoder did not exit within 3000 ms: the call fails with -3.
WaitTimeout(c) ==
  /\ pc[c] = "wait"
  /\ audio.running
  /\ Return(c)
  /\ UNCHANGED <<audio, vis, alarmActive, dec, overlap>>

\* No memory, or the podcast history could not be written (-1, -5).
StartAborted(c) ==
  /\ pc[c] = "ready"
  /\ Return(c)
  /\ UNCHANGED <<audio, vis, alarmActive, dec, overlap>>

\* Variant: alarm_mode is never set.
PublishPlain(c) ==
  /\ pc[c] = "ready"
  /\ audio' = [NoAudio EXCEPT !.running = TRUE]
  /\ Goto(c, "show")
  /\ UNCHANGED <<vis, alarmActive, dec, overlap>>

Publish(c) ==
  /\ pc[c] = "ready"
  /\ audio' = [NoAudio EXCEPT !.running = TRUE,
                              !.alarmMode = (Op(c) = "alarm")]
  /\ Goto(c, "show")
  /\ UNCHANGED <<vis, alarmActive, dec, overlap>>

Show(c) ==
  /\ pc[c] = "show"
  /\ vis' = [playing |-> TRUE, kind |-> Op(c), file |-> File(c)]
  /\ Goto(c, "spawn")
  /\ UNCHANGED <<audio, alarmActive, dec, overlap>>

\* Variant: the chime does not look whether the player is busy.
PublishChimeBusy(c) ==
  /\ pc[c] = "idle"
  /\ <<"chime", ChimeFile>> \in Requests[c]
  /\ audio' = [NoAudio EXCEPT !.running = TRUE]
  /\ pc' = [pc EXCEPT ![c] = "spawn"]
  /\ req' = [req EXCEPT ![c] = <<"chime", ChimeFile>>]
  /\ UNCHANGED <<vis, alarmActive, dec, overlap>>

\* audio_play_weather_warning_chime tests and sets running in one critical
\* section and leaves the visible state alone; it is skipped when busy (-4).
PublishChime(c) ==
  /\ pc[c] = "idle"
  /\ <<"chime", ChimeFile>> \in Requests[c]
  /\ ~audio.running
  /\ audio' = [NoAudio EXCEPT !.running = TRUE]
  /\ pc' = [pc EXCEPT ![c] = "spawn"]
  /\ req' = [req EXCEPT ![c] = <<"chime", ChimeFile>>]
  /\ overlap' = (overlap \/ \E o \in Callers : pc[o] = "ready")
  /\ UNCHANGED <<vis, alarmActive, dec>>

Spawn(c) ==
  /\ pc[c] = "spawn"
  /\ \E d \in Decoders :
       /\ dec[d].st = "free"
       /\ dec' = [dec EXCEPT ![d] = [st |-> "open", kind |-> Op(c),
                                     file |-> File(c)]]
  /\ Return(c)
  /\ UNCHANGED <<audio, vis, alarmActive, overlap>>

\* Variants: a failed start leaves g_audio as it is; the chime's failure also
\* withdraws a visible session it never made.
SpawnFailsRunning(c) ==
  /\ pc[c] = "spawn"
  /\ IF Op(c) = "chime" THEN Return(c) ELSE Goto(c, "unshow")
  /\ UNCHANGED <<audio, vis, alarmActive, dec, overlap>>

SpawnFailsUnshow(c) ==
  /\ pc[c] = "spawn"
  /\ audio' = NoAudio
  /\ Goto(c, "unshow")
  /\ UNCHANGED <<vis, alarmActive, dec, overlap>>

\* pthread_create failed: g_audio is reset, then (not for the chime) g_state.
SpawnFails(c) ==
  /\ pc[c] = "spawn"
  /\ audio' = NoAudio
  /\ IF Op(c) = "chime" THEN Return(c) ELSE Goto(c, "unshow")
  /\ UNCHANGED <<vis, alarmActive, dec, overlap>>

Unshow(c) ==
  /\ pc[c] = "unshow"
  /\ vis' = NoVis
  /\ Return(c)
  /\ UNCHANGED <<audio, alarmActive, dec, overlap>>

-----------------------------------------------------------------------------
(***************************************************************************)
(* The decoder thread, audio_thread_main.                                  *)
(***************************************************************************)
Alarm(d) == dec[d].kind = "alarm"

Step(d, from, to) == /\ dec[d].st = from
                     /\ dec' = [dec EXCEPT ![d].st = to]
                     /\ UNCHANGED <<pc, req, overlap>>

\* The file opens; an alarm shows its ramp before the device is opened.
OpenFile(d) ==
  /\ Step(d, "open", "device")
  /\ alarmActive' = (Alarm(d) \/ alarmActive)
  /\ UNCHANGED <<audio, vis>>

OpenDevice(d) == Step(d, "device", "loop") /\ UNCHANGED <<audio, vis, alarmActive>>

\* The file, the ALSA device or the buffer cannot be had: goto done.
OpenFails(d) ==
  /\ \/ Step(d, "open", "end")
     \/ Step(d, "device", "end")
  /\ UNCHANGED <<audio, vis, alarmActive>>

\* audio_should_stop: the alarm's deadline turns into a stop request.
Expired    == ~audio.stop /\ audio.alarmMode /\ audio.due
ShouldStop == audio.stop \/ Expired
NoteExpiry == audio' = [audio EXCEPT !.stop = ShouldStop,
                                     !.timedOut = @ \/ Expired]

\* Variant: the decoding loop looks at the deadline only.
LoopTestDeadline(d) ==
  /\ Step(d, "loop", IF Expired THEN "drain" ELSE "fill")
  /\ NoteExpiry
  /\ UNCHANGED <<vis, alarmActive>>

LoopTest(d) ==
  /\ Step(d, "loop", IF ShouldStop THEN "drain" ELSE "fill")
  /\ NoteExpiry
  /\ UNCHANGED <<vis, alarmActive>>

\* One decoded buffer is played.  The file may end with it, or it may fail.
Fill(d) ==
  /\ \E next \in {"loop", "eof", "drain"} : Step(d, "fill", next)
  /\ alarmActive' = (Alarm(d) \/ alarmActive)
  /\ UNCHANGED <<audio, vis>>

\* At the end of the file an alarm starts over unless it should stop (a seek
\* may fail); anything else is finished.
EndOfFile(d) ==
  IF Alarm(d)
    THEN /\ \/ Step(d, "eof", IF ShouldStop THEN "drain" ELSE "loop")
            \/ Step(d, "eof", "drain")
         /\ NoteExpiry
         /\ UNCHANGED <<vis, alarmActive>>
    ELSE Step(d, "eof", "drain") /\ UNCHANGED <<audio, vis, alarmActive>>

\* Drop or drain the device, which tests audio_should_stop once more.
Drain(d) ==
  /\ Step(d, "drain", "end")
  /\ NoteExpiry
  /\ UNCHANGED <<vis, alarmActive>>

\* Variant: the alarm stays active when its decoder is through.
EndRampSilent(d) == Step(d, "end", "clear") /\ UNCHANGED <<audio, vis, alarmActive>>

EndRamp(d) ==
  /\ Step(d, "end", "clear")
  /\ alarmActive' = (alarmActive /\ ~Alarm(d))
  /\ UNCHANGED <<audio, vis>>

EraseVisible(d) ==
  /\ Step(d, "clear", "done")
  /\ vis' = NoVis
  /\ UNCHANGED <<audio, alarmActive>>

\* Variant: completion clears running and nothing else.
ExitRunningOnly(d) ==
  /\ dec[d].st = "done"
  /\ dec' = [dec EXCEPT ![d] = Free]
  /\ audio' = [audio EXCEPT !.running = FALSE]
  /\ UNCHANGED <<vis, alarmActive, pc, req, overlap>>

\* The thread publishes completion and wakes whoever waits for it.
Exit(d) ==
  /\ dec[d].st = "done"
  /\ dec' = [dec EXCEPT ![d] = Free]
  /\ audio' = NoAudio
  /\ UNCHANGED <<vis, alarmActive, pc, req, overlap>>

\* Thirty minutes have passed since an alarm was published.
Deadline ==
  /\ audio.alarmMode /\ ~audio.due
  /\ audio' = [audio EXCEPT !.due = TRUE]
  /\ UNCHANGED <<vis, alarmActive, pc, req, dec, overlap>>

-----------------------------------------------------------------------------
Proceed(c) == \/ FlagStop(c) \/ QuietAlarm(c) \/ ClearVisible(c)
              \/ EraseDeleted(c) \/ WaitStopped(c) \/ WaitTimeout(c)
              \/ StartAborted(c) \/ Publish(c) \/ Show(c)
              \/ Spawn(c) \/ SpawnFails(c) \/ Unshow(c)

Decode(d) == \/ OpenFile(d) \/ OpenDevice(d) \/ OpenFails(d) \/ LoopTest(d)
             \/ Fill(d) \/ EndOfFile(d) \/ Drain(d) \/ EndRamp(d)
             \/ EraseVisible(d) \/ Exit(d)

Next ==
  \/ \E c \in Callers : \/ RequestPlay(c) \/ RequestStop(c)
                        \/ RequestDelete(c) \/ PublishChime(c)
                        \/ Proceed(c)
  \/ \E d \in Decoders : Decode(d)
  \/ Deadline

Spec == Init /\ [][Next]_vars

(***************************************************************************)
(* The kernel schedules every thread that can run, and time passes.  No    *)
(* one has to press the sensor or call the API.                            *)
(***************************************************************************)
Fairness == /\ \A c \in Callers : WF_vars(Proceed(c))
            /\ \A d \in Decoders : WF_vars(Decode(d))
            /\ WF_vars(Deadline)

FairSpec == Spec /\ Fairness

-----------------------------------------------------------------------------
(***************************************************************************)
(* Properties.                                                             *)
(***************************************************************************)
PcValues == {"idle", "flag", "quiet", "clear", "erase", "wait", "ready",
             "show", "spawn", "unshow"}
DecValues == {"free", "open", "device", "loop", "fill", "eof", "drain",
              "end", "clear", "done"}

AnyFile == Files \cup Podcasts \cup {BuiltinAlarm, ChimeFile, NoFile}
AnyOp == PlayKinds \cup DeleteOps \cup {"stop", "import", "none"}

Audio == [running : BOOLEAN, stop : BOOLEAN, alarmMode : BOOLEAN,
          timedOut : BOOLEAN, due : BOOLEAN]
Visible == [playing : BOOLEAN, kind : StartOps \cup {"none"}, file : AnyFile]
Decoder == [st : DecValues, kind : PlayKinds \cup {"none"}, file : AnyFile]

\* A caller about to publish, show or withdraw a session executes a start,
\* and only the chime goes to the thread creation without those.
OpAtPc == \A c \in Callers :
            /\ pc[c] = "wait" => Op(c) \in StartOps \cup {"import"}
            /\ pc[c] \in {"ready", "show", "unshow"} => Op(c) \in StartOps
            /\ pc[c] = "spawn" => Op(c) \in PlayKinds

TypeOK ==
  /\ audio \in Audio
  /\ vis \in Visible
  /\ alarmActive \in BOOLEAN
  /\ pc \in [Callers -> PcValues]
  /\ req \in [Callers -> AnyOp \X AnyFile]
  /\ dec \in [Decoders -> Decoder]
  /\ overlap \in BOOLEAN
  /\ OpAtPc

\* A session belongs to its starter from Publish until Spawn, and to its
\* decoder thread from Spawn until Exit.
Starting == {c \in Callers : pc[c] \in {"show", "spawn"}}
Decoding == {d \in Decoders : dec[d].st # "free"}

\* A stop request, an alarm mode or an expiry is never left behind by a
\* session that is over: the next session cannot inherit it (g_audio, the
\* resets in audio_thread_main and in every failed start).
FlagsBelongToSession ==
  /\ audio.stop \/ audio.alarmMode => audio.running
  /\ audio.timedOut => audio.stop

\* The player never wedges: while running is set somebody will clear it, so
\* waiting for the old decoder is never waiting for nobody.
NeverWedged == audio.running => Starting # {} \/ Decoding # {}

\* What the screen and the status API report as playing, or as an active
\* alarm, is backed by a thread that is going to take it back.
NoGhostPlayback ==
  /\ vis.playing => \/ \E c \in Callers : /\ pc[c] \in {"spawn", "unshow"}
                                          /\ Op(c) # "chime"
                    \/ \E d \in Decoding : dec[d].st # "done"
  /\ alarmActive => \E d \in Decoding : /\ Alarm(d)
                                        /\ dec[d].st \notin {"open", "clear", "done"}

\* As long as no start was let through while another one was being made,
\* there is one session at a time, and running says whether there is one.
OneSession ==
  ~overlap => /\ \A c1, c2 \in Starting : c1 = c2
              /\ \A d1, d2 \in Decoding : d1 = d2
              /\ Starting = {} \/ Decoding = {}
              /\ (Starting # {} \/ Decoding # {}) => audio.running

\* A caller between its wait and its publication relies on running staying
\* false although it has let go of g_audio.lock: true only without overlap.
ReadyWindow ==
  ~overlap => /\ \A c1, c2 \in Callers : pc[c1] = "ready" /\ pc[c2] = "ready" => c1 = c2
              /\ (\E c \in Callers : pc[c] = "ready") => ~audio.running

\* A sounding alarm is under control: its thirty-minute limit is armed or its
\* end has been requested, and a request to dismiss it would be recorded.
AlarmUnderControl ==
  \A d \in Decoding : Alarm(d) /\ dec[d].st \in {"loop", "fill", "eof"}
                       => audio.running /\ (audio.alarmMode \/ audio.stop)

\* An alarm sounds until it is dismissed or for thirty minutes, not longer.
AlarmEnds == \A d \in Decoders : (dec[d].st # "free" /\ Alarm(d)) ~> (dec[d].st = "free")

\* A stop request reaches the decoder: the session it was made for ends.
StopEndsSession == audio.stop ~> ~audio.running

\* No session goes on by itself: an alarm ends within its limit, and a session that was
\* told to stop ends (audio_should_stop, audio_thread_main).
SessionsEnd == AlarmEnds /\ StopEndsSession

Session == INSTANCE AudioSession WITH
  Kinds <- PlayKinds, Idle <- "idle",
  current <- IF Starting # {} THEN req[CHOOSE c \in Starting : TRUE][1]
             ELSE IF Decoding # {} THEN dec[CHOOSE d \in Decoding : TRUE].kind
             ELSE "idle",
  asked <- audio.stop
\* With one thread starting sessions, the player keeps AudioSession's promise.
SessionPromise == Session!Spec
=============================================================================
