------------------------- MODULE AudioPlayer_proofs -------------------------
(***************************************************************************)
(* Proofs about AudioPlayer, for any number of decoder threads, any music  *)
(* and podcast library and any operations the threads' code can issue.     *)
(***************************************************************************)
EXTENDS AudioPlayer, TLAPS

\* What the records are reset to has the right type.
LEMMA ResetsTyped == /\ NoAudio \in Audio
                     /\ NoVis \in Visible
                     /\ Free \in Decoder
                     /\ NoReq \in AnyOp \X AnyFile
  BY DEF NoAudio, Audio, NoVis, Visible, Free, Decoder, NoReq, AnyOp, AnyFile,
         DecValues, NoFile

\* Whatever a thread issues is an operation on a file, or on none.
LEMMA RequestsTyped ==
  ASSUME NEW c \in Callers, NEW r \in Requests[c]
  PROVE  r \in AnyOp \X AnyFile
  BY RequestsAssumption
     DEF Issues, Callers, AnyOp, AnyFile, PlayKinds, StartOps, DeleteOps,
         NoFile, ChimeFile, BuiltinAlarm

\* Changing fields of g_audio keeps its type.
LEMMA AudioTyped ==
  ASSUME NEW a \in Audio, NEW b \in BOOLEAN, NEW b2 \in BOOLEAN
  PROVE  /\ [a EXCEPT !.stop = b] \in Audio
         /\ [a EXCEPT !.due = b] \in Audio
         /\ [a EXCEPT !.stop = b, !.timedOut = b2] \in Audio
         /\ [NoAudio EXCEPT !.running = b, !.alarmMode = b2] \in Audio
         /\ [NoAudio EXCEPT !.running = b] \in Audio
  BY DEF Audio, NoAudio

\* A decoder's step changes its stage only.
LEMMA StepTyped ==
  ASSUME TypeOK, NEW d \in Decoders, NEW from, NEW to \in DecValues, Step(d, from, to)
  PROVE  /\ dec' \in [Decoders -> Decoder]
         /\ UNCHANGED <<pc, req, overlap>>
  BY DEF TypeOK, Step, Decoder

LEMMA ExpiryTyped == TypeOK /\ NoteExpiry => audio' \in Audio
  <1> SUFFICES ASSUME TypeOK, NoteExpiry PROVE audio' \in Audio
    OBVIOUS
  <1>1. audio \in Audio
    BY DEF TypeOK
  <1>2. ShouldStop \in BOOLEAN /\ (audio.timedOut \/ Expired) \in BOOLEAN
    BY <1>1 DEF ShouldStop, Expired, Audio
  <1> QED
    BY <1>1, <1>2, AudioTyped DEF NoteExpiry

\* A caller that returns, or goes on with the operation it executes, keeps pc
\* and req typed.
LEMMA ReturnTyped ==
  ASSUME TypeOK, NEW c \in Callers, Return(c)
  PROVE  /\ pc' \in [Callers -> PcValues]
         /\ req' \in [Callers -> AnyOp \X AnyFile]
         /\ OpAtPc'
  <1>1. /\ pc' = [pc EXCEPT ![c] = "idle"] /\ pc \in [Callers -> PcValues]
        /\ req' = [req EXCEPT ![c] = NoReq]
        /\ req \in [Callers -> AnyOp \X AnyFile]
        /\ OpAtPc
    BY DEF Return, TypeOK
  <1>2. pc' \in [Callers -> PcValues]
    BY <1>1 DEF PcValues
  <1>3. req' \in [Callers -> AnyOp \X AnyFile]
    BY <1>1, ResetsTyped
  <1>4. OpAtPc'
    BY <1>1 DEF OpAtPc, Op
  <1> QED
    BY <1>2, <1>3, <1>4

LEMMA GotoTyped ==
  ASSUME TypeOK, NEW c \in Callers, NEW l \in PcValues, Goto(c, l),
         l = "wait" => Op(c) \in StartOps \cup {"import"},
         l \in {"ready", "show", "unshow"} => Op(c) \in StartOps,
         l = "spawn" => Op(c) \in PlayKinds
  PROVE  /\ pc' \in [Callers -> PcValues]
         /\ req' \in [Callers -> AnyOp \X AnyFile]
         /\ OpAtPc'
  <1>1. /\ pc' = [pc EXCEPT ![c] = l] /\ pc \in [Callers -> PcValues]
        /\ req' = req /\ req \in [Callers -> AnyOp \X AnyFile]
        /\ OpAtPc
    BY DEF Goto, TypeOK
  <1> QED
    BY <1>1 DEF OpAtPc, Op

LEMMA RequestTyped ==
  ASSUME TypeOK, NEW c \in Callers, NEW r \in Requests[c], NEW l \in PcValues,
         pc' = [pc EXCEPT ![c] = l], req' = [req EXCEPT ![c] = r],
         l = "flag" \/ (l = "spawn" /\ r[1] = "chime")
  PROVE  /\ pc' \in [Callers -> PcValues]
         /\ req' \in [Callers -> AnyOp \X AnyFile]
         /\ OpAtPc'
  <1>1. /\ pc \in [Callers -> PcValues] /\ req \in [Callers -> AnyOp \X AnyFile]
        /\ OpAtPc /\ r \in AnyOp \X AnyFile
    BY RequestsTyped DEF TypeOK
  <1> QED
    BY <1>1 DEF OpAtPc, Op, PlayKinds

-----------------------------------------------------------------------------
\* Every step leaves the types alone.
LEMMA TypeStep == TypeOK /\ [Next]_vars => TypeOK'
  <1> SUFFICES ASSUME TypeOK, [Next]_vars PROVE TypeOK'
    OBVIOUS
  <1>0. /\ audio \in Audio /\ vis \in Visible /\ alarmActive \in BOOLEAN
        /\ pc \in [Callers -> PcValues] /\ req \in [Callers -> AnyOp \X AnyFile]
        /\ dec \in [Decoders -> Decoder] /\ overlap \in BOOLEAN /\ OpAtPc
    BY DEF TypeOK
  <1>1. ASSUME NEW c \in Callers,
               RequestPlay(c) \/ RequestStop(c) \/ RequestDelete(c)
        PROVE  TypeOK'
    <2>1. PICK r \in Requests[c] : /\ pc' = [pc EXCEPT ![c] = "flag"]
                                   /\ req' = [req EXCEPT ![c] = r]
                                   /\ UNCHANGED <<audio, vis, alarmActive, dec, overlap>>
      BY <1>1 DEF RequestPlay, RequestStop, RequestDelete
    <2>2. "flag" \in PcValues
      BY DEF PcValues
    <2> QED
      BY <1>0, <2>1, <2>2, RequestTyped DEF TypeOK
  <1>2. ASSUME NEW c \in Callers, PublishChime(c) PROVE TypeOK'
    <2>1. "spawn" \in PcValues /\ <<"chime", ChimeFile>>[1] = "chime"
      BY DEF PcValues
    <2>2. audio' \in Audio
      <3>1. [NoAudio EXCEPT !.running = TRUE] \in Audio
        BY ResetsTyped, AudioTyped
      <3> QED
        BY <1>2, <3>1 DEF PublishChime
    <2>3. /\ pc' \in [Callers -> PcValues] /\ req' \in [Callers -> AnyOp \X AnyFile]
          /\ OpAtPc'
      BY <1>2, <2>1, RequestTyped DEF PublishChime
    <2> QED
      BY <1>0, <1>2, <2>2, <2>3 DEF PublishChime, TypeOK
  <1>3. ASSUME NEW c \in Callers, FlagStop(c) PROVE TypeOK'
    <2>1. (audio.running \/ audio.stop) \in BOOLEAN
      OBVIOUS
    <2>2. audio' \in Audio
      BY <1>0, <1>3, <2>1, AudioTyped DEF FlagStop
    <2> QED
      BY <1>0, <1>3, <2>2, GotoTyped DEF FlagStop, TypeOK, PcValues
  <1>4. ASSUME NEW c \in Callers, QuietAlarm(c) PROVE TypeOK'
    BY <1>0, <1>4, GotoTyped DEF QuietAlarm, TypeOK, PcValues
  <1>5. ASSUME NEW c \in Callers, ClearVisible(c) \/ EraseDeleted(c)
        PROVE  TypeOK'
    BY <1>0, <1>5, GotoTyped, ReturnTyped, ResetsTyped
       DEF ClearVisible, EraseDeleted, TypeOK, PcValues
  <1>6. ASSUME NEW c \in Callers, WaitStopped(c) PROVE TypeOK'
    <2>1. CASE Op(c) = "import"
      BY <1>0, <1>6, <2>1, ReturnTyped DEF WaitStopped, TypeOK
    <2>2. CASE Op(c) # "import"
      <3>1. "ready" \in PcValues /\ Op(c) \in StartOps /\ Goto(c, "ready")
        BY <1>0, <1>6, <2>2 DEF WaitStopped, OpAtPc, PcValues
      <3>2. pc' \in [Callers -> PcValues]
            /\ req' \in [Callers -> AnyOp \X AnyFile] /\ OpAtPc'
        BY <3>1, GotoTyped
      <3>3. overlap' \in BOOLEAN
        BY <1>0, <1>6, <2>2 DEF WaitStopped
      <3> QED
        BY <1>0, <1>6, <3>2, <3>3 DEF WaitStopped, TypeOK
    <2> QED
      BY <2>1, <2>2
  <1>7. ASSUME NEW c \in Callers, WaitTimeout(c) \/ StartAborted(c)
        PROVE  TypeOK'
    BY <1>0, <1>7, ReturnTyped DEF WaitTimeout, StartAborted, TypeOK
  <1>8. ASSUME NEW c \in Callers, Publish(c) PROVE TypeOK'
    <2>1. Op(c) \in StartOps /\ (Op(c) = "alarm") \in BOOLEAN
      BY <1>0, <1>8 DEF Publish, OpAtPc
    <2>2. audio' \in Audio
      <3>1. [NoAudio EXCEPT !.running = TRUE, !.alarmMode = (Op(c) = "alarm")]
               \in Audio
        BY <2>1, ResetsTyped, AudioTyped
      <3> QED
        BY <1>8, <3>1 DEF Publish
    <2>3. pc' \in [Callers -> PcValues]
          /\ req' \in [Callers -> AnyOp \X AnyFile] /\ OpAtPc'
      BY <1>8, <2>1, GotoTyped DEF Publish, PcValues
    <2> QED
      BY <1>0, <1>8, <2>2, <2>3 DEF Publish, TypeOK
  <1>9. ASSUME NEW c \in Callers, Show(c) PROVE TypeOK'
    <2>1. Op(c) \in StartOps /\ File(c) \in AnyFile
      BY <1>0, <1>9 DEF Show, OpAtPc, File
    <2>2. vis' \in Visible
      BY <1>9, <2>1 DEF Show, Visible
    <2>3. pc' \in [Callers -> PcValues]
          /\ req' \in [Callers -> AnyOp \X AnyFile] /\ OpAtPc'
      BY <1>9, <2>1, GotoTyped DEF Show, PcValues, PlayKinds
    <2> QED
      BY <1>0, <1>9, <2>2, <2>3 DEF Show, TypeOK
  <1>10. ASSUME NEW c \in Callers, Spawn(c) PROVE TypeOK'
    <2>1. Op(c) \in PlayKinds /\ File(c) \in AnyFile
      BY <1>0, <1>10 DEF Spawn, OpAtPc, File
    <2>2. dec' \in [Decoders -> Decoder]
      <3>1. [st |-> "open", kind |-> Op(c), file |-> File(c)] \in Decoder
        BY <2>1 DEF Decoder, DecValues
      <3> QED
        BY <1>0, <1>10, <3>1 DEF Spawn
    <2> QED
      BY <1>0, <1>10, <2>2, ReturnTyped DEF Spawn, TypeOK
  <1>11. ASSUME NEW c \in Callers, SpawnFails(c) \/ Unshow(c) PROVE TypeOK'
    <2>1. CASE SpawnFails(c)
      <3>1. CASE Op(c) = "chime"
        BY <1>0, <2>1, <3>1, ReturnTyped, ResetsTyped DEF SpawnFails, TypeOK
      <3>2. CASE Op(c) # "chime"
        <4>1. Op(c) \in StartOps
          BY <1>0, <2>1, <3>2 DEF SpawnFails, OpAtPc, PlayKinds
        <4>2. pc' \in [Callers -> PcValues]
              /\ req' \in [Callers -> AnyOp \X AnyFile] /\ OpAtPc'
          BY <2>1, <3>2, <4>1, GotoTyped DEF SpawnFails, PcValues
        <4> QED
          BY <1>0, <2>1, <4>2, ResetsTyped DEF SpawnFails, TypeOK
      <3> QED
        BY <3>1, <3>2
    <2>2. CASE Unshow(c)
      BY <1>0, <2>2, ReturnTyped, ResetsTyped DEF Unshow, TypeOK
    <2> QED
      BY <1>11, <2>1, <2>2
  <1>12. ASSUME NEW d \in Decoders, Decode(d) PROVE TypeOK'
    <2>1. CASE Exit(d)
      BY <1>0, <2>1, ResetsTyped DEF Exit, TypeOK, OpAtPc, Op
    <2>2. CASE ~Exit(d)
      <3>1. PICK from \in DecValues, to \in DecValues : Step(d, from, to)
        BY <1>12, <2>2
           DEF Decode, OpenFile, OpenDevice, OpenFails, LoopTest, Fill,
               EndOfFile, Drain, EndRamp, EraseVisible, DecValues
      <3>2. dec' \in [Decoders -> Decoder] /\ UNCHANGED <<pc, req, overlap>>
        BY <3>1, StepTyped
      <3>3. audio' \in Audio
        BY <1>0, <1>12, <2>2, ExpiryTyped
           DEF Decode, OpenFile, OpenDevice, OpenFails, LoopTest, Fill,
               EndOfFile, Drain, EndRamp, EraseVisible
      <3>4. vis' \in Visible
        BY <1>0, <1>12, <2>2, ResetsTyped
           DEF Decode, OpenFile, OpenDevice, OpenFails, LoopTest, Fill,
               EndOfFile, Drain, EndRamp, EraseVisible
      <3>5. alarmActive' \in BOOLEAN
        BY <1>0, <1>12, <2>2
           DEF Decode, OpenFile, OpenDevice, OpenFails, LoopTest, Fill,
               EndOfFile, Drain, EndRamp, EraseVisible, Alarm
      <3> QED
        BY <1>0, <3>2, <3>3, <3>4, <3>5 DEF TypeOK, OpAtPc, Op
    <2> QED
      BY <2>1, <2>2
  <1>13. CASE Deadline
    BY <1>0, <1>13, AudioTyped DEF Deadline, TypeOK, OpAtPc, Op
  <1>14. CASE UNCHANGED vars
    BY <1>0, <1>14 DEF vars, TypeOK, OpAtPc, Op
  <1> QED
    BY <1>1, <1>2, <1>3, <1>4, <1>5, <1>6, <1>7, <1>8, <1>9, <1>10, <1>11,
       <1>12, <1>13, <1>14 DEF Next, Proceed

-----------------------------------------------------------------------------
\* The fields of g_audio after each way the code resets or changes it.
LEMMA AudioFields ==
  ASSUME NEW a \in Audio, NEW b \in BOOLEAN, NEW b2 \in BOOLEAN
  PROVE  /\ ~NoAudio.running /\ ~NoAudio.stop /\ ~NoAudio.alarmMode /\ ~NoAudio.timedOut
         /\ LET e == [a EXCEPT !.stop = b] IN
              e.stop = b /\ e.running = a.running /\ e.alarmMode = a.alarmMode
                /\ e.timedOut = a.timedOut
         /\ LET e == [a EXCEPT !.stop = b, !.timedOut = b2] IN
              e.stop = b /\ e.running = a.running /\ e.alarmMode = a.alarmMode
                /\ e.timedOut = b2
         /\ LET e == [a EXCEPT !.due = b] IN
              e.stop = a.stop /\ e.running = a.running
                /\ e.alarmMode = a.alarmMode /\ e.timedOut = a.timedOut
         /\ LET e == [NoAudio EXCEPT !.running = b, !.alarmMode = b2] IN
              e.running = b /\ e.alarmMode = b2 /\ ~e.stop /\ ~e.timedOut
         /\ LET e == [NoAudio EXCEPT !.running = b] IN
              e.running = b /\ ~e.alarmMode /\ ~e.stop /\ ~e.timedOut
  BY DEF Audio, NoAudio

LEMMA ExpiryFields ==
  ASSUME TypeOK, NoteExpiry
  PROVE  /\ audio'.stop = ShouldStop /\ audio'.running = audio.running
         /\ audio'.alarmMode = audio.alarmMode
         /\ audio'.timedOut = (audio.timedOut \/ Expired)
  <1>1. audio \in Audio
    BY DEF TypeOK
  <1>2. ShouldStop \in BOOLEAN /\ (audio.timedOut \/ Expired) \in BOOLEAN
    BY <1>1 DEF ShouldStop, Expired, Audio
  <1> QED
    BY <1>1, <1>2, AudioFields DEF NoteExpiry

\* g_audio changes in six ways only.
LEMMA AudioSteps ==
  ASSUME TypeOK, [Next]_vars
  PROVE  \/ UNCHANGED audio
         \/ audio' = [audio EXCEPT !.stop = audio.running \/ audio.stop]
         \/ NoteExpiry
         \/ audio' = NoAudio
         \/ \E b \in BOOLEAN :
              audio' = [NoAudio EXCEPT !.running = TRUE, !.alarmMode = b]
         \/ audio' = [NoAudio EXCEPT !.running = TRUE]
         \/ audio' = [audio EXCEPT !.due = TRUE]
  <1>1. CASE Deadline
    BY <1>1 DEF Deadline
  <1>2. CASE UNCHANGED vars
    BY <1>2 DEF vars
  <1>3. ASSUME NEW d \in Decoders, Decode(d)
        PROVE  UNCHANGED audio \/ NoteExpiry \/ audio' = NoAudio
    BY <1>3 DEF Decode, OpenFile, OpenDevice, OpenFails, LoopTest, Fill,
                EndOfFile, Drain, EndRamp, EraseVisible, Exit
  <1>4. ASSUME NEW c \in Callers, Publish(c)
        PROVE  \E b \in BOOLEAN :
                 audio' = [NoAudio EXCEPT !.running = TRUE, !.alarmMode = b]
    <2>1. (Op(c) = "alarm") \in BOOLEAN
      OBVIOUS
    <2> QED
      BY <1>4, <2>1 DEF Publish
  <1>5. ASSUME NEW c \in Callers, PublishChime(c)
        PROVE  audio' = [NoAudio EXCEPT !.running = TRUE]
    BY <1>5 DEF PublishChime
  <1>6. ASSUME NEW c \in Callers, FlagStop(c)
        PROVE  audio' = [audio EXCEPT !.stop = audio.running \/ audio.stop]
    BY <1>6 DEF FlagStop
  <1>7. ASSUME NEW c \in Callers, SpawnFails(c) PROVE audio' = NoAudio
    BY <1>7 DEF SpawnFails
  <1>8. ASSUME NEW c \in Callers,
               \/ RequestPlay(c) \/ RequestStop(c) \/ RequestDelete(c)
               \/ QuietAlarm(c) \/ ClearVisible(c) \/ EraseDeleted(c)
               \/ WaitStopped(c) \/ WaitTimeout(c) \/ StartAborted(c)
               \/ Show(c) \/ Spawn(c) \/ Unshow(c)
        PROVE  UNCHANGED audio
    BY <1>8 DEF RequestPlay, RequestStop, RequestDelete, QuietAlarm,
                ClearVisible, EraseDeleted, WaitStopped, WaitTimeout,
                StartAborted, Show, Spawn, Unshow
  <1> QED
    BY <1>1, <1>2, <1>3, <1>4, <1>5, <1>6, <1>7, <1>8 DEF Next, Proceed

LEMMA FlagsStep ==
  TypeOK /\ FlagsBelongToSession /\ [Next]_vars => FlagsBelongToSession'
  <1> SUFFICES ASSUME TypeOK, FlagsBelongToSession, [Next]_vars
               PROVE  FlagsBelongToSession'
    OBVIOUS
  <1>0. audio \in Audio
    BY DEF TypeOK
  <1>1. CASE UNCHANGED audio
    BY <1>1 DEF FlagsBelongToSession
  <1>2. CASE audio' = [audio EXCEPT !.stop = audio.running \/ audio.stop]
    <2>1. (audio.running \/ audio.stop) \in BOOLEAN
      OBVIOUS
    <2>2. /\ audio'.stop = (audio.running \/ audio.stop)
          /\ audio'.running = audio.running
          /\ audio'.alarmMode = audio.alarmMode /\ audio'.timedOut = audio.timedOut
      BY <1>0, <1>2, <2>1, AudioFields
    <2> QED
      BY <2>2 DEF FlagsBelongToSession
  <1>3. CASE NoteExpiry
    BY <1>3, ExpiryFields DEF FlagsBelongToSession, ShouldStop, Expired
  <1>4. CASE audio' = NoAudio
    BY <1>0, <1>4, AudioFields DEF FlagsBelongToSession
  <1>5. CASE \E b \in BOOLEAN :
               audio' = [NoAudio EXCEPT !.running = TRUE, !.alarmMode = b]
    BY <1>0, <1>5, AudioFields DEF FlagsBelongToSession
  <1>6. CASE audio' = [NoAudio EXCEPT !.running = TRUE]
    BY <1>0, <1>6, AudioFields DEF FlagsBelongToSession
  <1>7. CASE audio' = [audio EXCEPT !.due = TRUE]
    BY <1>0, <1>7, AudioFields DEF FlagsBelongToSession
  <1> QED
    BY <1>1, <1>2, <1>3, <1>4, <1>5, <1>6, <1>7, AudioSteps

-----------------------------------------------------------------------------
\* Only these steps create or end the claim of a thread on the session:
\* Publish, PublishChime, Spawn, SpawnFails and Exit.  Every other step leaves
\* running, the starters and the decoders as they are.
OwnerSteps == \/ \E c \in Callers : \/ Publish(c) \/ PublishChime(c)
                                    \/ Spawn(c) \/ SpawnFails(c)
              \/ \E d \in Decoders : Exit(d)

LEMMA OtherSteps ==
  ASSUME TypeOK, [Next]_vars, ~OwnerSteps
  PROVE  /\ audio'.running = audio.running
         /\ Starting' = Starting
         /\ Decoding' = Decoding
  <1>0. audio \in Audio /\ pc \in [Callers -> PcValues] /\ dec \in [Decoders -> Decoder]
    BY DEF TypeOK
  <1>1. CASE Deadline
    <2>1. audio'.running = audio.running
      BY <1>0, <1>1, AudioFields DEF Deadline
    <2> QED
      BY <1>1, <2>1 DEF Deadline, Starting, Decoding
  <1>2. CASE UNCHANGED vars
    BY <1>2 DEF vars, Starting, Decoding
  <1>3. ASSUME NEW c \in Callers,
               \/ RequestPlay(c) \/ RequestStop(c) \/ RequestDelete(c)
               \/ FlagStop(c) \/ QuietAlarm(c) \/ ClearVisible(c)
               \/ EraseDeleted(c) \/ WaitStopped(c) \/ WaitTimeout(c)
               \/ StartAborted(c) \/ Show(c) \/ Unshow(c)
        PROVE  /\ audio'.running = audio.running
               /\ Starting' = Starting /\ Decoding' = Decoding
    <2>1. UNCHANGED dec
      BY <1>3 DEF RequestPlay, RequestStop, RequestDelete, FlagStop, QuietAlarm,
                  ClearVisible, EraseDeleted, WaitStopped, WaitTimeout,
                  StartAborted, Show, Unshow
    <2>2. \E l \in PcValues : /\ pc' = [pc EXCEPT ![c] = l]
                              /\ (l \in {"show", "spawn"} <=> pc[c] \in {"show", "spawn"})
      BY <1>0, <1>3
         DEF RequestPlay, RequestStop, RequestDelete, FlagStop, QuietAlarm,
             ClearVisible, EraseDeleted, WaitStopped, WaitTimeout, Return, Goto,
             StartAborted, Show, Unshow, PcValues
    <2>3. Starting' = Starting
      BY <1>0, <2>2 DEF Starting
    <2>4. CASE FlagStop(c)
      <3>1. (audio.running \/ audio.stop) \in BOOLEAN
        OBVIOUS
      <3>2. audio'.running = audio.running
        BY <1>0, <2>4, <3>1, AudioFields DEF FlagStop
      <3> QED
        BY <2>1, <2>3, <3>2 DEF Decoding
    <2>5. CASE ~FlagStop(c)
      <3>1. UNCHANGED audio
        BY <1>3, <2>5
           DEF RequestPlay, RequestStop, RequestDelete, QuietAlarm, ClearVisible,
               EraseDeleted, WaitStopped, WaitTimeout, StartAborted, Show, Unshow
      <3> QED
        BY <2>1, <2>3, <3>1 DEF Decoding
    <2> QED
      BY <2>4, <2>5
  <1>4. ASSUME NEW d \in Decoders, Decode(d), ~Exit(d)
        PROVE  /\ audio'.running = audio.running
               /\ Starting' = Starting /\ Decoding' = Decoding
    <2>1. PICK from \in DecValues \ {"free"}, to \in DecValues \ {"free"} :
             Step(d, from, to)
      BY <1>4 DEF Decode, OpenFile, OpenDevice, OpenFails, LoopTest, Fill,
                  EndOfFile, Drain, EndRamp, EraseVisible, DecValues
    <2>2. Starting' = Starting
      BY <2>1 DEF Step, Starting
    <2>3. Decoding' = Decoding
      BY <1>0, <2>1 DEF Step, Decoding, Decoder
    <2>4. UNCHANGED audio \/ NoteExpiry
      BY <1>4 DEF Decode, OpenFile, OpenDevice, OpenFails, LoopTest, Fill,
                  EndOfFile, Drain, EndRamp, EraseVisible
    <2>5. audio'.running = audio.running
      BY <2>4, ExpiryFields
    <2> QED
      BY <2>2, <2>3, <2>5
  <1> QED
    BY <1>1, <1>2, <1>3, <1>4 DEF Next, Proceed, OwnerSteps

\* What each of the five does.
LEMMA OwnerEffects ==
  ASSUME TypeOK, NEW c \in Callers
  PROVE  /\ Publish(c) \/ PublishChime(c) =>
              /\ audio'.running /\ Starting' = Starting \cup {c}
              /\ Decoding' = Decoding
         /\ Spawn(c) => /\ audio' = audio /\ c \in Starting
                        /\ Starting' = Starting \ {c}
                        /\ \E d \in Decoders : Decoding' = Decoding \cup {d}
         /\ SpawnFails(c) => /\ ~audio'.running /\ c \in Starting
                             /\ Starting' = Starting \ {c}
                             /\ Decoding' = Decoding
  <1>0. audio \in Audio /\ pc \in [Callers -> PcValues] /\ dec \in [Decoders -> Decoder]
    BY DEF TypeOK
  <1>1. ASSUME Publish(c) \/ PublishChime(c)
        PROVE  /\ audio'.running /\ Starting' = Starting \cup {c}
               /\ Decoding' = Decoding
    <2>1. audio'.running
      <3>1. (Op(c) = "alarm") \in BOOLEAN
        OBVIOUS
      <3>2. CASE Publish(c)
        BY <1>0, <3>1, <3>2, AudioFields DEF Publish
      <3>3. CASE PublishChime(c)
        BY <1>0, <3>3, AudioFields DEF PublishChime
      <3> QED
        BY <1>1, <3>2, <3>3
    <2>2. Starting' = Starting \cup {c}
      BY <1>0, <1>1 DEF Publish, PublishChime, Goto, Starting
    <2> QED
      BY <1>1, <2>1, <2>2 DEF Publish, PublishChime, Decoding
  <1>2. ASSUME Spawn(c)
        PROVE  /\ audio' = audio /\ c \in Starting /\ Starting' = Starting \ {c}
               /\ \E d \in Decoders : Decoding' = Decoding \cup {d}
    <2>1. c \in Starting /\ Starting' = Starting \ {c}
      BY <1>0, <1>2 DEF Spawn, Return, Starting
    <2>2. PICK d \in Decoders :
             dec' = [dec EXCEPT ![d] = [st |-> "open", kind |-> Op(c), file |-> File(c)]]
      BY <1>2 DEF Spawn
    <2>3. Decoding' = Decoding \cup {d}
      BY <1>0, <2>2 DEF Decoding
    <2> QED
      BY <1>2, <2>1, <2>3 DEF Spawn
  <1>3. ASSUME SpawnFails(c)
        PROVE  /\ ~audio'.running /\ c \in Starting
               /\ Starting' = Starting \ {c} /\ Decoding' = Decoding
    <2>1. Starting' = Starting \ {c} /\ c \in Starting
      BY <1>0, <1>3 DEF SpawnFails, Return, Goto, Starting
    <2> QED
      BY <1>0, <1>3, <2>1, AudioFields DEF SpawnFails, Decoding
  <1> QED
    BY <1>1, <1>2, <1>3

LEMMA ExitEffect ==
  ASSUME TypeOK, NEW d \in Decoders, Exit(d)
  PROVE  /\ ~audio'.running /\ d \in Decoding /\ Decoding' = Decoding \ {d}
         /\ Starting' = Starting
  <1>0. audio \in Audio /\ dec \in [Decoders -> Decoder]
    BY DEF TypeOK
  <1>1. d \in Decoding /\ Decoding' = Decoding \ {d}
    BY <1>0 DEF Exit, Decoding, Free
  <1> QED
    BY <1>0, <1>1, AudioFields DEF Exit, Starting

LEMMA WedgedStep == TypeOK /\ NeverWedged /\ [Next]_vars => NeverWedged'
  <1> SUFFICES ASSUME TypeOK, NeverWedged, [Next]_vars PROVE NeverWedged'
    OBVIOUS
  <1>1. CASE ~OwnerSteps
    BY <1>1, OtherSteps DEF NeverWedged
  <1>2. ASSUME NEW c \in Callers,
               Publish(c) \/ PublishChime(c) \/ Spawn(c) \/ SpawnFails(c)
        PROVE  NeverWedged'
    BY <1>2, OwnerEffects DEF NeverWedged
  <1>3. ASSUME NEW d \in Decoders, Exit(d) PROVE NeverWedged'
    BY <1>3, ExitEffect DEF NeverWedged
  <1> QED
    BY <1>1, <1>2, <1>3 DEF OwnerSteps

-----------------------------------------------------------------------------
\* The two halves of NoGhostPlayback.
ShownBacked == vis.playing =>
  \/ \E c \in Callers : pc[c] \in {"spawn", "unshow"} /\ Op(c) # "chime"
  \/ \E d \in Decoding : dec[d].st # "done"
AlarmBacked == alarmActive =>
  \E d \in Decoding : Alarm(d) /\ dec[d].st \notin {"open", "clear", "done"}

LEMMA ShownStep == TypeOK /\ ShownBacked /\ [Next]_vars => ShownBacked'
  <1> SUFFICES ASSUME TypeOK, ShownBacked, [Next]_vars PROVE ShownBacked'
    OBVIOUS
  <1>0. /\ pc \in [Callers -> PcValues] /\ dec \in [Decoders -> Decoder]
        /\ req \in [Callers -> AnyOp \X AnyFile] /\ OpAtPc
    BY DEF TypeOK
  <1>1. CASE vis' = NoVis
    BY <1>1 DEF ShownBacked, NoVis
  <1>2. CASE Deadline \/ UNCHANGED vars
    BY <1>2 DEF Deadline, vars, ShownBacked, Op, Decoding
  <1>3. ASSUME NEW c \in Callers,
               \/ RequestPlay(c) \/ RequestStop(c) \/ RequestDelete(c)
               \/ FlagStop(c) \/ QuietAlarm(c) \/ WaitStopped(c)
               \/ WaitTimeout(c) \/ StartAborted(c) \/ Publish(c) \/ PublishChime(c)
        PROVE  ShownBacked'
    <2>1. /\ UNCHANGED <<vis, dec>> /\ pc[c] \notin {"spawn", "unshow"}
          /\ \E l : pc' = [pc EXCEPT ![c] = l]
          /\ UNCHANGED req \/ \E r : req' = [req EXCEPT ![c] = r]
      BY <1>3 DEF RequestPlay, RequestStop, RequestDelete, FlagStop, QuietAlarm,
                  WaitStopped, WaitTimeout, StartAborted, Publish, PublishChime,
                  Goto, Return
    <2>2. \A o \in Callers \ {c} : pc'[o] = pc[o] /\ req'[o] = req[o]
      BY <1>0, <2>1
    <2> QED
      BY <2>1, <2>2 DEF ShownBacked, Op, Decoding
  <1>4. ASSUME NEW c \in Callers, Show(c) PROVE ShownBacked'
    BY <1>0, <1>4 DEF Show, Goto, ShownBacked, Op, OpAtPc, StartOps
  <1>5. ASSUME NEW c \in Callers, Spawn(c) PROVE ShownBacked'
    <2>1. PICK d \in Decoders :
             dec' = [dec EXCEPT ![d] = [st |-> "open", kind |-> Op(c), file |-> File(c)]]
      BY <1>5 DEF Spawn
    <2>2. d \in Decoding' /\ dec'[d].st # "done"
      BY <1>0, <2>1 DEF Decoding
    <2> QED
      BY <2>2 DEF ShownBacked
  <1>6. ASSUME NEW c \in Callers, SpawnFails(c) PROVE ShownBacked'
    <2>1. UNCHANGED <<vis, dec>> /\ pc[c] = "spawn"
      BY <1>6 DEF SpawnFails
    <2>2. CASE Op(c) = "chime"
      <3>1. \A o \in Callers \ {c} : pc'[o] = pc[o] /\ req'[o] = req[o]
        BY <1>0, <1>6, <2>2 DEF SpawnFails, Return
      <3> QED
        BY <2>1, <2>2, <3>1 DEF ShownBacked, Op, Decoding
    <2>3. CASE Op(c) # "chime"
      <3>1. pc'[c] = "unshow" /\ req' = req
        BY <1>0, <1>6, <2>3 DEF SpawnFails, Goto
      <3> QED
        BY <2>3, <3>1 DEF ShownBacked, Op
    <2> QED
      BY <2>2, <2>3
  <1>7. ASSUME NEW d \in Decoders, Exit(d) PROVE ShownBacked'
    <2>1. \A o \in Decoders \ {d} : dec'[o] = dec[o]
      BY <1>0, <1>7 DEF Exit
    <2> QED
      BY <1>7, <2>1 DEF Exit, ShownBacked, Op, Decoding
  <1>8. ASSUME NEW d \in Decoders, Decode(d), ~Exit(d), UNCHANGED vis
        PROVE  ShownBacked'
    <2>0. CASE EraseVisible(d)
      BY <1>1, <2>0 DEF EraseVisible
    <2> SUFFICES ASSUME ~EraseVisible(d) PROVE ShownBacked'
      BY <2>0
    <2>1. PICK from, to \in DecValues \ {"free", "done"} : Step(d, from, to)
      BY <1>8 DEF Decode, OpenFile, OpenDevice, OpenFails, LoopTest, Fill,
                  EndOfFile, Drain, EndRamp, DecValues
    <2>2. /\ dec'[d].st \notin {"free", "done"}
          /\ \A o \in Decoders \ {d} : dec'[o] = dec[o]
      BY <1>0, <2>1 DEF Step, Decoder
    <2> QED
      BY <1>8, <2>1, <2>2 DEF Step, ShownBacked, Op, Decoding
  <1>9. ASSUME NEW d \in Decoders, Decode(d), ~Exit(d)
        PROVE  vis' = NoVis \/ UNCHANGED vis
    BY <1>9 DEF Decode, OpenFile, OpenDevice, OpenFails, LoopTest, Fill,
                EndOfFile, Drain, EndRamp, EraseVisible
  <1>10. ASSUME NEW c \in Callers,
                ClearVisible(c) \/ EraseDeleted(c) \/ Unshow(c)
         PROVE  vis' = NoVis
    BY <1>10 DEF ClearVisible, EraseDeleted, Unshow
  <1> QED
    BY <1>1, <1>2, <1>3, <1>4, <1>5, <1>6, <1>7, <1>8, <1>9, <1>10
       DEF Next, Proceed

LEMMA AlarmStep == TypeOK /\ AlarmBacked /\ [Next]_vars => AlarmBacked'
  <1> SUFFICES ASSUME TypeOK, AlarmBacked, [Next]_vars PROVE AlarmBacked'
    OBVIOUS
  <1>0. dec \in [Decoders -> Decoder]
    BY DEF TypeOK
  <1>1. CASE Deadline \/ UNCHANGED vars
    BY <1>1 DEF Deadline, vars, AlarmBacked, Alarm, Decoding
  <1>2. ASSUME NEW c \in Callers,
               \/ RequestPlay(c) \/ RequestStop(c) \/ RequestDelete(c)
               \/ PublishChime(c) \/ Proceed(c), ~Spawn(c)
        PROVE  AlarmBacked'
    <2>1. dec' = dec /\ (alarmActive' = FALSE \/ UNCHANGED alarmActive)
      BY <1>2 DEF RequestPlay, RequestStop, RequestDelete, PublishChime,
                  Proceed, FlagStop, QuietAlarm, ClearVisible, EraseDeleted,
                  WaitStopped, WaitTimeout, StartAborted, Publish, Show,
                  SpawnFails, Unshow
    <2> QED
      BY <2>1 DEF AlarmBacked, Alarm, Decoding
  <1>3. ASSUME NEW c \in Callers, Spawn(c) PROVE AlarmBacked'
    <2>1. PICK d \in Decoders :
             /\ dec[d].st = "free" /\ UNCHANGED alarmActive
             /\ dec' = [dec EXCEPT ![d] = [st |-> "open", kind |-> Op(c), file |-> File(c)]]
      BY <1>3 DEF Spawn
    <2>2. \A o \in Decoders \ {d} : dec'[o] = dec[o]
      BY <1>0, <2>1
    <2> QED
      BY <2>1, <2>2 DEF AlarmBacked, Alarm, Decoding
  <1>4. ASSUME NEW d \in Decoders, Decode(d) PROVE AlarmBacked'
    <2>1. \A o \in Decoders \ {d} : dec'[o] = dec[o]
      BY <1>0, <1>4
         DEF Decode, OpenFile, OpenDevice, OpenFails, LoopTest, Fill,
             EndOfFile, Drain, EndRamp, EraseVisible, Exit, Step
    <2>2. CASE OpenFile(d)
      <3>1. dec'[d].st = "device" /\ dec'[d].kind = dec[d].kind /\ dec[d].st = "open"
        BY <1>0, <2>2 DEF OpenFile, Step, Decoder
      <3> QED
        BY <2>1, <2>2, <3>1 DEF OpenFile, AlarmBacked, Alarm, Decoding
    <2>3. CASE EndRamp(d)
      <3>1. dec'[d].kind = dec[d].kind
        BY <1>0, <2>3 DEF EndRamp, Step, Decoder
      <3> QED
        BY <2>1, <2>3, <3>1 DEF EndRamp, AlarmBacked, Alarm, Decoding
    <2>4. CASE Exit(d) \/ EraseVisible(d)
      <3>1. dec[d].st \in {"clear", "done"} /\ UNCHANGED alarmActive
        BY <2>4 DEF Exit, EraseVisible, Step
      <3> QED
        BY <2>1, <3>1 DEF AlarmBacked, Alarm, Decoding
    <2>5. CASE OpenFails(d)
      <3>1. dec'[d].kind = dec[d].kind /\ dec'[d].st = "end" /\ UNCHANGED alarmActive
        BY <1>0, <2>5 DEF OpenFails, Step, Decoder
      <3> QED
        BY <2>1, <3>1 DEF AlarmBacked, Alarm, Decoding
    <2>6. CASE OpenDevice(d) \/ LoopTest(d) \/ Fill(d) \/ EndOfFile(d) \/ Drain(d)
      <3>1. PICK to \in {"loop", "drain", "fill", "eof", "end"},
                    from \in {"device", "loop", "fill", "eof", "drain"} : Step(d, from, to)
        BY <2>6 DEF OpenDevice, LoopTest, Fill, EndOfFile, Drain
      <3>2. dec'[d].kind = dec[d].kind /\ dec'[d].st = to
        BY <1>0, <3>1 DEF Step, Decoder
      <3>3. UNCHANGED alarmActive \/ (Fill(d) /\ alarmActive' = (Alarm(d) \/ alarmActive))
        BY <2>6 DEF OpenDevice, LoopTest, Fill, EndOfFile, Drain
      <3> QED
        BY <2>1, <3>2, <3>3 DEF AlarmBacked, Alarm, Decoding
    <2> QED
      BY <1>4, <2>2, <2>3, <2>4, <2>5, <2>6 DEF Decode
  <1> QED
    BY <1>1, <1>2, <1>3, <1>4 DEF Next, Proceed

-----------------------------------------------------------------------------
\* What a step does to the callers that are about to publish, and to overlap.
Ready == {c \in Callers : pc[c] = "ready"}

LEMMA ReadySteps ==
  ASSUME TypeOK, [Next]_vars
  PROVE  /\ overlap => overlap'
         /\ \/ Ready' \subseteq Ready
            \/ \E c \in Callers : /\ Ready' = Ready \cup {c}
                                  /\ ~audio.running /\ UNCHANGED audio
                                  /\ ~overlap' => Ready \subseteq {c}
                                  /\ ~OwnerSteps
         /\ \A c \in Callers : Publish(c) => c \in Ready /\ Ready' = Ready \ {c}
         /\ \A c \in Callers : PublishChime(c) =>
              ~audio.running /\ Ready' = Ready /\ (~overlap' => Ready = {})
  <1>0. pc \in [Callers -> PcValues] /\ overlap \in BOOLEAN
    BY DEF TypeOK
  <1>1. ASSUME NEW c \in Callers, WaitStopped(c), Op(c) # "import"
        PROVE  /\ Ready' = Ready \cup {c} /\ ~audio.running /\ UNCHANGED audio
               /\ ~overlap' => Ready \subseteq {c}
               /\ overlap => overlap'
               /\ ~OwnerSteps
    <2>1. Ready' = Ready \cup {c}
      BY <1>0, <1>1 DEF WaitStopped, Goto, Ready
    <2>2. pc[c] = "wait" /\ pc'[c] = "ready" /\ dec' = dec
          /\ \A o \in Callers \ {c} : pc'[o] = pc[o]
      BY <1>0, <1>1 DEF WaitStopped, Goto
    <2>3. ~OwnerSteps
      <3>1. \A o \in Callers : ~(Publish(o) \/ PublishChime(o) \/ Spawn(o) \/ SpawnFails(o))
        <4> SUFFICES ASSUME NEW o \in Callers,
                            Publish(o) \/ PublishChime(o) \/ Spawn(o) \/ SpawnFails(o)
                     PROVE  FALSE
          OBVIOUS
        <4>1. pc[o] \in {"ready", "idle", "spawn"} /\ pc'[o] # pc[o]
          BY <1>0 DEF Publish, PublishChime, Spawn, SpawnFails, Goto, Return
        <4> QED
          BY <2>2, <4>1
      <3>2. \A d \in Decoders : ~Exit(d)
        BY <1>0, <2>2 DEF Exit
      <3> QED
        BY <3>1, <3>2 DEF OwnerSteps
    <2> QED
      BY <1>1, <2>1, <2>3 DEF WaitStopped, Ready
  <1>2. ASSUME NEW c \in Callers, Publish(c)
        PROVE  c \in Ready /\ Ready' = Ready \ {c} /\ (overlap => overlap')
    BY <1>0, <1>2 DEF Publish, Goto, Ready
  <1>3. ASSUME NEW c \in Callers, PublishChime(c)
        PROVE  /\ ~audio.running /\ Ready' = Ready /\ (~overlap' => Ready = {})
               /\ (overlap => overlap')
    BY <1>0, <1>3 DEF PublishChime, Ready
  <1>4. ASSUME NEW c \in Callers,
               \/ RequestPlay(c) \/ RequestStop(c) \/ RequestDelete(c)
               \/ FlagStop(c) \/ QuietAlarm(c) \/ ClearVisible(c)
               \/ EraseDeleted(c) \/ (WaitStopped(c) /\ Op(c) = "import")
               \/ WaitTimeout(c) \/ StartAborted(c) \/ Show(c)
               \/ Spawn(c) \/ SpawnFails(c) \/ Unshow(c)
        PROVE  Ready' \subseteq Ready /\ UNCHANGED overlap
    <2>1. UNCHANGED overlap
      BY <1>4 DEF RequestPlay, RequestStop, RequestDelete, FlagStop, QuietAlarm,
                  ClearVisible, EraseDeleted, WaitStopped, WaitTimeout,
                  StartAborted, Show, Spawn, SpawnFails, Unshow
    <2>2. \E l \in PcValues \ {"ready"} : pc' = [pc EXCEPT ![c] = l]
      BY <1>4 DEF RequestPlay, RequestStop, RequestDelete, FlagStop, QuietAlarm,
                  ClearVisible, EraseDeleted, WaitStopped, WaitTimeout, Goto,
                  StartAborted, Show, Spawn, SpawnFails, Unshow, Return, PcValues
    <2> QED
      BY <1>0, <2>1, <2>2 DEF Ready
  <1>5. ASSUME NEW d \in Decoders, Decode(d) PROVE UNCHANGED <<pc, overlap>>
    BY <1>5 DEF Decode, OpenFile, OpenDevice, OpenFails, LoopTest, Fill, Step,
                EndOfFile, Drain, EndRamp, EraseVisible, Exit
  <1>6. CASE Deadline \/ UNCHANGED vars
    BY <1>2, <1>3, <1>6 DEF Deadline, vars, Ready
  <1>7. ASSUME UNCHANGED <<pc, overlap>>
        PROVE  Ready' \subseteq Ready /\ (overlap => overlap')
    BY <1>7 DEF Ready
  <1> QED
    BY <1>1, <1>2, <1>3, <1>4, <1>5, <1>6, <1>7 DEF Next, Proceed

\* OneSession and ReadyWindow as they are while no starts have overlapped.
Exclusive == /\ \A c1, c2 \in Starting : c1 = c2
             /\ \A d1, d2 \in Decoding : d1 = d2
             /\ Starting = {} \/ Decoding = {}
             /\ (Starting # {} \/ Decoding # {}) => audio.running
             /\ \A c1, c2 \in Ready : c1 = c2
             /\ Ready # {} => ~audio.running

LEMMA OneSessionStep ==
  TypeOK /\ OneSession /\ ReadyWindow /\ [Next]_vars => OneSession' /\ ReadyWindow'
  <1> SUFFICES ASSUME TypeOK, OneSession, ReadyWindow, [Next]_vars, ~overlap'
               PROVE  OneSession' /\ ReadyWindow'
    BY DEF OneSession, ReadyWindow
  <1>1. ~overlap
    BY ReadySteps
  <1>2. /\ \A c1, c2 \in Starting : c1 = c2
        /\ \A d1, d2 \in Decoding : d1 = d2
        /\ Starting = {} \/ Decoding = {}
        /\ (Starting # {} \/ Decoding # {}) => audio.running
    BY <1>1 DEF OneSession
  <1>3. /\ \A c1, c2 \in Ready : c1 = c2
        /\ Ready # {} => ~audio.running
    BY <1>1 DEF ReadyWindow, Ready
  <1>4. SUFFICES Exclusive'
    BY DEF OneSession, ReadyWindow, Ready, Exclusive
  <1>5. CASE ~OwnerSteps
    <2>1. /\ audio'.running = audio.running
          /\ Starting' = Starting /\ Decoding' = Decoding
      BY <1>5, OtherSteps
    <2>2. \/ Ready' \subseteq Ready
          \/ \E c \in Callers : Ready' = Ready \cup {c} /\ Ready \subseteq {c} /\ ~audio.running
      BY ReadySteps
    <2> QED
      BY <1>2, <1>3, <2>1, <2>2 DEF Exclusive
  <1>6. ASSUME NEW c \in Callers, Publish(c) \/ PublishChime(c)
        PROVE  Exclusive'
    <2>1. ~audio.running /\ Ready' = {}
      BY <1>3, <1>6, ReadySteps
    <2> QED
      BY <1>2, <1>6, <2>1, OwnerEffects DEF Exclusive
  <1>7. ASSUME NEW c \in Callers, Spawn(c) \/ SpawnFails(c)
        PROVE  Exclusive'
    <2>1. c \in Starting /\ audio.running
      BY <1>2, <1>7, OwnerEffects
    <2>2. Ready' \subseteq Ready
      BY <1>7, ReadySteps DEF OwnerSteps
    <2> QED
      BY <1>2, <1>3, <1>7, <2>1, <2>2, OwnerEffects DEF Exclusive
  <1>8. ASSUME NEW d \in Decoders, Exit(d)
        PROVE  Exclusive'
    <2>1. Ready' \subseteq Ready
      BY <1>8, ReadySteps DEF OwnerSteps
    <2> QED
      BY <1>2, <1>3, <1>8, <2>1, ExitEffect DEF Exclusive
  <1> QED
    BY <1>5, <1>6, <1>7, <1>8 DEF OwnerSteps

-----------------------------------------------------------------------------
\* The inductive invariant.  Only OneSession needs strengthening: the callers
\* in the window between audio_wait_stopped and their publication.
IInv == /\ TypeOK /\ FlagsBelongToSession /\ NeverWedged
        /\ ShownBacked /\ AlarmBacked
        /\ OneSession /\ ReadyWindow

LEMMA InitIInv == Init => IInv
  <1> SUFFICES ASSUME Init PROVE IInv
    OBVIOUS
  <1>1. TypeOK
    BY ResetsTyped DEF Init, TypeOK, OpAtPc, PcValues
  <1>2. ~audio.running /\ ~audio.stop /\ ~audio.alarmMode /\ ~audio.timedOut
        /\ ~vis.playing /\ ~alarmActive
    BY DEF Init, NoAudio, NoVis
  <1>3. Starting = {} /\ Decoding = {} /\ Ready = {}
    BY DEF Init, Starting, Decoding, Ready, Free
  <1> QED
    BY <1>1, <1>2, <1>3
       DEF IInv, FlagsBelongToSession, NeverWedged, ShownBacked, AlarmBacked,
           OneSession, ReadyWindow, Ready

\* Every step of every thread preserves the invariant.
THEOREM Inductive == Spec => []IInv
  <1>1. IInv /\ [Next]_vars => IInv'
    BY TypeStep, FlagsStep, WedgedStep, ShownStep, AlarmStep, OneSessionStep DEF IInv
  <1> QED
    BY InitIInv, <1>1, PTL DEF Spec

\* The records of mk-piclock.c keep their types, and a caller that publishes,
\* shows or withdraws a session is executing a start.
THEOREM TypeCorrect == Spec => []TypeOK
  <1>1. IInv => TypeOK
    BY DEF IInv
  <1> QED
    BY <1>1, Inductive, PTL

\* No stop request, alarm mode or expiry outlives its session: neither the
\* exit of audio_thread_main nor a failed start leaves one in g_audio.
THEOREM FlagsCorrect == Spec => []FlagsBelongToSession
  <1>1. IInv => FlagsBelongToSession
    BY DEF IInv
  <1> QED
    BY <1>1, Inductive, PTL

\* While g_audio.running is set, a thread is on its way to clear it, so that
\* audio_wait_stopped never waits for nobody.
THEOREM WedgeFree == Spec => []NeverWedged
  <1>1. IInv => NeverWedged
    BY DEF IInv
  <1> QED
    BY <1>1, Inductive, PTL

\* What g_state reports as playing, or as an active alarm, has a thread behind
\* it that takes it back.
THEOREM GhostFree == Spec => []NoGhostPlayback
  <1>1. IInv => NoGhostPlayback
    BY DEF IInv, ShownBacked, AlarmBacked, NoGhostPlayback
  <1> QED
    BY <1>1, Inductive, PTL

\* Until two starts overlap, the player has one session at a time.
THEOREM SessionsExclude == Spec => []OneSession
  <1>1. IInv => OneSession
    BY DEF IInv
  <1> QED
    BY <1>1, Inductive, PTL
-----------------------------------------------------------------------------
(* Alarms, and the promise of AudioSession, while no two starts overlap.   *)

\* alarm_mode belongs to the alarm that is being started or decoded.
ModeKept == ~overlap => /\ \A c \in Starting : Op(c) = "alarm" => audio.alarmMode
                        /\ \A d \in Decoding : Alarm(d) => audio.alarmMode

\* What a step leaves of the starters and decoders that were there before it.
LEMMA OwnersKept ==
  ASSUME TypeOK, [Next]_vars
  PROVE  /\ \A c \in Starting : c \in Starting' => req'[c] = req[c]
         /\ \A d \in Decoding : d \in Decoding' => dec'[d].kind = dec[d].kind
  <1>0. /\ pc \in [Callers -> PcValues] /\ dec \in [Decoders -> Decoder]
        /\ req \in [Callers -> AnyOp \X AnyFile]
    BY DEF TypeOK
  <1>1. ASSUME NEW c \in Callers,
               \/ RequestPlay(c) \/ RequestStop(c) \/ RequestDelete(c) \/ PublishChime(c)
               \/ FlagStop(c) \/ QuietAlarm(c) \/ ClearVisible(c)
               \/ EraseDeleted(c) \/ WaitStopped(c) \/ WaitTimeout(c)
               \/ StartAborted(c) \/ Publish(c) \/ Show(c) \/ SpawnFails(c) \/ Unshow(c)
        PROVE  /\ UNCHANGED dec
               /\ UNCHANGED req \/ pc[c] \notin {"show", "spawn"} \/ pc'[c] = "idle"
               /\ \A o \in Callers \ {c} : req'[o] = req[o]
    <2>1. UNCHANGED dec
      BY <1>1 DEF RequestPlay, RequestStop, RequestDelete, PublishChime, FlagStop, QuietAlarm,
                  ClearVisible, EraseDeleted, WaitStopped, WaitTimeout,
                  StartAborted, Publish, Show, SpawnFails, Unshow
    <2>2. UNCHANGED req \/ pc[c] \notin {"show", "spawn"} \/ pc'[c] = "idle"
      BY <1>0, <1>1 DEF RequestPlay, RequestStop, RequestDelete, PublishChime, FlagStop, QuietAlarm,
                  ClearVisible, EraseDeleted, WaitStopped, WaitTimeout, Goto, Return,
                  StartAborted, Publish, Show, SpawnFails, Unshow
    <2>3. UNCHANGED req \/ \E r : req' = [req EXCEPT ![c] = r]
      BY <1>1 DEF RequestPlay, RequestStop, RequestDelete, PublishChime, FlagStop, QuietAlarm,
                  ClearVisible, EraseDeleted, WaitStopped, WaitTimeout, Goto, Return,
                  StartAborted, Publish, Show, SpawnFails, Unshow
    <2> QED
      BY <1>0, <2>1, <2>2, <2>3
  <1>2. ASSUME NEW c \in Callers, Spawn(c)
        PROVE  /\ pc'[c] = "idle" /\ \A o \in Callers \ {c} : req'[o] = req[o]
               /\ \A d \in Decoding : dec'[d] = dec[d]
    BY <1>0, <1>2 DEF Spawn, Return, Decoding
  <1>3. ASSUME NEW d \in Decoders, Decode(d)
        PROVE  UNCHANGED req /\ \A o \in Decoding : o \in Decoding' => dec'[o].kind = dec[o].kind
    <2>1. CASE Exit(d)
      BY <1>0, <2>1 DEF Exit, Decoding, Free
    <2>2. CASE ~Exit(d)
      <3>1. PICK from \in DecValues, to \in DecValues : Step(d, from, to)
        BY <1>3, <2>2
           DEF Decode, OpenFile, OpenDevice, OpenFails, LoopTest, Fill,
               EndOfFile, Drain, EndRamp, EraseVisible, DecValues
      <3> QED
        BY <1>0, <3>1 DEF Step, Decoder, Decoding
    <2> QED
      BY <2>1, <2>2
  <1>4. CASE Deadline \/ UNCHANGED vars
    BY <1>4 DEF Deadline, vars
  <1> QED
    BY <1>1, <1>2, <1>3, <1>4 DEF Next, Proceed, Starting, Decoding

\* Outside the owners' steps g_audio changes in three ways, and alarm_mode stays.
LEMMA QuietAudio ==
  ASSUME TypeOK, [Next]_vars, ~OwnerSteps
  PROVE  /\ audio'.alarmMode = audio.alarmMode
         /\ \/ audio'.stop = audio.stop
            \/ audio'.stop = (audio.running \/ audio.stop)
            \/ NoteExpiry
  <1>0. audio \in Audio
    BY DEF TypeOK
  <1>1. CASE Deadline
    BY <1>0, <1>1, AudioFields DEF Deadline
  <1>2. ASSUME NEW d \in Decoders, Decode(d), ~Exit(d) PROVE UNCHANGED audio \/ NoteExpiry
    BY <1>2 DEF Decode, OpenFile, OpenDevice, OpenFails, LoopTest, Fill,
                EndOfFile, Drain, EndRamp, EraseVisible
  <1>3. ASSUME NEW c \in Callers, FlagStop(c)
        PROVE  audio'.alarmMode = audio.alarmMode /\ audio'.stop = (audio.running \/ audio.stop)
    <2>1. (audio.running \/ audio.stop) \in BOOLEAN
      OBVIOUS
    <2> QED
      BY <1>0, <1>3, <2>1, AudioFields DEF FlagStop
  <1>4. ASSUME NEW c \in Callers,
               \/ RequestPlay(c) \/ RequestStop(c) \/ RequestDelete(c)
               \/ QuietAlarm(c) \/ ClearVisible(c) \/ EraseDeleted(c)
               \/ WaitStopped(c) \/ WaitTimeout(c) \/ StartAborted(c)
               \/ Show(c) \/ Unshow(c)
        PROVE  UNCHANGED audio
    BY <1>4 DEF RequestPlay, RequestStop, RequestDelete, QuietAlarm,
                ClearVisible, EraseDeleted, WaitStopped, WaitTimeout,
                StartAborted, Show, Unshow
  <1>5. CASE UNCHANGED vars
    BY <1>5 DEF vars
  <1> QED
    BY <1>1, <1>2, <1>3, <1>4, <1>5, ExpiryFields DEF Next, Proceed, OwnerSteps

\* Without an overlap nothing is in progress when a session is published.
LEMMA PublishAlone ==
  ASSUME IInv, [Next]_vars, ~overlap', NEW c \in Callers, Publish(c) \/ PublishChime(c)
  PROVE  Starting = {} /\ Decoding = {} /\ Starting' = {c} /\ Decoding' = {} /\ ~audio.running
  <1>1. ~overlap /\ ~audio.running
    <2>1. Publish(c) => c \in Ready
      BY ReadySteps DEF IInv
    <2>2. ~overlap
      BY ReadySteps DEF IInv
    <2>3. PublishChime(c) => ~audio.running
      BY DEF PublishChime
    <2> QED
      BY <2>1, <2>2, <2>3 DEF IInv, ReadyWindow, Ready
  <1>2. Starting = {} /\ Decoding = {}
    BY <1>1 DEF IInv, OneSession
  <1>3. Starting' = Starting \cup {c} /\ Decoding' = Decoding
    BY OwnerEffects DEF IInv
  <1> QED
    BY <1>1, <1>2, <1>3

\* The decoder thread takes over the session, or it is given up.
LEMMA SpawnAlone ==
  ASSUME IInv, [Next]_vars, ~overlap', NEW c \in Callers, Spawn(c)
  PROVE  /\ Starting = {c} /\ Decoding = {} /\ Starting' = {} /\ audio' = audio
         /\ \E d \in Decoders : Decoding' = {d} /\ dec'[d].kind = Op(c)
  <1>0. ~overlap /\ dec \in [Decoders -> Decoder] /\ pc \in [Callers -> PcValues]
    BY ReadySteps DEF IInv, TypeOK
  <1>1. c \in Starting /\ Starting' = Starting \ {c} /\ audio' = audio
    BY OwnerEffects DEF IInv
  <1>2. Starting = {c} /\ Decoding = {}
    BY <1>0, <1>1 DEF IInv, OneSession
  <1>3. PICK d \in Decoders : dec' = [dec EXCEPT ![d] = [st |-> "open", kind |-> Op(c), file |-> File(c)]]
    BY DEF Spawn
  <1>4. Decoding' = {d} /\ dec'[d].kind = Op(c)
    BY <1>0, <1>2, <1>3 DEF Decoding
  <1> QED
    BY <1>1, <1>2, <1>4

LEMMA EndAlone ==
  ASSUME IInv, [Next]_vars, ~overlap', (\E c \in Callers : SpawnFails(c)) \/ (\E d \in Decoders : Exit(d))
  PROVE  /\ Starting # {} \/ Decoding # {}
         /\ Starting' = {} /\ Decoding' = {} /\ audio' = NoAudio
  <1>0. ~overlap
    BY ReadySteps DEF IInv
  <1>1. ASSUME NEW c \in Callers, SpawnFails(c)
        PROVE  Starting = {c} /\ Starting' = {} /\ Decoding' = {} /\ audio' = NoAudio
    <2>1. c \in Starting /\ Starting' = Starting \ {c} /\ Decoding' = Decoding
      BY <1>1, OwnerEffects DEF IInv
    <2> QED
      BY <1>0, <1>1, <2>1 DEF IInv, OneSession, SpawnFails
  <1>2. ASSUME NEW d \in Decoders, Exit(d)
        PROVE  Decoding = {d} /\ Starting' = {} /\ Decoding' = {} /\ audio' = NoAudio
    <2>1. d \in Decoding /\ Decoding' = Decoding \ {d} /\ Starting' = Starting
      BY <1>2, ExitEffect DEF IInv
    <2> QED
      BY <1>0, <1>2, <2>1 DEF IInv, OneSession, Exit
  <1> QED
    BY <1>1, <1>2

LEMMA ModeStep == IInv /\ ModeKept /\ [Next]_vars => ModeKept'
  <1> SUFFICES ASSUME IInv, ModeKept, [Next]_vars, ~overlap'
               PROVE  /\ \A c \in Starting' : Op(c)' = "alarm" => audio'.alarmMode
                      /\ \A d \in Decoding' : Alarm(d)' => audio'.alarmMode
    BY DEF ModeKept
  <1>0. ~overlap /\ TypeOK /\ audio \in Audio
    BY ReadySteps DEF IInv, TypeOK
  <1>1. CASE ~OwnerSteps
    <2>1. Starting' = Starting /\ Decoding' = Decoding /\ audio'.alarmMode = audio.alarmMode
      BY <1>0, <1>1, OtherSteps, QuietAudio
    <2> QED
      BY <1>0, <2>1, OwnersKept DEF ModeKept, Op, Alarm
  <1>2. ASSUME NEW c \in Callers, Publish(c) \/ PublishChime(c)
        PROVE  /\ \A o \in Starting' : Op(o)' = "alarm" => audio'.alarmMode
               /\ \A d \in Decoding' : Alarm(d)' => audio'.alarmMode
    <2>1. Starting' = {c} /\ Decoding' = {}
      BY <1>2, PublishAlone
    <2>2. Op(c)' = "alarm" => audio'.alarmMode
      <3>1. CASE Publish(c)
        <4>1. (Op(c) = "alarm") \in BOOLEAN /\ Op(c)' = Op(c)
          BY <3>1 DEF Publish, Goto, Op
        <4> QED
          BY <1>0, <3>1, <4>1, AudioFields DEF Publish
      <3>2. CASE PublishChime(c)
        BY <1>0, <3>2 DEF PublishChime, TypeOK, Op
      <3> QED
        BY <1>2, <3>1, <3>2
    <2> QED
      BY <2>1, <2>2
  <1>3. ASSUME NEW c \in Callers, Spawn(c)
        PROVE  /\ \A o \in Starting' : Op(o)' = "alarm" => audio'.alarmMode
               /\ \A d \in Decoding' : Alarm(d)' => audio'.alarmMode
    BY <1>0, <1>3, SpawnAlone DEF ModeKept, Alarm
  <1>4. ASSUME (\E c \in Callers : SpawnFails(c)) \/ (\E d \in Decoders : Exit(d))
        PROVE  /\ \A o \in Starting' : Op(o)' = "alarm" => audio'.alarmMode
               /\ \A d \in Decoding' : Alarm(d)' => audio'.alarmMode
    BY <1>4, EndAlone
  <1> QED
    BY <1>1, <1>2, <1>3, <1>4 DEF OwnerSteps

LEMMA ModeInvariant == Spec => [](IInv /\ ModeKept)
  <1>1. Init => ModeKept
    BY DEF Init, ModeKept, Starting, Decoding, Free
  <1>2. IInv /\ [Next]_vars => IInv'
    BY TypeStep, FlagsStep, WedgedStep, ShownStep, AlarmStep, OneSessionStep DEF IInv
  <1> QED
    BY <1>1, <1>2, InitIInv, ModeStep, PTL DEF Spec

\* A sounding alarm is under control, its limit armed or its end requested, for
\* as long as no start was let through while another was being made
\* (audio_play_music_file, audio_should_stop, audio_request_stop).
THEOREM AlarmControlled == Spec => [](~overlap => AlarmUnderControl)
  <1>1. IInv /\ ModeKept => (~overlap => AlarmUnderControl)
    BY DEF IInv, OneSession, ModeKept, AlarmUnderControl
  <1> QED
    BY <1>1, ModeInvariant, PTL
\* The session in progress, as AudioSession sees it.
Current == IF Starting # {} THEN req[CHOOSE c \in Starting : TRUE][1]
           ELSE IF Decoding # {} THEN dec[CHOOSE d \in Decoding : TRUE].kind
           ELSE "idle"

LEMMA StartingIs ==
  ASSUME NEW c \in Callers, Starting = {c} PROVE Current = Op(c)
  <1>1. (CHOOSE o \in {c} : TRUE) = c
    OBVIOUS
  <1> QED
    BY <1>1 DEF Current, Op

LEMMA DecodingIs ==
  ASSUME NEW d \in Decoders, Starting = {}, Decoding = {d} PROVE Current = dec[d].kind
  <1>1. (CHOOSE o \in {d} : TRUE) = d
    OBVIOUS
  <1> QED
    BY <1>1 DEF Current

LEMMA NoneIs == Starting = {} /\ Decoding = {} => Current = "idle"
  BY DEF Current

\* A decoder thread plays what a start can ask for.
KindKept == \A d \in Decoding : dec[d].kind \in PlayKinds

LEMMA KindStep == IInv /\ KindKept /\ [Next]_vars => KindKept'
  <1> SUFFICES ASSUME IInv, KindKept, [Next]_vars, NEW d \in Decoding' PROVE dec'[d].kind \in PlayKinds
    BY DEF KindKept
  <1>0. TypeOK /\ dec \in [Decoders -> Decoder] /\ OpAtPc
    BY DEF IInv, TypeOK
  <1>1. CASE d \in Decoding
    BY <1>0, <1>1, OwnersKept DEF KindKept
  <1>2. CASE d \notin Decoding
    <2>1. OwnerSteps
      BY <1>0, <1>2, OtherSteps
    <2>2. \A o \in Decoders : ~Exit(o)
      BY <1>0, <1>2, ExitEffect
    <2>3. \A c \in Callers : ~(Publish(c) \/ PublishChime(c) \/ SpawnFails(c))
      BY <1>0, <1>2, OwnerEffects
    <2>4. PICK c \in Callers : Spawn(c)
      BY <2>1, <2>2, <2>3 DEF OwnerSteps
    <2>5. PICK o \in Decoders : dec' = [dec EXCEPT ![o] = [st |-> "open", kind |-> Op(c), file |-> File(c)]]
      BY <2>4 DEF Spawn
    <2>6. o = d
      BY <1>0, <1>2, <2>5 DEF Decoding
    <2>7. Op(c) \in PlayKinds
      BY <1>0, <2>4 DEF Spawn, OpAtPc
    <2> QED
      BY <1>0, <2>5, <2>6, <2>7 DEF Decoding
  <1> QED
    BY <1>1, <1>2

CurrentTyped == IF Starting = {} /\ Decoding = {} THEN Current = "idle" ELSE Current \in PlayKinds

LEMMA CurrentIs == IInv /\ KindKept /\ ~overlap => CurrentTyped
  <1> SUFFICES ASSUME IInv, KindKept, ~overlap PROVE CurrentTyped
    OBVIOUS
  <1>0. TypeOK /\ OpAtPc
    BY DEF IInv, TypeOK
  <1>1. ASSUME NEW c \in Starting PROVE Current \in PlayKinds
    <2>1. c \in Callers /\ Starting = {c} /\ Op(c) \in PlayKinds
      BY <1>0, <1>1 DEF IInv, OneSession, Starting, OpAtPc, PlayKinds
    <2> QED
      BY <2>1, StartingIs
  <1>2. ASSUME Starting = {}, NEW d \in Decoding PROVE Current \in PlayKinds
    <2>1. d \in Decoders /\ Decoding = {d} /\ dec[d].kind \in PlayKinds
      BY <1>2 DEF IInv, OneSession, Decoding, KindKept
    <2> QED
      BY <1>2, <2>1, DecodingIs
  <1> QED
    BY <1>1, <1>2, NoneIs DEF CurrentTyped

\* While the same thread is behind it, the session is the same.
LEMMA CurrentStays ==
  ASSUME IInv, [Next]_vars, ~overlap, Starting' = Starting, Decoding' = Decoding
  PROVE  Current' = Current
  <1>0. TypeOK
    BY DEF IInv
  <1>1. ASSUME NEW c \in Starting PROVE Current' = Current
    <2>1. c \in Callers /\ Starting = {c} /\ Op(c)' = Op(c)
      BY <1>0, <1>1, OwnersKept DEF IInv, OneSession, Starting, Op
    <2>2. Current = Op(c)
      BY <2>1, StartingIs
    <2>3. Current' = Op(c)'
      <3>1. Starting' = {c}
        BY <2>1
      <3>2. (CHOOSE o \in {c} : TRUE) = c
        OBVIOUS
      <3> QED
        BY <3>1, <3>2 DEF Current, Op
    <2> QED
      BY <2>1, <2>2, <2>3
  <1>2. ASSUME Starting = {}, NEW d \in Decoding PROVE Current' = Current
    <2>1. d \in Decoders /\ Decoding = {d} /\ dec'[d].kind = dec[d].kind
      BY <1>0, <1>2, OwnersKept DEF IInv, OneSession, Decoding
    <2>2. Current = dec[d].kind
      BY <1>2, <2>1, DecodingIs
    <2>3. Starting' = {} /\ Decoding' = {d}
      BY <1>2, <2>1
    <2>4. (CHOOSE o \in {d} : TRUE) = d
      OBVIOUS
    <2>5. Current' = dec'[d].kind
      BY <2>3, <2>4 DEF Current
    <2> QED
      BY <2>1, <2>2, <2>5
  <1>3. CASE Starting = {} /\ Decoding = {}
    BY <1>3 DEF Current
  <1> QED
    BY <1>1, <1>2, <1>3

\* The three steps of AudioSession, and stuttering.
LEMMA SessionStep ==
  ASSUME \/ Current = "idle" /\ Current' \in PlayKinds /\ audio'.stop = FALSE
         \/ Current # "idle" /\ Current' = Current /\ audio'.stop = TRUE
         \/ Current # "idle" /\ Current' = "idle" /\ audio'.stop = FALSE
         \/ Current' = Current /\ audio'.stop = audio.stop
  PROVE  [Session!Next]_(Session!vars)
  BY DEF Current, Session!Next, Session!Start, Session!RequestStop, Session!End, Session!vars

LEMMA StepImplements ==
  ASSUME IInv, KindKept, KindKept', IInv', [Next]_vars, ~overlap, ~overlap'
  PROVE  [Session!Next]_(Session!vars)
  <1>0. TypeOK /\ TypeOK' /\ audio \in Audio /\ audio' \in Audio
    BY DEF IInv, TypeOK
  <1>1. CurrentTyped
    BY CurrentIs
  <1>2. CurrentTyped'
    BY CurrentIs, PTL
  <1>3. audio.running => Current # "idle"
    BY <1>1 DEF IInv, NeverWedged, CurrentTyped, PlayKinds, StartOps
  <1>4. ASSUME NEW c \in Callers, Publish(c) \/ PublishChime(c) PROVE [Session!Next]_(Session!vars)
    <2>1. Starting = {} /\ Decoding = {} /\ Starting' = {c}
      BY <1>4, PublishAlone
    <2>2. audio'.stop = FALSE
      <3>1. CASE Publish(c)
        BY <3>1 DEF Publish, NoAudio
      <3>2. CASE PublishChime(c)
        BY <3>2 DEF PublishChime, NoAudio
      <3> QED
        BY <1>4, <3>1, <3>2
    <2>3. Current = "idle" /\ Current' \in PlayKinds
      BY <1>1, <1>2, <2>1 DEF CurrentTyped
    <2> QED
      BY <2>2, <2>3, SessionStep
  <1>5. ASSUME NEW c \in Callers, Spawn(c) PROVE [Session!Next]_(Session!vars)
    <2>1. /\ Starting = {c} /\ Starting' = {} /\ audio' = audio
          /\ \E d \in Decoders : Decoding' = {d} /\ dec'[d].kind = Op(c)
      BY <1>5, SpawnAlone
    <2>2. Current = Op(c)
      BY <2>1, StartingIs
    <2>3. PICK d \in Decoders : Decoding' = {d} /\ dec'[d].kind = Op(c)
      BY <2>1
    <2>4. (CHOOSE o \in {d} : TRUE) = d
      OBVIOUS
    <2>5. Current' = Op(c)
      BY <2>1, <2>3, <2>4 DEF Current
    <2> QED
      BY <2>1, <2>2, <2>5, SessionStep
  <1>6. ASSUME (\E c \in Callers : SpawnFails(c)) \/ (\E d \in Decoders : Exit(d))
        PROVE  [Session!Next]_(Session!vars)
    <2>1. (Starting # {} \/ Decoding # {}) /\ Starting' = {} /\ Decoding' = {} /\ audio' = NoAudio
      BY <1>6, EndAlone
    <2>2. Current # "idle" /\ Current' = "idle"
      BY <1>1, <1>2, <2>1 DEF CurrentTyped, PlayKinds, StartOps
    <2> QED
      BY <2>1, <2>2, SessionStep DEF NoAudio
  <1>7. CASE ~OwnerSteps
    <2>1. Current' = Current
      BY <1>0, <1>7, OtherSteps, CurrentStays
    <2>2. audio'.stop \in BOOLEAN /\ audio.stop \in BOOLEAN
      BY <1>0 DEF Audio
    <2>3. \/ audio'.stop = audio.stop
          \/ audio'.stop = TRUE /\ audio.running
      <3>1. CASE audio'.stop = (audio.running \/ audio.stop)
        BY <2>2, <3>1
      <3>2. CASE NoteExpiry
        <4>1. audio'.stop = ShouldStop
          BY <1>0, <3>2, ExpiryFields
        <4> QED
          BY <2>2, <4>1 DEF ShouldStop, Expired, IInv, FlagsBelongToSession
      <3> QED
        BY <1>0, <1>7, <3>1, <3>2, QuietAudio
    <2> QED
      BY <1>3, <2>1, <2>3, SessionStep
  <1> QED
    BY <1>4, <1>5, <1>6, <1>7 DEF OwnerSteps

LEMMA InitImplements == Init => Session!Init
  <1> SUFFICES ASSUME Init PROVE Session!Init
    OBVIOUS
  <1>1. Starting = {} /\ Decoding = {} /\ audio.stop = FALSE
    BY DEF Init, Starting, Decoding, Free, NoAudio
  <1>2. Current = "idle"
    BY <1>1, NoneIs
  <1> QED
    BY <1>1, <1>2 DEF Session!Init, Current

\* As long as no start is let through while another is being made, the player does
\* what AudioSession promises: one session at a time, and a request to end one stays
\* in force until it has ended (audio_play_music_file, audio_thread_main).
THEOREM PromiseKept == Spec /\ []~overlap => SessionPromise
  <1>1. IInv /\ [Next]_vars => IInv'
    BY TypeStep, FlagsStep, WedgedStep, ShownStep, AlarmStep, OneSessionStep DEF IInv
  <1>2. Init => KindKept
    <2>1. Init => Decoding = {}
      BY DEF Init, Decoding, Free
    <2> QED
      BY <2>1 DEF KindKept
  <1>3. Spec => [](IInv /\ KindKept)
    BY <1>1, <1>2, InitIInv, KindStep, PTL DEF Spec
  <1>4. /\ IInv /\ KindKept /\ ~overlap /\ [Next]_vars
        /\ (IInv /\ KindKept /\ ~overlap)'
        => [Session!Next]_(Session!vars)
    BY StepImplements
  <1> QED
    BY <1>3, <1>4, InitImplements, PTL DEF Spec, SessionPromise, Session!Spec

\* Only caller s has requests that start a session.
Sole(s) == \A c \in Callers \ {s} : \A r \in Requests[c] : r[1] \notin PlayKinds

\* Where one thread alone starts sessions, no start overlaps another.
THEOREM NoOverlap == ASSUME NEW s \in Callers, Sole(s) PROVE Spec => []~overlap
  <1> DEFINE Others == \A c \in Callers \ {s} : Op(c) \notin PlayKinds
  <1>1. Init => Others /\ ~overlap
    BY DEF Init, Op, NoReq, PlayKinds, StartOps
  <1>2. TypeOK /\ Others /\ ~overlap /\ [Next]_vars => Others' /\ ~overlap'
    <2> SUFFICES ASSUME TypeOK, Others, ~overlap, [Next]_vars PROVE Others' /\ ~overlap'
      OBVIOUS
    <2>0. req \in [Callers -> AnyOp \X AnyFile] /\ OpAtPc
      BY DEF TypeOK
    <2>1. ASSUME NEW c \in Callers, RequestPlay(c) \/ RequestStop(c) \/ RequestDelete(c)
          PROVE  Others' /\ ~overlap'
      BY <2>0, <2>1 DEF RequestPlay, RequestStop, RequestDelete, Op, Sole
    <2>2. ASSUME NEW c \in Callers, PublishChime(c) PROVE Others' /\ ~overlap'
      <3>1. c = s
        BY <2>2 DEF PublishChime, Sole, PlayKinds
      <3>2. \A o \in Callers : pc[o] # "ready"
        BY <2>0, <2>2, <3>1 DEF PublishChime, OpAtPc, PlayKinds
      <3> QED
        BY <2>0, <2>2, <3>1, <3>2 DEF PublishChime, Op
    <2>3. ASSUME NEW c \in Callers, WaitStopped(c), Op(c) # "import" PROVE Others' /\ ~overlap'
      <3>1. c = s /\ \A o \in Callers \ {c} : pc[o] # "ready"
        BY <2>0, <2>3 DEF WaitStopped, OpAtPc, PlayKinds
      <3> QED
        BY <2>3, <3>1 DEF WaitStopped, Goto, Op
    <2>4. ASSUME NEW c \in Callers, Proceed(c), ~WaitStopped(c) \/ Op(c) = "import"
          PROVE  Others' /\ ~overlap'
      <3>1. UNCHANGED overlap
        BY <2>4 DEF Proceed, FlagStop, QuietAlarm, ClearVisible, EraseDeleted, WaitStopped, WaitTimeout,
                    StartAborted, Publish, Show, Spawn, SpawnFails, Unshow
      <3>2. UNCHANGED req \/ req' = [req EXCEPT ![c] = NoReq]
        BY <2>4 DEF Proceed, FlagStop, QuietAlarm, ClearVisible, EraseDeleted, WaitStopped, WaitTimeout,
                    StartAborted, Publish, Show, Spawn, SpawnFails, Unshow, Goto, Return
      <3>3. Others'
        BY <2>0, <3>2 DEF Op, NoReq, PlayKinds, StartOps
      <3> QED
        BY <3>1, <3>3
    <2>5. ASSUME NEW d \in Decoders, Decode(d) PROVE UNCHANGED <<req, overlap>>
      BY <2>5 DEF Decode, OpenFile, OpenDevice, OpenFails, LoopTest, Fill, Step,
                  EndOfFile, Drain, EndRamp, EraseVisible, Exit
    <2>6. CASE UNCHANGED <<req, overlap>>
      BY <2>6 DEF Op
    <2>7. Deadline \/ UNCHANGED vars => UNCHANGED <<req, overlap>>
      BY DEF Deadline, vars
    <2> QED
      BY <2>1, <2>2, <2>3, <2>4, <2>5, <2>6, <2>7 DEF Next
  <1> HIDE DEF Others
  <1> QED
    BY <1>1, <1>2, TypeCorrect, PTL DEF Spec

\* With one thread that starts sessions, whichever it is, the player implements
\* AudioSession and has its alarms under control, whatever the others stop, delete
\* and restore meanwhile.
THEOREM SoleStarterKeeps ==
  ASSUME NEW s \in Callers, Sole(s) PROVE Spec => SessionPromise /\ []AlarmUnderControl
  <1>1. Spec => []~overlap
    BY NoOverlap
  <1> QED
    BY <1>1, PromiseKept, AlarmControlled, PTL

=============================================================================
