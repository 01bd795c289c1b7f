--------------------------- MODULE MCAudioPlayer ---------------------------
(* Instances of AudioPlayer for TLC. *)
EXTENDS AudioPlayer, TLC

\* Alarms against a touch thread that only stops playback and
\* an IPC thread that stops, deletes and imports.
AlarmOnly ==
  [c \in Callers |->
     CASE c = "main"  -> Issues["main"]
       [] c = "touch" -> {<<"stop", NoFile>>}
       [] c = "ipc"   -> {r \in Issues["ipc"] : r[1] \in DeleteOps \cup {"stop", "import"}}]

\* Alarms and a listener at the sensor.
AlarmAndTouch ==
  [c \in Callers |->
     CASE c = "main"  -> {<<"alarm", BuiltinAlarm>>}
       [] c = "touch" -> Issues["touch"]
       [] c = "ipc"   -> {}]

\* All three threads at once, one kind of operation each.
ThreeThreads ==
  [c \in Callers |->
     CASE c = "main"  -> {<<"alarm", BuiltinAlarm>>}
       [] c = "touch" -> {<<"stop", NoFile>>}
       [] c = "ipc"   -> {<<"chime", ChimeFile>>} \cup ({"podcast"} \X Podcasts)]

DecoderSymmetry == Permutations(Decoders)
=============================================================================
