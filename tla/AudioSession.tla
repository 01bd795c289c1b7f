---------------------------- MODULE AudioSession ----------------------------
(***************************************************************************)
(* What the audio player of mk-piclock.c promises its callers: one session *)
(* at a time.  A session starts only when none is in progress, a request   *)
(* to stop it stays in force until that session ends, and only an alarm    *)
(* can be ended by its safety limit.  AudioPlayer is shown to implement it *)
(* whenever starts are not issued by two threads at once.                  *)
(***************************************************************************)
CONSTANTS Kinds,   \* kinds of session: "music", "podcast", "alarm", "chime"
          Idle     \* no session is in progress

VARIABLES current, \* the kind of the session in progress, or Idle
          asked    \* its end has been requested
vars == <<current, asked>>

Init == current = Idle /\ asked = FALSE

Start(k) == current = Idle /\ current' = k /\ asked' = FALSE

RequestStop == current # Idle /\ asked' = TRUE /\ UNCHANGED current

End == current # Idle /\ current' = Idle /\ asked' = FALSE

Next == (\E k \in Kinds : Start(k)) \/ RequestStop \/ End

Spec == Init /\ [][Next]_vars
=============================================================================
