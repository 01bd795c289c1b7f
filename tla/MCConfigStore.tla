--------------------------- MODULE MCConfigStore ---------------------------
(* Instances of ConfigStore for TLC. *)
EXTENDS ConfigStore

\* The alarms are set for the first minute of the day and have not fired.
Set == [slot |-> [a \in Alarms |-> [on |-> TRUE, at |-> 0, fired |-> NoDay]], vol |-> 0]
OnlySet == {Set}

\* A backup may also be of a day on which the first alarm has fired.
SetOrFired == {Set, [Set EXCEPT !.slot[1].fired = 1]}

\* Behaviours without overlapping saves are explored in full; one with an overlap
\* only during the first minute, while the requests change no alarm and while one
\* alarm has not fired.
OverlapOnce == \A a \in Alarms \ {1} : mem.slot[a] = Set.slot[a]
Explored ==
  /\ ~failed
  /\ overlap => /\ clock = 0
                /\ th["ipc"].op \in {"none", "settings", "export"}
                /\ OverlapOnce /\ mem.slot[1].at = 0 /\ mem.slot[1].on
=============================================================================
