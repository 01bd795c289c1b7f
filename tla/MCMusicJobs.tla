----------------------------- MODULE MCMusicJobs -----------------------------
(* A small instance of MusicJobs for TLC: one song, or two, in a batch. *)
EXTENDS MusicJobs

CONSTANTS s1, s2

MCSongs == {s1, s2}
MCBatches == {<<s1>>, <<s1, s2>>}
=============================================================================
