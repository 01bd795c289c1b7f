----------------------------- MODULE MCPodcastHistory -----------------------------
(* Small instances of PodcastHistory for TLC. *)
EXTENDS PodcastHistory

ThreeEpisodes == <<"p1", "p2", "p3">>
=============================================================================
