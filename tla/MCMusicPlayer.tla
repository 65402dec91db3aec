--------------------------- MODULE MCMusicPlayer ----------------------------
(* Instances of MusicPlayer; the configurations choose callers and calls.   *)
EXTENDS MusicPlayer

CONSTANTS key, phone, s1, s2

OneSong == {s1}
TwoSongs == {s1, s2}
OneCaller == {key}
TwoCallers == {key, phone}

=============================================================================
