---------------------------- MODULE MCMusicList -----------------------------
(* Three songs, lists of up to three, every limit from none to two.         *)
EXTENDS MusicList

CONSTANTS s1, s2, s3

MCSongs == {s1, s2, s3}
MCMaxIndexes == {-1, 0, 1, 2}

=============================================================================
