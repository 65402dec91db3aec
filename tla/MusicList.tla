----------------------------- MODULE MusicList ------------------------------
(***************************************************************************)
(* One play list and every call of src/molib/musiclist.c that changes it,  *)
(* in any order its callers may issue them.  A music_info is a fresh       *)
(* allocation for each insert, so a song that is in the list is not        *)
(* inserted again; its name stands for the allocation.                     *)
(***************************************************************************)
EXTENDS MusicListOps

CONSTANTS Songs,      \* the music_info allocations callers insert
          MaxLen,     \* bound on the length of an unbounded list
          MaxIndexes  \* arguments of mozart_musiclist_set_max_index

ASSUME NullAssumption == NULL \notin Songs
ASSUME BoundAssumption == MaxLen \in Nat /\ MaxIndexes \subseteq Nat \cup {-1}

VARIABLE list         \* the struct music_list

TypeOK ==
    list \in [songs : Seq(Songs), max_index : MaxIndexes \cup {-1},
              current_index : Int, mode : Modes]

Init == list = EmptyList

BugInsertSong(s) ==       \* inserts although the song could not be copied
    /\ s \notin ToSet(list.songs)
    /\ Length(list) < MaxLen
    /\ list' = Insert(list, NULL)

InsertSong(s) ==
    /\ s \notin ToSet(list.songs)
    /\ Length(list) < MaxLen \/ Full(list)
    /\ list' = Insert(list, s)

DeleteSong(i) == list' = DeleteIndex(list, i)

\* Both return NULL and change nothing on an empty list.
SetPrev ==
    /\ Length(list) > 0
    /\ \E i \in PrevIndexes(list) : list' = SetCurrent(list, i)

SetNext(force) ==
    /\ Length(list) > 0
    /\ \E i \in NextIndexes(list, force) : list' = SetCurrent(list, i)

SetIndex(i) ==
    /\ i \in 0 .. Length(list) - 1
    /\ list' = SetCurrent(list, i)

SetPlayMode(m) == list' = [list EXCEPT !.mode = m]

SetMaxIndex(m) == list' = [list EXCEPT !.max_index = m]

\* mozart_musiclist_clean; destory and a new create end in the same state.
Clean == list' = EmptyList

Next ==
    \/ \E s \in Songs : InsertSong(s)
    \/ \E i \in -1 .. Length(list) : DeleteSong(i)
    \/ SetPrev
    \/ \E force \in BOOLEAN : SetNext(force)
    \/ \E i \in 0 .. Length(list) - 1 : SetIndex(i)
    \/ \E m \in Modes : SetPlayMode(m)
    \/ \E m \in MaxIndexes : SetMaxIndex(m)
    \/ Clean

Spec == Init /\ [][Next]_list

-----------------------------------------------------------------------------
(* current_index never points more than one past the last song, and a list  *)
(* with songs has a non-negative one: the reads that go through it          *)
(* (musiclist.c:152, 174, 199) see a song or NULL, and the modulo and the   *)
(* decrement never start from garbage.  One past the end is reachable:      *)
(* deleting the song at the current, last index leaves it there.            *)
IndexInv ==
    /\ list.current_index \in -1 .. Length(list)
    /\ Length(list) > 0 => list.current_index >= 0

(* Removing other songs, evicting the oldest one and appending never change *)
(* which song is current: as long as the current song stays in the list it  *)
(* stays current (musiclist.c:240-282).                                     *)
CurrentKept ==
    [][list'.songs # list.songs /\ GetCurrent(list) \in ToSet(list'.songs)
         => GetCurrent(list') = GetCurrent(list)]_list

(* A list within its max_index stays within it until the limit is changed   *)
(* or the list cleaned: an insert into a full list evicts first             *)
(* (musiclist.c:250-255).                                                   *)
LimitKept ==
    [][(/\ list'.max_index = list.max_index
        /\ list.max_index >= 0
        /\ Length(list) <= list.max_index)
         => Length(list') <= list.max_index]_list

(* Outside random mode prev undoes a forced next and next undoes prev,      *)
(* wherever the user stands in the list (musiclist.c:174-222).              *)
PrevNextInverse ==
    \A i \in {i \in 0 .. Length(list) - 1 : list.mode # "random"} :
        LET at == SetCurrent(list, i)
        IN  /\ \A j \in NextIndexes(at, TRUE) : PrevIndexes(SetCurrent(at, j)) = {i}
            /\ \A j \in PrevIndexes(at) : NextIndexes(SetCurrent(at, j), TRUE) = {i}

(* A copy holds the newest songs its limit allows and, if the current song  *)
(* is among them, the copy's current song is the same one, although copying *)
(* evicts while current_index already has its final value                   *)
(* (musiclist.c:284-313).                                                   *)
CopyFaithful ==
    LET copy == CopyList(list)
        n    == Length(copy)
    IN  /\ copy.songs = SubSeq(list.songs, Length(list) - n + 1, Length(list))
        /\ n = IF list.max_index < 0 \/ list.max_index > Length(list)
               THEN Length(list) ELSE list.max_index
        /\ GetCurrent(list) \in ToSet(copy.songs)
             => GetCurrent(copy) = GetCurrent(list)

=============================================================================
