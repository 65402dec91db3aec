---------------------------- MODULE MusicListOps ----------------------------
(***************************************************************************)
(* The play list of src/molib/musiclist.c as a value: struct music_list is *)
(* a record of the songs (the linked list, abstracted to a sequence; the   *)
(* nodes are in LinkList.tla), max_index (-1: unbounded), current_index    *)
(* (-1: none) and the play mode.  Indexes count from 0, as in the code.    *)
(* Every mozart_musiclist_* function is an operator here, so that the list *)
(* alone (MusicList) and the player that owns one (MusicPlayer) share it.  *)
(* Operators named Bug... are wrong variants used to test the properties.  *)
(***************************************************************************)
EXTENDS Integers, Sequences, SequencesExt

CONSTANT NULL        \* the C null pointer

Modes == {"order", "single", "random"}

Length(l) == Len(l.songs)

\* mozart_musiclist_create, and what mozart_musiclist_clean resets to.
EmptyList == [songs |-> <<>>, max_index |-> -1, current_index |-> -1,
              mode |-> "order"]

\* list_get_element: walks i nodes from the head; a negative i is the head.
GetElement(l, i) ==
    LET k == IF i < 0 THEN 0 ELSE i
    IN  IF k < Length(l) THEN l.songs[k + 1] ELSE NULL

GetCurrent(l) == GetElement(l, l.current_index)

GetIndex(l, i) == IF i \in 0 .. Length(l) - 1 THEN l.songs[i + 1] ELSE NULL

-----------------------------------------------------------------------------
(* Moving the current index: the set of indexes the call may choose.        *)

BugPrevIndexes(l) ==          \* forgets to wrap around from index 0
    IF l.mode = "random"
    THEN 0 .. Length(l) - 1
    ELSE {IF l.current_index < 0 THEN Length(l) - 1 ELSE l.current_index - 1}

PrevIndexes(l) ==
    IF l.mode = "random"
    THEN 0 .. Length(l) - 1
    ELSE {IF l.current_index <= 0 THEN Length(l) - 1 ELSE l.current_index - 1}

NextIndexes(l, force) ==
    CASE l.mode = "random"             -> 0 .. Length(l) - 1
      [] l.mode = "single" /\ ~force   -> {l.current_index}
      [] OTHER                         -> {(l.current_index + 1) % Length(l)}

SetCurrent(l, i) == [l EXCEPT !.current_index = i]

-----------------------------------------------------------------------------
(* Adding and removing songs.                                               *)

BugDeleteIndex(l, i) ==       \* leaves the index alone
    IF i \in 0 .. Length(l) - 1
    THEN [l EXCEPT !.songs = RemoveAt(l.songs, i + 1)]
    ELSE l

DeleteIndex(l, i) ==
    IF i \in 0 .. Length(l) - 1
    THEN [l EXCEPT !.songs = RemoveAt(l.songs, i + 1),
                   !.current_index = IF i < @ THEN @ - 1 ELSE @]
    ELSE l

\* A bounded list that is full gives up its oldest song first.
Full(l) == l.max_index >= 0 /\ l.max_index <= Length(l)

BugEvicted(l) == l            \* appends without making room

Evicted(l) == IF Full(l) THEN DeleteIndex(l, 0) ELSE l

\* Only an empty list with max_index 0 refuses the song: nothing to evict.
Refuses(l) == Full(l) /\ Length(l) = 0

BugInsert(l, s) ==            \* leaves current_index at -1
    IF Refuses(l) THEN l ELSE [Evicted(l) EXCEPT !.songs = Append(@, s)]

Insert(l, s) ==
    IF Refuses(l) THEN l
    ELSE [Evicted(l) EXCEPT !.songs = Append(@, s),
                            !.current_index = IF @ < 0 THEN 0 ELSE @]

\* mozart_musiclist_copy: the new list starts with the old one's indexes and
\* mode, then takes the songs one by one through mozart_musiclist_insert.
BugCopyList(l) ==             \* forgets the current index
    LET copied[k \in 0 .. Length(l)] ==
            IF k = 0 THEN [l EXCEPT !.songs = <<>>, !.current_index = -1]
            ELSE Insert(copied[k - 1], l.songs[k])
    IN  copied[Length(l)]

CopyList(l) ==
    LET copied[k \in 0 .. Length(l)] ==     \* after the first k songs
            IF k = 0 THEN [l EXCEPT !.songs = <<>>]
            ELSE Insert(copied[k - 1], l.songs[k])
    IN  copied[Length(l)]

=============================================================================
