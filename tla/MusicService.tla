---------------------------- MODULE MusicService ----------------------------
(***************************************************************************)
(* What the music player promises its callers, without threads, mutex,     *)
(* events or reports: at most one owner, whose list may be edited only     *)
(* while there is one, and music that begins only as the current song of   *)
(* that list.  Letting go of the player silences it and empties the list.  *)
(***************************************************************************)
EXTENDS MusicListOps

CONSTANT Songs

VARIABLES owned, list, sounding

vars == <<owned, list, sounding>>

Init == ~owned /\ list = EmptyList /\ sounding = NULL

Take ==
    /\ ~owned /\ owned' = TRUE
    /\ UNCHANGED <<list, sounding>>

EditOf(l) ==
    \/ \E s \in Songs : l = Insert(list, s)
    \/ \E i \in 0 .. Length(list) - 1 : l = DeleteIndex(list, i)
    \/ \E m \in Modes : l = [list EXCEPT !.mode = m]
    \/ l = EmptyList

Edit ==
    /\ owned /\ EditOf(list')
    /\ UNCHANGED <<owned, sounding>>

\* Choosing a song may precede its sounding, while the others are asked.
Choose ==
    /\ owned
    /\ \E i \in 0 .. Length(list) - 1 : list' = SetCurrent(list, i)
    /\ sounding' \in {sounding, GetCurrent(list')}
    /\ UNCHANGED owned

Play ==
    /\ owned /\ sounding' = GetCurrent(list)
    /\ UNCHANGED <<owned, list>>

Silence == sounding' = NULL /\ UNCHANGED <<owned, list>>

Release ==
    /\ owned /\ owned' = FALSE
    /\ list' = EmptyList /\ sounding' = NULL

Next == Take \/ Edit \/ Choose \/ Play \/ Silence \/ Release

Spec == Init /\ [][Next]_vars

=============================================================================
