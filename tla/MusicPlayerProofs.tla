-------------------------- MODULE MusicPlayerProofs -------------------------
(***************************************************************************)
(* For every set of callers, songs and calls: the music player is well     *)
(* typed, its mutex is held exactly where it must be, letting go of it is  *)
(* silent, and it implements MusicService.                                 *)
(***************************************************************************)
EXTENDS MusicPlayer, SequenceTheorems, TLAPS

ListType == [songs : Seq(Songs), max_index : {-1}, current_index : Int,
             mode : Modes]
SnapType == [status : Statuses, mine : BOOLEAN]

-----------------------------------------------------------------------------
(* The list operations stay within the type of the player's list, which has *)
(* no limit.                                                                *)
LEMMA EmptyTyped == EmptyList \in ListType
  BY DEF EmptyList, ListType, Modes

LEMMA InsertTyped ==
    ASSUME NEW l \in ListType, NEW s \in Songs
    PROVE  Insert(l, s) \in ListType
<1> DEFINE a == Append(l.songs, s)
           c == IF l.current_index < 0 THEN 0 ELSE l.current_index
<1>1. ~Full(l)
  BY DEF Full, ListType
<1>2. Insert(l, s) = [l EXCEPT !.songs = a, !.current_index = c]
  BY <1>1 DEF Insert, Refuses, Evicted
<1>3. a \in Seq(Songs) /\ c \in Int
  BY AppendProperties DEF ListType
<1> HIDE DEF a, c
<1> QED
  BY <1>2, <1>3 DEF ListType

LEMMA DeleteTyped ==
    ASSUME NEW l \in ListType, NEW i \in Int
    PROVE  DeleteIndex(l, i) \in ListType
<1>1. CASE i \in 0 .. Length(l) - 1
  <2> DEFINE a == SubSeq(l.songs, 1, i)
             b == SubSeq(l.songs, i + 2, Len(l.songs))
             r == RemoveAt(l.songs, i + 1)
             c == IF i < l.current_index
                  THEN l.current_index - 1 ELSE l.current_index
  <2>1. l.songs \in Seq(Songs) /\ Len(l.songs) \in Nat /\ c \in Int
    BY DEF ListType
  <2>2. a \in Seq(Songs) /\ b \in Seq(Songs)
    BY <1>1, <2>1 DEF Length
  <2>3. r = a \o b
    <3>1. (i + 1) - 1 = i /\ (i + 1) + 1 = i + 2
      OBVIOUS
    <3> QED
      BY <3>1 DEF RemoveAt
  <2>4. a \o b \in Seq(Songs)
    BY <2>2, ConcatProperties
  <2>5. r \in Seq(Songs)
    BY <2>3, <2>4
  <2>6. DeleteIndex(l, i) = [l EXCEPT !.songs = r, !.current_index = c]
    BY <1>1 DEF DeleteIndex
  <2> HIDE DEF a, b, r, c
  <2> QED
    BY <2>1, <2>5, <2>6 DEF ListType
<1>2. CASE i \notin 0 .. Length(l) - 1
  BY <1>2 DEF DeleteIndex
<1> QED
  BY <1>1, <1>2

LEMMA SelectTyped ==
    ASSUME NEW l \in ListType, NEW i \in Int
    PROVE  SetCurrent(l, i) \in ListType
  BY DEF SetCurrent, ListType

LEMMA CurrentTyped ==
    ASSUME NEW l \in ListType
    PROVE  GetCurrent(l) \in Songs \cup {NULL}
<1> DEFINE k == IF l.current_index < 0 THEN 0 ELSE l.current_index
<1>1. l.songs \in Seq(Songs) /\ Len(l.songs) \in Nat /\ k \in Nat
  BY DEF ListType
<1>2. k < Len(l.songs) => l.songs[k + 1] \in Songs
  BY <1>1
<1> QED
  BY <1>2 DEF GetCurrent, GetElement, Length

LEMMA IndexesTyped ==
    ASSUME NEW l \in ListType, Length(l) > 0
    PROVE  /\ \A i \in PrevIndexes(l) : i \in Int
           /\ \A force \in BOOLEAN : \A i \in NextIndexes(l, force) : i \in Int
<1>1. l.current_index \in Int /\ Length(l) \in Nat /\ Length(l) > 0
  BY DEF ListType, Length
<1>2. (l.current_index + 1) % Length(l) \in Int
  BY <1>1
<1> QED
  BY <1>1, <1>2 DEF PrevIndexes, NextIndexes


-----------------------------------------------------------------------------
(* The reports.                                                             *)
LEMMA ReportTyped ==
    ASSUME handler \in BOOLEAN, snapshots \in Seq(SnapType),
           NEW st \in Statuses, NEW song, Report(st, song)
    PROVE  snapshots' \in Seq(SnapType)
<1> DEFINE r == [status |-> st, mine |-> song # FOREIGN]
<1>1. r \in SnapType
  BY DEF SnapType
<1> HIDE DEF r
<1>2. Append(snapshots, r) \in Seq(SnapType)
  BY <1>1, AppendProperties
<1> QED
  BY <1>2 DEF Report, r

\* What the report thread does without the mutex.
RecvStep == \/ RecvTake \/ RecvOther \/ RecvDomain \/ RecvUnknown
            \/ RecvAuto \/ RecvNotify \/ RecvExit

(* The type of every variable, cut in the parts the steps change together.  *)
TypeCtl ==
    /\ mutex \in Threads \cup {"free"}
    /\ handler \in BOOLEAN /\ uuid \in {"invalid", "musicplayer"}
    /\ in_musicplayer \in {0, 1} /\ autoplay_flag \in BOOLEAN
    /\ musicplayer_status \in Statuses /\ domain \in Domains
    /\ events \in Nat /\ evtype \in {"play", "other"}
    /\ pc \in [Threads -> Places]
    /\ info \in [Threads -> Songs \cup {NULL}]
    /\ seen \in [Threads -> Statuses]
TypeBounds == calls \in [Callers -> 0 .. MaxCalls] /\ ends \in 0 .. MaxEnds
TypeData ==
    /\ list \in ListType
    /\ player \in [status : Statuses, song : Songs \cup {NULL, FOREIGN}]
    /\ snapshots \in Seq(SnapType)

LEMMA TypeSplit == TypeOK <=> TypeCtl /\ TypeBounds /\ TypeData
  BY DEF TypeOK, TypeCtl, TypeBounds, TypeData, ListType, SnapType

(* The bounds: a call uses one up, a daemon's own step uses one up.         *)
LEMMA BoundsStep ==
    ASSUME TypeBounds, [Next]_vars
    PROVE  TypeBounds'
<1>1. ASSUME NEW c \in Callers, NEW op, Call(c, op), ends' = ends
      PROVE  TypeBounds'
  <2>1. calls[c] \in 0 .. MaxCalls /\ calls[c] > 0
    BY <1>1 DEF Call, TypeBounds
  <2>2. calls[c] - 1 \in 0 .. MaxCalls
    BY <2>1, BoundAssumption
  <2> QED
    BY <1>1, <2>2 DEF Call, TypeBounds
<1>2. ASSUME NEW c \in Callers, CallerStep(c)
      PROVE  TypeBounds'
  <2>1. \/ Start(c) \/ CleanList(c) \/ Startup(c) \/ PlayPause(c)
        \/ StopPlayback(c) \/ Shutdown(c)
        \/ (\E s \in Songs : InsertSong(c, s))
        \/ (\E i \in 0 .. Length(list) - 1 : DeleteSong(c, i))
        \/ (\E m \in Modes : SetPlayMode(c, m))
        => ends' = ends /\ \E op : Call(c, op)
    BY DEF Start, CleanList, Startup, PlayPause, StopPlayback, Shutdown,
           InsertSong, DeleteSong, SetPlayMode, Edit, Locked
  <2>2. \/ PrevMusic(c) \/ NextMusic(c) \/ Stop(c)
        \/ (\E i \in 0 .. Length(list) - 1 : PlayIndex(c, i))
        => ends' = ends /\ \E op : Call(c, op)
    BY DEF PrevMusic, NextMusic, Stop, PlayIndex, Locked, BeginPlay, StopBody
  <2> QED
    BY <1>1, <1>2, <2>1, <2>2 DEF CallerStep
<1>3. ASSUME \/ \E c \in Callers : Continue(c)
             \/ \E t \in Threads : Hold(t)
             \/ Recv \/ Misc
      PROVE  UNCHANGED <<calls, ends>>
  <2>1. (\E c \in Callers : Continue(c)) => UNCHANGED <<calls, ends>>
    BY DEF Continue, Toggle, StopCommand, StopWaited, ShutdownHalt, ShutdownWaited,
           ShutdownDone
  <2>2. (\E t \in Threads : Hold(t)) => UNCHANGED <<calls, ends>>
    BY DEF Hold, PollDone, PollGivesUp, Played, ReleaseHalt, ReleaseWaited
  <2>3. Recv => UNCHANGED <<calls, ends>>
    BY DEF Recv, RecvTake, RecvOther, RecvDomain, RecvUnknown, RecvAuto, RecvNotify,
           RecvNext, RecvExit, BeginPlay
  <2>4. Misc => UNCHANGED <<calls, ends>>
    BY DEF Misc, MiscTake, MiscStop, MiscRespond, StopBody
  <2> QED
    BY <1>3, <2>1, <2>2, <2>3, <2>4
<1>4. ASSUME Player
      PROVE  TypeBounds'
  <2>1. calls' = calls /\ (ends' = ends \/ (ends > 0 /\ ends' = ends - 1))
    BY <1>4 DEF Player, SongBegins, SongEnds, OtherTakes, SongFails, Daemon, Locals
  <2> QED
    BY <2>1, BoundAssumption DEF TypeBounds
<1>5. ASSUME UNCHANGED <<calls, ends>>
      PROVE  TypeBounds'
  BY <1>5 DEF TypeBounds
<1> QED
  BY <1>2, <1>3, <1>4, <1>5 DEF Next, vars

(* The control state: each action keeps it well typed.                      *)
LEMMA SendTyped ==
    ASSUME NEW t \in Threads, NEW s, SendUrl(t, s), pc \in [Threads -> Places]
    PROVE  mutex' \in Threads \cup {"free"} /\ pc' \in [Threads -> Places]
  BY DEF SendUrl, Goto, Places, Critical

LEMMA PlayTyped ==
    ASSUME TypeCtl, list \in ListType, NEW t \in Threads, NEW i \in Int,
           mutex = "free", BeginPlay(t, i)
    PROVE  TypeCtl'
<1> DEFINE s == GetCurrent(list')
<1>1. s \in Songs \cup {NULL}
  BY SelectTyped, CurrentTyped DEF BeginPlay
<1> HIDE DEF s
<1>2. UNCHANGED <<handler, uuid, in_musicplayer, autoplay_flag,
                  musicplayer_status, seen>>
  BY DEF BeginPlay
<1>3. CASE s # NULL /\ in_musicplayer = 1
  <2>1. SendUrl(t, s) /\ UNCHANGED <<domain, events, evtype, info>>
    BY <1>3 DEF BeginPlay, s
  <2> QED
    BY <1>2, <2>1, SendTyped DEF TypeCtl
<1>4. CASE s # NULL /\ in_musicplayer = 0
  <2>1. /\ info' = [info EXCEPT ![t] = s]
        /\ domain' = "WAIT_RESPONSE"
        /\ events' = events + 1 /\ evtype' = "play"
        /\ mutex' = t /\ pc' = [pc EXCEPT ![t] = "poll"]
    BY <1>4 DEF BeginPlay, s, Goto
  <2> QED
    BY <1>1, <1>2, <2>1 DEF TypeCtl, Places, Critical, Domains
<1>5. CASE s = NULL
  <2>1. /\ UNCHANGED <<mutex, domain, events, evtype, info>>
        /\ pc' = [pc EXCEPT ![t] = "idle"]
    BY <1>5 DEF BeginPlay, s, Goto
  <2> QED
    BY <1>2, <2>1 DEF TypeCtl, Places
<1> QED
  BY <1>3, <1>4, <1>5 DEF TypeCtl

LEMMA CtlStep ==
    ASSUME TypeCtl, TypeData, [Next]_vars
    PROVE  TypeCtl'
<1> USE DEF TypeCtl
<1>0. list \in ListType
  BY DEF TypeData
<1>1. ASSUME NEW c \in Callers, Start(c) \/ CleanList(c)
             \/ (\E s \in Songs : InsertSong(c, s))
             \/ (\E i \in 0 .. Length(list) - 1 : DeleteSong(c, i))
             \/ (\E m \in Modes : SetPlayMode(c, m))
      PROVE  TypeCtl'
  BY <1>1 DEF Start, CleanList, InsertSong, DeleteSong, SetPlayMode, Edit
<1>2. ASSUME NEW c \in Callers, PrevMusic(c) \/ NextMusic(c)
             \/ (\E i \in 0 .. Length(list) - 1 : PlayIndex(c, i))
      PROVE  TypeCtl'
  <2>1. PICK i \in Int : BeginPlay(c, i) /\ mutex = "free"
    <3>1. CASE PrevMusic(c)
      BY <1>0, <3>1, IndexesTyped DEF PrevMusic, Locked
    <3>2. CASE NextMusic(c)
      BY <1>0, <3>2, IndexesTyped DEF NextMusic, Locked
    <3>3. CASE \E i \in 0 .. Length(list) - 1 : PlayIndex(c, i)
      BY <3>3 DEF PlayIndex, Locked
    <3> QED
      BY <1>2, <3>1, <3>2, <3>3
  <2> QED
    BY <1>0, <2>1, PlayTyped DEF Threads
<1>3. ASSUME NEW c \in Callers, PlayPause(c)
      PROVE  TypeCtl'
  <2>1. player.status \in Statuses
    BY DEF TypeData
  <2> QED
    BY <1>3, <2>1 DEF PlayPause, Goto, Threads, Places
<1>4. ASSUME NEW c \in Callers, StopPlayback(c)
      PROVE  TypeCtl'
  BY <1>4 DEF StopPlayback, Goto, Threads, Places
<1>5. ASSUME NEW t \in Threads, StopBody(t)
      PROVE  TypeCtl'
  <2>1. in_musicplayer' \in {0, 1}
    BY <1>5 DEF StopBody, ForgetAnswer
  <2>2. UNCHANGED <<handler, musicplayer_status, events, evtype, info, seen>>
    BY <1>5 DEF StopBody
  <2>3. /\ mutex' \in Threads \cup {"free"} /\ uuid' \in {"invalid", "musicplayer"}
        /\ autoplay_flag' \in BOOLEAN /\ domain' \in Domains
        /\ pc' \in [Threads -> Places]
    BY <1>5 DEF StopBody, Released, AfterStop, Goto, Places, Critical
  <2> QED
    BY <2>1, <2>2, <2>3
<1>6. ASSUME NEW c \in Callers, Startup(c) \/ Shutdown(c)
      PROVE  TypeCtl'
  <2>1. CASE Startup(c)
    <3>1. pc' \in [Threads -> Places]
      BY <2>1 DEF Startup, Goto, Threads, Places
    <3>2. /\ UNCHANGED <<mutex, in_musicplayer, autoplay_flag, musicplayer_status, events,
                         evtype, info, seen>>
          /\ handler' \in BOOLEAN /\ uuid' \in {"invalid", "musicplayer"} /\ domain' = "RUNNING"
      BY <2>1 DEF Startup
    <3> QED
      BY <3>1, <3>2 DEF Domains
  <2>2. CASE Shutdown(c)
    <3>1. pc' \in [Threads -> Places]
      BY <2>2 DEF Shutdown, Joining, Goto, Threads, Places, Critical
    <3>2. /\ UNCHANGED <<handler, in_musicplayer, musicplayer_status, domain, events, evtype,
                         info, seen>>
          /\ mutex' = c /\ uuid' \in {"invalid", "musicplayer"} /\ autoplay_flag' \in BOOLEAN
      BY <2>2 DEF Shutdown, Joining
    <3> QED
      BY <3>1, <3>2 DEF Threads
  <2> QED
    BY <1>6, <2>1, <2>2
<1>7. ASSUME NEW c \in Callers, Continue(c)
      PROVE  TypeCtl'
  <2>1. CASE Toggle(c)
    BY <2>1 DEF Toggle, Goto, Threads, Places
  <2>2. CASE StopWaited(c)
    BY <2>2 DEF StopWaited, Waited, Goto, Threads, Places, Domains
  <2>3. CASE ShutdownWaited(c)
    BY <2>3 DEF ShutdownWaited, Waited, Joining, Goto, Threads, Places,
                Critical, Domains
  <2>4. CASE ShutdownDone(c)
    BY <2>4 DEF ShutdownDone, Goto, Threads, Places, Domains
  <2>5. CASE StopCommand(c)
    BY <2>5 DEF StopCommand, Halt, Goto, Threads, Places
  <2>6. CASE ShutdownHalt(c)
    BY <2>6 DEF ShutdownHalt, Halt, Joining, Goto, Threads, Places, Critical
  <2> QED
    BY <1>7, <2>1, <2>2, <2>3, <2>4, <2>5, <2>6 DEF Continue
<1>8. ASSUME NEW t \in Threads, Hold(t)
      PROVE  TypeCtl'
  <2>1. CASE PollDone(t)
    BY <2>1, SendTyped DEF PollDone
  <2>2. CASE PollGivesUp(t) \/ Played(t)
    BY <2>2 DEF PollGivesUp, Played, Goto, Places
  <2>3. CASE ReleaseWaited(t)
    BY <2>3 DEF ReleaseWaited, Waited, Released, AfterStop, Goto, Places, Domains
  <2>4. CASE ReleaseHalt(t)
    BY <2>4 DEF ReleaseHalt, Halt, Released, AfterStop, Goto, Places, Critical
  <2> QED
    BY <1>8, <2>1, <2>2, <2>3, <2>4 DEF Hold
<1>9. CASE Recv
  <2>1. CASE RecvTake
    <3>1. Head(snapshots) \in SnapType
      BY <2>1 DEF RecvTake, TypeData
    <3> QED
      BY <2>1, <3>1 DEF RecvTake, SnapType, Goto, Threads, Places, Domains, Statuses
  <2>2. CASE RecvOther \/ RecvDomain \/ RecvUnknown
    BY <2>2 DEF RecvOther, RecvDomain, RecvUnknown, Goto, Threads, Places, Domains,
                Statuses
  <2>4. CASE RecvAuto \/ RecvNotify \/ RecvExit
    BY <2>4 DEF RecvAuto, RecvNotify, RecvExit, Goto, Threads, Places
  <2>3. CASE RecvNext
    <3>1. CASE \E i \in NextIndexes(list, FALSE) : BeginPlay("recv", i) /\ Length(list) > 0
      <4>1. PICK i \in Int : BeginPlay("recv", i)
        BY <1>0, <3>1, IndexesTyped
      <4> QED
        BY <1>0, <2>3, <4>1, PlayTyped DEF RecvNext, Threads
    <3>2. CASE ~(\E i \in NextIndexes(list, FALSE) : BeginPlay("recv", i) /\ Length(list) > 0)
      BY <2>3, <3>2 DEF RecvNext, Goto, Threads, Places
    <3> QED
      BY <3>1, <3>2
  <2> QED
    BY <1>9, <2>1, <2>2, <2>3, <2>4 DEF Recv
<1>10. CASE MiscTake \/ MiscRespond
  BY <1>10, AnswerAssumption DEF MiscTake, MiscRespond, Goto, Threads, Places, Domains
<1>11. CASE Player
  BY <1>11 DEF Player, SongBegins, SongEnds, OtherTakes, SongFails, Daemon, Locals
<1>12. CASE UNCHANGED vars
  BY <1>12 DEF vars
<1> QED
  BY <1>1, <1>2, <1>3, <1>4, <1>5, <1>6, <1>7, <1>8, <1>9, <1>10, <1>11, <1>12
     DEF Next, CallerStep, Stop, Misc, MiscStop, Threads

-----------------------------------------------------------------------------
(* The data: the list, the daemon and the reports on their way.             *)
LEMMA PlayData ==
    ASSUME TypeData, handler \in BOOLEAN, NEW t \in Threads, NEW i \in Int,
           BeginPlay(t, i)
    PROVE  TypeData'
<1> DEFINE s == GetCurrent(list')
<1>1. list' \in ListType /\ s \in Songs \cup {NULL}
  BY SelectTyped, CurrentTyped DEF BeginPlay, TypeData
<1> HIDE DEF s
<1>2. CASE s # NULL /\ in_musicplayer = 1
  <2>1. SendUrl(t, s) /\ s \in Songs
    BY <1>1, <1>2 DEF BeginPlay, s
  <2>2. PlayUrl(s) => snapshots' \in Seq(SnapType)
    BY ReportTyped DEF PlayUrl, TypeData, Statuses
  <2> QED
    BY <1>1, <2>1, <2>2 DEF SendUrl, PlayUrl, TypeData, Statuses
<1>3. CASE s # NULL /\ in_musicplayer = 0
  BY <1>1, <1>3 DEF BeginPlay, TypeData, s
<1>4. CASE s = NULL
  BY <1>1, <1>4 DEF BeginPlay, TypeData, s
<1> QED
  BY <1>2, <1>3, <1>4 DEF BeginPlay, s

LEMMA CommandData ==
    ASSUME TypeData, handler \in BOOLEAN
    PROVE  /\ StopCmd => /\ player' \in [status : Statuses, song : Songs \cup {NULL, FOREIGN}]
                         /\ snapshots' \in Seq(SnapType)
           /\ \A s \in Songs : PlayUrl(s) =>
                         /\ player' \in [status : Statuses, song : Songs \cup {NULL, FOREIGN}]
                         /\ snapshots' \in Seq(SnapType)
           /\ \A from, to \in Statuses : Switch(from, to) =>
                         /\ player' \in [status : Statuses, song : Songs \cup {NULL, FOREIGN}]
                         /\ snapshots' \in Seq(SnapType)
  BY ReportTyped DEF StopCmd, PlayUrl, Switch, TypeData, Statuses

(* A thread that waits for the answer has a song of the list in its hand.   *)
Chosen ==
    \A t \in Threads : pc[t] = "poll" =>
        Owner /\ info[t] \in Songs /\ info[t] = GetCurrent(list)

LEMMA DataStep ==
    ASSUME TypeCtl, TypeData, Chosen, [Next]_vars
    PROVE  TypeData'
<1> DEFINE PlayerType == [status : Statuses, song : Songs \cup {NULL, FOREIGN}]
<1>0. list \in ListType /\ player \in PlayerType /\ snapshots \in Seq(SnapType)
  BY DEF TypeData
<1>h. handler \in BOOLEAN
  BY DEF TypeCtl
<1>1. ASSUME NEW c \in Callers, NEW op, NEW l \in ListType, Edit(c, op, l)
      PROVE  TypeData'
  BY <1>0, <1>1 DEF Edit, TypeData
<1>2. ASSUME NEW c \in Callers, CallerStep(c)
      PROVE  TypeData'
  <2>1. CASE Start(c) \/ PlayPause(c)
    BY <1>0, <2>1 DEF Start, PlayPause, TypeData
  <2>2. CASE CleanList(c)
    BY <1>1, <2>2, EmptyTyped DEF CleanList
  <2>3. ASSUME NEW s \in Songs, InsertSong(c, s)
        PROVE  TypeData'
    BY <1>0, <1>1, <2>3, InsertTyped DEF InsertSong
  <2>4. ASSUME NEW i \in 0 .. Length(list) - 1, DeleteSong(c, i)
        PROVE  TypeData'
    BY <1>0, <1>1, <2>4, DeleteTyped DEF DeleteSong
  <2>5. ASSUME NEW m \in Modes, SetPlayMode(c, m)
        PROVE  TypeData'
    <3>1. [list EXCEPT !.mode = m] \in ListType
      BY <1>0 DEF ListType
    <3> QED
      BY <1>1, <2>5, <3>1 DEF SetPlayMode
  <2>6. ASSUME PrevMusic(c) \/ NextMusic(c)
               \/ (\E i \in 0 .. Length(list) - 1 : PlayIndex(c, i))
        PROVE  TypeData'
    <3>1. PICK i \in Int : BeginPlay(c, i)
      <4>1. CASE PrevMusic(c)
        BY <1>0, <4>1, IndexesTyped DEF PrevMusic
      <4>2. CASE NextMusic(c)
        BY <1>0, <4>2, IndexesTyped DEF NextMusic
      <4>3. CASE \E i \in 0 .. Length(list) - 1 : PlayIndex(c, i)
        BY <4>3 DEF PlayIndex
      <4> QED
        BY <2>6, <4>1, <4>2, <4>3
    <3> QED
      BY <1>h, <3>1, PlayData DEF Threads
  <2>7. CASE StopPlayback(c)
    BY <1>0, <2>7 DEF StopPlayback, TypeData
  <2>8. CASE Stop(c)
    BY <1>0, <2>8, EmptyTyped DEF Stop, StopBody, Released, TypeData
  <2>9. CASE Startup(c)
    <3>1. <<>> \in Seq(SnapType)
      OBVIOUS
    <3> QED
      BY <1>0, <2>9, <3>1, EmptyTyped DEF Startup, TypeData
  <2>10. CASE Shutdown(c)
    BY <1>0, <2>10 DEF Shutdown, TypeData
  <2> QED
    BY <1>2, <2>1, <2>2, <2>3, <2>4, <2>5, <2>6, <2>7, <2>8, <2>9, <2>10
       DEF CallerStep
<1>3. ASSUME NEW c \in Callers, Continue(c)
      PROVE  TypeData'
  <2>1. CASE Toggle(c)
    BY <1>0, <1>h, <2>1, CommandData DEF Toggle, TypeData, Statuses
  <2>2. CASE StopWaited(c) \/ ShutdownWaited(c) \/ ShutdownDone(c)
    BY <1>0, <2>2, EmptyTyped DEF StopWaited, ShutdownWaited, ShutdownDone, TypeData
  <2>3. CASE StopCommand(c) \/ ShutdownHalt(c)
    BY <1>0, <1>h, <2>3, CommandData DEF StopCommand, ShutdownHalt, Halt, TypeData
  <2> QED
    BY <1>3, <2>1, <2>2, <2>3 DEF Continue
<1>4. ASSUME NEW t \in Threads, Hold(t)
      PROVE  TypeData'
  <2>1. CASE PollDone(t)
    <3>1. info[t] \in Songs
      BY <2>1 DEF PollDone, Chosen
    <3> QED
      BY <1>0, <1>h, <2>1, <3>1, CommandData DEF PollDone, SendUrl, TypeData
  <2>2. CASE PollGivesUp(t) \/ Played(t) \/ ReleaseWaited(t)
    BY <1>0, <2>2, EmptyTyped
       DEF PollGivesUp, Played, ReleaseWaited, Waited, Released, TypeData
  <2>3. CASE ReleaseHalt(t)
    BY <1>0, <1>h, <2>3, CommandData, EmptyTyped DEF ReleaseHalt, Halt, Released, TypeData
  <2> QED
    BY <1>4, <2>1, <2>2, <2>3 DEF Hold
<1>5. CASE Recv
  <2>1. CASE RecvTake
    <3>1. Tail(snapshots) \in Seq(SnapType)
      BY <1>0, <2>1 DEF RecvTake
    <3> QED
      BY <1>0, <2>1, <3>1 DEF RecvTake, TypeData
  <2>2. CASE RecvStep /\ ~RecvTake
    BY <1>0, <2>2 DEF RecvStep, RecvOther, RecvDomain, RecvUnknown, RecvAuto,
                      RecvNotify, RecvExit, TypeData
  <2>3. CASE RecvNext
    <3>1. CASE \E i \in NextIndexes(list, FALSE) : BeginPlay("recv", i) /\ Length(list) > 0
      <4>1. PICK i \in Int : BeginPlay("recv", i)
        BY <1>0, <3>1, IndexesTyped
      <4> QED
        BY <1>h, <4>1, PlayData DEF Threads
    <3>2. CASE ~(\E i \in NextIndexes(list, FALSE) : BeginPlay("recv", i) /\ Length(list) > 0)
      BY <1>0, <2>3, <3>2 DEF RecvNext, TypeData
    <3> QED
      BY <3>1, <3>2
  <2> QED
    BY <1>5, <2>1, <2>2, <2>3 DEF Recv, RecvStep
<1>6. CASE Misc
  <2>1. CASE MiscTake \/ MiscRespond
    BY <1>0, <2>1 DEF MiscTake, MiscRespond, TypeData
  <2>2. CASE MiscStop
    BY <1>0, <2>2, EmptyTyped DEF MiscStop, StopBody, Released, TypeData
  <2> QED
    BY <1>6, <2>1, <2>2 DEF Misc
<1>7. CASE Player
  <2>1. ASSUME NEW st \in Statuses, NEW song \in Songs \cup {NULL, FOREIGN},
               Daemon(st, song)
        PROVE  TypeData'
    BY <1>0, <1>h, <2>1, ReportTyped DEF Daemon, TypeData
  <2>2. player.song \in Songs \cup {NULL, FOREIGN}
    BY <1>0
  <2> QED
    BY <1>7, <2>1, <2>2
       DEF Player, SongBegins, SongEnds, OtherTakes, SongFails, Statuses
<1>8. CASE UNCHANGED vars
  BY <1>0, <1>8 DEF vars, TypeData
<1> QED
  BY <1>2, <1>3, <1>4, <1>5, <1>6, <1>7, <1>8 DEF Next

-----------------------------------------------------------------------------
(* The mutex.                                                               *)
LEMMA LockStep ==
    ASSUME TypeCtl, LockHeld, [Next]_vars
    PROVE  LockHeld'
<1> USE DEF TypeCtl, LockHeld
<1>t. /\ "recv" \in Threads /\ "misc" \in Threads /\ Callers \subseteq Threads
      /\ "free" \notin Threads
  BY ThreadAssumption DEF Threads
<1>1. ASSUME UNCHANGED <<mutex, pc>>
      PROVE  LockHeld'
  BY <1>1
<1>2. ASSUME NEW t \in Threads, NEW place, pc[t] \notin Critical,
             place \notin Critical, Goto(t, place), UNCHANGED mutex
      PROVE  LockHeld'
  BY <1>2 DEF Goto
<1>3. ASSUME NEW t \in Threads, NEW place, mutex = t,
             place \notin Critical, Goto(t, place), mutex' = "free"
      PROVE  LockHeld'
  BY <1>3, <1>t DEF Goto
<1>4. ASSUME NEW t \in Threads, NEW place, mutex \in {"free", t},
             place \in Critical, Goto(t, place), mutex' = t
      PROVE  LockHeld'
  BY <1>4, <1>t DEF Goto
<1>5. ASSUME NEW t \in Threads, NEW i, mutex = "free", BeginPlay(t, i)
      PROVE  LockHeld'
  <2>1. pc[t] \notin Critical
    BY <1>5, <1>t
  <2>2. \/ mutex' = t /\ (Goto(t, "played") \/ Goto(t, "poll"))
        \/ mutex' = mutex /\ Goto(t, "idle")
    BY <1>5 DEF BeginPlay, SendUrl
  <2>3. {"played", "poll"} \subseteq Critical /\ "idle" \notin Critical
    BY DEF Critical
  <2> QED
    BY <1>2, <1>4, <1>5, <2>1, <2>2, <2>3
<1>6. ASSUME NEW t \in Threads, StopBody(t)
      PROVE  LockHeld'
  <2>1. pc[t] \notin Critical /\ mutex = "free"
    BY <1>6, <1>t DEF StopBody
  <2>2. \/ mutex' = mutex /\ Goto(t, AfterStop(t))
        \/ mutex' = t /\ Goto(t, "stop_halt")
    BY <1>6, <2>1 DEF StopBody, Released
  <2>3. AfterStop(t) \notin Critical /\ "stop_halt" \in Critical
    BY DEF AfterStop, Critical
  <2> QED
    BY <1>2, <1>4, <2>1, <2>2, <2>3
<1>7. ASSUME NEW c \in Callers, CallerStep(c)
      PROVE  LockHeld'
  <2>1. CASE \/ Start(c) \/ CleanList(c)
             \/ (\E s \in Songs : InsertSong(c, s))
             \/ (\E i \in 0 .. Length(list) - 1 : DeleteSong(c, i))
             \/ (\E m \in Modes : SetPlayMode(c, m))
    BY <1>1, <2>1 DEF Start, CleanList, InsertSong, DeleteSong, SetPlayMode, Edit
  <2>2. CASE \/ PrevMusic(c) \/ NextMusic(c)
             \/ (\E i \in 0 .. Length(list) - 1 : PlayIndex(c, i))
    BY <1>5, <1>t, <2>2 DEF PrevMusic, NextMusic, PlayIndex, Locked
  <2>3. CASE PlayPause(c)
    BY <1>2, <1>t, <2>3 DEF PlayPause, Call, Critical
  <2>4. CASE StopPlayback(c)
    BY <1>2, <1>t, <2>4 DEF StopPlayback, Call, Critical
  <2>5. CASE Stop(c)
    BY <1>6, <1>t, <2>5 DEF Stop
  <2>6. CASE Startup(c)
    <3>1. pc["recv"] \notin Critical /\ "idle" \notin Critical
      BY <1>t, <2>6 DEF Startup, Locked, Critical
    <3> QED
      BY <1>1, <1>2, <1>t, <2>6, <3>1 DEF Startup
  <2>7. CASE Shutdown(c)
    BY <1>4, <1>t, <2>7 DEF Shutdown, Joining, Locked, Critical
  <2> QED
    BY <1>7, <2>1, <2>2, <2>3, <2>4, <2>5, <2>6, <2>7 DEF CallerStep
<1>8. ASSUME NEW c \in Callers, Continue(c)
      PROVE  LockHeld'
  <2>1. CASE Toggle(c) \/ StopCommand(c) \/ StopWaited(c)
    BY <1>2, <1>t, <2>1 DEF Toggle, StopCommand, Halt, StopWaited, Waited, Critical
  <2>2. CASE ShutdownWaited(c)
    <3>1. mutex = c
      BY <1>t, <2>2 DEF ShutdownWaited, Critical
    <3> QED
      BY <1>4, <1>t, <2>2, <3>1 DEF ShutdownWaited, Waited, Joining, Critical
  <2>3. CASE ShutdownDone(c)
    <3>1. mutex = c
      BY <1>t, <2>3 DEF ShutdownDone, Critical
    <3> QED
      BY <1>3, <1>t, <2>3, <3>1 DEF ShutdownDone, Critical
  <2>4. CASE ShutdownHalt(c)
    <3>1. mutex = c
      BY <1>t, <2>4 DEF ShutdownHalt, Critical
    <3> QED
      BY <1>4, <1>t, <2>4, <3>1 DEF ShutdownHalt, Halt, Joining, Critical
  <2> QED
    BY <1>8, <2>1, <2>2, <2>3, <2>4 DEF Continue
<1>9. ASSUME NEW t \in Threads, Hold(t)
      PROVE  LockHeld'
  <2>1. mutex = t
    BY <1>9 DEF Hold, PollDone, PollGivesUp, Played, ReleaseHalt, ReleaseWaited, Critical
  <2>2. CASE PollDone(t)
    BY <1>3, <1>4, <2>1, <2>2 DEF PollDone, SendUrl, Critical
  <2>3. CASE PollGivesUp(t) \/ Played(t)
    BY <1>3, <2>1, <2>3 DEF PollGivesUp, Played, Critical
  <2>4. CASE ReleaseWaited(t)
    BY <1>3, <2>1, <2>4 DEF ReleaseWaited, Waited, Released, AfterStop, Critical
  <2>5. CASE ReleaseHalt(t)
    BY <1>3, <1>4, <2>1, <2>5 DEF ReleaseHalt, Halt, Released, AfterStop, Critical
  <2> QED
    BY <1>9, <2>2, <2>3, <2>4, <2>5 DEF Hold
<1>10. CASE Recv
  <2>1. CASE RecvStep
    <3>1. pc["recv"] \notin Critical
      BY <2>1 DEF RecvStep, RecvTake, RecvOther, RecvDomain, RecvUnknown, RecvAuto,
           RecvNotify, RecvExit, Critical
    <3> DEFINE After == {"idle", "exited", "cb", "cb_other", "cb_unknown", "cb_auto",
                         "cb_notify", "cb_next"}
    <3>2. \E place \in After : Goto("recv", place) /\ UNCHANGED mutex
      BY <2>1 DEF RecvStep, RecvTake, RecvOther, RecvDomain, RecvUnknown, RecvAuto,
                  RecvNotify, RecvExit
    <3>3. \A place \in After : place \notin Critical
      BY DEF Critical
    <3> QED
      BY <1>2, <1>t, <3>1, <3>2, <3>3
  <2>2. CASE RecvNext
    <3>1. pc["recv"] \notin Critical /\ "idle" \notin Critical
      BY <2>2 DEF RecvNext, Critical
    <3> QED
      BY <1>2, <1>5, <1>t, <2>2, <3>1 DEF RecvNext
  <2> QED
    BY <1>10, <2>1, <2>2 DEF Recv, RecvStep
<1>11. CASE Misc
  <2>1. CASE MiscTake \/ MiscRespond
    BY <1>2, <1>t, <2>1 DEF MiscTake, MiscRespond, Critical
  <2>2. CASE MiscStop
    BY <1>6, <1>t, <2>2 DEF MiscStop
  <2> QED
    BY <1>11, <2>1, <2>2 DEF Misc
<1>12. CASE Player \/ UNCHANGED vars
  BY <1>1, <1>12 DEF Player, SongBegins, SongEnds, OtherTakes, SongFails,
                     Daemon, Locals, vars
<1> QED
  BY <1>7, <1>8, <1>9, <1>10, <1>11, <1>12 DEF Next

-----------------------------------------------------------------------------
(* What a step can do to the ownership and to the music.  Everything that   *)
(* takes or changes the ownership or the list needs the mutex, so none of   *)
(* it happens while a thread waits with the mutex held.                     *)

\* The ownership, the list and what waits for it stay; music at most ends.
Calm ==
    /\ UNCHANGED <<handler, uuid, list>>
    /\ player'.song \in {player.song, NULL, FOREIGN}
    /\ player'.status = "STOPPED" =>
          player'.song = NULL \/ player' = player
    /\ \A t \in Threads :
          pc'[t] \in {"poll", "stop_halt", "stop_wait", "shut_halt", "shut_wait", "shut_join"} =>
              pc'[t] = pc[t] /\ info'[t] = info[t]
    /\ \A t \in Threads : pc[t] = "shut_join" => pc'[t] = "shut_join"

LEMMA CalmCommands ==
    ASSUME player \in [status : Statuses, song : Songs \cup {NULL, FOREIGN}]
    PROVE  /\ StopCmd => player'.song = NULL \/ (player' = player /\ ~SoundsOn)
           /\ \A to \in {"PLAYING", "PAUSED"}, from \in Statuses : Switch(from, to) =>
                 player'.song = player.song /\ (player'.status = "STOPPED" => player' = player)
  BY DEF StopCmd, Switch, SoundsOn

LEMMA CalmSteps ==
    ASSUME TypeCtl, TypeData, LockHeld
    PROVE  /\ \A c \in Callers : PlayPause(c) \/ StopPlayback(c)
                 \/ Toggle(c) \/ StopCommand(c) \/ StopWaited(c) => Calm
           /\ \A t \in Threads : PollGivesUp(t) \/ Played(t) => Calm
           /\ RecvStep => Calm
           /\ MiscTake \/ MiscRespond \/ Player => Calm
           /\ UNCHANGED vars => Calm
<1> USE DEF TypeCtl
<1>0. player \in [status : Statuses, song : Songs \cup {NULL, FOREIGN}]
  BY DEF TypeData
<1>t. "recv" \in Threads /\ "misc" \in Threads /\ Callers \subseteq Threads
  BY DEF Threads
<1>1. ASSUME NEW c \in Callers, PlayPause(c) \/ StopWaited(c)
      PROVE  Calm
  <2>1. pc[c] # "shut_join" /\ (pc' = [pc EXCEPT ![c] = "toggle"] \/ pc' = [pc EXCEPT ![c] = "idle"])
    BY <1>1, <1>t DEF PlayPause, Call, StopWaited, Waited, Goto
  <2>2. UNCHANGED <<handler, uuid, list, player, info>>
    BY <1>1 DEF PlayPause, StopWaited
  <2> QED
    BY <1>0, <1>t, <2>1, <2>2 DEF Calm
<1>2. ASSUME NEW c \in Callers, StopPlayback(c) \/ StopCommand(c)
      PROVE  Calm
  <2>1. player' = player \/ player'.song = NULL
    BY <1>0, <1>2, CalmCommands DEF StopPlayback, StopCommand, Halt
  <2>2. \A t \in Threads : pc'[t] # pc[t] =>
            pc'[t] \in {"halt", "halt_wait", "idle"} /\ pc[t] \in {"idle", "halt"}
    BY <1>2, <1>t DEF StopPlayback, StopCommand, Halt, Call, Goto
  <2> QED
    BY <1>2, <2>1, <2>2 DEF StopPlayback, StopCommand, Calm
<1>3. ASSUME NEW c \in Callers, Toggle(c)
      PROVE  Calm
  <2>1. player'.song = player.song /\ (player'.status = "STOPPED" => player' = player)
    BY <1>0, <1>3, CalmCommands DEF Toggle, Statuses
  <2> QED
    BY <1>3, <1>t, <2>1 DEF Toggle, Goto, Calm
<1>4. ASSUME NEW t \in Threads, PollGivesUp(t) \/ Played(t)
      PROVE  Calm
  BY <1>0, <1>4, <1>t DEF PollGivesUp, Played, Goto, Calm
<1>5. ASSUME RecvStep
      PROVE  Calm
  BY <1>0, <1>5, <1>t DEF RecvStep, RecvTake, RecvOther, RecvDomain, RecvUnknown, RecvAuto,
           RecvNotify, RecvExit,
                          Goto, Calm
<1>6. ASSUME MiscTake \/ MiscRespond
      PROVE  Calm
  BY <1>0, <1>6, <1>t DEF MiscTake, MiscRespond, Goto, Calm
<1>7. ASSUME Player
      PROVE  Calm
  BY <1>0, <1>7 DEF Player, SongBegins, SongEnds, OtherTakes, SongFails, Daemon,
                    Locals, Calm
<1>8. ASSUME UNCHANGED vars
      PROVE  Calm
  BY <1>8 DEF vars, Calm
<1> QED
  BY <1>1, <1>2, <1>3, <1>4, <1>5, <1>6, <1>7, <1>8

(* The ownership, the list and the silence that goes with them.             *)
Silence ==
    /\ ~handler => uuid = "invalid"
    /\ \A c \in Callers : pc[c] = "shut_join" => uuid = "invalid"
    /\ \A t \in Threads : pc[t] \in {"stop_halt", "shut_halt"} => uuid # "invalid"
    /\ uuid = "invalid" /\ (\A c \in Callers : pc[c] # "shut_join")
          => list = EmptyList
    /\ player.status = "STOPPED" => player.song = NULL
    /\ "stop" \notin Fails =>
          /\ uuid = "invalid" => ~Sounding
          /\ \A t \in Threads : pc[t] \in {"stop_wait", "shut_wait"} => ~Sounding

IInv == TypeCtl /\ TypeBounds /\ TypeData /\ LockHeld /\ Chosen /\ Silence

LEMMA CalmKeeps ==
    ASSUME IInv, Calm
    PROVE  Chosen' /\ Silence'
<1>1. Chosen'
  BY DEF IInv, Chosen, Calm, Owner
<1>2. Sounding' => Sounding
  BY SongAssumption DEF Calm, Sounding
<1>3. player.status = "STOPPED" => player.song = NULL
  BY DEF IInv, Silence
<1>4. player'.status = "STOPPED" => player'.song = NULL
  BY <1>3 DEF Calm
<1>5. ASSUME uuid' = "invalid", \A c \in Callers : pc'[c] # "shut_join"
      PROVE  list' = EmptyList
  <2>1. \A c \in Callers : pc[c] # "shut_join"
    BY <1>5 DEF Calm, Threads
  <2> QED
    BY <1>5, <2>1 DEF IInv, Silence, Calm
<1> QED
  BY <1>1, <1>2, <1>4, <1>5 DEF IInv, Silence, Calm, Threads

(* A song of the owner's list begins, or is chosen and announced.           *)
LEMMA PlayKeeps ==
    ASSUME IInv, NEW t \in Threads, NEW i \in Int, mutex = "free", Owner,
           BeginPlay(t, i)
    PROVE  Chosen' /\ Silence'
<1> DEFINE s == GetCurrent(list')
<1>0. TypeCtl /\ TypeData /\ LockHeld /\ Chosen /\ Silence
  BY DEF IInv
<1>1. s \in Songs \cup {NULL}
  BY <1>0, SelectTyped, CurrentTyped DEF BeginPlay, TypeData
<1>2. \A r \in Threads : pc[r] \notin Critical
  BY <1>0, ThreadAssumption DEF LockHeld, Threads
<1>3. Owner' /\ handler' /\ uuid' = "musicplayer"
  BY DEF BeginPlay, Owner
<1>4. /\ pc' = [pc EXCEPT ![t] = pc'[t]]
      /\ pc'[t] \in {"played", "idle"} \/ (pc'[t] = "poll" /\ s # NULL /\ info'[t] = s)
  BY <1>0 DEF BeginPlay, SendUrl, Goto, TypeCtl
<1> HIDE DEF s
<1>5. Chosen'
  BY <1>0, <1>1, <1>2, <1>3, <1>4 DEF Chosen, Critical, TypeCtl, s
<1>6. player'.status = "STOPPED" => player'.song = NULL
  BY <1>0 DEF Silence, BeginPlay, SendUrl, PlayUrl
<1>7. \A r \in Threads : pc'[r] \notin {"stop_halt", "stop_wait", "shut_halt", "shut_wait", "shut_join"}
  BY <1>0, <1>2, <1>4 DEF Critical, TypeCtl
<1> QED
  BY <1>0, <1>3, <1>5, <1>6, <1>7 DEF Silence, Threads

(* stop, whether it can stop the daemon at once, has to wait or need not.   *)
LEMMA StopKeeps ==
    ASSUME IInv, NEW t \in Threads, StopBody(t)
    PROVE  Chosen' /\ Silence'
<1>0. TypeCtl /\ TypeData /\ LockHeld /\ Chosen /\ Silence
  BY DEF IInv
<1>1. \A r \in Threads : pc[r] \notin Critical
  BY <1>0, ThreadAssumption DEF LockHeld, Threads, StopBody
<1>2. \A r \in Threads :
          /\ pc'[r] \notin {"poll", "stop_wait", "shut_halt", "shut_wait", "shut_join"}
          /\ pc'[r] = "stop_halt" => uuid' = uuid /\ uuid # "invalid"
  BY <1>0, <1>1 DEF StopBody, Released, AfterStop, Goto, TypeCtl, Critical
<1>3. Chosen'
  BY <1>2 DEF Chosen
<1>4. player' = player
  BY DEF StopBody
<1>5. uuid' = "invalid" => list' = EmptyList
  <2>1. \A c \in Callers : pc[c] # "shut_join"
    BY <1>1 DEF Critical, Threads
  <2> QED
    BY <1>0, <2>1 DEF StopBody, Released, Silence
<1>6. "stop" \notin Fails /\ uuid' = "invalid" => player.song \notin Songs
  BY <1>0, SongAssumption DEF StopBody, Silence, Sounding, SoundsOn
<1>7. handler' = handler /\ (uuid' = uuid \/ uuid' = "invalid")
  BY DEF StopBody, Released
<1> QED
  BY <1>0, <1>2, <1>3, <1>4, <1>5, <1>6, <1>7 DEF Silence, Sounding, Threads

(* Taking the player, and editing its list, need the mutex.                 *)
LEMMA OwnerKeeps ==
    ASSUME IInv, NEW c \in Callers,
           Start(c) \/ \E op, l : Edit(c, op, l)
    PROVE  Chosen' /\ Silence'
<1>0. TypeCtl /\ TypeData /\ LockHeld /\ Chosen /\ Silence
  BY DEF IInv
<1>1. \A r \in Threads : pc[r] \notin Critical
  BY <1>0, ThreadAssumption DEF LockHeld, Threads, Start, Edit, Locked
<1>2. \A r \in Threads : pc[r] \notin {"poll", "stop_halt", "stop_wait", "shut_halt", "shut_wait", "shut_join"}
  BY <1>1 DEF Critical
<1>3. UNCHANGED <<pc, player, handler>> /\ uuid' = "musicplayer" /\ handler
  BY DEF Start, Edit, Locked, Owner
<1> QED
  BY <1>0, <1>2, <1>3 DEF Chosen, Silence, Sounding, Threads

LEMMA StartupKeeps ==
    ASSUME IInv, NEW c \in Callers, Startup(c)
    PROVE  Chosen' /\ Silence'
<1>0. TypeCtl /\ TypeData /\ LockHeld /\ Chosen /\ Silence
  BY DEF IInv
<1>1. \A r \in Threads : pc[r] \notin Critical
  BY <1>0, ThreadAssumption DEF LockHeld, Threads, Startup, Locked
<1>2. \A r \in Threads : pc[r] \notin {"poll", "stop_halt", "stop_wait", "shut_halt", "shut_wait", "shut_join"}
  BY <1>1 DEF Critical
<1>3. pc' = pc \/ pc' = [pc EXCEPT !["recv"] = "idle"]
  BY DEF Startup, Goto
<1>4. \A r \in Threads : pc'[r] \notin {"poll", "stop_halt", "stop_wait", "shut_halt", "shut_wait", "shut_join"}
  BY <1>0, <1>2, <1>3 DEF TypeCtl
<1>5. player' = player /\ uuid = "invalid" /\ uuid' = "invalid" /\ list' = EmptyList
  BY <1>0 DEF Startup, Silence
<1> QED
  BY <1>0, <1>2, <1>4, <1>5 DEF Chosen, Silence, Sounding, Threads

LEMMA ShutdownKeeps ==
    ASSUME IInv, NEW c \in Callers, Shutdown(c)
    PROVE  Chosen' /\ Silence'
<1>0. TypeCtl /\ TypeData /\ LockHeld /\ Chosen /\ Silence
  BY DEF IInv
<1>1. \A r \in Threads : pc[r] \notin Critical
  BY <1>0, ThreadAssumption DEF LockHeld, Threads, Shutdown, Locked
<1>2. /\ \A r \in Threads : r # c => pc'[r] = pc[r]
      /\ pc'[c] \in {"shut_halt", "shut_join"}
  BY <1>0 DEF Shutdown, Joining, Goto, TypeCtl, Threads
<1>3. \A r \in Threads : pc'[r] \notin {"poll", "stop_halt", "stop_wait", "shut_wait"}
                        /\ (pc'[r] \in {"shut_halt", "shut_join"} => r = c)
  BY <1>1, <1>2 DEF Critical, Threads
<1>4. handler' /\ (uuid' = uuid \/ uuid' = "invalid")
      /\ (pc'[c] = "shut_join" => uuid' = "invalid")
      /\ (pc'[c] = "shut_halt" => uuid' # "invalid")
  BY <1>0, <1>2 DEF Shutdown, Joining, Goto, Owner, TypeCtl, Threads
<1>5. player' = player
  BY DEF Shutdown
<1>6. "stop" \notin Fails /\ uuid' = "invalid" => player.song \notin Songs
  <2>1. CASE Owner /\ SoundsOn
    BY <2>1 DEF Shutdown, Owner
  <2>2. CASE ~(Owner /\ SoundsOn)
    <3>1. uuid = "invalid" \/ player.status = "STOPPED"
      BY <1>0, <2>2 DEF Shutdown, Owner, SoundsOn, TypeCtl
    <3> QED
      BY <1>0, <3>1, SongAssumption DEF Silence, Sounding
  <2> QED
    BY <2>1, <2>2
<1>7. uuid' = "invalid" => \E d \in Callers : pc'[d] = "shut_join"
  BY <1>2, <1>4
<1> QED
  BY <1>0, <1>3, <1>4, <1>5, <1>6, <1>7 DEF Chosen, Silence, Sounding, Threads

(* The stop command, sent or not, by the thread that has the mutex.         *)
LEMMA HaltKeeps ==
    ASSUME IInv, NEW t \in Threads,
           ReleaseHalt(t) \/ (t \in Callers /\ ShutdownHalt(t))
    PROVE  Chosen' /\ Silence'
<1>0. TypeCtl /\ TypeData /\ LockHeld /\ Chosen /\ Silence
  BY DEF IInv
<1>1. /\ pc[t] \in {"stop_halt", "shut_halt"} /\ handler' = handler
      /\ pc' = [pc EXCEPT ![t] = pc'[t]]
      /\ pc'[t] \in {"idle", "respond", "stop_wait", "shut_wait", "shut_join"}
  BY <1>0 DEF ReleaseHalt, ShutdownHalt, Halt, Released, Joining, AfterStop, Goto, TypeCtl
<1>2. \A r \in Threads : r # t => pc[r] \notin Critical
  BY <1>0, <1>1 DEF LockHeld, Critical
<1>3. \A r \in Threads :
          /\ pc'[r] \notin {"poll", "stop_halt", "shut_halt"}
          /\ pc'[r] \in {"stop_wait", "shut_wait", "shut_join"} => r = t
  BY <1>0, <1>1, <1>2 DEF Critical, TypeCtl
<1>4. StopCmd => player'.song = NULL
  BY <1>0, CalmCommands DEF TypeData, Silence, SoundsOn
<1>5. player' = player \/ player'.song = NULL
  BY <1>4 DEF ReleaseHalt, ShutdownHalt, Halt
<1>6. "stop" \notin Fails => ~Sounding'
  BY <1>4, SongAssumption DEF ReleaseHalt, ShutdownHalt, Halt, Sounding
<1>7. /\ uuid' = uuid \/ uuid' = "invalid"
      /\ pc'[t] = "shut_join" => t \in Callers /\ uuid' = "invalid"
      /\ uuid' = "invalid" => list' = EmptyList \/ (pc'[t] = "shut_join" /\ t \in Callers)
  BY <1>0, <1>1 DEF ReleaseHalt, ShutdownHalt, Halt, Released, Joining, AfterStop, Goto,
                    TypeCtl, Silence
<1> QED
  BY <1>0, <1>1, <1>3, <1>5, <1>6, <1>7 DEF Chosen, Silence, Sounding, Threads

(* The end of a wait, or of the shutdown, by the thread that has the mutex. *)
LEMMA WaitKeeps ==
    ASSUME IInv, NEW t \in Threads,
           \/ ReleaseWaited(t)
           \/ t \in Callers /\ (ShutdownWaited(t) \/ ShutdownDone(t))
    PROVE  Chosen' /\ Silence'
<1>0. TypeCtl /\ TypeData /\ LockHeld /\ Chosen /\ Silence
  BY DEF IInv
<1>1. /\ pc[t] \in {"stop_wait", "shut_wait", "shut_join"}
      /\ pc' = [pc EXCEPT ![t] = pc'[t]]
      /\ pc'[t] \in {"idle", "respond", "shut_join"}
  BY <1>0 DEF ReleaseWaited, ShutdownWaited, ShutdownDone, Waited, Released,
              Joining, AfterStop, Goto, TypeCtl
<1>2. \A r \in Threads : r # t => pc[r] \notin Critical
  BY <1>0, <1>1 DEF LockHeld, Critical
<1>3. \A r \in Threads : pc'[r] \notin {"poll", "stop_halt", "stop_wait", "shut_halt", "shut_wait"}
                        /\ (pc'[r] = "shut_join" => r = t)
  BY <1>0, <1>1, <1>2 DEF Critical, TypeCtl
<1>4. player' = player /\ uuid' = "invalid" /\ (~handler' => uuid' = "invalid")
  BY <1>0 DEF ReleaseWaited, ShutdownWaited, ShutdownDone, Waited, Released,
              Joining, Silence
<1>5. "stop" \notin Fails => ~Sounding
  <2>1. CASE pc[t] = "shut_join" /\ t \in Callers
    BY <1>0, <2>1 DEF Silence
  <2>2. CASE pc[t] \in {"stop_wait", "shut_wait"}
    BY <1>0, <2>2 DEF Silence
  <2> QED
    BY <1>1, <2>1, <2>2 DEF ReleaseWaited
<1>6. (\A c \in Callers : pc'[c] # "shut_join") => list' = EmptyList
  BY <1>0 DEF ReleaseWaited, ShutdownWaited, ShutdownDone, Waited, Released,
              Joining, Goto, TypeCtl, Threads
<1> QED
  BY <1>0, <1>3, <1>4, <1>5, <1>6 DEF Chosen, Silence, Sounding

LEMMA PollKeeps ==
    ASSUME IInv, NEW t \in Threads, PollDone(t)
    PROVE  Chosen' /\ Silence'
<1>0. TypeCtl /\ TypeData /\ LockHeld /\ Chosen /\ Silence
  BY DEF IInv
<1>1. pc[t] = "poll" /\ Owner /\ UNCHANGED <<handler, uuid, list, info>>
  BY <1>0 DEF PollDone, Chosen
<1>2. \A r \in Threads : r # t => pc[r] \notin Critical
  BY <1>0, <1>1 DEF LockHeld, Critical
<1>3. \A r \in Threads : pc'[r] \notin {"poll", "stop_halt", "stop_wait", "shut_halt", "shut_wait", "shut_join"}
  BY <1>0, <1>2 DEF PollDone, SendUrl, Goto, Critical, TypeCtl
<1>4. player'.status = "STOPPED" => player'.song = NULL
  BY <1>0 DEF PollDone, SendUrl, PlayUrl, Silence
<1> QED
  BY <1>0, <1>1, <1>3, <1>4 DEF Chosen, Silence, Owner, Threads

LEMMA OwnershipStep ==
    ASSUME IInv, [Next]_vars
    PROVE  Chosen' /\ Silence'
<1>0. TypeCtl /\ TypeData /\ LockHeld /\ list \in ListType
  BY DEF IInv, TypeData
<1>t. "recv" \in Threads /\ "misc" \in Threads /\ Callers \subseteq Threads
  BY DEF Threads
<1>1. ASSUME NEW t \in Threads, NEW i \in Int, mutex = "free", Owner, BeginPlay(t, i)
      PROVE  Chosen' /\ Silence'
  BY <1>1, PlayKeeps
<1>2. ASSUME NEW c \in Callers, CallerStep(c)
      PROVE  Chosen' /\ Silence'
  <2>1. CASE \/ Start(c) \/ CleanList(c)
             \/ (\E s \in Songs : InsertSong(c, s))
             \/ (\E i \in 0 .. Length(list) - 1 : DeleteSong(c, i))
             \/ (\E m \in Modes : SetPlayMode(c, m))
    BY <2>1, OwnerKeeps DEF CleanList, InsertSong, DeleteSong, SetPlayMode
  <2>2. CASE PrevMusic(c)
    BY <1>0, <1>1, <1>t, <2>2, IndexesTyped DEF PrevMusic, Locked
  <2>3. CASE NextMusic(c)
    BY <1>0, <1>1, <1>t, <2>3, IndexesTyped DEF NextMusic, Locked
  <2>4. CASE \E i \in 0 .. Length(list) - 1 : PlayIndex(c, i)
    BY <1>1, <1>t, <2>4 DEF PlayIndex, Locked
  <2>5. CASE PlayPause(c) \/ StopPlayback(c)
    BY <1>0, <2>5, CalmSteps, CalmKeeps
  <2>6. CASE Stop(c)
    BY <1>t, <2>6, StopKeeps DEF Stop
  <2>7. CASE Startup(c) \/ Shutdown(c)
    BY <2>7, StartupKeeps, ShutdownKeeps
  <2> QED
    BY <1>2, <2>1, <2>2, <2>3, <2>4, <2>5, <2>6, <2>7 DEF CallerStep
<1>3. ASSUME NEW c \in Callers, Continue(c)
      PROVE  Chosen' /\ Silence'
  BY <1>0, <1>3, <1>t, CalmSteps, CalmKeeps, HaltKeeps, WaitKeeps DEF Continue
<1>4. ASSUME NEW t \in Threads, Hold(t)
      PROVE  Chosen' /\ Silence'
  BY <1>0, <1>4, CalmSteps, CalmKeeps, HaltKeeps, WaitKeeps, PollKeeps DEF Hold
<1>5. CASE Recv
  <2>1. CASE RecvNext /\ Owner /\ Length(list) > 0
    <3>1. mutex = "free" /\ \E i \in NextIndexes(list, FALSE) : BeginPlay("recv", i)
      <4>1. ~(~Owner \/ Length(list) = 0)
        BY <1>0, <2>1
      <4> QED
        BY <2>1, <4>1, Zenon DEF RecvNext
    <3>2. \A i \in NextIndexes(list, FALSE) : i \in Int
      BY <1>0, <2>1, IndexesTyped
    <3> QED
      BY <1>1, <1>t, <2>1, <3>1, <3>2
  <2>2. CASE RecvNext /\ ~(Owner /\ Length(list) > 0)
    <3>1. pc' = [pc EXCEPT !["recv"] = "idle"] /\ pc["recv"] = "cb_next"
          /\ UNCHANGED <<handler, uuid, list, player, info>>
      BY <2>2 DEF RecvNext, Goto
    <3>2. Calm
      BY <1>0, <1>t, <3>1 DEF Calm, TypeCtl, TypeData
    <3> QED
      BY <3>2, CalmKeeps
  <2> QED
    BY <1>0, <1>5, <2>1, <2>2, CalmSteps, CalmKeeps DEF Recv, RecvStep
<1>6. CASE Misc
  BY <1>0, <1>6, <1>t, CalmSteps, CalmKeeps, StopKeeps DEF Misc, MiscStop
<1>7. CASE Player \/ UNCHANGED vars
  BY <1>0, <1>7, CalmSteps, CalmKeeps
<1> QED
  BY <1>2, <1>3, <1>4, <1>5, <1>6, <1>7 DEF Next

-----------------------------------------------------------------------------
LEMMA InitInv == Init => IInv
<1> SUFFICES ASSUME Init
             PROVE  IInv
  OBVIOUS
<1> USE DEF Init
<1>1. TypeCtl
  BY DEF TypeCtl, Threads, Places, Statuses, Domains
<1>2. TypeBounds
  BY BoundAssumption DEF TypeBounds
<1>3. TypeData
  <2>1. snapshots \in Seq(SnapType)
    OBVIOUS
  <2> QED
    BY <2>1, EmptyTyped DEF TypeData, Statuses
<1>4. LockHeld
  BY ThreadAssumption DEF LockHeld, Threads, Critical
<1>5. Chosen
  BY DEF Chosen
<1>6. Silence
  BY SongAssumption DEF Silence, Sounding, Threads
<1> QED
  BY <1>1, <1>2, <1>3, <1>4, <1>5, <1>6 DEF IInv

LEMMA StepInv == IInv /\ [Next]_vars => IInv'
<1> SUFFICES ASSUME IInv, [Next]_vars
             PROVE  IInv'
  OBVIOUS
<1>1. TypeCtl' /\ TypeBounds' /\ TypeData' /\ LockHeld'
  BY CtlStep, BoundsStep, DataStep, LockStep DEF IInv
<1>2. Chosen' /\ Silence'
  BY OwnershipStep
<1> QED
  BY <1>1, <1>2 DEF IInv

THEOREM Inductive == Spec => []IInv
  BY InitInv, StepInv, PTL DEF Spec

(* Every step of every thread leaves the player's state well typed, for any *)
(* number of callers and songs (mozart_musicplayer.c).                      *)
THEOREM TypeCorrect == Spec => []TypeOK
<1>1. IInv => TypeOK
  BY TypeSplit DEF IInv
<1> QED
  BY <1>1, Inductive, PTL

(* The mutex is given back once on every path and never lost by a wait.     *)
THEOREM MutexHeld == Spec => []LockHeld
<1>1. IInv => LockHeld
  BY DEF IInv
<1> QED
  BY <1>1, Inductive, PTL

(* Neither the callers nor the report thread can change the list or its     *)
(* current song while a thread waits for the answer to its play event.      *)
THEOREM ChosenSong == Spec => []ChosenIsCurrent
<1>1. IInv => ChosenIsCurrent
  BY DEF IInv, Chosen, ChosenIsCurrent
<1> QED
  BY <1>1, Inductive, PTL

(* A player nobody owns is silent and has an empty list.                    *)
THEOREM QuietWhenReleased == Spec => []ReleasedIsQuiet
<1>1. IInv => ReleasedIsQuiet
  BY DEF IInv, Silence, ReleasedIsQuiet
<1> QED
  BY <1>1, Inductive, PTL

-----------------------------------------------------------------------------
(* The refinement.  The index may leave the list by one place only, so that *)
(* what the previous and the next song of it are is well defined.           *)
IndexBound == list.current_index <= Length(list)

LEMMA DeleteBound ==
    ASSUME NEW l \in ListType, NEW i \in 0 .. Length(l) - 1,
           l.current_index <= Length(l)
    PROVE  DeleteIndex(l, i).current_index <= Length(DeleteIndex(l, i))
<1> DEFINE a == SubSeq(l.songs, 1, i)
           b == SubSeq(l.songs, i + 2, Len(l.songs))
           r == RemoveAt(l.songs, i + 1)
           c == IF i < l.current_index THEN l.current_index - 1 ELSE l.current_index
<1>1. l.songs \in Seq(Songs) /\ Len(l.songs) \in Nat /\ c \in Int
      /\ l.current_index \in Int /\ i \in Nat /\ i < Len(l.songs)
  BY DEF ListType, Length
<1>2. a \in Seq(Songs) /\ Len(a) = i /\ b \in Seq(Songs) /\ Len(b) = Len(l.songs) - i - 1
  BY <1>1
<1>3. r = a \o b
  <2>1. (i + 1) - 1 = i /\ (i + 1) + 1 = i + 2
    BY <1>1
  <2> QED
    BY <2>1 DEF RemoveAt
<1>4. Len(a \o b) = Len(a) + Len(b)
  BY <1>2, ConcatProperties
<1>5. c <= Len(r)
  <2>1. c <= Len(l.songs) - 1
    BY <1>1 DEF Length
  <2> HIDE DEF a, b, r, c
  <2>2. Len(r) = Len(l.songs) - 1
    BY <1>1, <1>2, <1>3, <1>4
  <2> QED
    BY <2>1, <2>2
<1>6. DeleteIndex(l, i) = [l EXCEPT !.songs = r, !.current_index = c]
  BY DEF DeleteIndex
<1> HIDE DEF a, b, r, c
<1> QED
  BY <1>1, <1>5, <1>6 DEF Length, ListType

LEMMA InsertBound ==
    ASSUME NEW l \in ListType, NEW s \in Songs, l.current_index <= Length(l)
    PROVE  Insert(l, s).current_index <= Length(Insert(l, s))
<1> DEFINE a == Append(l.songs, s)
           c == IF l.current_index < 0 THEN 0 ELSE l.current_index
<1>1. ~Full(l)
  BY DEF Full, ListType
<1>2. Insert(l, s) = [l EXCEPT !.songs = a, !.current_index = c]
  BY <1>1 DEF Insert, Refuses, Evicted
<1>3. a \in Seq(Songs) /\ Len(a) = Len(l.songs) + 1 /\ Len(l.songs) \in Nat
      /\ l.current_index \in Int
  BY AppendProperties DEF ListType
<1>4. c <= Len(a)
  BY <1>3 DEF Length
<1> HIDE DEF a, c
<1> QED
  BY <1>2, <1>4 DEF Length, ListType

LEMMA IndexesInside ==
    ASSUME NEW l \in ListType, Length(l) > 0, l.current_index <= Length(l)
    PROVE  /\ PrevIndexes(l) \subseteq 0 .. Length(l) - 1
           /\ NextIndexes(l, TRUE) \subseteq 0 .. Length(l) - 1
           /\ NextIndexes(l, FALSE) \subseteq (0 .. Length(l) - 1) \cup {l.current_index}
<1> DEFINE n == Length(l)
           x == l.current_index
<1>1. x \in Int /\ n \in Nat /\ n > 0 /\ x <= n
  BY DEF ListType, Length
<1>2. (x + 1) % n \in 0 .. n - 1
  BY <1>1
<1> HIDE DEF n
<1> QED
  BY <1>1, <1>2 DEF PrevIndexes, NextIndexes, n

LEMMA BoundStep ==
    ASSUME IInv, IndexBound, [Next]_vars
    PROVE  IndexBound'
<1>0. list \in ListType /\ EmptyList.current_index <= Length(EmptyList)
  BY DEF IInv, TypeData, EmptyList, Length
<1>1. ASSUME UNCHANGED list \/ list' = EmptyList
      PROVE  IndexBound'
  BY <1>0, <1>1 DEF IndexBound
<1>2. ASSUME NEW t, Length(list) > 0,
             NEW i \in (0 .. Length(list) - 1) \cup {list.current_index},
             BeginPlay(t, i)
      PROVE  IndexBound'
  <2>1. i <= Length(list) /\ list' = [list EXCEPT !.current_index = i]
    BY <1>0, <1>2 DEF IndexBound, BeginPlay, SetCurrent, ListType, Length
  <2> QED
    BY <1>0, <2>1 DEF IndexBound, ListType, Length
<1>3. ASSUME NEW c \in Callers, CallerStep(c)
      PROVE  IndexBound'
  <2>1. CASE Start(c) \/ CleanList(c) \/ PlayPause(c) \/ StopPlayback(c)
             \/ Stop(c) \/ Startup(c) \/ Shutdown(c)
    BY <1>1, <2>1 DEF Start, CleanList, Edit, PlayPause, StopPlayback, Stop,
                      StopBody, Released, Startup, Shutdown
  <2>2. ASSUME NEW s \in Songs, InsertSong(c, s)
        PROVE  IndexBound'
    BY <1>0, <2>2, InsertBound DEF InsertSong, Edit, IndexBound
  <2>3. ASSUME NEW i \in 0 .. Length(list) - 1, DeleteSong(c, i)
        PROVE  IndexBound'
    BY <1>0, <2>3, DeleteBound DEF DeleteSong, Edit, IndexBound
  <2>4. ASSUME NEW k \in Modes, SetPlayMode(c, k)
        PROVE  IndexBound'
    BY <1>0, <2>4 DEF SetPlayMode, Edit, IndexBound, ListType, Length
  <2>5. CASE PrevMusic(c)
    BY <1>0, <1>2, <2>5, IndexesInside DEF PrevMusic, IndexBound
  <2>6. CASE NextMusic(c)
    BY <1>0, <1>2, <2>6, IndexesInside DEF NextMusic, IndexBound
  <2>7. ASSUME NEW i \in 0 .. Length(list) - 1, PlayIndex(c, i)
        PROVE  IndexBound'
    <3>1. Length(list) > 0
      BY <1>0 DEF Length, ListType
    <3> QED
      BY <1>2, <2>7, <3>1 DEF PlayIndex
  <2> QED
    BY <1>3, <2>1, <2>2, <2>3, <2>4, <2>5, <2>6, <2>7 DEF CallerStep
<1>4. ASSUME \/ \E c \in Callers : Continue(c)
             \/ \E t \in Threads : Hold(t)
             \/ RecvStep
             \/ Misc \/ Player \/ UNCHANGED vars
      PROVE  IndexBound'
  <2>1. (\E c \in Callers : Continue(c)) => UNCHANGED list \/ list' = EmptyList
    BY DEF Continue, Toggle, StopCommand, StopWaited, ShutdownHalt, ShutdownWaited,
           ShutdownDone
  <2>2. (\E t \in Threads : Hold(t)) => UNCHANGED list \/ list' = EmptyList
    BY DEF Hold, PollDone, PollGivesUp, Played, ReleaseHalt, Halt, ReleaseWaited, Waited,
           Released
  <2>3. RecvStep => UNCHANGED list
    BY DEF RecvStep, RecvTake, RecvOther, RecvDomain, RecvUnknown, RecvAuto,
           RecvNotify, RecvExit
  <2>4. Misc => UNCHANGED list \/ list' = EmptyList
    BY DEF Misc, MiscTake, MiscStop, MiscRespond, StopBody, Released
  <2>5. Player \/ UNCHANGED vars => UNCHANGED list
    BY DEF Player, SongBegins, SongEnds, OtherTakes, SongFails, Daemon, vars
  <2> QED
    BY <1>1, <1>4, <2>1, <2>2, <2>3, <2>4, <2>5
<1>5. CASE RecvNext
  <2>1. CASE Owner /\ Length(list) > 0
    <3>1. \E i \in NextIndexes(list, FALSE) : BeginPlay("recv", i)
      <4>1. ~(~Owner \/ Length(list) = 0)
        BY <1>0, <2>1
      <4> QED
        BY <1>5, <4>1, Zenon DEF RecvNext
    <3> QED
      BY <1>0, <1>2, <2>1, <3>1, IndexesInside DEF IndexBound
  <2>2. CASE ~(Owner /\ Length(list) > 0)
    BY <1>1, <1>5, <2>2 DEF RecvNext
  <2> QED
    BY <2>1, <2>2
<1> QED
  BY <1>3, <1>4, <1>5 DEF Next, Recv, RecvStep

(* How the steps of the player look from outside.                           *)
Shown == IF Owner THEN list ELSE EmptyList
Heard == IF Sounding THEN player.song ELSE NULL
Outside == [Service!Next]_Service!vars

\* The list operations of the service are those of the player.
LEMMA SameOps ==
    /\ Service!EmptyList = EmptyList /\ Service!Modes = Modes
    /\ \A l : Service!Length(l) = Length(l)
    /\ \A l : Service!GetCurrent(l) = GetCurrent(l)
    /\ \A l, i : Service!SetCurrent(l, i) = SetCurrent(l, i)
    /\ \A l, i : Service!DeleteIndex(l, i) = DeleteIndex(l, i)
    /\ \A l, s : Service!Insert(l, s) = Insert(l, s)
<1>1. /\ Service!EmptyList = EmptyList /\ Service!Modes = Modes
      /\ \A l : Service!Length(l) = Length(l)
      /\ \A l, i : Service!GetElement(l, i) = GetElement(l, i)
      /\ \A l, i : Service!SetCurrent(l, i) = SetCurrent(l, i)
      /\ \A l : Service!Full(l) = Full(l)
  BY DEF Service!EmptyList, EmptyList, Service!Modes, Modes, Service!Length,
         Length, Service!GetElement, GetElement, Service!SetCurrent, SetCurrent,
         Service!Full, Full
<1>2. /\ \A l : Service!GetCurrent(l) = GetCurrent(l)
      /\ \A l, i : Service!DeleteIndex(l, i) = DeleteIndex(l, i)
      /\ \A l : Service!Refuses(l) = Refuses(l)
  BY <1>1 DEF Service!GetCurrent, GetCurrent, Service!DeleteIndex, DeleteIndex,
              Service!RemoveAt, RemoveAt, Service!Refuses, Refuses
<1>3. \A l : Service!Evicted(l) = Evicted(l)
  BY <1>1, <1>2 DEF Service!Evicted, Evicted
<1> QED
  BY <1>1, <1>2, <1>3 DEF Service!Insert, Insert

\* The ownership and the list stay; music may end.
LEMMA MapQuiet ==
    ASSUME UNCHANGED <<handler, uuid, list>>,
           player'.song \in {player.song, NULL, FOREIGN}
    PROVE  Outside
<1>1. Owner' = Owner /\ Shown' = Shown
  BY DEF Owner, Shown
<1>2. Heard' = Heard \/ Heard' = NULL
  BY SongAssumption DEF Heard, Sounding
<1> QED
  BY <1>1, <1>2 DEF Outside, Service!Next, Service!vars, Service!Silence, Shown, Heard

\* Nobody owns the player before or after, and no music begins.
LEMMA MapIdle ==
    ASSUME ~Owner, ~Owner', player' = player \/ ~Sounding'
    PROVE  Outside
<1>1. Shown' = Shown
  BY DEF Shown
<1>2. Heard' = Heard \/ Heard' = NULL
  BY DEF Heard, Sounding
<1>3. Owner' = Owner
  BY DEF Owner
<1> QED
  BY <1>1, <1>2, <1>3 DEF Outside, Service!Next, Service!vars, Service!Silence, Shown, Heard

\* The owner lets go.
LEMMA MapRelease ==
    ASSUME Owner, ~Owner', ~Sounding'
    PROVE  Outside
<1>1. Shown' = EmptyList /\ Heard' = NULL /\ Owner' = FALSE
  BY DEF Shown, Heard, Owner
<1>2. Service!Release
  BY <1>1, SameOps DEF Service!Release, Shown, Heard
<1> QED
  BY <1>2 DEF Outside, Service!Next

\* The owner chooses a song, which may begin at once.
LEMMA MapPlay ==
    ASSUME IInv, Owner, NEW t \in Threads, Length(list) > 0,
           NEW i \in (0 .. Length(list) - 1) \cup {list.current_index},
           BeginPlay(t, i)
    PROVE  Outside
<1> DEFINE s == GetCurrent(list')
<1>0. list \in ListType /\ list' = SetCurrent(list, i)
  BY DEF IInv, TypeData, BeginPlay
<1>1. s \in Songs \cup {NULL}
  BY <1>0, SelectTyped, CurrentTyped DEF ListType
<1>2. Owner' /\ Owner' = Owner
  BY DEF BeginPlay, Owner
<1>3. Heard' = Heard \/ Heard' = s
  <2>1. player' = player \/ (s # NULL /\ PlayUrl(s))
    BY DEF BeginPlay, SendUrl
  <2> HIDE DEF s
  <2> QED
    BY <1>1, <2>1 DEF Heard, Sounding, PlayUrl
<1>4. Shown = list /\ Shown' = list'
  BY <1>2 DEF Shown
<1> HIDE DEF s
<1>5. CASE i \in 0 .. Length(list) - 1
  <2>1. \E k \in 0 .. Service!Length(Shown) - 1 : Shown' = Service!SetCurrent(Shown, k)
    BY <1>0, <1>4, <1>5, SameOps
  <2>2. Heard' \in {Heard, Service!GetCurrent(Shown')}
    BY <1>3, <1>4, SameOps DEF s
  <2>3. Service!Choose
    BY <1>2, <2>1, <2>2 DEF Service!Choose, Shown, Heard
  <2> QED
    BY <2>3 DEF Outside, Service!Next
<1>6. CASE i = list.current_index
  <2>1. list' = list
    BY <1>0, <1>6 DEF SetCurrent, ListType
  <2>2. Heard' = Heard \/ Heard' = Service!GetCurrent(Shown)
    BY <1>3, <1>4, <2>1, SameOps DEF s
  <2>3. Shown' = Shown
    BY <1>4, <2>1
  <2> QED
    BY <1>2, <2>2, <2>3
       DEF Outside, Service!Next, Service!Play, Service!vars, Shown, Heard
<1> QED
  BY <1>5, <1>6

\* The owner edits the list.
LEMMA MapEdit ==
    ASSUME IInv, NEW c \in Callers,
           \/ CleanList(c)
           \/ \E s \in Songs : InsertSong(c, s)
           \/ \E i \in 0 .. Length(list) - 1 : DeleteSong(c, i)
           \/ \E k \in Modes : SetPlayMode(c, k)
    PROVE  Outside
<1>1. Owner /\ UNCHANGED <<handler, uuid, player>>
  BY DEF CleanList, InsertSong, DeleteSong, SetPlayMode, Edit
<1>2. Owner' = Owner /\ Heard' = Heard /\ Shown = list /\ Shown' = list'
  BY <1>1 DEF Owner, Shown, Heard, Sounding
<1>3. \/ \E s \in Songs : list' = Insert(list, s)
      \/ \E i \in 0 .. Length(list) - 1 : list' = DeleteIndex(list, i)
      \/ \E k \in Modes : list' = [list EXCEPT !.mode = k]
      \/ list' = EmptyList
  BY DEF CleanList, InsertSong, DeleteSong, SetPlayMode, Edit
<1>4. \/ \E s \in Songs : Shown' = Service!Insert(Shown, s)
      \/ \E i \in 0 .. Service!Length(Shown) - 1 : Shown' = Service!DeleteIndex(Shown, i)
      \/ \E k \in Service!Modes : Shown' = [Shown EXCEPT !.mode = k]
      \/ Shown' = Service!EmptyList
  BY <1>2, <1>3, SameOps
<1>5. Service!EditOf(Shown')
  BY <1>4 DEF Service!EditOf, Shown
<1>6. Service!Edit
  BY <1>1, <1>2, <1>5 DEF Service!Edit, Shown, Heard
<1> QED
  BY <1>6 DEF Outside, Service!Next

\* A caller takes the player, which is quiet and has an empty list.
LEMMA MapTake ==
    ASSUME IInv, NEW c \in Callers, Start(c)
    PROVE  Outside
<1>1. ~Owner /\ Owner' = TRUE /\ UNCHANGED <<list, player>>
  BY DEF Start, Locked, Owner
<1>2. list = EmptyList
  <2>1. \A d \in Callers : pc[d] # "shut_join"
    BY ThreadAssumption DEF IInv, LockHeld, Threads, Critical, Start, Locked
  <2> QED
    BY <2>1 DEF IInv, Silence, Start
<1>3. Shown' = Shown /\ Heard' = Heard
  BY <1>1, <1>2 DEF Shown, Heard, Sounding
<1>4. Service!Take
  BY <1>1, <1>3 DEF Service!Take, Shown, Heard
<1> QED
  BY <1>4 DEF Outside, Service!Next

\* Giving the player up, at once or after a wait; "stop" can be sent.
LEMMA MapStop ==
    ASSUME IInv, IInv', "stop" \notin Fails, NEW t \in Threads,
           \/ StopBody(t) \/ ReleaseHalt(t) \/ ReleaseWaited(t)
           \/ t \in Callers /\ (\/ Shutdown(t) \/ ShutdownHalt(t)
                              \/ ShutdownWaited(t) \/ ShutdownDone(t))
    PROVE  Outside
<1>0. TypeCtl /\ TypeData /\ Silence /\ Silence' /\ (uuid # "invalid" => Owner)
  BY DEF IInv, Silence, TypeCtl, Owner
<1>1. CASE ~Owner
  <2>0. uuid = "invalid"
    BY <1>0, <1>1
  <2>1. ~ReleaseHalt(t) /\ ~(t \in Callers /\ ShutdownHalt(t))
    BY <1>0, <2>0 DEF ReleaseHalt, ShutdownHalt, Silence
  <2>2. player' = player /\ uuid' = "invalid"
    BY <2>0, <2>1, <1>1 DEF StopBody, Released, ReleaseWaited, Waited, Shutdown,
                       ShutdownWaited, ShutdownDone, Joining
  <2>3. ~Owner'
    BY <2>2 DEF Owner
  <2> QED
    BY <1>1, <2>2, <2>3, MapIdle
<1>2. CASE Owner /\ ~Owner'
  <2>1. uuid' = "invalid"
    BY <1>0, <1>2 DEF Owner, StopBody, Released, ReleaseHalt, ReleaseWaited, Halt,
                      Waited, Shutdown, ShutdownHalt, ShutdownWaited, ShutdownDone,
                      Joining, Silence
  <2>2. ~Sounding'
    BY <1>0, <2>1 DEF Silence
  <2> QED
    BY <1>2, <2>2, MapRelease
<1>3. CASE Owner /\ Owner'
  <2>0. uuid' # "invalid" /\ uuid # "invalid" /\ handler' = handler
    BY <1>3 DEF Owner
  <2>1. \/ StopBody(t) \/ ReleaseHalt(t)
        \/ t \in Callers /\ (Shutdown(t) \/ ShutdownHalt(t))
    BY <1>0, <2>0 DEF Released, ReleaseWaited, Waited, ShutdownWaited,
                      ShutdownDone, Joining, Silence
  <2>4. uuid' = uuid
    BY <2>0, <2>1 DEF StopBody, ReleaseHalt, Halt, Released, Shutdown, ShutdownHalt,
                      Joining
  <2>2. list' = list
    BY <2>0, <2>1 DEF StopBody, ReleaseHalt, Halt, Released, Shutdown, ShutdownHalt
  <2>3. player' = player \/ player'.song = NULL
    BY <1>0, <2>1, CalmCommands DEF StopBody, Shutdown, ReleaseHalt, ShutdownHalt, Halt,
                                    TypeData
  <2> QED
    BY <2>0, <2>2, <2>3, <2>4, MapQuiet
<1> QED
  BY <1>1, <1>2, <1>3

\* The song that was announced begins.
LEMMA MapPoll ==
    ASSUME IInv, NEW t \in Threads, PollDone(t)
    PROVE  Outside
<1>1. Owner /\ info[t] \in Songs /\ info[t] = GetCurrent(list)
      /\ UNCHANGED <<handler, uuid, list>>
  BY DEF IInv, Chosen, PollDone
<1>2. Owner' = Owner /\ Shown' = Shown /\ Shown = list
  BY <1>1 DEF Owner, Shown
<1>3. Heard' = Heard \/ Heard' = Service!GetCurrent(Shown)
  BY <1>1, <1>2, SameOps DEF PollDone, SendUrl, PlayUrl, Heard, Sounding
<1> QED
  BY <1>1, <1>2, <1>3
     DEF Outside, Service!Next, Service!Play, Service!vars, Shown, Heard

LEMMA MapStep ==
    ASSUME IInv, IInv', IndexBound, "stop" \notin Fails, [Next]_vars
    PROVE  Outside
<1>0. TypeCtl /\ TypeData /\ LockHeld /\ list \in ListType
  BY DEF IInv, TypeData
<1>t. "recv" \in Threads /\ "misc" \in Threads /\ Callers \subseteq Threads
  BY DEF Threads
<1>1. ASSUME Calm
      PROVE  Outside
  BY <1>1, MapQuiet DEF Calm
<1>2. ASSUME NEW c \in Callers, CallerStep(c)
      PROVE  Outside
  <2>1. CASE \/ CleanList(c)
             \/ (\E s \in Songs : InsertSong(c, s))
             \/ (\E i \in 0 .. Length(list) - 1 : DeleteSong(c, i))
             \/ (\E k \in Modes : SetPlayMode(c, k))
    BY <2>1, MapEdit
  <2>2. CASE PrevMusic(c)
    BY <1>0, <1>t, <2>2, IndexesInside, MapPlay DEF PrevMusic, IndexBound
  <2>3. CASE NextMusic(c)
    BY <1>0, <1>t, <2>3, IndexesInside, MapPlay DEF NextMusic, IndexBound
  <2>4. ASSUME NEW i \in 0 .. Length(list) - 1, PlayIndex(c, i)
        PROVE  Outside
    <3>1. Length(list) > 0
      BY <1>0 DEF Length, ListType
    <3> QED
      BY <1>t, <2>4, <3>1, MapPlay DEF PlayIndex
  <2>5. CASE PlayPause(c) \/ StopPlayback(c)
    BY <1>0, <1>1, <2>5, CalmSteps
  <2>6. CASE Stop(c) \/ Shutdown(c)
    BY <1>t, <2>6, MapStop DEF Stop
  <2>7. CASE Startup(c)
    <3>1. uuid = "invalid" /\ uuid' = "invalid" /\ player' = player
      BY <2>7 DEF Startup, IInv, Silence
    <3> QED
      BY <3>1, MapIdle DEF Owner
  <2>8. CASE Start(c)
    BY <2>8, MapTake
  <2> QED
    BY <1>2, <2>1, <2>2, <2>3, <2>4, <2>5, <2>6, <2>7, <2>8 DEF CallerStep
<1>3. ASSUME NEW c \in Callers, Continue(c)
      PROVE  Outside
  BY <1>0, <1>1, <1>3, <1>t, CalmSteps, MapStop DEF Continue
<1>4. ASSUME NEW t \in Threads, Hold(t)
      PROVE  Outside
  BY <1>0, <1>1, <1>4, CalmSteps, MapStop, MapPoll DEF Hold
<1>5. CASE Recv
  <2>1. CASE RecvNext /\ Owner /\ Length(list) > 0
    <3>1. \E i \in NextIndexes(list, FALSE) : BeginPlay("recv", i)
      <4>1. ~(~Owner \/ Length(list) = 0)
        BY <1>0, <2>1
      <4> QED
        BY <2>1, <4>1, Zenon DEF RecvNext
    <3> QED
      BY <1>0, <1>t, <2>1, <3>1, IndexesInside, MapPlay DEF IndexBound
  <2>2. CASE RecvNext /\ ~(Owner /\ Length(list) > 0)
    BY <2>2, MapQuiet DEF RecvNext
  <2> QED
    BY <1>0, <1>1, <1>5, <2>1, <2>2, CalmSteps DEF Recv, RecvStep
<1>6. CASE Misc
  BY <1>0, <1>1, <1>6, <1>t, CalmSteps, MapStop DEF Misc, MiscStop
<1>7. CASE Player \/ UNCHANGED vars
  BY <1>0, <1>1, <1>7, CalmSteps
<1> QED
  BY <1>2, <1>3, <1>4, <1>5, <1>6, <1>7 DEF Next

LEMMA MapInit == Init => Service!Init
<1> SUFFICES ASSUME Init
             PROVE  Service!Init
  OBVIOUS
<1>1. ~Owner /\ ~Sounding
  BY SongAssumption DEF Init, Owner, Sounding
<1> QED
  BY <1>1, SameOps DEF Service!Init

(* Unless the stop command itself cannot be sent, the threads, the mutex,   *)
(* the events and the reports together are a player with one owner: music   *)
(* begins only as the current song of the owner's list, and letting go of   *)
(* the player silences it (mozart_musicplayer.c).                           *)
THEOREM Implements ==
    ASSUME "stop" \notin Fails
    PROVE  Spec => ServiceSpec
<1>1. Init => IndexBound
  BY DEF Init, IndexBound, EmptyList, Length
<1>2. IInv /\ IndexBound /\ [Next]_vars => IndexBound'
  BY BoundStep
<1>3. IInv /\ IInv' /\ IndexBound /\ [Next]_vars => [Service!Next]_Service!vars
  BY MapStep DEF Outside
<1> QED
  BY <1>1, <1>2, <1>3, Inductive, MapInit, PTL DEF Spec, ServiceSpec, Service!Spec

-----------------------------------------------------------------------------
(* The answer.  Without a shutdown the only way to lose the player is a     *)
(* stop, which forgets the answer before it waits for the daemon; and while *)
(* it waits it has the mutex, so no other thread can be waiting for an      *)
(* answer that would set it again.                                          *)
Shutting == {"shut_halt", "shut_wait", "shut_join"}
AnswerInv ==
    "shutdown" \notin Ops =>
        /\ handler /\ \A t \in Threads : pc[t] \notin Shutting
        /\ \A t \in Threads : pc[t] \in {"stop_halt", "stop_wait"} => in_musicplayer = 0
        /\ in_musicplayer = 1 => uuid = "musicplayer"

\* Nobody begins to wait, and the answer and the ownership stay.
Kept ==
    /\ UNCHANGED <<handler, uuid, in_musicplayer>>
    /\ \A t \in Threads : pc'[t] \in {"stop_halt", "stop_wait", "shut_halt", "shut_wait", "shut_join"}
                              => pc'[t] = pc[t]

LEMMA KeptSteps ==
    ASSUME TypeCtl
    PROVE  /\ \A t \in Threads : \A i : BeginPlay(t, i) => Kept
           /\ \A c \in Callers : \A op, l : Edit(c, op, l) => Kept
           /\ \A c \in Callers : PlayPause(c) \/ StopPlayback(c)
                 \/ Toggle(c) \/ StopCommand(c) \/ StopWaited(c) => Kept
           /\ \A t \in Threads : PollGivesUp(t) \/ Played(t) => Kept
           /\ RecvStep => Kept
           /\ MiscTake \/ MiscRespond \/ Player \/ UNCHANGED vars => Kept
<1> USE DEF TypeCtl, Kept, Goto
<1>t. "recv" \in Threads /\ "misc" \in Threads /\ Callers \subseteq Threads
  BY DEF Threads
<1>1. ASSUME NEW t \in Threads, NEW i, BeginPlay(t, i)
      PROVE  Kept
  BY <1>1 DEF BeginPlay, SendUrl
<1>2. ASSUME NEW c \in Callers, NEW op, NEW l, Edit(c, op, l)
      PROVE  Kept
  BY <1>2 DEF Edit
<1>3. ASSUME NEW c \in Callers,
             \/ PlayPause(c) \/ StopPlayback(c)
             \/ Toggle(c) \/ StopCommand(c) \/ StopWaited(c)
      PROVE  Kept
  BY <1>3, <1>t DEF PlayPause, StopPlayback, StopCommand, Halt, Toggle, StopWaited, Waited
<1>4. ASSUME NEW t \in Threads, PollGivesUp(t) \/ Played(t)
      PROVE  Kept
  BY <1>4 DEF PollGivesUp, Played
<1>5. ASSUME RecvStep
      PROVE  Kept
  BY <1>5, <1>t DEF RecvStep, RecvTake, RecvOther, RecvDomain, RecvUnknown, RecvAuto,
           RecvNotify, RecvExit
<1>6. ASSUME MiscTake \/ MiscRespond \/ Player \/ UNCHANGED vars
      PROVE  Kept
  BY <1>6, <1>t DEF MiscTake, MiscRespond, Player, SongBegins, SongEnds, OtherTakes,
                    SongFails, Daemon, Locals, vars
<1> QED
  BY <1>1, <1>2, <1>3, <1>4, <1>5, <1>6

LEMMA AnswerStep == IInv /\ AnswerInv /\ [Next]_vars => AnswerInv'
<1> SUFFICES ASSUME IInv, AnswerInv, [Next]_vars, "shutdown" \notin Ops
             PROVE  /\ handler' /\ \A t \in Threads : pc'[t] \notin Shutting
                    /\ \A t \in Threads : pc'[t] \in {"stop_halt", "stop_wait"} => in_musicplayer' = 0
                    /\ in_musicplayer' = 1 => uuid' = "musicplayer"
  BY DEF AnswerInv
<1> DEFINE Goal == /\ handler' /\ \A t \in Threads : pc'[t] \notin Shutting
                   /\ \A t \in Threads : pc'[t] \in {"stop_halt", "stop_wait"} => in_musicplayer' = 0
                   /\ in_musicplayer' = 1 => uuid' = "musicplayer"
<1>0. /\ handler /\ \A t \in Threads : pc[t] \notin Shutting
      /\ \A t \in Threads : pc[t] \in {"stop_halt", "stop_wait"} => in_musicplayer = 0
      /\ in_musicplayer = 1 => uuid = "musicplayer"
      /\ TypeCtl /\ LockHeld /\ Chosen
  BY DEF AnswerInv, IInv
<1>t. "recv" \in Threads /\ "misc" \in Threads /\ Callers \subseteq Threads
  BY DEF Threads
<1>1. Kept => Goal
  BY <1>0 DEF Kept, Shutting
<1>2. ASSUME NEW t \in Threads, StopBody(t)
      PROVE  Goal
  <2>1. in_musicplayer' = 0 /\ handler' = handler
    BY <1>2 DEF StopBody, ForgetAnswer
  <2>2. \A r \in Threads : pc'[r] \in Shutting => pc'[r] = pc[r]
    BY <1>0, <1>2 DEF StopBody, Released, AfterStop, Goto, TypeCtl, Shutting
  <2> QED
    BY <1>0, <2>1, <2>2
<1>3. ASSUME NEW c \in Callers, Start(c)
      PROVE  Goal
  BY <1>0, <1>3 DEF Start
<1>4. ASSUME NEW c \in Callers, Startup(c) \/ Shutdown(c) \/ ShutdownHalt(c)
                                \/ ShutdownWaited(c) \/ ShutdownDone(c)
      PROVE  Goal
  BY <1>0, <1>4, <1>t DEF Startup, Shutdown, Locked, Call, ShutdownHalt, ShutdownWaited,
                          ShutdownDone, Shutting
<1>5. ASSUME NEW t \in Threads, PollDone(t)
      PROVE  Goal
  <2>1. uuid = "musicplayer" /\ UNCHANGED <<handler, uuid>> /\ pc[t] = "poll"
    BY <1>0, <1>5 DEF PollDone, Chosen, Owner
  <2>2. mutex = t
    BY <1>0, <2>1 DEF LockHeld, Critical
  <2>3. \A r \in Threads : pc'[r] \notin {"stop_halt", "stop_wait"}
    BY <1>0, <1>5, <2>2 DEF PollDone, SendUrl, Goto, LockHeld, Critical, TypeCtl
  <2>4. \A r \in Threads : pc'[r] \in Shutting => pc'[r] = pc[r]
    BY <1>0, <1>5 DEF PollDone, SendUrl, Goto, TypeCtl, Shutting
  <2> QED
    BY <1>0, <2>1, <2>3, <2>4
<1>6. ASSUME NEW t \in Threads, ReleaseHalt(t) \/ ReleaseWaited(t)
      PROVE  Goal
  <2>1. in_musicplayer = 0 /\ UNCHANGED <<handler, in_musicplayer>>
    BY <1>0, <1>6 DEF ReleaseHalt, ReleaseWaited
  <2>2. \A r \in Threads : pc'[r] \in Shutting => pc'[r] = pc[r]
    BY <1>0, <1>6 DEF ReleaseHalt, Halt, ReleaseWaited, Waited, Released, AfterStop, Goto,
                      TypeCtl, Shutting
  <2> QED
    BY <1>0, <2>1, <2>2
<1>7. CASE RecvNext
  <2>1. CASE \E i : BeginPlay("recv", i)
    BY <1>0, <1>1, <1>t, <2>1, KeptSteps
  <2>2. CASE ~(\E i : BeginPlay("recv", i))
    <3>1. Goto("recv", "idle") /\ UNCHANGED <<handler, uuid, in_musicplayer>>
      BY <1>7, <2>2 DEF RecvNext
    <3> QED
      BY <1>0, <1>1, <3>1 DEF Kept, Goto, TypeCtl
  <2> QED
    BY <2>1, <2>2
<1>8. ASSUME NEW c \in Callers, CallerStep(c)
      PROVE  Goal
  <2>1. CASE Stop(c)
    BY <1>2, <1>t, <2>1 DEF Stop
  <2>2. CASE Start(c) \/ Startup(c) \/ Shutdown(c)
    BY <1>3, <1>4, <2>2
  <2>3. CASE \/ PrevMusic(c) \/ NextMusic(c)
             \/ (\E i \in 0 .. Length(list) - 1 : PlayIndex(c, i))
    <3>1. \E i : BeginPlay(c, i)
      BY <2>3 DEF PrevMusic, NextMusic, PlayIndex
    <3> QED
      BY <1>0, <1>1, <1>t, <3>1, KeptSteps
  <2>4. CASE \/ CleanList(c) \/ (\E s \in Songs : InsertSong(c, s))
             \/ (\E i \in 0 .. Length(list) - 1 : DeleteSong(c, i))
             \/ (\E m \in Modes : SetPlayMode(c, m))
    <3>1. \E op, l : Edit(c, op, l)
      BY <2>4 DEF CleanList, InsertSong, DeleteSong, SetPlayMode
    <3> QED
      BY <1>0, <1>1, <3>1, KeptSteps
  <2>5. CASE PlayPause(c) \/ StopPlayback(c)
    BY <1>0, <1>1, <2>5, KeptSteps
  <2> QED
    BY <1>8, <2>1, <2>2, <2>3, <2>4, <2>5 DEF CallerStep
<1>9. ASSUME \/ \E c \in Callers : Continue(c)
             \/ \E t \in Threads : Hold(t)
             \/ Recv \/ Misc \/ Player \/ UNCHANGED vars
      PROVE  Goal
  <2>1. (\E c \in Callers : Continue(c)) => Goal
    BY <1>0, <1>1, <1>4, KeptSteps DEF Continue
  <2>2. (\E t \in Threads : Hold(t)) => Goal
    BY <1>0, <1>1, <1>5, <1>6, KeptSteps DEF Hold
  <2>3. Recv => Goal
    BY <1>0, <1>1, <1>7, KeptSteps DEF Recv, RecvStep
  <2>4. Misc => Goal
    BY <1>0, <1>1, <1>2, <1>t, KeptSteps DEF Misc, MiscStop
  <2>5. Player \/ UNCHANGED vars => Goal
    BY <1>0, <1>1, KeptSteps
  <2> QED
    BY <1>9, <2>1, <2>2, <2>3, <2>4, <2>5
<1> QED
  BY <1>8, <1>9 DEF Next

(* Whoever owns the player with in_musicplayer set has been answered, as    *)
(* long as the player is never shut down (mozart_musicplayer.c:406, 851).   *)
THEOREM AnsweredOwnerHolds == Spec => []AnsweredOwner
<1>1. Init => AnswerInv
  BY DEF Init, AnswerInv, Shutting
<1>2. AnswerInv => AnsweredOwner
  BY DEF AnswerInv, AnsweredOwner
<1> QED
  BY <1>1, <1>2, AnswerStep, Inductive, PTL DEF Spec

-----------------------------------------------------------------------------
(* What the domain shows.  The domain follows the last report, and the last *)
(* report on the way, or under way in the callback, tells what the daemon   *)
(* does: the property of the quiet states is the last of the three cases.   *)
Active == {"TRANSPORT", "PLAYING", "PAUSED"}
DomainActive == domain \in {"PLAYING", "PAUSE"}
PlaysSong == player.status # "STOPPED" => player.song \in Songs \cup {FOREIGN}
ReportInv ==
    /\ handler /\ snapshots # <<>> =>
           (snapshots[Len(snapshots)].mine /\ snapshots[Len(snapshots)].status \in Active
                => Sounding)
    /\ handler /\ snapshots = <<>> /\ pc["recv"] = "cb" =>
           (seen["recv"] \in Active => Sounding)
    /\ handler /\ snapshots = <<>> /\ pc["recv"] \notin {"cb", "cb_unknown"}
           => (DomainActive => Sounding)
    /\ ~handler => ~DomainActive /\ pc["recv"] = "exited"
    /\ PlaysSong

(* A step that neither begins nor ends the callback and does not show the   *)
(* player active; if the daemon changes, it reports it as it is.            *)
Told(st, song) ==
    /\ Report(st, song)
    /\ st \in Active /\ song # FOREIGN => player'.song \in Songs

Tells ==
    /\ UNCHANGED <<player, snapshots>> \/ \E st, song : Told(st, song)
    /\ PlaysSong'

Steady ==
    /\ UNCHANGED handler
    /\ domain' = domain \/ domain' \notin {"PLAYING", "PAUSE"}
    /\ \/ pc'["recv"] = pc["recv"]
       \/ pc["recv"] \notin {"cb", "cb_unknown", "exited"}
          /\ pc'["recv"] \notin {"cb", "cb_unknown"}
    /\ seen'["recv"] = seen["recv"]
    /\ Tells

LEMMA SteadyKeeps ==
    ASSUME IInv, ReportInv, Steady
    PROVE  ReportInv'
<1>0. handler \in BOOLEAN /\ snapshots \in Seq(SnapType)
  BY DEF IInv, TypeCtl, TypeData
<1>1. CASE UNCHANGED <<player, snapshots>>
  BY <1>1 DEF ReportInv, Steady, Tells, DomainActive, Sounding, PlaysSong
<1>2. ASSUME NEW st, NEW song, Told(st, song)
      PROVE  ReportInv'
  <2>1. CASE handler
    <3> DEFINE r == [status |-> st, mine |-> song # FOREIGN]
    <3>1. snapshots' = Append(snapshots, r)
      BY <1>2, <2>1 DEF Told, Report
    <3> HIDE DEF r
    <3>2. Len(snapshots') = Len(snapshots) + 1 /\ snapshots'[Len(snapshots) + 1] = r
          /\ snapshots' # <<>>
      BY <1>0, <3>1
    <3>3. r.mine /\ r.status \in Active => player'.song \in Songs
      BY <1>2 DEF Told, r
    <3>4. snapshots'[Len(snapshots')] = r
      BY <3>2
    <3> QED
      BY <2>1, <3>2, <3>3, <3>4 DEF ReportInv, Steady, Tells, Sounding
  <2>2. CASE ~handler
    BY <2>2 DEF ReportInv, Steady, Tells, DomainActive
  <2> QED
    BY <2>1, <2>2
<1> QED
  BY <1>1, <1>2 DEF Steady, Tells

(* The commands: what each does to the daemon is what it reports.           *)
LEMMA CommandsTell ==
    ASSUME IInv, ReportInv
    PROVE  /\ UNCHANGED <<player, snapshots>> => Tells
           /\ StopCmd => Tells
           /\ \A s \in Songs : PlayUrl(s) => Tells
           /\ \A from, to \in {"PLAYING", "PAUSED"} : Switch(from, to) => Tells
<1>0. PlaysSong
  BY DEF ReportInv
<1>1. UNCHANGED <<player, snapshots>> => Tells
  BY <1>0 DEF PlaysSong, Tells
<1>2. ASSUME StopCmd, player.status # "STOPPED"
      PROVE  Tells
  <2>1. Told("STOPPED", player.song)
    BY <1>2 DEF StopCmd, Told, Active
  <2>2. PlaysSong'
    BY <1>2 DEF StopCmd, PlaysSong
  <2> QED
    BY <2>1, <2>2 DEF Tells
<1>3. ASSUME NEW s \in Songs, PlayUrl(s)
      PROVE  Tells
  <2>1. Told("TRANSPORT", s) /\ PlaysSong'
    BY <1>3 DEF PlayUrl, Told, PlaysSong
  <2> QED
    BY <2>1 DEF Tells
<1>4. ASSUME NEW from \in {"PLAYING", "PAUSED"}, NEW to \in {"PLAYING", "PAUSED"},
             Switch(from, to), player.status = from
      PROVE  Tells
  <2>1. /\ player.song \in Songs \cup {FOREIGN} /\ player'.song = player.song
        /\ Report(to, player.song)
    BY <1>0, <1>4 DEF Switch, PlaysSong, IInv, TypeData
  <2>2. Told(to, player.song) /\ PlaysSong'
    BY <2>1 DEF Told, PlaysSong
  <2> QED
    BY <2>2 DEF Tells
<1> QED
  BY <1>1, <1>2, <1>3, <1>4 DEF StopCmd, Switch

LEMMA PlaySteady ==
    ASSUME IInv, ReportInv, NEW t \in Threads, NEW i \in Int, BeginPlay(t, i),
           t = "recv" => pc[t] = "cb_next"
    PROVE  Steady
<1> DEFINE s == GetCurrent(list')
<1>0. TypeCtl /\ TypeData
  BY DEF IInv
<1>1. s \in Songs \cup {NULL}
  BY <1>0, SelectTyped, CurrentTyped DEF BeginPlay, TypeData
<1> HIDE DEF s
<1>2. UNCHANGED <<handler, seen>> /\ (domain' = domain \/ domain' = "WAIT_RESPONSE")
  BY DEF BeginPlay
<1>3. \/ pc'["recv"] = pc["recv"]
      \/ pc["recv"] \notin {"cb", "cb_unknown", "exited"}
         /\ pc'["recv"] \notin {"cb", "cb_unknown"}
  <2>1. \E place \in {"played", "idle", "poll"} : Goto(t, place)
    BY DEF BeginPlay, SendUrl
  <2> QED
    BY <1>0, <2>1 DEF Goto, TypeCtl, Threads
<1>4. UNCHANGED <<player, snapshots>> \/ (s \in Songs /\ PlayUrl(s))
  BY <1>1 DEF BeginPlay, SendUrl, s
<1> QED
  BY <1>2, <1>3, <1>4, CommandsTell DEF Steady, ReportInv

LEMMA SteadySteps ==
    ASSUME IInv, ReportInv
    PROVE  /\ \A t \in Threads : t # "recv" /\ StopBody(t) => Steady
           /\ \A c \in Callers : CallerStep(c) => Steady \/ Startup(c)
           /\ \A c \in Callers : Continue(c) => Steady \/ ShutdownDone(c)
           /\ \A t \in Threads : Hold(t) => Steady
           /\ Recv => Steady \/ RecvTake \/ RecvDomain \/ RecvUnknown
           /\ Misc \/ Player \/ UNCHANGED vars => Steady
<1>0. /\ TypeCtl /\ Chosen /\ list \in ListType
      /\ player \in [status : Statuses, song : Songs \cup {NULL, FOREIGN}]
      /\ PlaysSong
  BY DEF IInv, TypeData, ReportInv
<1>t. /\ "recv" \in Threads /\ "misc" \in Threads /\ Callers \subseteq Threads
      /\ "recv" \notin Callers /\ "recv" # "misc"
  BY ThreadAssumption DEF Threads
<1>p. ASSUME NEW t \in Threads, t # "recv", NEW place, Goto(t, place)
      PROVE  pc'["recv"] = pc["recv"]
  BY <1>0, <1>p, <1>t DEF Goto, TypeCtl
<1>1. ASSUME NEW t \in Threads, t # "recv", StopBody(t)
      PROVE  Steady
  <2>1. pc'["recv"] = pc["recv"]
    BY <1>1, <1>p DEF StopBody, Released
  <2>2. UNCHANGED <<handler, seen, domain, player, snapshots>>
    BY <1>1 DEF StopBody
  <2> QED
    BY <1>0, <2>1, <2>2, CommandsTell DEF Steady
<1>2. ASSUME NEW c \in Callers, CallerStep(c)
      PROVE  Steady \/ Startup(c)
  <2>1. CASE \/ PrevMusic(c) \/ NextMusic(c)
             \/ (\E i \in 0 .. Length(list) - 1 : PlayIndex(c, i))
    <3>1. PICK i \in Int : BeginPlay(c, i)
      <4>1. CASE PrevMusic(c)
        BY <1>0, <4>1, IndexesTyped DEF PrevMusic
      <4>2. CASE NextMusic(c)
        BY <1>0, <4>2, IndexesTyped DEF NextMusic
      <4>3. CASE \E i \in 0 .. Length(list) - 1 : PlayIndex(c, i)
        BY <4>3 DEF PlayIndex
      <4> QED
        BY <2>1, <4>1, <4>2, <4>3
    <3> QED
      BY <1>t, <3>1, PlaySteady
  <2>2. CASE \/ Start(c) \/ CleanList(c) \/ (\E s \in Songs : InsertSong(c, s))
             \/ (\E i \in 0 .. Length(list) - 1 : DeleteSong(c, i))
             \/ (\E m \in Modes : SetPlayMode(c, m))
    <3>1. UNCHANGED <<handler, domain, player, snapshots, pc, seen>>
      BY <2>2 DEF Start, CleanList, InsertSong, DeleteSong, SetPlayMode, Edit
    <3> QED
      BY <1>0, <3>1, CommandsTell DEF Steady
  <2>3. CASE PlayPause(c)
    <3>1. seen'["recv"] = seen["recv"]
      BY <1>0, <1>t, <2>3 DEF PlayPause, TypeCtl
    <3> QED
      BY <1>p, <1>t, <2>3, <3>1, CommandsTell DEF PlayPause, Steady
  <2>4. CASE StopPlayback(c) \/ Shutdown(c)
    <3>1. pc'["recv"] = pc["recv"]
      BY <1>p, <1>t, <2>4 DEF StopPlayback, Shutdown, Joining
    <3>2. UNCHANGED <<handler, seen, domain, player, snapshots>>
      BY <2>4 DEF StopPlayback, Shutdown
    <3> QED
      BY <1>0, <3>1, <3>2, CommandsTell DEF Steady
  <2>5. CASE Stop(c)
    BY <1>1, <1>t, <2>5 DEF Stop
  <2> QED
    BY <1>2, <2>1, <2>2, <2>3, <2>4, <2>5 DEF CallerStep
<1>3. ASSUME NEW c \in Callers, Continue(c)
      PROVE  Steady \/ ShutdownDone(c)
  <2>1. CASE Toggle(c)
    <3>1. pc'["recv"] = pc["recv"] /\ UNCHANGED <<handler, seen, domain>>
      BY <1>p, <1>t, <2>1 DEF Toggle
    <3>2. \/ UNCHANGED <<player, snapshots>>
          \/ Switch("PLAYING", "PAUSED") \/ Switch("PAUSED", "PLAYING")
      BY <2>1 DEF Toggle
    <3> QED
      BY <1>0, <3>1, <3>2, CommandsTell DEF Steady
  <2>2. CASE StopWaited(c) \/ ShutdownWaited(c)
    <3>1. pc'["recv"] = pc["recv"]
      BY <1>p, <1>t, <2>2 DEF StopWaited, ShutdownWaited, Waited, Joining
    <3>2. /\ UNCHANGED <<handler, seen, player, snapshots>>
          /\ domain' = domain \/ domain' = "RUNNING"
      BY <2>2 DEF StopWaited, ShutdownWaited, Waited
    <3> QED
      BY <1>0, <3>1, <3>2, CommandsTell DEF Steady
  <2>3. CASE StopCommand(c) \/ ShutdownHalt(c)
    <3>1. pc'["recv"] = pc["recv"]
      BY <1>p, <1>t, <2>3 DEF StopCommand, ShutdownHalt, Halt, Joining
    <3>2. /\ UNCHANGED <<handler, seen, domain>>
          /\ UNCHANGED <<player, snapshots>> \/ StopCmd
      BY <2>3 DEF StopCommand, ShutdownHalt, Halt
    <3> QED
      BY <1>0, <3>1, <3>2, CommandsTell DEF Steady
  <2> QED
    BY <1>3, <2>1, <2>2, <2>3 DEF Continue
<1>4. ASSUME NEW t \in Threads, Hold(t)
      PROVE  Steady
  <2>1. /\ pc[t] \in Critical /\ UNCHANGED <<handler, seen>>
        /\ domain' = domain \/ domain' = "RUNNING"
    BY <1>4 DEF Hold, PollDone, PollGivesUp, Played, ReleaseHalt, ReleaseWaited, Waited,
                Critical
  <2>2. \/ pc'["recv"] = pc["recv"]
        \/ pc["recv"] \notin {"cb", "cb_unknown", "exited"}
           /\ pc'["recv"] \notin {"cb", "cb_unknown"}
    BY <1>0, <1>4, <1>t, <2>1
       DEF Hold, PollDone, SendUrl, PollGivesUp, Played, ReleaseHalt, Halt, ReleaseWaited,
           Waited, Released, AfterStop, Goto, TypeCtl, Critical
  <2>3. \/ UNCHANGED <<player, snapshots>> \/ StopCmd
        \/ info[t] \in Songs /\ PlayUrl(info[t])
    BY <1>0, <1>4 DEF Hold, PollDone, SendUrl, PollGivesUp, Played, ReleaseHalt, Halt,
                      ReleaseWaited, Chosen
  <2> QED
    BY <1>0, <2>1, <2>2, <2>3, CommandsTell DEF Steady
<1>5. ASSUME Recv, ~RecvTake, ~RecvDomain, ~RecvUnknown
      PROVE  Steady
  <2>1. CASE RecvOther \/ RecvAuto \/ RecvNotify \/ RecvExit
    <3>1. pc["recv"] \notin {"cb", "cb_unknown", "exited"}
          /\ pc'["recv"] \notin {"cb", "cb_unknown"}
      BY <1>0, <1>t, <2>1 DEF RecvOther, RecvAuto, RecvNotify, RecvExit, Goto, TypeCtl
    <3>2. UNCHANGED <<handler, seen, domain, player, snapshots>>
      BY <2>1 DEF RecvOther, RecvAuto, RecvNotify, RecvExit
    <3> QED
      BY <1>0, <3>1, <3>2, CommandsTell DEF Steady
  <2>2. CASE RecvNext
    <3>1. CASE Owner /\ Length(list) > 0
      <4>1. ~(~Owner \/ Length(list) = 0)
        BY <1>0, <3>1
      <4>2. pc["recv"] = "cb_next" /\ \E i \in NextIndexes(list, FALSE) : BeginPlay("recv", i)
        BY <2>2, <4>1, Zenon DEF RecvNext
      <4> QED
        BY <1>0, <1>t, <3>1, <4>2, IndexesTyped, PlaySteady
    <3>2. CASE ~(Owner /\ Length(list) > 0)
      <4>1. /\ pc["recv"] = "cb_next" /\ Goto("recv", "idle")
            /\ UNCHANGED <<handler, seen, domain, player, snapshots>>
        BY <2>2, <3>2 DEF RecvNext
      <4>2. pc'["recv"] = "idle"
        BY <1>0, <1>t, <4>1 DEF Goto, TypeCtl
      <4> QED
        BY <1>0, <4>1, <4>2, CommandsTell DEF Steady
    <3> QED
      BY <3>1, <3>2
  <2> QED
    BY <1>5, <2>1, <2>2 DEF Recv
<1>6. ASSUME Misc
      PROVE  Steady
  <2>1. CASE MiscTake \/ MiscRespond
    <3>1. pc'["recv"] = pc["recv"]
      BY <1>p, <1>t, <2>1 DEF MiscTake, MiscRespond
    <3>2. /\ UNCHANGED <<handler, seen, player, snapshots>>
          /\ domain' = domain \/ domain' \in {"RESPONSE_DONE", "RESPONSE_CANCEL"}
      BY <2>1, AnswerAssumption DEF MiscTake, MiscRespond
    <3> QED
      BY <1>0, <3>1, <3>2, CommandsTell DEF Steady
  <2>2. CASE MiscStop
    BY <1>1, <1>t, <2>2 DEF MiscStop
  <2> QED
    BY <1>6, <2>1, <2>2 DEF Misc
<1>7. ASSUME Player
      PROVE  Steady
  <2>1. ASSUME NEW st \in Statuses, NEW song \in Songs \cup {FOREIGN}, Daemon(st, song)
        PROVE  Steady
    <3>1. PlaysSong'
      BY <2>1 DEF Daemon, PlaysSong
    <3>2. Told(st, song)
      BY <2>1 DEF Daemon, Told, Active
    <3> QED
      BY <2>1, <3>1, <3>2 DEF Daemon, Locals, Steady, Tells
  <2>2. player.status # "STOPPED" => player.song \in Songs \cup {FOREIGN}
    BY <1>0 DEF PlaysSong
  <2> QED
    BY <1>7, <2>1, <2>2 DEF Player, SongBegins, SongEnds, OtherTakes, SongFails, Statuses
<1>8. ASSUME UNCHANGED vars
      PROVE  Steady
  BY <1>8, CommandsTell DEF vars, Steady
<1> QED
  BY <1>1, <1>2, <1>3, <1>4, <1>5, <1>6, <1>7, <1>8

LEMMA ReportStep == IInv /\ ReportInv /\ [Next]_vars => ReportInv'
<1> SUFFICES ASSUME IInv, ReportInv, [Next]_vars
             PROVE  ReportInv'
  OBVIOUS
<1>0. TypeCtl /\ snapshots \in Seq(SnapType)
  BY DEF IInv, TypeData
<1>t. "recv" \in Threads /\ Callers \subseteq Threads /\ "recv" \notin Callers
  BY ThreadAssumption DEF Threads
<1>1. ASSUME NEW c \in Callers, Startup(c)
      PROVE  ReportInv'
  <2>1. ~handler /\ domain' = "RUNNING" /\ UNCHANGED player
    BY <1>1 DEF Startup
  <2>2. CASE handler' = TRUE /\ snapshots' = <<>> /\ Goto("recv", "idle")
    <3>1. pc'["recv"] = "idle"
      BY <1>0, <1>t, <2>2 DEF Goto, TypeCtl
    <3> QED
      BY <2>1, <2>2, <3>1 DEF ReportInv, DomainActive, PlaysSong
  <2>3. CASE UNCHANGED <<handler, pc>>
    BY <2>1, <2>3 DEF ReportInv, DomainActive, PlaysSong
  <2> QED
    BY <1>1, <2>2, <2>3 DEF Startup
<1>2. ASSUME NEW c \in Callers, ShutdownDone(c)
      PROVE  ReportInv'
  <2>1. pc'["recv"] = "exited" /\ ~handler' /\ domain' = "SHUTDOWN" /\ UNCHANGED player
    BY <1>0, <1>2, <1>t DEF ShutdownDone, Goto, TypeCtl
  <2> QED
    BY <2>1 DEF ReportInv, DomainActive, PlaysSong
<1>3. CASE RecvTake
  <2> DEFINE s == Head(snapshots)
             n == Len(snapshots)
  <2>1. /\ handler /\ handler' /\ pc["recv"] = "idle" /\ snapshots # <<>>
        /\ snapshots' = Tail(snapshots) /\ UNCHANGED player
    BY <1>0, <1>3 DEF RecvTake, TypeCtl
  <2>2. \/ s.mine /\ seen'["recv"] = s.status /\ pc'["recv"] = "cb"
        \/ ~s.mine /\ domain' = "RUNNING" /\ pc'["recv"] = "cb_other"
    BY <1>0, <1>3, <1>t DEF RecvTake, Goto, TypeCtl
  <2>0. n \in Nat /\ n > 0 /\ Len(snapshots') = n - 1 /\ snapshots' \in Seq(SnapType)
        /\ (n > 1 => snapshots'[n - 1] = snapshots[n])
    BY <1>0, <2>1, HeadTailProperties
  <2>3. CASE n = 1
    <3>1. snapshots' = <<>> /\ s = snapshots[n]
      BY <1>0, <2>0, <2>3
    <3> HIDE DEF s, n
    <3> QED
      BY <2>1, <2>2, <3>1 DEF ReportInv, Sounding, DomainActive, PlaysSong, n
  <2>4. CASE n > 1
    <3>1. snapshots' # <<>> /\ snapshots'[Len(snapshots')] = snapshots[n]
      BY <2>0, <2>4
    <3> HIDE DEF s, n
    <3> QED
      BY <2>1, <3>1 DEF ReportInv, Sounding, PlaysSong, n
  <2> QED
    BY <2>0, <2>3, <2>4
<1>4. CASE RecvDomain
  <2>1. /\ pc["recv"] = "cb" /\ pc'["recv"] \notin {"cb", "cb_unknown"}
        /\ UNCHANGED <<handler, snapshots, player>>
    BY <1>0, <1>4, <1>t DEF RecvDomain, Goto, TypeCtl
  <2>2. DomainActive' => seen["recv"] \in Active
    BY <1>4 DEF RecvDomain, DomainActive, Active
  <2> QED
    BY <2>1, <2>2 DEF ReportInv, Sounding, PlaysSong
<1>5. CASE RecvUnknown
  <2>1. /\ pc["recv"] \in {"cb", "cb_unknown"} /\ pc'["recv"] \in {"cb_unknown", "idle"}
        /\ pc'["recv"] = "idle" => domain' = "RUNNING"
        /\ UNCHANGED <<handler, snapshots, player>>
    BY <1>0, <1>5, <1>t DEF RecvUnknown, Goto, TypeCtl
  <2> QED
    BY <2>1 DEF ReportInv, DomainActive, Sounding, PlaysSong
<1> QED
  BY <1>1, <1>2, <1>3, <1>4, <1>5, SteadySteps, SteadyKeeps DEF Next

(* Once every report has been handled, the domain does not show a music     *)
(* player as active that is not (mozart_musicplayer.c:765-818).             *)
THEOREM NoFalseActiveHolds == Spec => []NoFalseActive
<1>1. Init => ReportInv
  <2>1. Init => handler /\ snapshots = <<>> /\ domain = "RUNNING" /\ pc["recv"] = "idle"
                /\ player.status = "STOPPED"
    BY DEF Init, Threads
  <2> QED
    BY <2>1 DEF ReportInv, DomainActive, PlaysSong
<1>2. ReportInv => NoFalseActive
  BY ThreadAssumption DEF ReportInv, NoFalseActive, Quiet, DomainActive, Threads
<1> QED
  BY <1>1, <1>2, ReportStep, Inductive, PTL DEF Spec

=============================================================================
