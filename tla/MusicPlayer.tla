---------------------------- MODULE MusicPlayer -----------------------------
(***************************************************************************)
(* src/mozart_musicplayer.c: the one music player of the process, shared   *)
(* by several threads.                                                     *)
(*                                                                         *)
(*   callers  the key, phone and speech threads that call its functions    *)
(*   "recv"   recv_player_snapshot_async_func (player_interface.c), which  *)
(*            runs musicplayer_status_change_callback for every report     *)
(*   "misc"   the thread that runs miscevent_callback (main.c) and answers *)
(*            the "play" events of the player                              *)
(*                                                                         *)
(* A step is what a thread does between two accesses of state another      *)
(* thread can change under it: the whole of a function while it holds      *)
(* musicplayer_mutex, cut where autoplay_flag, musicplayer_status or the   *)
(* shared-memory domain are touched, which no mutex protects.  The player  *)
(* daemon is another process: it obeys commands in the order sent and      *)
(* reports every change of its status.                                     *)
(***************************************************************************)
EXTENDS MusicListOps, FiniteSets

CONSTANTS
    Callers,     \* threads that call the player's functions
    Songs,       \* music_info allocations
    FOREIGN,       \* what plays when another user of the daemon owns it
    Ops,         \* the functions callers call
    Fails,       \* what may fail: "playurl", "stop" (send), "connect"
    Answers,     \* what misc may write: RESPONSE_DONE, RESPONSE_CANCEL
    Oss,         \* get_audio_type() = AUDIO_OSS: stopping waits for the report
    MaxCalls,    \* bound on the calls of one caller
    MaxList,     \* bound on the length of the list
    MaxEnds      \* bound on what the daemon does by itself

ASSUME SongAssumption == NULL \notin Songs /\ FOREIGN \notin Songs
ASSUME ThreadAssumption ==
    {"recv", "misc", "free"} \cap Callers = {} /\ Oss \in BOOLEAN
ASSUME BoundAssumption == MaxCalls \in Nat /\ MaxList \in Nat /\ MaxEnds \in Nat
ASSUME AnswerAssumption == Answers \subseteq {"RESPONSE_DONE", "RESPONSE_CANCEL"}

VARIABLES
    mutex,               \* the holder of musicplayer_mutex, or "free"
    handler,             \* mozart_musicplayer_handler # NULL
    uuid,                \* current_player_handler.uuid
    in_musicplayer,      \* the play event has been answered for this owner
    autoplay_flag,
    musicplayer_status,  \* the last status reported
    list,                \* musicplayer_list
    domain,              \* MUSICPLAYER_DOMAIN in shared memory
    events,              \* "play" events sent to misc, not yet taken
    evtype,              \* the type left in mozart_musicplayer_event
    player,              \* the daemon: its status and what it is playing
    snapshots,           \* reports on the way to recv
    pc, info, seen,      \* per thread: where it is, song chosen, status read
    calls, ends          \* what is left of the bounds

Locals == <<pc, info, seen, calls>>
vars == <<mutex, handler, uuid, in_musicplayer, autoplay_flag,
          musicplayer_status, list, domain, events, evtype, player, snapshots,
          pc, info, seen, calls, ends>>

Threads == Callers \cup {"recv", "misc"}

Statuses == {"UNKNOWN", "TRANSPORT", "PLAYING", "PAUSED", "STOPPED"}
Domains == {"SHUTDOWN", "RUNNING", "PLAYING", "PAUSE", "WAIT_RESPONSE",
            "RESPONSE_DONE", "RESPONSE_CANCEL"}

\* Where a thread can be while it holds the mutex, and elsewhere.
Critical == {"poll", "played", "stop_halt", "stop_wait",
             "shut_halt", "shut_wait", "shut_join"}
Places == Critical \cup {"idle", "toggle", "halt", "halt_wait", "mstop",
                         "respond", "cb", "cb_other", "cb_unknown", "cb_auto",
                         "cb_notify", "cb_next", "exited"}

TypeOK ==
    /\ mutex \in Threads \cup {"free"}
    /\ handler \in BOOLEAN /\ uuid \in {"invalid", "musicplayer"}
    /\ in_musicplayer \in {0, 1} /\ autoplay_flag \in BOOLEAN
    /\ musicplayer_status \in Statuses /\ domain \in Domains
    /\ list \in [songs : Seq(Songs), max_index : {-1}, current_index : Int,
                 mode : Modes]
    /\ events \in Nat /\ evtype \in {"play", "other"}
    /\ player \in [status : Statuses, song : Songs \cup {NULL, FOREIGN}]
    /\ snapshots \in Seq([status : Statuses, mine : BOOLEAN])
    /\ pc \in [Threads -> Places]
    /\ info \in [Threads -> Songs \cup {NULL}]
    /\ seen \in [Threads -> Statuses]
    /\ calls \in [Callers -> 0 .. MaxCalls] /\ ends \in 0 .. MaxEnds

\* Just after mozart_musicplayer_startup has returned, at boot.
Init ==
    /\ mutex = "free" /\ handler = TRUE /\ uuid = "invalid"
    /\ in_musicplayer = 0 /\ autoplay_flag = FALSE
    /\ musicplayer_status = "UNKNOWN" /\ domain = "RUNNING"
    /\ list = EmptyList
    /\ events = 0 /\ evtype = "other"
    /\ player = [status |-> "STOPPED", song |-> NULL]
    /\ snapshots = <<>>
    /\ pc = [t \in Threads |-> "idle"]
    /\ info = [t \in Threads |-> NULL]
    /\ seen = [t \in Threads |-> "UNKNOWN"]
    /\ calls = [c \in Callers |-> MaxCalls] /\ ends = MaxEnds

-----------------------------------------------------------------------------
(* The daemon's side of a command.  A report reaches recv only while the    *)
(* process has a handler; its uuid says whether the song is this player's.  *)

Report(st, song) ==
    snapshots' = IF handler
                 THEN Append(snapshots, [status |-> st, mine |-> song # FOREIGN])
                 ELSE snapshots

PlayUrl(s) ==
    /\ player' = [status |-> "TRANSPORT", song |-> s]
    /\ Report("TRANSPORT", s)

StopCmd ==
    IF player.status = "STOPPED" THEN UNCHANGED <<player, snapshots>>
    ELSE /\ player' = [status |-> "STOPPED", song |-> NULL]
         /\ Report("STOPPED", player.song)

\* Pause and resume change nothing unless the daemon is in the right status.
Switch(from, to) ==
    IF player.status # from THEN UNCHANGED <<player, snapshots>>
    ELSE /\ player' = [player EXCEPT !.status = to]
         /\ Report(to, player.song)

-----------------------------------------------------------------------------
Goto(t, place) == pc' = [pc EXCEPT ![t] = place]

Call(c, op) ==
    /\ op \in Ops /\ pc[c] = "idle" /\ calls[c] > 0
    /\ calls' = [calls EXCEPT ![c] = @ - 1]

\* A call that finds the mutex free and is done before it gives it back.
Locked(c, op) == Call(c, op) /\ mutex = "free"

\* check_handler_uuid succeeds.
Owner == handler /\ uuid = "musicplayer"

Start(c) ==
    /\ Locked(c, "start") /\ handler /\ uuid = "invalid"
    /\ uuid' = "musicplayer"
    /\ UNCHANGED <<mutex, handler, in_musicplayer, autoplay_flag,
                   musicplayer_status, list, domain, events, evtype, player,
                   snapshots, pc, info, seen, ends>>

Edit(c, op, l) ==
    /\ Locked(c, op) /\ Owner
    /\ list' = l
    /\ UNCHANGED <<mutex, handler, uuid, in_musicplayer, autoplay_flag,
                   musicplayer_status, domain, events, evtype, player,
                   snapshots, pc, info, seen, ends>>

InsertSong(c, s) ==
    /\ s \notin ToSet(list.songs) /\ Length(list) < MaxList
    /\ Edit(c, "insert", Insert(list, s))

DeleteSong(c, i) == Edit(c, "delete", DeleteIndex(list, i))
SetPlayMode(c, m) == Edit(c, "mode", [list EXCEPT !.mode = m])
CleanList(c) == Edit(c, "clean", EmptyList)

-----------------------------------------------------------------------------
(* __mozart_musicplayer_play_music_info, by a thread that has the mutex:    *)
(* the owner's first song is announced with a "play" event and waits, the   *)
(* mutex still held, until misc has answered or ten seconds have passed.    *)

SendUrl(t, s) ==
    \/ /\ PlayUrl(s)
       /\ mutex' = t
       /\ Goto(t, "played")
    \/ /\ "playurl" \in Fails
       /\ mutex' = "free"
       /\ Goto(t, "idle")
       /\ UNCHANGED <<player, snapshots>>

BugBeginPlay(t, i) ==     \* reads the current song before moving the index
    /\ list' = SetCurrent(list, i)
    /\ LET s == GetCurrent(list)
       IN  \/ /\ s # NULL /\ in_musicplayer = 1
              /\ SendUrl(t, s)
              /\ UNCHANGED <<domain, events, evtype, info>>
           \/ /\ s # NULL /\ in_musicplayer = 0
              /\ info' = [info EXCEPT ![t] = s]
              /\ domain' = "WAIT_RESPONSE"
              /\ events' = events + 1 /\ evtype' = "play"
              /\ mutex' = t /\ Goto(t, "poll")
              /\ UNCHANGED <<player, snapshots>>
    /\ UNCHANGED <<handler, uuid, in_musicplayer, autoplay_flag,
                   musicplayer_status, seen, ends>>

BeginPlay(t, i) ==
    /\ list' = SetCurrent(list, i)
    /\ LET s == GetCurrent(list')
       IN  \/ /\ s # NULL /\ in_musicplayer = 1
              /\ SendUrl(t, s)
              /\ UNCHANGED <<domain, events, evtype, info>>
           \/ /\ s # NULL /\ in_musicplayer = 0
              /\ info' = [info EXCEPT ![t] = s]
              /\ domain' = "WAIT_RESPONSE"
              /\ events' = events + 1 /\ evtype' = "play"
              /\ mutex' = t /\ Goto(t, "poll")
              /\ UNCHANGED <<player, snapshots>>
           \/ /\ s = NULL /\ Goto(t, "idle")
              /\ UNCHANGED <<mutex, domain, events, evtype, info, player,
                             snapshots>>
    /\ UNCHANGED <<handler, uuid, in_musicplayer, autoplay_flag,
                   musicplayer_status, seen, ends>>

PlayIndex(c, i) ==
    /\ Locked(c, "play") /\ Owner /\ i \in 0 .. Length(list) - 1
    /\ BeginPlay(c, i)

PrevMusic(c) ==
    /\ Locked(c, "prev") /\ Owner /\ Length(list) > 0
    /\ \E i \in PrevIndexes(list) : BeginPlay(c, i)

NextMusic(c) ==
    /\ Locked(c, "next") /\ Owner /\ Length(list) > 0
    /\ \E i \in NextIndexes(list, TRUE) : BeginPlay(c, i)

PollDone(t) ==
    /\ pc[t] = "poll" /\ domain = "RESPONSE_DONE"
    /\ SendUrl(t, info[t])
    /\ in_musicplayer' = IF pc'[t] = "played" THEN 1 ELSE in_musicplayer
    /\ UNCHANGED <<handler, uuid, autoplay_flag, musicplayer_status, list,
                   domain, events, evtype, info, seen, calls, ends>>

BugPollGivesUp(t) ==      \* the timeout returns without unlocking
    /\ pc[t] = "poll" /\ domain # "RESPONSE_DONE"
    /\ Goto(t, "idle")
    /\ UNCHANGED <<mutex, handler, uuid, in_musicplayer, autoplay_flag,
                   musicplayer_status, list, domain, events, evtype, player,
                   snapshots, info, seen, calls, ends>>

\* RESPONSE_CANCEL, or a thousand polls without an answer: no music.
PollGivesUp(t) ==
    /\ pc[t] = "poll" /\ domain # "RESPONSE_DONE"
    /\ mutex' = "free" /\ Goto(t, "idle")
    /\ UNCHANGED <<handler, uuid, in_musicplayer, autoplay_flag,
                   musicplayer_status, list, domain, events, evtype, player,
                   snapshots, info, seen, calls, ends>>

\* autoplay_flag is set only after the url has been sent.
Played(t) ==
    /\ pc[t] = "played"
    /\ autoplay_flag' = TRUE /\ evtype' = "other"
    /\ mutex' = "free" /\ Goto(t, "idle")
    /\ UNCHANGED <<handler, uuid, in_musicplayer, musicplayer_status, list,
                   domain, events, player, snapshots, info, seen, calls, ends>>

-----------------------------------------------------------------------------
(* play_pause reads the daemon's status, then takes the mutex and acts on   *)
(* what it read.  An event is sent even when neither pause nor resume was,  *)
(* and then has the type of the event before it.                            *)

PlayPause(c) ==
    /\ Call(c, "toggle") /\ handler
    /\ seen' = [seen EXCEPT ![c] = player.status] /\ Goto(c, "toggle")
    /\ UNCHANGED <<mutex, handler, uuid, in_musicplayer, autoplay_flag,
                   musicplayer_status, list, domain, events, evtype, player,
                   snapshots, info, ends>>

Toggle(c) ==
    /\ pc[c] = "toggle" /\ mutex = "free" /\ Goto(c, "idle")
    /\ \/ ~Owner /\ UNCHANGED <<events, evtype, player, snapshots>>
       \/ /\ Owner /\ seen[c] \in {"PLAYING", "PAUSED"}
          /\ \/ seen[c] = "PLAYING" /\ Switch("PLAYING", "PAUSED")
             \/ seen[c] = "PAUSED" /\ Switch("PAUSED", "PLAYING")
          /\ evtype' = "other" /\ UNCHANGED events
       \/ /\ Owner /\ seen[c] \notin {"PLAYING", "PAUSED"}
          /\ events' = IF evtype = "play" THEN events + 1 ELSE events
          /\ UNCHANGED <<evtype, player, snapshots>>
    /\ UNCHANGED <<mutex, handler, uuid, in_musicplayer, autoplay_flag,
                   musicplayer_status, list, domain, info, seen, calls, ends>>

-----------------------------------------------------------------------------
(* mozart_musicplayer_stop_playback.  With OSS the caller waits up to five  *)
(* seconds for recv to have seen PLAYER_STOPPED.                            *)

\* What it does after clearing autoplay_flag: the stop command ...
Halt(sent, failed) ==
    \/ StopCmd /\ sent
    \/ "stop" \in Fails /\ failed /\ UNCHANGED <<player, snapshots>>

\* ... and then: the report has come, or it has not in time.
Waited(done) ==
    /\ done
    /\ domain' = IF Oss /\ musicplayer_status # "STOPPED" THEN domain ELSE "RUNNING"

\* Called without the mutex by the phone's queue commands.
StopPlayback(c) ==
    /\ Call(c, "halt") /\ handler
    /\ autoplay_flag' = FALSE /\ Goto(c, "halt")
    /\ UNCHANGED <<mutex, handler, uuid, in_musicplayer, musicplayer_status,
                   list, domain, events, evtype, player, snapshots, info, seen,
                   ends>>

StopCommand(c) ==
    /\ pc[c] = "halt"
    /\ Halt(Goto(c, "halt_wait"), Goto(c, "idle"))
    /\ UNCHANGED <<mutex, handler, uuid, in_musicplayer, autoplay_flag,
                   musicplayer_status, list, domain, events, evtype, info,
                   seen, calls, ends>>

StopWaited(c) ==
    /\ pc[c] = "halt_wait"
    /\ Waited(Goto(c, "idle"))
    /\ UNCHANGED <<mutex, handler, uuid, in_musicplayer, autoplay_flag,
                   musicplayer_status, list, events, evtype, player, snapshots,
                   info, seen, calls, ends>>

-----------------------------------------------------------------------------
(* mozart_musicplayer_stop: the owner gives the player up.                  *)

BugSoundsOn == player.status = "PLAYING"     \* forgets the other statuses

\* Stopping is needed: mozart_player_getstatus is not PLAYER_STOPPED.
SoundsOn == player.status # "STOPPED"

BugForgetAnswer == UNCHANGED in_musicplayer  \* the next owner need not ask

ForgetAnswer == in_musicplayer' = 0

AfterStop(t) == IF t = "misc" THEN "respond" ELSE "idle"

BugReleased(t) ==          \* leaves the list to the next owner
    /\ uuid' = "invalid" /\ UNCHANGED list
    /\ mutex' = "free" /\ Goto(t, AfterStop(t))

Released(t) ==
    /\ uuid' = "invalid" /\ list' = EmptyList
    /\ mutex' = "free" /\ Goto(t, AfterStop(t))

StopBody(t) ==
    /\ mutex = "free" /\ ForgetAnswer
    /\ \/ /\ uuid = "invalid"
          /\ Goto(t, AfterStop(t))
          /\ UNCHANGED <<mutex, uuid, autoplay_flag, list>>
       \/ /\ uuid # "invalid" /\ SoundsOn
          /\ autoplay_flag' = FALSE
          /\ mutex' = t /\ Goto(t, "stop_halt")
          /\ UNCHANGED <<uuid, list>>
       \/ /\ uuid # "invalid" /\ ~SoundsOn
          /\ Released(t)
          /\ UNCHANGED autoplay_flag
    /\ UNCHANGED <<handler, musicplayer_status, domain, events, evtype, player,
                   snapshots, info, seen, ends>>

Stop(c) == Call(c, "stop") /\ StopBody(c)

MiscStop == pc["misc"] = "mstop" /\ StopBody("misc") /\ UNCHANGED calls

ReleaseHalt(t) ==
    /\ pc[t] = "stop_halt"
    /\ Halt(Goto(t, "stop_wait") /\ UNCHANGED <<mutex, uuid, list>>, Released(t))
    /\ UNCHANGED <<handler, in_musicplayer, autoplay_flag, musicplayer_status,
                   domain, events, evtype, info, seen, calls, ends>>

ReleaseWaited(t) ==
    /\ pc[t] = "stop_wait"
    /\ Waited(Released(t))
    /\ UNCHANGED <<handler, in_musicplayer, autoplay_flag, musicplayer_status,
                   events, evtype, player, snapshots, info, seen, calls, ends>>

-----------------------------------------------------------------------------
(* Startup and shutdown.  The handler is put, that is, its thread is told   *)
(* to stop and joined, while the mutex is held.                             *)

Startup(c) ==
    /\ Locked(c, "startup") /\ ~handler
    /\ list' = EmptyList /\ domain' = "RUNNING"
    /\ \/ /\ handler' = TRUE /\ uuid' = "invalid"
          /\ snapshots' = <<>> /\ Goto("recv", "idle")
       \/ "connect" \in Fails /\ UNCHANGED <<handler, uuid, snapshots, pc>>
    /\ UNCHANGED <<mutex, in_musicplayer, autoplay_flag, musicplayer_status,
                   events, evtype, player, info, seen, ends>>

Joining(c) == uuid' = "invalid" /\ Goto(c, "shut_join")

Shutdown(c) ==
    /\ Locked(c, "shutdown") /\ handler
    /\ mutex' = c
    /\ \/ /\ Owner /\ SoundsOn
          /\ autoplay_flag' = FALSE
          /\ Goto(c, "shut_halt") /\ UNCHANGED uuid
       \/ /\ ~(Owner /\ SoundsOn)
          /\ Joining(c) /\ UNCHANGED autoplay_flag
    /\ UNCHANGED <<handler, in_musicplayer, musicplayer_status, list, domain,
                   events, evtype, player, snapshots, info, seen, ends>>

ShutdownHalt(c) ==
    /\ pc[c] = "shut_halt"
    /\ Halt(Goto(c, "shut_wait") /\ UNCHANGED uuid, Joining(c))
    /\ UNCHANGED <<mutex, handler, in_musicplayer, autoplay_flag,
                   musicplayer_status, list, domain, events, evtype, info, seen,
                   calls, ends>>

ShutdownWaited(c) ==
    /\ pc[c] = "shut_wait"
    /\ Waited(Joining(c))
    /\ UNCHANGED <<mutex, handler, in_musicplayer, autoplay_flag,
                   musicplayer_status, list, events, evtype, player, snapshots,
                   info, seen, calls, ends>>

ShutdownDone(c) ==
    /\ pc[c] = "shut_join" /\ pc["recv"] = "exited"
    /\ handler' = FALSE /\ list' = EmptyList /\ domain' = "SHUTDOWN"
    /\ mutex' = "free" /\ Goto(c, "idle")
    /\ UNCHANGED <<uuid, in_musicplayer, autoplay_flag, musicplayer_status,
                   events, evtype, player, snapshots, info, seen, calls, ends>>

-----------------------------------------------------------------------------
(* The thread that receives the reports.                                    *)

RecvTake ==
    /\ pc["recv"] = "idle" /\ handler /\ snapshots # <<>>
    /\ snapshots' = Tail(snapshots)
    /\ LET s == Head(snapshots)
       IN  \/ /\ s.mine
              /\ musicplayer_status' = s.status
              /\ seen' = [seen EXCEPT !["recv"] = s.status]
              /\ Goto("recv", "cb") /\ UNCHANGED domain
           \/ /\ ~s.mine
              /\ domain' = "RUNNING" /\ Goto("recv", "cb_other")
              /\ UNCHANGED <<musicplayer_status, seen>>
    /\ UNCHANGED <<mutex, handler, uuid, in_musicplayer, autoplay_flag, list,
                   events, evtype, player, info, calls, ends>>

\* The report is about another user's song.
RecvOther ==
    /\ pc["recv"] = "cb_other"
    /\ musicplayer_status' = "STOPPED" /\ Goto("recv", "idle")
    /\ UNCHANGED <<mutex, handler, uuid, in_musicplayer, autoplay_flag, list,
                   domain, events, evtype, player, snapshots, info, seen, calls,
                   ends>>

BugRecvDomain ==          \* a stopped song leaves the domain as it is
    /\ pc["recv"] = "cb"
    /\ \/ /\ seen["recv"] \in {"TRANSPORT", "PLAYING"}
          /\ domain' = "PLAYING" /\ Goto("recv", "cb_notify")
       \/ /\ seen["recv"] = "PAUSED"
          /\ domain' = "PAUSE" /\ Goto("recv", "cb_notify")
       \/ /\ seen["recv"] = "STOPPED"
          /\ Goto("recv", "cb_auto")
          /\ UNCHANGED domain
    /\ UNCHANGED <<mutex, handler, uuid, in_musicplayer, autoplay_flag,
                   musicplayer_status, list, events, evtype, player, snapshots,
                   info, seen, calls, ends>>

RecvDomain ==
    /\ pc["recv"] = "cb"
    /\ \/ /\ seen["recv"] \in {"TRANSPORT", "PLAYING"}
          /\ domain' = "PLAYING" /\ Goto("recv", "cb_notify")
       \/ /\ seen["recv"] = "PAUSED"
          /\ domain' = "PAUSE" /\ Goto("recv", "cb_notify")
       \/ /\ seen["recv"] = "STOPPED"
          /\ domain' = "RUNNING" /\ Goto("recv", "cb_auto")
    /\ UNCHANGED <<mutex, handler, uuid, in_musicplayer, autoplay_flag,
                   musicplayer_status, list, events, evtype, player, snapshots,
                   info, seen, calls, ends>>

\* A failed song counts as stopped.
RecvUnknown ==
    /\ \/ /\ pc["recv"] = "cb" /\ seen["recv"] = "UNKNOWN"
          /\ musicplayer_status' = "STOPPED" /\ Goto("recv", "cb_unknown")
          /\ UNCHANGED domain
       \/ /\ pc["recv"] = "cb_unknown"
          /\ domain' = "RUNNING" /\ Goto("recv", "idle")
          /\ UNCHANGED musicplayer_status
    /\ UNCHANGED <<mutex, handler, uuid, in_musicplayer, autoplay_flag, list,
                   events, evtype, player, snapshots, info, seen, calls, ends>>

BugRecvAuto ==            \* the flag is tested the wrong way round
    /\ pc["recv"] = "cb_auto"
    /\ Goto("recv", IF autoplay_flag THEN "idle" ELSE "cb_next")
    /\ UNCHANGED <<mutex, handler, uuid, in_musicplayer, autoplay_flag,
                   musicplayer_status, list, domain, events, evtype, player,
                   snapshots, info, seen, calls, ends>>

RecvAuto ==
    /\ pc["recv"] = "cb_auto"
    /\ Goto("recv", IF autoplay_flag THEN "cb_next" ELSE "idle")
    /\ UNCHANGED <<mutex, handler, uuid, in_musicplayer, autoplay_flag,
                   musicplayer_status, list, domain, events, evtype, player,
                   snapshots, info, seen, calls, ends>>

\* The song information for the phone is read through the mutex.
RecvNotify ==
    /\ pc["recv"] = "cb_notify" /\ mutex = "free"
    /\ Goto("recv", "idle")
    /\ UNCHANGED <<mutex, handler, uuid, in_musicplayer, autoplay_flag,
                   musicplayer_status, list, domain, events, evtype, player,
                   snapshots, info, seen, calls, ends>>

\* mozart_musicplayer_next_music_false, called by the callback.
RecvNext ==
    /\ pc["recv"] = "cb_next" /\ mutex = "free" /\ UNCHANGED calls
    /\ \/ /\ Owner /\ Length(list) > 0
          /\ \E i \in NextIndexes(list, FALSE) : BeginPlay("recv", i)
       \/ /\ ~Owner \/ Length(list) = 0
          /\ Goto("recv", "idle")
          /\ UNCHANGED <<mutex, handler, uuid, in_musicplayer, autoplay_flag,
                         musicplayer_status, list, domain, events, evtype,
                         player, snapshots, info, seen, ends>>

\* It looks at the stop flag only when no report is waiting.
RecvExit ==
    /\ pc["recv"] = "idle" /\ snapshots = <<>>
    /\ \E c \in Callers : pc[c] = "shut_join"
    /\ Goto("recv", "exited")
    /\ UNCHANGED <<mutex, handler, uuid, in_musicplayer, autoplay_flag,
                   musicplayer_status, list, domain, events, evtype, player,
                   snapshots, info, seen, calls, ends>>

-----------------------------------------------------------------------------
(* miscevent_callback on a "play" event: mozart_module_stop stops the music *)
(* player if the domain says it is active, then the answer is written.      *)

BugMiscTake ==            \* runs without an event
    /\ pc["misc"] = "idle"
    /\ events' = events - 1
    /\ Goto("misc", IF domain \in {"PLAYING", "PAUSE"} THEN "mstop"
                    ELSE "respond")
    /\ UNCHANGED <<mutex, handler, uuid, in_musicplayer, autoplay_flag,
                   musicplayer_status, list, domain, evtype, player, snapshots,
                   info, seen, calls, ends>>

MiscTake ==
    /\ pc["misc"] = "idle" /\ events > 0
    /\ events' = events - 1
    /\ Goto("misc", IF domain \in {"PLAYING", "PAUSE"} THEN "mstop"
                    ELSE "respond")
    /\ UNCHANGED <<mutex, handler, uuid, in_musicplayer, autoplay_flag,
                   musicplayer_status, list, domain, evtype, player, snapshots,
                   info, seen, calls, ends>>

MiscRespond ==
    /\ pc["misc"] = "respond"
    /\ \E a \in Answers : domain' = a
    /\ Goto("misc", "idle")
    /\ UNCHANGED <<mutex, handler, uuid, in_musicplayer, autoplay_flag,
                   musicplayer_status, list, events, evtype, player, snapshots,
                   info, seen, calls, ends>>

-----------------------------------------------------------------------------
(* The daemon by itself: a song begins, ends, or another user takes over.   *)

Daemon(status, song) ==
    /\ player' = [status |-> status,
                  song |-> IF status = "STOPPED" THEN NULL ELSE song]
    /\ Report(status, song)
    /\ UNCHANGED <<mutex, handler, uuid, in_musicplayer, autoplay_flag,
                   musicplayer_status, list, domain, events, evtype>>
    /\ UNCHANGED Locals

SongBegins ==
    /\ player.status = "TRANSPORT"
    /\ Daemon("PLAYING", player.song) /\ UNCHANGED ends

SongEnds ==
    /\ player.status \in {"TRANSPORT", "PLAYING"} /\ ends > 0
    /\ Daemon("STOPPED", player.song) /\ ends' = ends - 1

OtherTakes ==
    /\ player.song # FOREIGN /\ ends > 0
    /\ Daemon("PLAYING", FOREIGN) /\ ends' = ends - 1

SongFails ==
    /\ player.status = "TRANSPORT" /\ ends > 0
    /\ Daemon("UNKNOWN", player.song) /\ ends' = ends - 1

-----------------------------------------------------------------------------
CallerStep(c) ==
    \/ Start(c) \/ CleanList(c) \/ PrevMusic(c) \/ NextMusic(c)
    \/ PlayPause(c) \/ StopPlayback(c) \/ Stop(c) \/ Startup(c) \/ Shutdown(c)
    \/ \E s \in Songs : InsertSong(c, s)
    \/ \E i \in 0 .. Length(list) - 1 : DeleteSong(c, i) \/ PlayIndex(c, i)
    \/ \E m \in Modes : SetPlayMode(c, m)

\* What a thread does once it has begun.
Continue(c) ==
    \/ Toggle(c) \/ StopCommand(c) \/ StopWaited(c)
    \/ ShutdownHalt(c) \/ ShutdownWaited(c) \/ ShutdownDone(c)
Hold(t) == \/ PollDone(t) \/ PollGivesUp(t) \/ Played(t)
           \/ ReleaseHalt(t) \/ ReleaseWaited(t)
Recv == \/ RecvTake \/ RecvOther \/ RecvDomain \/ RecvUnknown \/ RecvAuto
        \/ RecvNotify \/ RecvNext \/ RecvExit
Misc == MiscTake \/ MiscStop \/ MiscRespond
Player == SongBegins \/ SongEnds \/ OtherTakes \/ SongFails

Next ==
    \/ \E c \in Callers : CallerStep(c) \/ Continue(c)
    \/ \E t \in Threads : Hold(t)
    \/ Recv \/ Misc \/ Player

Spec == Init /\ [][Next]_vars

\* Every thread that has begun goes on; nobody has to call, nor a song to end.
Fairness ==
    /\ \A c \in Callers : WF_vars(Continue(c))
    /\ \A t \in Threads : WF_vars(Hold(t))
    /\ WF_vars(Recv) /\ WF_vars(Misc) /\ WF_vars(SongBegins)

FairSpec == Spec /\ Fairness

-----------------------------------------------------------------------------
(* musicplayer_mutex is held exactly by the thread that is at a place where *)
(* it must be: every early return gives it back once, no function that has  *)
(* to wait loses it, and only one thread is ever in such a place            *)
(* (mozart_musicplayer.c:335-945).                                          *)
LockHeld == \A t \in Threads : pc[t] \in Critical <=> mutex = t

(* The song announced to the others before the ten-second wait is still the *)
(* current song of the owner's list when the answer comes, so what is       *)
(* played is what the list shows (mozart_musicplayer.c:417-441, 361-392).   *)
ChosenIsCurrent ==
    \A t \in Threads : pc[t] = "poll" => Owner /\ info[t] = GetCurrent(list)

(* Giving the player up leaves no music behind: while nobody owns it the    *)
(* daemon plays none of its songs and its list is empty, whichever of stop, *)
(* shutdown or a failed wait ended the ownership                            *)
(* (mozart_musicplayer.c:848-869, 917-946).  A stop command that could not  *)
(* be sent is the exception, and the code ignores it.                       *)
Sounding == player.song \in Songs
ReleasedIsQuiet ==
    uuid = "invalid" =>
        /\ "stop" \notin Fails => ~Sounding
        /\ (\A c \in Callers : pc[c] # "shut_join") => list = EmptyList

(* When every report has been handled and no thread is under way, the       *)
(* domain shows the music player as active only if the daemon does play or  *)
(* has paused one of its songs: the keys, mozart_module_stop and the voice  *)
(* recognition all decide by it (mozart_musicplayer.c:765-818).             *)
Quiet == (\A t \in Threads : pc[t] = "idle") /\ snapshots = <<>>
NoFalseActive ==
    Quiet /\ handler /\ domain \in {"PLAYING", "PAUSE"} => Sounding

(* The handshake is done once per ownership: whoever owns the player with   *)
(* in_musicplayer set has been answered RESPONSE_DONE, and losing the       *)
(* player by stop resets it (mozart_musicplayer.c:406, 851).  Shutdown does *)
(* not: the next owner then plays without asking.                           *)
AnsweredOwner ==
    "shutdown" \notin Ops => (in_musicplayer = 1 => uuid = "musicplayer")

(* Whoever holds the mutex gives it back: the waits inside are all bounded  *)
(* (mozart_musicplayer.c:362-377, 729-739).                                 *)
LockReleased == mutex # "free" ~> mutex = "free"

(* When a song ends while autoplay_flag is set, the owner's next song is    *)
(* asked for without anybody pressing a key: the callback reaches the       *)
(* daemon again, unless a caller acts, the sending fails or the daemon is   *)
(* taken over (mozart_musicplayer.c:796-800).  In single mode there must    *)
(* still be a current song: its deletion may have left the index past the   *)
(* end, and the callback then gives up although the list has songs.         *)
MayGoOn ==
    /\ pc["recv"] = "cb_auto" /\ autoplay_flag /\ Owner /\ Length(list) > 0
    /\ list.mode = "single" => GetCurrent(list) # NULL
    /\ in_musicplayer = 1 /\ events = 0 /\ pc["misc"] = "idle"
    /\ \A c \in Callers : pc[c] = "idle" /\ calls[c] = 0
MusicGoesOn == MayGoOn /\ "playurl" \notin Fails ~> pc["recv"] = "played"

(* Whatever the threads do, the player behaves as the one-owner service of  *)
(* MusicService: music of ours begins only as the current song of the       *)
(* owner's list, and stops for good when the owner lets go.                 *)
Service == INSTANCE MusicService WITH
    owned    <- Owner,
    list     <- IF Owner THEN list ELSE EmptyList,
    sounding <- IF Sounding THEN player.song ELSE NULL
ServiceSpec == Service!Spec

(* What player_interface.h says of mozart_player_handler_put: it destroys   *)
(* the handler.  A shutdown that has begun to do so ends.                   *)
HandlerDestroyed == \A c \in Callers : pc[c] = "shut_join" ~> ~handler

=============================================================================
