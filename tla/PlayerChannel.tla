--------------------------- MODULE PlayerChannel ----------------------------
(***************************************************************************)
(* The client library of the player daemon (src/molib/player_interface.c   *)
(* with command.c and tcp.c): one handler, its two connections and its     *)
(* report thread, the threads that call through it, and a daemon that may  *)
(* die and be started again.                                               *)
(*                                                                         *)
(* Commands (play, cache, pause, resume, stop, seek) are sent and not      *)
(* answered; requests (snapshot, volume) hold player_internal_mutex from   *)
(* the send to the answer.  Both travel on fd_sync.  The daemon reports on *)
(* fd_async, which the report thread reads and hands to the callback.  The *)
(* program uses channel 0 only, so no channel is started or stopped, and   *)
(* it frees a handler when no call through it is under way.  Operators     *)
(* named Bug... are wrong variants used to test the properties.            *)
(***************************************************************************)
EXTENDS Integers, Sequences

CONSTANTS Clients,   \* threads that call through the handler
          MaxBuffer, \* bound: commands the socket holds before send blocks
          MaxBurst,  \* bound: reports within 200 ms of each other
          MaxDeaths  \* bound: times the daemon dies

ASSUME ConstantAssumption == /\ MaxBuffer \in Nat /\ MaxBurst \in Nat
                             /\ MaxDeaths \in Nat
ASSUME ClientAssumption == "free" \notin Clients    \* a client is a thread

VARIABLES up, deaths,      \* the daemon runs; how often it died
          sync, async,     \* fd_sync, fd_async: "closed", "open" or "dead"
          cmds, answers,   \* fd_sync: to the daemon and back
          reports, burst,  \* fd_async; reports since it was last quiet
          mutex,           \* player_internal_mutex: "free", "recv" or a client
          ctl,             \* the handler: "none", "half", "ready", "joining"
          stop,            \* handler->_service_stop
          rec,             \* the report thread
          call,            \* each client: "idle", "locked" or "waiting"
          asked,           \* each client: what it last requested
          told             \* each client: what its last call returned

daemonVars == <<up, deaths>>
connVars   == <<sync, async, cmds, answers, reports, burst>>
ownerVars  == <<ctl, stop>>
clientVars == <<call, asked, told>>
vars == <<daemonVars, connVars, mutex, ownerVars, rec, clientVars>>

Requests == {"snapshot", "volume"}

Init ==
    /\ up = TRUE /\ deaths = 0
    /\ sync = "closed" /\ async = "closed"
    /\ cmds = <<>> /\ answers = <<>> /\ reports = <<>> /\ burst = 0
    /\ mutex = "free" /\ ctl = "none" /\ stop = FALSE /\ rec = "none"
    /\ call = [c \in Clients |-> "idle"]
    /\ asked = [c \in Clients |-> "snapshot"]
    /\ told = [c \in Clients |-> 0]

-----------------------------------------------------------------------------
(* The daemon.  What it has sent can still be read when it is dead.         *)

Broken(connection) == IF connection = "open" THEN "dead" ELSE connection

Die ==
    /\ up /\ deaths < MaxDeaths
    /\ up' = FALSE /\ deaths' = deaths + 1
    /\ sync' = Broken(sync) /\ async' = Broken(async)
    /\ cmds' = <<>>
    /\ UNCHANGED <<answers, reports, burst, mutex, ownerVars, rec, clientVars>>

Restart ==
    /\ ~up /\ up' = TRUE
    /\ UNCHANGED <<deaths, connVars, mutex, ownerVars, rec, clientVars>>

Serve ==
    /\ up /\ cmds # <<>>
    /\ cmds' = Tail(cmds)
    /\ answers' = IF Head(cmds).type \in Requests THEN Append(answers, Head(cmds))
                  ELSE answers
    /\ UNCHANGED <<daemonVars, sync, async, reports, burst, mutex, ownerVars, rec, clientVars>>

Report ==
    /\ up /\ async = "open" /\ burst < MaxBurst
    /\ burst' = burst + 1
    /\ reports' = Append(reports, "snapshot")
    /\ UNCHANGED <<daemonVars, sync, async, cmds, answers, mutex, ownerVars, rec,
                   clientVars>>

-----------------------------------------------------------------------------
(* The handler's life: mozart_player_ch_handler_get and _put.               *)

\* register_connection("sync"): fails when the daemon is not there.
GetSync ==
    /\ ctl = "none" /\ up
    /\ sync' = "open" /\ cmds' = <<>> /\ answers' = <<>> /\ ctl' = "half"
    /\ UNCHANGED <<daemonVars, async, reports, burst, mutex, stop, rec, clientVars>>

GetAsync ==
    /\ ctl = "half"
    /\ \/ up /\ async' = "open" /\ rec' = "select" /\ ctl' = "ready" /\ UNCHANGED sync
       \/ ~up /\ sync' = "closed" /\ ctl' = "none" /\ UNCHANGED <<async, rec>>
    /\ stop' = FALSE /\ reports' = <<>> /\ burst' = 0
    /\ UNCHANGED <<daemonVars, cmds, answers, mutex, clientVars>>

Put ==
    /\ ctl = "ready" /\ \A c \in Clients : call[c] = "idle"
    /\ stop' = TRUE /\ ctl' = "joining"
    /\ UNCHANGED <<daemonVars, connVars, mutex, rec, clientVars>>

BugFree ==           \* without the join
    /\ ctl = "joining"
    /\ stop' = FALSE /\ ctl' = "none"
    /\ sync' = "closed" /\ async' = "closed"
    /\ cmds' = <<>> /\ answers' = <<>> /\ reports' = <<>>
    /\ burst' = 0
    /\ UNCHANGED <<daemonVars, mutex, rec, clientVars>>

\* pthread_join, then the connections are closed and the handler freed.
Free ==
    /\ ctl = "joining" /\ rec = "gone"
    /\ rec' = "none" /\ stop' = FALSE /\ ctl' = "none"
    /\ sync' = "closed" /\ async' = "closed"
    /\ cmds' = <<>> /\ answers' = <<>> /\ reports' = <<>>
    /\ burst' = 0
    /\ UNCHANGED <<daemonVars, mutex, clientVars>>

-----------------------------------------------------------------------------
(* The callers.                                                             *)

\* send_cmd returns 0 whatever send returned; a dead connection takes nothing.
Send(m) == cmds' = IF sync = "open" THEN Append(cmds, m) ELSE cmds

\* send blocks while the socket is full.
Room == sync = "open" => Len(cmds) < MaxBuffer

Command(c) ==
    /\ ctl = "ready" /\ call[c] = "idle" /\ Room
    /\ Send([type |-> "command", from |-> c])
    /\ told' = [told EXCEPT ![c] = 0]
    /\ UNCHANGED <<daemonVars, sync, async, answers, reports, burst, mutex, ownerVars,
                   rec, call, asked>>

BugRequest(c, type) ==       \* without the mutex
    /\ ctl = "ready" /\ call[c] = "idle"
    /\ call' = [call EXCEPT ![c] = "locked"]
    /\ asked' = [asked EXCEPT ![c] = type]
    /\ UNCHANGED <<daemonVars, connVars, mutex, ownerVars, rec, told>>

Request(c, type) ==
    /\ ctl = "ready" /\ call[c] = "idle"
    /\ mutex = "free" /\ mutex' = c
    /\ call' = [call EXCEPT ![c] = "locked"]
    /\ asked' = [asked EXCEPT ![c] = type]
    /\ UNCHANGED <<daemonVars, connVars, ownerVars, rec, told>>

SendRequest(c) ==
    /\ call[c] = "locked" /\ Room
    /\ Send([type |-> asked[c], from |-> c])
    /\ call' = [call EXCEPT ![c] = "waiting"]
    /\ UNCHANGED <<daemonVars, sync, async, answers, reports, burst, mutex, ownerVars,
                   rec, asked, told>>

Return(c, value) == /\ call' = [call EXCEPT ![c] = "idle"]
                    /\ told' = [told EXCEPT ![c] = value]
                    /\ mutex' = "free"

Receive(c) ==
    /\ call[c] = "waiting" /\ answers # <<>>
    /\ answers' = Tail(answers)
    /\ Return(c, 0)
    /\ UNCHANGED <<daemonVars, sync, async, cmds, reports, burst, ownerVars, rec, asked>>

BugHangUp(c) ==      \* waits for the next answer instead
    /\ call[c] = "waiting" /\ answers = <<>> /\ sync = "dead"
    /\ UNCHANGED vars

\* recv returns 0: the peer has shut down.
HangUp(c) ==
    /\ call[c] = "waiting" /\ answers = <<>> /\ sync = "dead"
    /\ Return(c, -1)
    /\ UNCHANGED <<daemonVars, connVars, ownerVars, rec, asked>>

-----------------------------------------------------------------------------
(* recv_player_snapshot_async_func.                                         *)

Readable == reports # <<>> \/ async = "dead"

BugSelectTimeout ==  \* never looks
    /\ rec = "select" /\ ~Readable
    /\ burst' = 0
    /\ UNCHANGED <<daemonVars, sync, async, cmds, answers, reports, mutex, ownerVars,
                   rec, clientVars>>

\* Two hundred milliseconds without anything: the only look at the stop flag.
SelectTimeout ==
    /\ rec = "select" /\ ~Readable
    /\ rec' = IF stop THEN "gone" ELSE "select"
    /\ burst' = 0
    /\ UNCHANGED <<daemonVars, sync, async, cmds, answers, reports, mutex, ownerVars, clientVars>>

\* The report waits while a client is waiting for an answer.
Recv ==
    /\ rec = "select" /\ Readable /\ mutex = "free"
    /\ IF reports # <<>>
       THEN rec' = "callback" /\ reports' = Tail(reports)
       ELSE rec' = "reconnect" /\ UNCHANGED reports
    /\ UNCHANGED <<daemonVars, sync, async, cmds, answers, burst, mutex, ownerVars,
                   clientVars>>

Callback ==
    /\ rec = "callback" /\ rec' = "select"
    /\ UNCHANGED <<daemonVars, connVars, mutex, ownerVars, clientVars>>

BugReconnect ==      \* keeps the old descriptor
    /\ rec = "reconnect" /\ up
    /\ rec' = "select"
    /\ UNCHANGED <<daemonVars, connVars, mutex, ownerVars, clientVars>>

\* Tried until the daemon is there; fd_sync is left as it is.
Reconnect ==
    /\ rec = "reconnect" /\ up
    /\ async' = "open" /\ burst' = 0 /\ rec' = "select"
    /\ UNCHANGED <<daemonVars, sync, cmds, answers, reports, mutex, ownerVars, clientVars>>

-----------------------------------------------------------------------------
Client(c) == \/ Command(c) \/ SendRequest(c) \/ Receive(c) \/ HangUp(c)
             \/ \E type \in Requests : Request(c, type)

Next == \/ Die \/ Restart \/ Serve \/ Report
        \/ GetSync \/ GetAsync \/ Put \/ Free
        \/ \E c \in Clients : Client(c)
        \/ SelectTimeout \/ Recv \/ Callback \/ Reconnect

Spec == Init /\ [][Next]_vars

(* Threads that can run do; the daemon serves and is started again when it  *)
(* is dead; and the report thread, which tries the mutex every 100 ms while *)
(* calls take milliseconds, does not find it taken for ever.                *)
FairSpec ==
    /\ Spec
    /\ WF_vars(Restart) /\ WF_vars(Serve)
    /\ WF_vars(GetAsync) /\ WF_vars(Free)
    /\ \A c \in Clients : WF_vars(SendRequest(c) \/ Receive(c) \/ HangUp(c))
    /\ WF_vars(SelectTimeout) /\ SF_vars(Recv)
    /\ WF_vars(Callback) /\ WF_vars(Reconnect)

-----------------------------------------------------------------------------
Message == [type : Requests \cup {"command"}, from : Clients]

TypeOK ==
    /\ up \in BOOLEAN /\ deaths \in 0 .. MaxDeaths
    /\ sync \in {"closed", "open", "dead"} /\ async \in {"closed", "open", "dead"}
    /\ cmds \in Seq(Message) /\ Len(cmds) <= MaxBuffer
    /\ answers \in Seq(Message) /\ reports \in Seq({"snapshot"})
    /\ burst \in 0 .. MaxBurst
    /\ mutex \in {"free"} \cup Clients
    /\ ctl \in {"none", "half", "ready", "joining"} /\ stop \in BOOLEAN
    /\ rec \in {"none", "select", "callback", "reconnect", "gone"}
    /\ call \in [Clients -> {"idle", "locked", "waiting"}]
    /\ asked \in [Clients -> Requests] /\ told \in [Clients -> {0, -1}]

(* Answers carry no address and differ in size: an answer read by a thread  *)
(* is the one to its own request, also after a death of the daemon and on a *)
(* new handler.                                                             *)
AnswerIsOwn ==
    [][\A c \in Clients : Receive(c) => Head(answers) = [type |-> asked[c], from |-> c]]_vars

(* The report thread never runs, and never calls back, on a handler that    *)
(* has been freed.                                                          *)
NoCallbackAfterFree == rec \notin {"none", "gone"} => ctl \in {"ready", "joining"}

(* A request always ends, with an answer or without.                        *)
RequestEnds == \A c \in Clients : call[c] = "waiting" ~> call[c] = "idle"

(* Reports arrive again after the daemon was restarted, and a handler that  *)
(* is put away is freed in the end, also if the daemon dies meanwhile.      *)
ReportsResume == rec = "reconnect" ~> async = "open" \/ ctl = "none"
PutEnds == ctl = "joining" ~> ctl = "none"

(* send_cmd (include/command.h:140): "return 0 if success, -1 otherwise": a *)
(* command that returned 0 is on its way to the daemon.                     *)
ToldIsSent == [][\A c \in Clients : Command(c) /\ told'[c] = 0 => cmds' # cmds]_vars
=============================================================================
