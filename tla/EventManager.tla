---------------------------- MODULE EventManager ----------------------------
(***************************************************************************)
(* src/molib/event-manager: the process that passes events on, with its    *)
(* three threads, and event_interface.c in the processes it serves.        *)
(*                                                                         *)
(*   reg    process_handler_request: receivers register by connecting      *)
(*   proto  process_protocol_event: one connection for each event sent     *)
(*   dev    eventLoop: keys and hot-plugged devices                        *)
(*                                                                         *)
(* proto and dev both go through conn_fd, which reg fills, without a lock; *)
(* a step is one send, one packet read or one connection accepted.  File   *)
(* descriptors are numbers, because a number that was closed is used       *)
(* again; those of devices are left out of the numbering.  Each process    *)
(* has one handler and one thread that sends.                              *)
(***************************************************************************)
EXTENDS Integers, Sequences, FiniteSets, FiniteSetsExt

CONSTANTS
    Apps,           \* processes that use event_interface
    Devices,        \* input devices
    NULL,
    ConnSize,       \* CONN_FD_SIZE
    EventSize,      \* EVENT_FD_SIZE
    MaxFd,          \* bound: descriptors of the manager
    MaxBuffer,      \* bound: messages a socket takes before send blocks
    MaxEvents,      \* bound on the events of one source
    MaxDeaths,      \* bound on crashes of the manager
    MaxRestarts,    \* bound on crashes of the processes
    MaxPlugs        \* bound on devices plugged in and out

ASSUME NameAssumption ==
    NULL \notin Apps \cup Devices /\ "dev" \notin Apps /\ "uevent" \notin Devices
ASSUME SizeAssumption ==
    {ConnSize, EventSize, MaxFd, MaxBuffer} \subseteq Nat \ {0}
ASSUME DeviceAssumption == IsFiniteSet(Devices)
ASSUME BoundAssumption ==
    {MaxEvents, MaxDeaths, MaxRestarts, MaxPlugs} \subseteq Nat

VARIABLES
    up,          \* the manager runs
    reg,         \* process_handler_request has not returned
    fds,         \* its open sockets, by descriptor
    conn_fd,     \* descriptors of the receivers; 0 for the code's -1
    queue,       \* connections not accepted, at either port
    conn,        \* proto: the descriptor it reads from, or 0
    dist,        \* proto, dev: event and place in distribute_event, or NULL
    event_fd,    \* the devices' descriptors
    ready,       \* dev: what select returned and is still to be handled
    news,        \* uevents of devices added, not read
    plugged,     \* devices there are
    rx,          \* receivers: not started, connected, or gone for good
    tx,          \* senders: idle, connected, waiting for the answer
    inbox,       \* what was written to each connection and not read
    posted, got,             \* history: events sent, and received from each source
    deaths, restarts, plugs

manager == <<up, reg, fds, conn_fd, queue, conn, dist>>
devices == <<event_fd, ready, news, plugged>>
clients == <<rx, tx, inbox, posted, got>>
bounds == <<deaths, restarts, plugs>>
vars == <<manager, devices, clients, bounds>>

Sources == Apps \cup {"dev"}
Distributors == {"proto", "dev"}
End == [app : Apps, role : {"recv", "send"}]
Of(a, r) == [app |-> a, role |-> r]
FREE == Of(NULL, "free")    \* no descriptor
DEAD == Of(NULL, "dead")    \* a connection whose peer is gone
Event == [source : Sources, n : 1 .. MaxEvents + MaxPlugs]
YES == [source |-> NULL, n |-> 1]       \* the answer "1"
Fds == 1 .. MaxFd
Slots == 1 .. EventSize
Nothing == [s \in Sources |-> <<>>]

TypeOK ==
    /\ up \in BOOLEAN /\ reg \in BOOLEAN
    /\ fds \in [Fds -> End \cup {FREE, DEAD}]
    /\ conn_fd \in [1 .. ConnSize -> 0 .. MaxFd]
    /\ queue \in [{"recv", "send"} -> Seq(End \cup {DEAD})]
    /\ conn \in 0 .. MaxFd
    /\ \A t \in Distributors :
          dist[t] # NULL => dist[t] \in [event : Event, at : 1 .. ConnSize]
    /\ event_fd \in [Slots -> Devices \cup {"uevent", "gone", NULL}]
    /\ ready \subseteq Slots /\ news \in Seq(Devices) /\ plugged \subseteq Devices
    /\ rx \in [Apps -> {"none", "open", "lost"}]
    /\ tx \in [Apps -> {"idle", "connected", "sent"}]
    /\ inbox \in [End -> Seq(Event \cup {YES})]
    /\ posted \in [Sources -> 0 .. MaxEvents + MaxPlugs]
    /\ got \in [Apps -> [Sources -> Seq(1 .. MaxEvents + MaxPlugs)]]
    /\ deaths \in 0 .. MaxDeaths /\ restarts \in 0 .. MaxRestarts
    /\ plugs \in 0 .. MaxPlugs

-----------------------------------------------------------------------------
(* Starting and dying.                                                      *)

\* openKeyboard, then openUeventSocket: each takes the first free place.
Opened(q) ==
    [i \in Slots |-> IF i <= Len(q) THEN q[i]
                     ELSE IF i = Len(q) + 1 THEN "uevent" ELSE NULL]

\* The devices found, in the order readdir gives them.
Found(D) ==
    {q \in [1 .. Cardinality(D) -> D] : \A d \in D : \E i \in DOMAIN q : q[i] = d}

NoFds == [f \in Fds |-> FREE]
NoConnFd == [i \in 1 .. ConnSize |-> 0]
NoQueue == [r \in {"recv", "send"} |-> <<>>]
NoDist == [t \in Distributors |-> NULL]

Init ==
    /\ up = TRUE /\ reg = TRUE /\ fds = NoFds /\ conn_fd = NoConnFd
    /\ queue = NoQueue /\ conn = 0 /\ dist = NoDist /\ ready = {} /\ news = <<>>
    /\ plugged \in SUBSET Devices /\ \E q \in Found(plugged) : event_fd = Opened(q)
    /\ rx = [a \in Apps |-> "none"] /\ tx = [a \in Apps |-> "idle"]
    /\ inbox = [e \in End |-> <<>>]
    /\ posted = [s \in Sources |-> 0] /\ got = [a \in Apps |-> Nothing]
    /\ deaths = MaxDeaths /\ restarts = MaxRestarts /\ plugs = MaxPlugs

\* sig_handler: every socket is closed.  The registration thread of the next
\* run may fail to get its port (~reg): bind and listen are not tried again.
Die ==
    /\ up /\ deaths > 0 /\ deaths' = deaths - 1 /\ up' = FALSE
    /\ reg' \in BOOLEAN /\ fds' = NoFds /\ conn_fd' = NoConnFd /\ queue' = NoQueue
    /\ conn' = 0 /\ dist' = NoDist /\ ready' = {} /\ news' = <<>>
    /\ event_fd' = [i \in Slots |-> NULL]
    /\ UNCHANGED <<plugged, clients, restarts, plugs>>

Boot ==
    /\ ~up /\ up' = TRUE
    /\ \E q \in Found(plugged) : event_fd' = Opened(q)
    /\ UNCHANGED <<reg, fds, conn_fd, queue, conn, dist, ready, news, plugged,
                   clients, bounds>>

-----------------------------------------------------------------------------
(* Receivers: mozart_event_handler_get and recv_event_thread.               *)

Attached(e) ==
    \/ \E f \in Fds : fds[f] = e
    \/ \E i \in DOMAIN queue[e.role] : queue[e.role][i] = e

Connects(a) == queue' = [queue EXCEPT !["recv"] = Append(@, Of(a, "recv"))]

\* A connection that fails is never tried again: sockfd is then -1, which
\* recv_event_thread reads for ever.
Register(a) ==
    /\ \/ up /\ reg /\ Connects(a) /\ rx' = [rx EXCEPT ![a] = "open"]
       \/ ~(up /\ reg) /\ rx' = [rx EXCEPT ![a] = "lost"] /\ UNCHANGED queue
    /\ UNCHANGED <<up, reg, fds, conn_fd, conn, dist, devices, tx, inbox, posted,
                   got, bounds>>

HandlerGet(a) == rx[a] = "none" /\ Register(a)

\* The manager has closed the connection: half a second later, a new one.
Reconnect(a) ==
    LET e == Of(a, "recv")
    IN  rx[a] = "open" /\ ~Attached(e) /\ inbox[e] = <<>> /\ Register(a)

Receive(a) ==
    LET e == Of(a, "recv")
        m == Head(inbox[e])
    IN  /\ rx[a] = "open" /\ inbox[e] # <<>>
        /\ inbox' = [inbox EXCEPT ![e] = Tail(@)]
        /\ got' = [got EXCEPT ![a][m.source] = Append(@, m.n)]
        /\ UNCHANGED <<manager, devices, rx, tx, posted, bounds>>

\* The process dies and is started again; the manager does not notice.  The
\* model leaves out a death between an event and its answer.
Mourn(x, a) == IF x \in {Of(a, "recv"), Of(a, "send")} THEN DEAD ELSE x

Restart(a) ==
    /\ rx[a] # "none" /\ tx[a] # "sent" /\ restarts > 0 /\ restarts' = restarts - 1
    /\ rx' = [rx EXCEPT ![a] = "none"] /\ tx' = [tx EXCEPT ![a] = "idle"]
    /\ fds' = [f \in Fds |-> Mourn(fds[f], a)]
    /\ queue' = [r \in DOMAIN queue |->
                    [i \in DOMAIN queue[r] |-> Mourn(queue[r][i], a)]]
    /\ inbox' = [e \in End |-> IF e.app = a THEN <<>> ELSE inbox[e]]
    /\ got' = [got EXCEPT ![a] = Nothing]
    /\ UNCHANGED <<up, reg, conn_fd, conn, dist, devices, posted, deaths, plugs>>

-----------------------------------------------------------------------------
(* mozart_event_send: a connection, the event, and two bytes back.          *)

Sent(a) == Of(a, "send")

SendConnect(a) ==
    /\ tx[a] = "idle" /\ posted[a] < MaxEvents /\ up
    /\ tx' = [tx EXCEPT ![a] = "connected"]
    /\ queue' = [queue EXCEPT !["send"] = Append(@, Sent(a))]
    /\ UNCHANGED <<up, reg, fds, conn_fd, conn, dist, devices, rx, inbox, posted,
                   got, bounds>>

SendEvent(a) ==
    /\ tx[a] = "connected" /\ Attached(Sent(a))
    /\ tx' = [tx EXCEPT ![a] = "sent"]
    /\ posted' = [posted EXCEPT ![a] = @ + 1]
    /\ UNCHANGED <<manager, devices, rx, inbox, got, bounds>>

SendDone(a) == tx' = [tx EXCEPT ![a] = "idle"]

Answered(a) ==
    /\ tx[a] = "sent" /\ inbox[Sent(a)] # <<>>
    /\ SendDone(a) /\ inbox' = [inbox EXCEPT ![Sent(a)] = <<>>]
    /\ fds' = [f \in Fds |-> IF fds[f] = Sent(a) THEN DEAD ELSE fds[f]]
    /\ UNCHANGED <<up, reg, conn_fd, queue, conn, dist, devices, rx, posted, got,
                   bounds>>

SendFails(a) ==
    /\ tx[a] # "idle" /\ ~Attached(Sent(a))
    /\ tx[a] = "sent" => inbox[Sent(a)] = <<>>
    /\ SendDone(a) /\ inbox' = [inbox EXCEPT ![Sent(a)] = <<>>]
    /\ UNCHANGED <<manager, devices, rx, posted, got, bounds>>

-----------------------------------------------------------------------------
(* The manager's registration thread.                                       *)

Free == {f \in Fds : fds[f] = FREE}
Accepts(r, f) ==
    /\ up /\ queue[r] # <<>> /\ Free # {} /\ f = Min(Free)
    /\ fds' = [fds EXCEPT ![f] = Head(queue[r])]

Vacant == {i \in 1 .. ConnSize : conn_fd[i] = 0}

\* The search goes on after the first free place.
BugStore(f) ==
    conn_fd' = [i \in 1 .. ConnSize |-> IF i \in Vacant THEN f ELSE conn_fd[i]]
Store(f) == conn_fd' = [conn_fd EXCEPT ![Min(Vacant)] = f]

RegAccept ==
    /\ reg /\ Vacant # {} /\ \E f \in Fds : Accepts("recv", f) /\ Store(f)
    /\ queue' = [queue EXCEPT !["recv"] = Tail(@)]
    /\ UNCHANGED <<up, reg, conn, dist, devices, clients, bounds>>

\* One connection too many: all the others and the port are closed for good.
\* conn_fd keeps their descriptors, and the new connection is left open.
RegFull ==
    /\ up /\ reg /\ Vacant = {} /\ queue["recv"] # <<>> /\ Free # {}
    /\ reg' = FALSE
    /\ fds' = [f \in Fds |-> IF \E i \in 1 .. ConnSize : conn_fd[i] = f THEN FREE
                             ELSE IF f = Min(Free) THEN Head(queue["recv"])
                             ELSE fds[f]]
    /\ queue' = [queue EXCEPT !["recv"] = <<>>]
    /\ UNCHANGED <<up, conn_fd, conn, dist, devices, clients, bounds>>

-----------------------------------------------------------------------------
(* distribute_event, by either thread: a connection whose peer is gone is   *)
(* passed over, a full one is waited for.                                   *)

Begin(t, s) ==
    dist' = [dist EXCEPT ![t] = [event |-> [source |-> s, n |-> posted'[s]], at |-> 1]]

Target(t) ==
    LET f == conn_fd[dist[t].at]
    IN  IF f = 0 THEN FREE ELSE fds[f]

BugOnward(t) == dist' = [dist EXCEPT ![t] = NULL]   \* only the first receiver
BugPast(t) ==                                       \* <= CONN_FD_SIZE
    dist' = [dist EXCEPT ![t] = IF dist[t].at > ConnSize THEN NULL
                                ELSE [dist[t] EXCEPT !.at = @ + 1]]

Onward(t) ==
    dist' = [dist EXCEPT ![t] = IF dist[t].at = ConnSize THEN NULL
                                ELSE [dist[t] EXCEPT !.at = @ + 1]]

Distribute(t) ==
    /\ up /\ dist[t] # NULL /\ Onward(t)
    /\ \/ Target(t) \notin End /\ UNCHANGED inbox
       \/ /\ Target(t) \in End /\ Len(inbox[Target(t)]) < MaxBuffer
          /\ inbox' = [inbox EXCEPT ![Target(t)] = Append(@, dist[t].event)]
    /\ UNCHANGED <<up, reg, fds, conn_fd, queue, conn, devices, rx, tx, posted,
                   got, bounds>>

-----------------------------------------------------------------------------
(* The manager's thread for sent events: one connection at a time.          *)

ProtoAccept ==
    /\ dist["proto"] = NULL /\ conn = 0
    /\ \E f \in Fds : Accepts("send", f) /\ conn' = f
    /\ queue' = [queue EXCEPT !["send"] = Tail(@)]
    /\ UNCHANGED <<up, reg, conn_fd, dist, devices, clients, bounds>>

\* The answer is written before the event is passed on.
BugFeedback(e) == UNCHANGED <<inbox, fds>>      \* no answer
Feedback(e) ==
    /\ inbox' = [inbox EXCEPT ![e] = Append(@, YES)]
    /\ fds' = [fds EXCEPT ![conn] = FREE]

ProtoRead(a) ==
    /\ conn # 0 /\ fds[conn] = Sent(a) /\ tx[a] = "sent"
    /\ Feedback(Sent(a)) /\ conn' = 0
    /\ UNCHANGED posted /\ Begin("proto", a)
    /\ UNCHANGED <<up, reg, conn_fd, queue, devices, rx, tx, got, bounds>>

\* The peer is gone: the descriptor is not closed.
ProtoGone ==
    /\ conn # 0 /\ fds[conn] = DEAD /\ conn' = 0
    /\ UNCHANGED <<up, reg, fds, conn_fd, queue, dist, devices, clients, bounds>>

Proto == ProtoAccept \/ ProtoGone \/ \E a \in Apps : ProtoRead(a)

-----------------------------------------------------------------------------
(* eventLoop.  select watches the descriptors before the first hole.        *)

Watched == {i \in Slots : \A j \in 1 .. i : event_fd[j] # NULL}

Readable(i) ==
    \/ event_fd[i] = "gone"
    \/ event_fd[i] = "uevent" /\ news # <<>>
    \/ event_fd[i] \in Devices \cup {"uevent"} /\ posted["dev"] < MaxEvents

\* What is readable for certain, and any of the rest: a key may be pressed.
DevSelect ==
    /\ up /\ dist["dev"] = NULL /\ ready = {}
    /\ \E R \in SUBSET {i \in Watched : Readable(i)} :
          /\ R # {} /\ ready' = R
          /\ \A i \in Watched : event_fd[i] = "gone" => i \in R
          /\ \A i \in Watched : event_fd[i] = "uevent" /\ news # <<>> => i \in R
    /\ UNCHANGED <<manager, event_fd, news, plugged, clients, bounds>>

\* handle_fd of the next one; `shares` when it ends in distribute_event.
Handles(i) ==
    /\ up /\ dist["dev"] = NULL /\ ready # {} /\ i = Min(ready)
    /\ ready' = ready \ {i}
    /\ UNCHANGED <<up, reg, fds, conn_fd, queue, conn, plugged, rx, tx, inbox, got,
                   bounds>>

Shares ==
    posted' = [posted EXCEPT !["dev"] = @ + 1] /\ Begin("dev", "dev")

\* handle_key.  A key read while the device is pulled out is still a key.
DevKey(i) ==
    /\ Handles(i) /\ event_fd[i] \in Devices
    /\ \/ posted["dev"] < MaxEvents /\ Shares
       \/ posted["dev"] >= MaxEvents /\ UNCHANGED <<posted, dist>>
    /\ UNCHANGED <<event_fd, news>>

DevGone(i) ==
    /\ Handles(i) /\ event_fd[i] = "gone"
    /\ event_fd' = [event_fd EXCEPT ![i] = NULL]
    /\ UNCHANGED <<news, posted, dist>>

\* handle_device: a new device takes the first hole, and an event without a
\* name is distributed.
Holes == {i \in Slots : event_fd[i] = NULL}
Openevent(d) ==
    event_fd' = IF d \in plugged /\ Holes # {}
                THEN [event_fd EXCEPT ![Min(Holes)] = d] ELSE event_fd

DevAdded(i) ==
    /\ Handles(i) /\ event_fd[i] = "uevent" /\ news # <<>>
    /\ Openevent(Head(news)) /\ news' = Tail(news) /\ Shares

\* Any other uevent of a kind that is passed on.
DevMisc(i) ==
    /\ Handles(i) /\ event_fd[i] = "uevent" /\ news = <<>>
    /\ \/ posted["dev"] < MaxEvents /\ Shares
       \/ posted["dev"] >= MaxEvents /\ UNCHANGED <<posted, dist>>
    /\ UNCHANGED <<event_fd, news>>

Dev == DevSelect \/ \E i \in Slots : DevKey(i) \/ DevGone(i) \/ DevAdded(i) \/ DevMisc(i)

\* The kernel: devices come and go.
Plug(d) ==
    /\ d \notin plugged /\ plugs > 0 /\ plugs' = plugs - 1
    /\ \A i \in Slots : event_fd[i] # d
    /\ plugged' = plugged \cup {d}
    /\ news' = IF \E i \in Slots : event_fd[i] = "uevent" THEN Append(news, d) ELSE news
    /\ UNCHANGED <<manager, event_fd, ready, clients, deaths, restarts>>

Unplug(d) ==
    /\ d \in plugged /\ plugs > 0 /\ plugs' = plugs - 1
    /\ plugged' = plugged \ {d}
    /\ event_fd' = [i \in Slots |-> IF event_fd[i] = d THEN "gone" ELSE event_fd[i]]
    /\ UNCHANGED <<manager, ready, news, clients, deaths, restarts>>

-----------------------------------------------------------------------------
Manager ==
    \/ RegAccept \/ RegFull \/ Proto \/ Dev
    \/ \E t \in Distributors : Distribute(t)

App(a) ==
    \/ HandlerGet(a) \/ Reconnect(a) \/ Receive(a) \/ Restart(a)
    \/ SendConnect(a) \/ SendEvent(a) \/ Answered(a) \/ SendFails(a)

Next ==
    \/ Die \/ Boot \/ Manager \/ \E a \in Apps : App(a)
    \/ \E d \in Devices : Plug(d) \/ Unplug(d)

Spec == Init /\ [][Next]_vars

\* The threads run; a callback returns (Receive); a send, once begun, goes on.
Fairness ==
    /\ WF_vars(RegAccept \/ RegFull) /\ WF_vars(Proto) /\ WF_vars(Dev)
    /\ \A t \in Distributors : WF_vars(Distribute(t))
    /\ \A a \in Apps :
          /\ WF_vars(Reconnect(a) \/ Receive(a))
          /\ WF_vars(SendEvent(a) \/ Answered(a) \/ SendFails(a))

FairSpec == Spec /\ Fairness

-----------------------------------------------------------------------------
(* Properties.                                                              *)

\* event_manager.c, event_interface.c: whatever dies and starts again, nobody
\* receives what was not sent, and nobody receives an event twice or before
\* an older one of the same sender.
Bus == INSTANCE EventBus
BusSpec == Bus!Spec

\* mozart_event_send always returns, whether the manager answers, dies or has
\* closed its port for receivers.
SendEnds == \A a \in Apps : tx[a] # "idle" ~> tx[a] = "idle"

\* distribute_event: a receiver that is connected when an event is passed on
\* gets it, however full its connection is and whatever the other receivers
\* and the other thread do, unless it loses the connection.
Due(a, s) ==
    \E t \in Distributors, i \in 1 .. ConnSize :
        /\ dist[t] # NULL /\ dist[t].event = [source |-> s, n |-> posted[s]]
        /\ dist[t].at <= i /\ conn_fd[i] # 0 /\ fds[conn_fd[i]] = Of(a, "recv")
Delivered ==
    \A a \in Apps, s \in Sources :
        Due(a, s) ~> (\E k \in DOMAIN got[a][s] : got[a][s][k] = posted[s]) \/ ~Attached(Of(a, "recv"))

\* event_manager.c:283, "new input device added, select it": a device that is
\* plugged in comes to be watched, or is pulled out again.
AddedIsSelected ==
    \A d \in Devices :
        d \in plugged ~> \/ ~up \/ d \notin plugged
                         \/ \E i \in Watched : event_fd[i] = d

=============================================================================
