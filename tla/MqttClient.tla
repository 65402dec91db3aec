----------------------------- MODULE MqttClient -----------------------------
(***************************************************************************)
(* src/mqtt_lib: the MQTT client library, run by the one thread of         *)
(* start_mqtt (sub_client.c) in mosquitto_loop_forever, and the broker at  *)
(* the other end of a TCP connection that may break or fall silent.        *)
(*                                                                         *)
(* A step is one packet handled, one turn of the loop's write or misc part *)
(* or one call of the application.  Message identifiers stand for their    *)
(* message: the 16-bit counter does not wrap within the bounds.  The       *)
(* library writes a packet at once unless it is sent from a callback; what *)
(* the socket does not take stays in the packet queue.                     *)
(***************************************************************************)
EXTENDS Integers, Sequences, FiniteSets

CONSTANTS
    OutMsgs,        \* messages the application publishes
    InMsgs,         \* messages the broker has for the subscriber
    Setups,         \* clean_session and the quality of service of the messages
    MaxInflight,    \* mosq->max_inflight_messages
    NULL,
    MaxWire,        \* bound: packets the socket takes before it blocks
    MaxLosses,      \* bound on connections that break, stall or are refused
    MaxElapses      \* bound on retry and keepalive times that pass

ASSUME MessageAssumption ==
    /\ IsFiniteSet(OutMsgs) /\ IsFiniteSet(InMsgs)
    /\ OutMsgs \cap InMsgs = {} /\ NULL \notin OutMsgs \cup InMsgs
    /\ Setups \subseteq [clean : BOOLEAN, qos : [OutMsgs \cup InMsgs -> 0 .. 2]]
ASSUME LimitAssumption == MaxInflight \in Nat \ {0}
ASSUME BoundAssumption ==
    MaxWire \in Nat \ {0} /\ MaxLosses \in Nat /\ MaxElapses \in Nat

VARIABLES
    run,          \* start_mqtt: not yet connected, in its loop, returned
    sock,         \* mosq->sock # INVALID_SOCKET
    state,        \* mosq->state
    ping,         \* mosq->ping_t # 0
    idle,         \* the keepalive time has passed
    out,          \* out_messages: QoS 1 and 2 messages not acknowledged
    inflight,     \* inflight_messages
    in,           \* in_messages: QoS 2 messages not released
    outp,         \* current_out_packet and out_packet
    published,    \* messages mosquitto_publish was called with
    told,         \* calls of on_publish for each message
    delivered,    \* calls of on_message for each message
    wire,         \* the TCP connection
    c2b, b2c,     \* packets on it, each way
    bstate,       \* broker: waits for CONNECT, or connected
    bsub,         \* broker: the topics are subscribed
    bin,          \* broker: QoS 2 messages received, not released
    bout,         \* broker: its messages
    arrived,      \* broker: times a message was passed on
    setup,        \* mosq->clean_session, and what each message was published with
    losses, elapses

client == <<run, sock, state, ping, idle, out, inflight, in, outp, published,
            told, delivered>>
broker == <<bstate, bsub, bin, bout, arrived>>
bounds == <<losses, elapses, setup>>
vars == <<client, wire, c2b, b2c, broker, bounds>>

Qos(m) == setup.qos[m]
Packet(k, m) == [kind |-> k, msg |-> m]
ToBroker ==
    [kind : {"CONNECT", "SUBSCRIBE", "PINGREQ"}, msg : {NULL}]
      \cup [kind : {"PUBLISH", "PUBREL"}, msg : OutMsgs]
      \cup [kind : {"PUBACK", "PUBREC", "PUBCOMP"}, msg : InMsgs]
ToClient ==
    [kind : {"CONNACK", "REFUSED", "SUBACK", "PINGRESP"}, msg : {NULL}]
      \cup [kind : {"PUBLISH", "PUBREL"}, msg : InMsgs]
      \cup [kind : {"PUBACK", "PUBREC", "PUBCOMP"}, msg : OutMsgs]

OutStates == {"invalid", "wait_for_puback", "wait_for_pubrec",
              "wait_for_pubcomp"}

\* Every variable stays in its type; the count of messages under way does not
\* fall below zero, whatever is acknowledged after a reconnection.
TypeOK ==
    /\ run \in {"new", "loop", "ended"} /\ sock \in BOOLEAN
    /\ state \in {"new", "connected"} /\ ping \in BOOLEAN /\ idle \in BOOLEAN
    /\ out \in Seq([msg : OutMsgs, state : OutStates, due : BOOLEAN])
    /\ inflight \in Nat
    /\ in \in Seq([msg : InMsgs, due : BOOLEAN])
    /\ outp \in Seq(ToBroker) /\ c2b \in Seq(ToBroker) /\ b2c \in Seq(ToClient)
    /\ published \subseteq OutMsgs
    /\ told \in [OutMsgs -> Nat] /\ delivered \in [InMsgs -> Nat]
    /\ wire \in {"none", "up", "stalled", "cut"}
    /\ bstate \in {"none", "await", "on"} /\ bsub \in BOOLEAN
    /\ bin \subseteq OutMsgs
    /\ bout \in [InMsgs -> {"idle", "sent", "rel", "done"}]
    /\ arrived \in [OutMsgs -> Nat]
    /\ setup \in Setups /\ losses \in Nat /\ elapses \in Nat

Init ==
    /\ run = "new" /\ sock = FALSE /\ state = "new"
    /\ ping = FALSE /\ idle = FALSE
    /\ out = <<>> /\ inflight = 0 /\ in = <<>> /\ outp = <<>>
    /\ published = {} /\ told = [m \in OutMsgs |-> 0]
    /\ delivered = [m \in InMsgs |-> 0]
    /\ wire = "none" /\ c2b = <<>> /\ b2c = <<>>
    /\ bstate = "none" /\ bsub = FALSE /\ bin = {}
    /\ bout = [m \in InMsgs |-> "idle"] /\ arrived = [m \in OutMsgs |-> 0]
    /\ setup \in Setups /\ losses = MaxLosses /\ elapses = MaxElapses

-----------------------------------------------------------------------------
(* Sending.  A write takes the whole packet queue as far as the socket has  *)
(* room; on_publish is called for every QoS 0 message written.  On a        *)
(* stalled connection the bytes are taken and lost, on a broken one the     *)
(* write fails and the packets stay queued.                                 *)

Written(t, q) ==
    [m \in OutMsgs |->
        t[m] + Cardinality({i \in DOMAIN q :
                               Qos(m) = 0 /\ q[i] = Packet("PUBLISH", m)})]

BugPacketWrite(q, t) ==       \* forgets what the socket did not take
    LET room == MaxWire - Len(c2b)
        n == IF Len(q) < room THEN Len(q) ELSE room
    IN  \/ /\ wire = "up"
           /\ c2b' = c2b \o SubSeq(q, 1, n)
           /\ outp' = <<>>
           /\ told' = Written(t, SubSeq(q, 1, n))
        \/ wire = "stalled" /\ outp' = <<>> /\ told' = Written(t, q)
           /\ UNCHANGED c2b
        \/ wire = "cut" /\ outp' = q /\ told' = t /\ UNCHANGED c2b

PacketWrite(q, t) ==
    LET room == MaxWire - Len(c2b)
        n == IF Len(q) < room THEN Len(q) ELSE room
    IN  \/ /\ wire = "up"
           /\ c2b' = c2b \o SubSeq(q, 1, n)
           /\ outp' = SubSeq(q, n + 1, Len(q))
           /\ told' = Written(t, SubSeq(q, 1, n))
        \/ wire = "stalled" /\ outp' = <<>> /\ told' = Written(t, q)
           /\ UNCHANGED c2b
        \/ wire = "cut" /\ outp' = q /\ told' = t /\ UNCHANGED c2b

Send(ps) == PacketWrite(outp \o ps, told)

SocketClose == sock' = FALSE /\ wire' = "none" /\ b2c' = <<>>

\* A handler's packet: if it cannot be written, loop_read closes the socket.
Reply(ps) ==
    /\ Send(ps)
    /\ \/ wire # "cut" /\ b2c' = Tail(b2c) /\ UNCHANGED <<sock, wire>>
       \/ wire = "cut" /\ SocketClose

-----------------------------------------------------------------------------
(* Messages going out.  At most MaxInflight of them are under way; the      *)
(* others wait, invalid, and the first of them starts when one is removed.  *)

Waiting(m) == IF Qos(m) = 1 THEN "wait_for_puback" ELSE "wait_for_pubrec"

MessageQueue(m) ==        \* _mosquitto_message_queue and the state it implies
    LET room == inflight < MaxInflight
    IN  /\ out' = Append(out, [msg |-> m, due |-> FALSE,
                               state |-> IF room THEN Waiting(m) ELSE "invalid"])
        /\ inflight' = IF room THEN inflight + 1 ELSE inflight

\* mosquitto_publish, called outside the callbacks.
Publish(m) ==
    /\ run = "loop" /\ m \notin published
    /\ published' = published \cup {m}
    /\ IF Qos(m) = 0 THEN UNCHANGED <<out, inflight>> ELSE MessageQueue(m)
    /\ IF sock /\ (Qos(m) = 0 \/ inflight < MaxInflight)
       THEN Send(<<Packet("PUBLISH", m)>>)
       ELSE UNCHANGED <<outp, told, c2b>>
    /\ UNCHANGED <<run, sock, state, ping, idle, in, delivered, wire, b2c,
                   broker, bounds>>

\* The first message of the list with this identifier.
Holds(q, k, m) == q[k].msg = m /\ \A j \in 1 .. k - 1 : q[j].msg # m

Without(q, k) == [i \in 1 .. Len(q) - 1 |-> IF i < k THEN q[i] ELSE q[i + 1]]

\* What is left of the list when its k-th message is removed, and the message
\* that starts: the removal freed one place.
FirstInvalid(q, i) ==
    /\ q[i].state = "invalid"
    /\ \A j \in 1 .. i - 1 : q[j].state # "invalid"

BugMessageRemove(k) ==        \* does not start the next one
    /\ out' = Without(out, k) /\ inflight' = inflight - 1
    /\ Send(<<>>)

MessageRemove(k) ==
    LET q == Without(out, k)
        starts == {i \in DOMAIN q : FirstInvalid(q, i)}
        tell == [told EXCEPT ![out[k].msg] = @ + 1]
    IN  \/ /\ starts = {} \/ inflight - 1 >= MaxInflight
           /\ out' = q /\ inflight' = inflight - 1
           /\ told' = tell /\ UNCHANGED <<outp, c2b>>
        \/ \E i \in starts :
           /\ inflight - 1 < MaxInflight
           /\ out' = [q EXCEPT ![i].state = Waiting(q[i].msg)]
           /\ UNCHANGED inflight
           \* If the write fails, message_delete fails and on_publish is not
           \* called for the message removed.
           /\ PacketWrite(outp \o <<Packet("PUBLISH", q[i].msg)>>,
                          IF wire = "cut" THEN told ELSE tell)

\* The session is reset for a new connection: packets queued are dropped,
\* messages beyond the limit wait again, and all the others are due.
BugReconnectCount ==          \* counts what is sent, and that is later
    /\ out' = [i \in DOMAIN out |->
                  [out[i] EXCEPT !.due = TRUE,
                                 !.state = IF i > MaxInflight THEN "invalid"
                                           ELSE IF Qos(out[i].msg) = 1
                                           THEN "wait_for_puback" ELSE @]]
    /\ inflight' = 0
    /\ in' = [i \in DOMAIN in |-> [in[i] EXCEPT !.due = TRUE]]

BugReconnectReset ==          \* starts QoS 2 messages over as well
    /\ out' = [i \in DOMAIN out |->
                  [out[i] EXCEPT !.due = TRUE,
                                 !.state = IF i > MaxInflight THEN "invalid"
                                           ELSE Waiting(out[i].msg)]]
    /\ inflight' = IF Len(out) < MaxInflight THEN Len(out) ELSE MaxInflight
    /\ in' = [i \in DOMAIN in |-> [in[i] EXCEPT !.due = TRUE]]

ReconnectReset ==
    /\ out' = [i \in DOMAIN out |->
                  [out[i] EXCEPT !.due = TRUE,
                                 !.state = IF i > MaxInflight THEN "invalid"
                                           ELSE IF Qos(out[i].msg) = 1
                                           THEN "wait_for_puback" ELSE @]]
    /\ inflight' = IF Len(out) < MaxInflight THEN Len(out) ELSE MaxInflight
    /\ in' = [i \in DOMAIN in |-> [in[i] EXCEPT !.due = TRUE]]

-----------------------------------------------------------------------------
(* Connecting.                                                              *)

\* Packets of the old connection are dropped before CONNECT is queued.
BugKept == outp
Kept == <<>>

Reconnected ==
    /\ sock' = TRUE /\ state' = "new" /\ ping' = FALSE /\ idle' = FALSE
    /\ ReconnectReset
    /\ outp' = <<>>
    /\ wire' = "up" /\ c2b' = Append(Kept, Packet("CONNECT", NULL))
    /\ b2c' = <<>>
    /\ bstate' = "await"
    /\ UNCHANGED <<published, told, delivered, bsub, bin, bout, arrived, bounds>>

\* client_connect: start_mqtt returns if the first attempt fails.
ClientConnect ==
    /\ run = "new"
    /\ \/ run' = "loop" /\ Reconnected
       \/ /\ run' = "ended"
          /\ UNCHANGED <<sock, state, ping, idle, out, inflight, in, outp,
                         published, told, delivered, wire, c2b, b2c, broker,
                         bounds>>

\* loop_forever: an attempt that fails is followed by another.
Reconnect == run = "loop" /\ ~sock /\ Reconnected /\ UNCHANGED run

-----------------------------------------------------------------------------
(* Packets received.                                                        *)

Receive(k) ==
    /\ sock /\ b2c # <<>> /\ Head(b2c).kind = k

Received == b2c' = Tail(b2c) /\ UNCHANGED <<sock, wire>>

HandleConnack ==          \* sub_connect_callback subscribes: only queued
    /\ Receive("CONNACK") /\ Received
    /\ state' = "connected"
    /\ outp' = Append(outp, Packet("SUBSCRIBE", NULL))
    /\ UNCHANGED <<run, ping, idle, out, inflight, in, published, told,
                   delivered, c2b, broker, bounds>>

HandleRefused ==
    /\ Receive("REFUSED") /\ SocketClose
    /\ UNCHANGED <<run, state, ping, idle, out, inflight, in, outp, published,
                   told, delivered, c2b, broker, bounds>>

HandlePingresp ==
    /\ Receive("PINGRESP") /\ Received /\ ping' = FALSE
    /\ UNCHANGED <<run, state, idle, out, inflight, in, outp, published, told,
                   delivered, c2b, broker, bounds>>

HandleSuback ==
    /\ Receive("SUBACK") /\ Received
    /\ UNCHANGED <<run, state, ping, idle, out, inflight, in, outp, published,
                   told, delivered, c2b, broker, bounds>>

OnMessage(m) == delivered' = [delivered EXCEPT ![m] = @ + 1]

HandlePublish ==
    /\ Receive("PUBLISH")
    /\ LET m == Head(b2c).msg
       IN  \/ /\ Qos(m) = 0 /\ Received /\ OnMessage(m)
              /\ UNCHANGED <<in, outp, told, c2b>>
           \/ /\ Qos(m) = 1 /\ Reply(<<Packet("PUBACK", m)>>) /\ OnMessage(m)
              /\ UNCHANGED in
           \/ /\ Qos(m) = 2 /\ Reply(<<Packet("PUBREC", m)>>)
              /\ in' = Append(in, [msg |-> m, due |-> FALSE])
              /\ UNCHANGED delivered
    /\ UNCHANGED <<run, state, ping, idle, out, inflight, published, broker,
                   bounds>>

HandlePubrel ==           \* PUBCOMP is sent for an unknown message too
    /\ Receive("PUBREL")
    /\ LET m == Head(b2c).msg
       IN  /\ \/ \E k \in DOMAIN in :
                    Holds(in, k, m) /\ in' = Without(in, k) /\ OnMessage(m)
              \/ /\ \A k \in DOMAIN in : in[k].msg # m
                 /\ UNCHANGED <<in, delivered>>
           /\ Reply(<<Packet("PUBCOMP", m)>>)
    /\ UNCHANGED <<run, state, ping, idle, out, inflight, published, broker,
                   bounds>>

HandlePubackcomp(kind) ==
    /\ Receive(kind) /\ Received
    /\ LET m == Head(b2c).msg
       IN  \/ \E k \in DOMAIN out : Holds(out, k, m) /\ MessageRemove(k)
           \/ /\ \A k \in DOMAIN out : out[k].msg # m
              /\ UNCHANGED <<out, inflight, outp, told, c2b>>
    /\ UNCHANGED <<run, state, ping, idle, in, published, delivered, broker,
                   bounds>>

HandlePubrec ==           \* PUBREL is sent for an unknown message too
    /\ Receive("PUBREC")
    /\ LET m == Head(b2c).msg
       IN  /\ \/ \E k \in DOMAIN out :
                    /\ Holds(out, k, m)
                    /\ out' = [out EXCEPT ![k] = [msg |-> m, due |-> FALSE,
                                                 state |-> "wait_for_pubcomp"]]
              \/ (\A k \in DOMAIN out : out[k].msg # m) /\ UNCHANGED out
           /\ Reply(<<Packet("PUBREL", m)>>)
    /\ UNCHANGED <<run, state, ping, idle, inflight, in, published, delivered,
                   broker, bounds>>

\* The end of a broken connection, once everything before it has been read.
ReadEnd ==
    /\ sock /\ wire = "cut" /\ b2c = <<>> /\ SocketClose
    /\ UNCHANGED <<run, state, ping, idle, out, inflight, in, outp, published,
                   told, delivered, c2b, broker, bounds>>

LoopRead ==
    \/ HandleConnack \/ HandleRefused \/ HandlePingresp \/ HandleSuback
    \/ HandlePublish \/ HandlePubrel \/ HandlePubrec
    \/ HandlePubackcomp("PUBACK") \/ HandlePubackcomp("PUBCOMP") \/ ReadEnd

LoopWrite ==
    /\ sock /\ outp # <<>> /\ wire = "up" => Len(c2b) < MaxWire
    /\ Send(<<>>)
    /\ \/ wire # "cut" /\ UNCHANGED <<sock, wire, b2c>>
       \/ wire = "cut" /\ SocketClose
    /\ UNCHANGED <<run, state, ping, idle, out, inflight, in, published,
                   delivered, broker, bounds>>

-----------------------------------------------------------------------------
(* The misc part of the loop: keepalive, then the retries that are due.     *)

RetryPacket(q) ==
    Packet(IF q.state = "wait_for_pubcomp" THEN "PUBREL" ELSE "PUBLISH", q.msg)

DueOut == {i \in DOMAIN out : out[i].due /\ out[i].state # "invalid"}
DueIn == {i \in DOMAIN in : in[i].due}

\* The numbers of S in ascending order, one after the other.
Orders(S) ==
    {f \in [1 .. Cardinality(S) -> S] :
        \A i, j \in 1 .. Cardinality(S) : i < j => f[i] < f[j]}

Retried ==
    /\ out' = [i \in DOMAIN out |->
                  [out[i] EXCEPT !.due = @ /\ out[i].state = "invalid"]]
    /\ in' = [i \in DOMAIN in |-> [in[i] EXCEPT !.due = FALSE]]

\* A PINGREQ that is not answered in a keepalive time, or no CONNACK.
BugUnanswered == FALSE        \* pings again and again
Unanswered == ping \/ state # "connected"

SendRetries(ps) ==
    \E f \in Orders(DueOut), g \in Orders(DueIn) :
       Send(ps \o [i \in DOMAIN f |-> RetryPacket(out[f[i]])]
               \o [i \in DOMAIN g |-> Packet("PUBREC", in[g[i]].msg)])

\* Keepalive is tested before the retries for silence either way, and after
\* them for the age of the PINGREQ alone.
Misc ==
    /\ sock /\ (idle \/ DueOut \cup DueIn # {})
    /\ \/ /\ idle /\ Unanswered
          /\ SocketClose
          /\ UNCHANGED <<ping, idle, out, in, outp, told, c2b>>
       \/ /\ ~(idle /\ Unanswered)
          /\ SendRetries(IF idle THEN <<Packet("PINGREQ", NULL)>> ELSE <<>>)
          /\ Retried
          /\ ping' = (ping \/ (idle /\ wire # "cut")) /\ idle' = FALSE
          /\ UNCHANGED <<sock, wire, b2c>>
       \/ /\ idle /\ ping
          /\ SendRetries(<<>>) /\ Retried /\ SocketClose
          /\ UNCHANGED <<ping, idle>>
    /\ UNCHANGED <<run, state, inflight, published, delivered, broker, bounds>>

-----------------------------------------------------------------------------
(* The broker (not in src/): MQTT 3.1 as the client's handlers expect it.   *)
(* It also reads what was sent before the connection broke; its answers are *)
(* lost then.                                                               *)

HasRoom == wire = "up" => Len(b2c) < MaxWire
Answer(k, m) == b2c' = IF wire = "up" THEN Append(b2c, Packet(k, m)) ELSE b2c

Takes(k) == c2b # <<>> /\ Head(c2b).kind = k /\ HasRoom /\ c2b' = Tail(c2b)

\* A new connection: the session goes on, or starts over.
Underway == {m \in InMsgs : bout[m] \in {"sent", "rel"}}
Resent(m) == Packet(IF bout[m] = "sent" THEN "PUBLISH" ELSE "PUBREL", m)

BrokerConnect ==
    /\ Takes("CONNECT") /\ bstate = "await" /\ bstate' = "on"
    /\ \/ /\ setup.clean
          /\ bsub' = FALSE /\ bin' = {}
          /\ bout' = [m \in InMsgs |-> IF m \in Underway THEN "done" ELSE bout[m]]
          /\ Answer("CONNACK", NULL)
       \/ /\ ~setup.clean /\ UNCHANGED <<bsub, bin, bout>>
          /\ \E f \in [1 .. Cardinality(Underway) -> Underway] :
             /\ \A m \in Underway : \E i \in DOMAIN f : f[i] = m
             /\ b2c' = IF wire # "up" THEN b2c
                       ELSE Append(b2c, Packet("CONNACK", NULL))
                            \o [i \in DOMAIN f |-> Resent(f[i])]
    /\ UNCHANGED <<client, wire, arrived, bounds>>

BrokerRefuse ==
    /\ Takes("CONNECT") /\ losses > 0 /\ losses' = losses - 1
    /\ bstate' = "none" /\ Answer("REFUSED", NULL)
    /\ UNCHANGED <<client, wire, bsub, bin, bout, arrived, elapses, setup>>

Answering(k, a) ==
    /\ Takes(k) /\ Answer(a, Head(c2b).msg)
    /\ UNCHANGED <<client, wire, bstate, bounds>>

BrokerSubscribe ==
    /\ Answering("SUBSCRIBE", "SUBACK") /\ bsub' = TRUE
    /\ UNCHANGED <<bin, bout, arrived>>

BrokerPingreq ==
    Answering("PINGREQ", "PINGRESP") /\ UNCHANGED <<bsub, bin, bout, arrived>>

Arrives(m) == arrived' = [arrived EXCEPT ![m] = @ + 1]

BrokerReceive ==
    LET m == Head(c2b).msg
    IN  \/ /\ Takes("PUBLISH") /\ Qos(m) = 0 /\ Arrives(m)
           /\ UNCHANGED <<client, wire, b2c, bstate, bsub, bin, bout, bounds>>
        \/ /\ Answering("PUBLISH", "PUBACK") /\ Qos(m) = 1 /\ Arrives(m)
           /\ UNCHANGED <<bsub, bin, bout>>
        \/ /\ Answering("PUBLISH", "PUBREC") /\ Qos(m) = 2
           /\ bin' = bin \cup {m}
           /\ UNCHANGED <<bsub, bout, arrived>>

BrokerPubrel ==
    LET m == Head(c2b).msg
    IN  /\ Answering("PUBREL", "PUBCOMP")
        /\ IF m \in bin THEN Arrives(m) ELSE UNCHANGED arrived
        /\ bin' = bin \ {m}
        /\ UNCHANGED <<bsub, bout>>

\* The client's answers to the broker's messages.
BrokerAcked ==
    LET m == Head(c2b).msg
    IN  /\ \/ Answering("PUBREC", "PUBREL") /\ bout' = [bout EXCEPT ![m] = "rel"]
           \/ /\ Takes("PUBACK") \/ Takes("PUBCOMP")
              /\ bout' = [bout EXCEPT ![m] = "done"]
              /\ UNCHANGED <<client, wire, b2c, bstate, bounds>>
        /\ UNCHANGED <<bsub, bin, arrived>>

BrokerPublish ==
    /\ bstate = "on" /\ bsub /\ wire = "up" /\ HasRoom
    /\ \E m \in InMsgs :
       /\ bout[m] = "idle" /\ Answer("PUBLISH", m)
       /\ bout' = [bout EXCEPT ![m] = IF Qos(m) = 0 THEN "done" ELSE "sent"]
    /\ UNCHANGED <<client, wire, c2b, bstate, bsub, bin, arrived, bounds>>

Broker ==
    \/ BrokerConnect \/ BrokerSubscribe \/ BrokerPingreq
    \/ BrokerReceive \/ BrokerPubrel \/ BrokerAcked

-----------------------------------------------------------------------------
(* The network and time.                                                    *)

Prefix(q, n) == SubSeq(q, 1, n)

Lose ==
    /\ sock /\ wire = "up" /\ losses > 0 /\ losses' = losses - 1
    /\ wire' \in {"cut", "stalled"}
    /\ \E n \in 0 .. Len(c2b), k \in 0 .. Len(b2c) :
          c2b' = Prefix(c2b, n) /\ b2c' = Prefix(b2c, k)
    /\ UNCHANGED <<client, broker, elapses, setup>>

\* message_retry passes for some of the messages: each has its own timestamp.
RetryElapse ==
    /\ sock /\ elapses > 0 /\ elapses' = elapses - 1
    /\ \E D \in SUBSET DOMAIN out, E \in SUBSET DOMAIN in :
       /\ out' = [i \in DOMAIN out |-> [out[i] EXCEPT !.due = @ \/ i \in D]]
       /\ in' = [i \in DOMAIN in |-> [in[i] EXCEPT !.due = @ \/ i \in E]]
    /\ UNCHANGED <<run, sock, state, ping, idle, inflight, outp, published,
                   told, delivered, wire, c2b, b2c, broker, losses, setup>>

KeepaliveElapse ==
    /\ sock /\ ~idle /\ idle' = TRUE
    /\ \/ wire = "stalled" /\ UNCHANGED elapses
       \/ wire # "stalled" /\ elapses > 0 /\ elapses' = elapses - 1
    /\ UNCHANGED <<run, sock, state, ping, out, inflight, in, outp, published,
                   told, delivered, wire, c2b, b2c, broker, losses, setup>>

Application == ClientConnect \/ \E m \in OutMsgs : Publish(m)

Next ==
    \/ Application \/ Reconnect \/ LoopRead \/ LoopWrite \/ Misc
    \/ Broker \/ BrokerRefuse \/ BrokerPublish
    \/ Lose \/ RetryElapse \/ KeepaliveElapse

Spec == Init /\ [][Next]_vars

\* loop_forever goes on as long as the program runs, the keepalive time passes
\* on a connection that has fallen silent, and the broker answers.
FairSpec ==
    /\ Spec
    /\ WF_vars(Reconnect) /\ WF_vars(LoopRead) /\ WF_vars(LoopWrite)
    /\ WF_vars(Misc) /\ WF_vars(Broker)
    /\ WF_vars(wire = "stalled" /\ KeepaliveElapse)

-----------------------------------------------------------------------------
(* Properties.                                                              *)

\* The messages under way are the oldest ones, as many as the limit allows,
\* and the counter counts them: across acknowledgements, failed writes and
\* reconnections none waits while there is room (_mosquitto_message_queue,
\* _mosquitto_message_remove, _mosquitto_messages_reconnect_reset).
Window ==
    /\ inflight = IF Len(out) < MaxInflight THEN Len(out) ELSE MaxInflight
    /\ \A i \in DOMAIN out : out[i].state = "invalid" <=> i > MaxInflight

\* The first packet of every connection is CONNECT: what was queued for the
\* last one, from callbacks or a full socket, is not sent on it
\* (_mosquitto_reconnect).
ConnectFirst ==
    c2b # <<>> => (bstate = "await" <=> Head(c2b).kind = "CONNECT")

\* What the application is promised of its messages (MqttDelivery): whatever
\* breaks, on_publish follows arrival, and a QoS 2 message arrives once.
Delivery == INSTANCE MqttDelivery
DeliverySpec == Delivery!Spec

\* A message of QoS 1 or 2 leaves the queue in the end: it is sent again after
\* a connection broke (_mosquitto_message_retry_check).
Queued(m) == \E i \in DOMAIN out : out[i].msg = m
OutEnds == \A m \in OutMsgs : Queued(m) ~> ~Queued(m)

\* A connection that falls silent is given up (_mosquitto_check_keepalive,
\* mosquitto_loop_misc).
StallEnds == wire = "stalled" ~> wire # "stalled"

\* read_handle_shared.c:156 "prevents multiple callbacks for the same message":
\* on_message is called once for a QoS 2 message.
OneCallback == \A m \in InMsgs : Qos(m) = 2 => delivered[m] <= 1

=============================================================================
