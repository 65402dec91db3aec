-------------------------- MODULE MqttClientProofs --------------------------
(***************************************************************************)
(* Theorems about MqttClient for any messages, any limit of messages under *)
(* way, any room of the socket and any number of losses.                   *)
(*                                                                         *)
(* Window says that the messages under way are the oldest ones.  A packet  *)
(* that names a message may start it (PUBREC) or remove it (PUBACK,        *)
(* PUBCOMP), so Window holds only as long as no packet, wherever it is     *)
(* queued or travelling, names a message that still waits for its turn:    *)
(* that is Safe, and it survives a removal because the messages behind     *)
(* only move forward, and a reconnection because all packets are gone.     *)
(*                                                                         *)
(* The refinement of MqttDelivery rests on DInv, about the packets that    *)
(* the library has queued and the broker has not read yet: a packet found  *)
(* there says of a message only what the broker has seen, or will have     *)
(* seen when it reads the packet.                                          *)
(***************************************************************************)
EXTENDS MqttClient, FiniteSetTheorems, SequenceTheorems, TLAPS

OutMsg == [msg : OutMsgs, state : OutStates, due : BOOLEAN]
InMsg == [msg : InMsgs, due : BOOLEAN]

Distinct == \A i, j \in DOMAIN out : out[i].msg = out[j].msg => i = j
OutPublished == \A i \in DOMAIN out : out[i].msg \in published

\* The packet is about no message that waits, and about none to come.
Safe(p) ==
    p.msg \in OutMsgs =>
        /\ p.msg \in published
        /\ \A k \in DOMAIN out : out[k].msg = p.msg => k <= MaxInflight

SafeQueue(q) == \A i \in DOMAIN q : Safe(q[i])

Fits == Len(c2b) <= MaxWire

ListInv == Window /\ Distinct /\ OutPublished
IInv == TypeOK /\ ListInv /\ Fits /\ SafeQueue(outp) /\ SafeQueue(c2b) /\ SafeQueue(b2c)

-----------------------------------------------------------------------------
(* Sequences.                                                               *)

LEMMA AppendFacts ==
    ASSUME NEW S, NEW q \in Seq(S), NEW x \in S
    PROVE  /\ Append(q, x) \in Seq(S)
           /\ \A i \in DOMAIN Append(q, x) :
                 (i \in DOMAIN q /\ Append(q, x)[i] = q[i]) \/ Append(q, x)[i] = x
  OBVIOUS

LEMMA TailFacts ==
    ASSUME NEW S, NEW q \in Seq(S), q # <<>>
    PROVE  /\ Tail(q) \in Seq(S) /\ Head(q) \in S /\ 1 \in DOMAIN q
           /\ Head(q) = q[1] /\ Len(Tail(q)) = Len(q) - 1
           /\ \A i \in DOMAIN Tail(q) : i + 1 \in DOMAIN q /\ Tail(q)[i] = q[i + 1]
  OBVIOUS

LEMMA ConcatFacts ==
    ASSUME NEW S, NEW a \in Seq(S), NEW b \in Seq(S)
    PROVE  /\ a \o b \in Seq(S) /\ Len(a \o b) = Len(a) + Len(b)
           /\ \A i \in DOMAIN (a \o b) :
                 \/ i \in DOMAIN a /\ (a \o b)[i] = a[i]
                 \/ i - Len(a) \in DOMAIN b /\ (a \o b)[i] = b[i - Len(a)]
<1>1. /\ a \o b \in Seq(S) /\ Len(a \o b) = Len(a) + Len(b)
      /\ \A i \in 1 .. Len(a) + Len(b) :
            (a \o b)[i] = IF i <= Len(a) THEN a[i] ELSE b[i - Len(a)]
  BY ConcatProperties
<1>2. DOMAIN (a \o b) = 1 .. Len(a) + Len(b) /\ Len(a) \in Nat /\ Len(b) \in Nat
  BY <1>1
<1>3. ASSUME NEW i \in DOMAIN (a \o b)
      PROVE  \/ i \in DOMAIN a /\ (a \o b)[i] = a[i]
             \/ i - Len(a) \in DOMAIN b /\ (a \o b)[i] = b[i - Len(a)]
  <2>1. CASE i <= Len(a)
    BY <1>1, <1>2, <2>1
  <2>2. CASE i > Len(a)
    <3>1. i - Len(a) \in 1 .. Len(b)
      BY <1>2, <2>2
    <3> QED
      BY <1>1, <1>2, <2>2, <3>1
  <2> QED
    BY <1>2, <2>1, <2>2
<1> QED
  BY <1>1, <1>3

LEMMA SubSeqFacts ==
    ASSUME NEW S, NEW q \in Seq(S), NEW a \in Nat \ {0}, NEW b \in Nat, b <= Len(q)
    PROVE  /\ SubSeq(q, a, b) \in Seq(S)
           /\ a <= b => Len(SubSeq(q, a, b)) = b - a + 1
           /\ a > b => Len(SubSeq(q, a, b)) = 0
           /\ \A i \in DOMAIN SubSeq(q, a, b) :
                 a + i - 1 \in DOMAIN q /\ SubSeq(q, a, b)[i] = q[a + i - 1]
  OBVIOUS

LEMMA ExceptFacts ==
    ASSUME NEW S, NEW q \in Seq(S), NEW k \in DOMAIN q, NEW x \in S
    PROVE  /\ [q EXCEPT ![k] = x] \in Seq(S)
           /\ Len([q EXCEPT ![k] = x]) = Len(q)
           /\ DOMAIN [q EXCEPT ![k] = x] = DOMAIN q
           /\ \A i \in DOMAIN q : [q EXCEPT ![k] = x][i] = IF i = k THEN x ELSE q[i]
  OBVIOUS

\* What is left when the k-th element is removed (_mosquitto_message_remove).
LEMMA WithoutFacts ==
    ASSUME NEW S, NEW q \in Seq(S), NEW k \in DOMAIN q
    PROVE  /\ Without(q, k) \in Seq(S) /\ Len(Without(q, k)) = Len(q) - 1
           /\ \A i \in 1 .. Len(q) - 1 :
                 Without(q, k)[i] = IF i < k THEN q[i] ELSE q[i + 1]
<1>1. Len(q) \in Nat /\ DOMAIN q = 1 .. Len(q) /\ Len(q) - 1 \in Nat
  OBVIOUS
<1>2. \A i \in 1 .. Len(q) - 1 : q[i] \in S /\ q[i + 1] \in S
  BY <1>1
<1> QED
  BY <1>1, <1>2 DEF Without

-----------------------------------------------------------------------------
(* Packets.                                                                 *)

LEMMA PacketType ==
    /\ \A m \in OutMsgs : \A k \in {"PUBLISH", "PUBREL"} : Packet(k, m) \in ToBroker
    /\ \A m \in InMsgs : \A k \in {"PUBACK", "PUBREC", "PUBCOMP"} :
          Packet(k, m) \in ToBroker
    /\ \A k \in {"CONNECT", "SUBSCRIBE", "PINGREQ"} : Packet(k, NULL) \in ToBroker
    /\ \A m \in InMsgs : \A k \in {"PUBLISH", "PUBREL"} : Packet(k, m) \in ToClient
    /\ \A m \in OutMsgs : \A k \in {"PUBACK", "PUBREC", "PUBCOMP"} :
          Packet(k, m) \in ToClient
    /\ \A k \in {"CONNACK", "REFUSED", "SUBACK", "PINGRESP"} : Packet(k, NULL) \in ToClient
  BY DEF Packet, ToBroker, ToClient

\* A packet to the broker names what its kind says.
LEMMA KindType ==
    /\ \A p \in ToBroker : p.kind \in {"PUBLISH", "PUBREL"} => p.msg \in OutMsgs
    /\ \A p \in ToBroker : p.kind \in {"PUBACK", "PUBREC", "PUBCOMP"} => p.msg \in InMsgs
    /\ \A p \in ToBroker : p.kind \in {"CONNECT", "SUBSCRIBE", "PINGREQ"} => p.msg = NULL
    /\ \A p \in ToClient : p.kind \in {"PUBLISH", "PUBREL"} => p.msg \in InMsgs
    /\ \A p \in ToClient : p.kind \in {"PUBACK", "PUBREC", "PUBCOMP"} => p.msg \in OutMsgs
  BY DEF ToBroker, ToClient

\* Packets about nothing, and about messages that come in, are safe.
LEMMA OthersSafe ==
    \A k : Safe(Packet(k, NULL)) /\ \A m \in InMsgs : Safe(Packet(k, m))
  BY MessageAssumption DEF Safe, Packet

LEMMA SafeTail ==
    ASSUME NEW S, NEW q \in Seq(S), q # <<>>, SafeQueue(q)
    PROVE  SafeQueue(Tail(q)) /\ Safe(Head(q))
  BY TailFacts DEF SafeQueue

LEMMA SafeConcat ==
    ASSUME NEW S, NEW a \in Seq(S), NEW b \in Seq(S), SafeQueue(a), SafeQueue(b)
    PROVE  SafeQueue(a \o b)
  BY ConcatFacts DEF SafeQueue

LEMMA SafeAppend ==
    ASSUME NEW S, NEW q \in Seq(S), NEW x \in S, SafeQueue(q), Safe(x)
    PROVE  SafeQueue(Append(q, x))
  BY AppendFacts DEF SafeQueue

LEMMA SafeSubSeq ==
    ASSUME NEW S, NEW q \in Seq(S), NEW a \in Nat \ {0}, NEW b \in Nat, b <= Len(q),
           SafeQueue(q)
    PROVE  SafeQueue(SubSeq(q, a, b))
  BY SubSeqFacts DEF SafeQueue

-----------------------------------------------------------------------------
(* Writing.                                                                 *)

LEMMA WrittenType ==
    ASSUME NEW t \in [OutMsgs -> Nat], NEW q \in Seq(ToBroker)
    PROVE  Written(t, q) \in [OutMsgs -> Nat]
<1>1. ASSUME NEW m \in OutMsgs
      PROVE  Cardinality({i \in DOMAIN q :
                             Qos(m) = 0 /\ q[i] = Packet("PUBLISH", m)}) \in Nat
  <2> DEFINE W == {i \in DOMAIN q : Qos(m) = 0 /\ q[i] = Packet("PUBLISH", m)}
  <2>1. DOMAIN q = 1 .. Len(q) /\ Len(q) \in Int /\ 1 \in Int
    OBVIOUS
  <2>2. IsFiniteSet(1 .. Len(q))
    BY <2>1, FS_Interval
  <2>3. W \subseteq 1 .. Len(q)
    BY <2>1
  <2>4. IsFiniteSet(W)
    BY <2>2, <2>3, FS_Subset
  <2> QED
    BY <2>4, FS_CardinalityType
<1> QED
  BY <1>1 DEF Written

\* Nothing is queued or sent that was not queued, and the socket takes no more
\* than it has room for.
LEMMA PacketWriteFacts ==
    ASSUME NEW q \in Seq(ToBroker), NEW t \in [OutMsgs -> Nat],
           c2b \in Seq(ToBroker), Fits, PacketWrite(q, t)
    PROVE  /\ outp' \in Seq(ToBroker) /\ c2b' \in Seq(ToBroker)
           /\ told' \in [OutMsgs -> Nat]
           /\ Fits'
           /\ \A i \in DOMAIN outp' : \E j \in DOMAIN q : outp'[i] = q[j]
           /\ \A i \in DOMAIN c2b' : \/ \E j \in DOMAIN c2b : c2b'[i] = c2b[j]
                                     \/ \E j \in DOMAIN q : c2b'[i] = q[j]
<1> DEFINE room == MaxWire - Len(c2b)
           n == IF Len(q) < room THEN Len(q) ELSE room
<1>1. room \in Nat /\ n \in Nat /\ n <= Len(q) /\ n <= room /\ Len(q) \in Nat
      /\ Len(c2b) \in Nat /\ MaxWire \in Nat
  BY BoundAssumption DEF Fits
<1>2. CASE /\ wire = "up"
           /\ c2b' = c2b \o SubSeq(q, 1, n)
           /\ outp' = SubSeq(q, n + 1, Len(q))
           /\ told' = Written(t, SubSeq(q, 1, n))
  <2>1. /\ SubSeq(q, 1, n) \in Seq(ToBroker) /\ Len(SubSeq(q, 1, n)) = n
        /\ \A i \in DOMAIN SubSeq(q, 1, n) :
              1 + i - 1 \in DOMAIN q /\ SubSeq(q, 1, n)[i] = q[1 + i - 1]
    <3> HIDE DEF n
    <3>1. 1 \in Nat \ {0}
      OBVIOUS
    <3> QED
      BY <1>1, <3>1, SubSeqFacts
  <2>2. /\ SubSeq(q, n + 1, Len(q)) \in Seq(ToBroker)
        /\ \A i \in DOMAIN SubSeq(q, n + 1, Len(q)) :
              n + 1 + i - 1 \in DOMAIN q
              /\ SubSeq(q, n + 1, Len(q))[i] = q[n + 1 + i - 1]
    <3> HIDE DEF n
    <3>1. n + 1 \in Nat \ {0}
      BY <1>1
    <3> QED
      BY <1>1, <3>1, SubSeqFacts
  <2> HIDE DEF n, room
  <2>3. /\ c2b' \in Seq(ToBroker) /\ Len(c2b') = Len(c2b) + n
        /\ \A i \in DOMAIN c2b' :
              \/ i \in DOMAIN c2b /\ c2b'[i] = c2b[i]
              \/ /\ i - Len(c2b) \in DOMAIN SubSeq(q, 1, n)
                 /\ c2b'[i] = SubSeq(q, 1, n)[i - Len(c2b)]
    BY <1>2, <2>1, ConcatFacts
  <2>4. \A i \in DOMAIN c2b' : \/ \E j \in DOMAIN c2b : c2b'[i] = c2b[j]
                               \/ \E j \in DOMAIN q : c2b'[i] = q[j]
    BY <2>1, <2>3
  <2>5. \A i \in DOMAIN outp' : \E j \in DOMAIN q : outp'[i] = q[j]
    BY <1>2, <2>2
  <2>6. told' \in [OutMsgs -> Nat]
    BY <1>2, <2>1, WrittenType
  <2>7. Fits'
    BY <1>1, <2>3 DEF Fits, room
  <2> QED
    BY <1>2, <2>2, <2>3, <2>4, <2>5, <2>6, <2>7
<1>3. CASE /\ wire = "stalled" /\ outp' = <<>> /\ told' = Written(t, q)
           /\ UNCHANGED c2b
  BY <1>3, WrittenType DEF Fits
<1>4. CASE wire = "cut" /\ outp' = q /\ told' = t /\ UNCHANGED c2b
  BY <1>4 DEF Fits
<1> QED
  BY <1>2, <1>3, <1>4 DEF PacketWrite

LEMMA SendFacts ==
    ASSUME NEW ps \in Seq(ToBroker), NEW t \in [OutMsgs -> Nat],
           outp \in Seq(ToBroker), c2b \in Seq(ToBroker), Fits,
           SafeQueue(outp), SafeQueue(c2b), PacketWrite(outp \o ps, t)
    PROVE  /\ outp' \in Seq(ToBroker) /\ c2b' \in Seq(ToBroker)
           /\ told' \in [OutMsgs -> Nat]
           /\ Fits'
           /\ \A i \in DOMAIN outp' :
                 Safe(outp'[i]) \/ \E j \in DOMAIN ps : outp'[i] = ps[j]
           /\ \A i \in DOMAIN c2b' :
                 Safe(c2b'[i]) \/ \E j \in DOMAIN ps : c2b'[i] = ps[j]
<1>1. /\ outp \o ps \in Seq(ToBroker)
      /\ \A i \in DOMAIN (outp \o ps) :
            \/ i \in DOMAIN outp /\ (outp \o ps)[i] = outp[i]
            \/ i - Len(outp) \in DOMAIN ps /\ (outp \o ps)[i] = ps[i - Len(outp)]
  BY ConcatFacts
<1>2. /\ outp' \in Seq(ToBroker) /\ c2b' \in Seq(ToBroker)
      /\ told' \in [OutMsgs -> Nat]
      /\ Fits'
      /\ \A i \in DOMAIN outp' : \E j \in DOMAIN (outp \o ps) : outp'[i] = (outp \o ps)[j]
      /\ \A i \in DOMAIN c2b' :
            \/ \E j \in DOMAIN c2b : c2b'[i] = c2b[j]
            \/ \E j \in DOMAIN (outp \o ps) : c2b'[i] = (outp \o ps)[j]
  BY <1>1, PacketWriteFacts
<1>3. ASSUME NEW j \in DOMAIN (outp \o ps)
      PROVE  Safe((outp \o ps)[j]) \/ \E i \in DOMAIN ps : (outp \o ps)[j] = ps[i]
  BY <1>1 DEF SafeQueue
<1>4. ASSUME NEW i \in DOMAIN outp'
      PROVE  Safe(outp'[i]) \/ \E j \in DOMAIN ps : outp'[i] = ps[j]
  <2>1. PICK j \in DOMAIN (outp \o ps) : outp'[i] = (outp \o ps)[j]
    BY <1>2
  <2> DEFINE p == (outp \o ps)[j]
  <2>2. Safe(p) \/ \E k \in DOMAIN ps : p = ps[k]
    BY <1>3
  <2> HIDE DEF p
  <2>3. outp'[i] = p
    BY <2>1 DEF p
  <2> QED
    BY <2>2, <2>3
<1>5. ASSUME NEW i \in DOMAIN c2b'
      PROVE  Safe(c2b'[i]) \/ \E j \in DOMAIN ps : c2b'[i] = ps[j]
  <2>1. CASE \E j \in DOMAIN c2b : c2b'[i] = c2b[j]
    BY <2>1 DEF SafeQueue
  <2>2. CASE \E j \in DOMAIN (outp \o ps) : c2b'[i] = (outp \o ps)[j]
    <3>1. PICK j \in DOMAIN (outp \o ps) : c2b'[i] = (outp \o ps)[j]
      BY <2>2
    <3> DEFINE p == (outp \o ps)[j]
    <3>2. Safe(p) \/ \E k \in DOMAIN ps : p = ps[k]
      BY <1>3
    <3> HIDE DEF p
    <3>3. c2b'[i] = p
      BY <3>1 DEF p
    <3> QED
      BY <3>2, <3>3
  <2> QED
    BY <1>2, <2>1, <2>2
<1> QED
  BY <1>2, <1>4, <1>5

\* Packets that are safe keep the queues safe.
LEMMA SendSafe ==
    ASSUME NEW ps \in Seq(ToBroker), NEW t \in [OutMsgs -> Nat],
           outp \in Seq(ToBroker), c2b \in Seq(ToBroker), Fits,
           SafeQueue(outp), SafeQueue(c2b), SafeQueue(ps), PacketWrite(outp \o ps, t)
    PROVE  /\ outp' \in Seq(ToBroker) /\ c2b' \in Seq(ToBroker)
           /\ told' \in [OutMsgs -> Nat]
           /\ Fits'
           /\ SafeQueue(outp') /\ SafeQueue(c2b')
  BY SendFacts DEF SafeQueue

-----------------------------------------------------------------------------
(* The invariant in groups, and the two ways a step keeps it.               *)

ControlType ==
    /\ run \in {"new", "loop", "ended"} /\ sock \in BOOLEAN
    /\ state \in {"new", "connected"} /\ ping \in BOOLEAN /\ idle \in BOOLEAN
    /\ wire \in {"none", "up", "stalled", "cut"}
    /\ bstate \in {"none", "await", "on"} /\ bsub \in BOOLEAN
    /\ setup \in Setups /\ losses \in Nat /\ elapses \in Nat

ListsType ==
    /\ out \in Seq(OutMsg) /\ inflight \in Nat /\ in \in Seq(InMsg)
    /\ published \subseteq OutMsgs

CountType ==
    /\ told \in [OutMsgs -> Nat] /\ delivered \in [InMsgs -> Nat]
    /\ bin \subseteq OutMsgs
    /\ bout \in [InMsgs -> {"idle", "sent", "rel", "done"}]
    /\ arrived \in [OutMsgs -> Nat]

QueueType ==
    outp \in Seq(ToBroker) /\ c2b \in Seq(ToBroker) /\ b2c \in Seq(ToClient)

QueueInv == Fits /\ SafeQueue(outp) /\ SafeQueue(c2b) /\ SafeQueue(b2c)

LEMMA Groups ==
    IInv <=> ControlType /\ ListsType /\ CountType /\ QueueType /\ ListInv /\ QueueInv
  BY DEF IInv, TypeOK, ControlType, ListsType, CountType, QueueType, QueueInv, OutMsg, InMsg

LEMMA GroupsNext ==
    ASSUME ControlType', ListsType', CountType', QueueType', ListInv', QueueInv'
    PROVE  IInv'
  BY DEF IInv, TypeOK, ControlType, ListsType, CountType, QueueType, QueueInv, OutMsg, InMsg

\* The messages going out stay the same ones, in the same places, and none
\* starts or stops waiting.
SameMsgs ==
    /\ DOMAIN out' = DOMAIN out /\ Len(out') = Len(out)
    /\ UNCHANGED <<inflight, published>>
    /\ \A i \in DOMAIN out :
          /\ out'[i].msg = out[i].msg
          /\ out'[i].state = "invalid" <=> out[i].state = "invalid"

LEMMA SameMsgsFrame ==
    ASSUME ListInv, SameMsgs, SafeQueue(outp'), SafeQueue(c2b'), SafeQueue(b2c'), Fits'
    PROVE  ListInv' /\ QueueInv'
<1>1. ListInv'
  BY DEF ListInv, SameMsgs, Window, Distinct, OutPublished
<1>2. \A p : Safe(p) => Safe(p)'
  BY DEF SameMsgs, Safe
<1> QED
  BY <1>1, <1>2 DEF QueueInv, SafeQueue

LEMMA SameOut ==
    ASSUME UNCHANGED <<out, inflight, published>>
    PROVE  SameMsgs
  BY DEF SameMsgs

LEMMA OnePacket ==
    ASSUME NEW p \in ToBroker
    PROVE  /\ <<p>> \in Seq(ToBroker)
           /\ DOMAIN <<p>> = {1} /\ <<p>>[1] = p
           /\ Safe(p) => SafeQueue(<<p>>)
  BY DEF SafeQueue

\* A handler that answers: the packet is gone, the answer queued or sent, and
\* the connection given up if it is broken.
LEMMA ReplyFacts ==
    ASSUME IInv, NEW p \in ToBroker, Safe(p), b2c # <<>>, Reply(<<p>>)
    PROVE  /\ QueueType' /\ Fits' /\ told' \in [OutMsgs -> Nat]
           /\ SafeQueue(outp') /\ SafeQueue(c2b') /\ SafeQueue(b2c')
           /\ sock' \in BOOLEAN /\ wire' \in {"none", "up", "stalled", "cut"}
<1>1. /\ outp \in Seq(ToBroker) /\ c2b \in Seq(ToBroker) /\ b2c \in Seq(ToClient)
      /\ told \in [OutMsgs -> Nat] /\ Fits
      /\ SafeQueue(outp) /\ SafeQueue(c2b) /\ SafeQueue(b2c)
      /\ sock \in BOOLEAN /\ wire \in {"none", "up", "stalled", "cut"}
  BY DEF IInv, TypeOK
<1>2. <<p>> \in Seq(ToBroker) /\ SafeQueue(<<p>>)
  BY OnePacket
<1>3. /\ outp' \in Seq(ToBroker) /\ c2b' \in Seq(ToBroker)
      /\ told' \in [OutMsgs -> Nat] /\ Fits'
      /\ SafeQueue(outp') /\ SafeQueue(c2b')
  BY <1>1, <1>2, SendSafe DEF Reply, Send
<1>4. b2c' = Tail(b2c) \/ b2c' = <<>>
  BY DEF Reply, SocketClose
<1>5. b2c' \in Seq(ToClient) /\ SafeQueue(b2c')
  <2>1. Tail(b2c) \in Seq(ToClient) /\ SafeQueue(Tail(b2c))
    BY <1>1, TailFacts, SafeTail
  <2>2. <<>> \in Seq(ToClient) /\ SafeQueue(<<>>)
    BY DEF SafeQueue
  <2> QED
    BY <1>4, <2>1, <2>2
<1>6. sock' \in BOOLEAN /\ wire' \in {"none", "up", "stalled", "cut"}
  BY <1>1 DEF Reply, SocketClose
<1> QED
  BY <1>3, <1>5, <1>6 DEF QueueType

\* The packet received is gone.
LEMMA TakenFacts ==
    ASSUME IInv, b2c # <<>>, b2c' = Tail(b2c)
    PROVE  b2c' \in Seq(ToClient) /\ SafeQueue(b2c') /\ Safe(Head(b2c))
           /\ Head(b2c) \in ToClient
  BY TailFacts, SafeTail DEF IInv, TypeOK

LEMMA NoPackets ==
    /\ <<>> \in Seq(ToClient) /\ <<>> \in Seq(ToBroker) /\ SafeQueue(<<>>)
  BY DEF SafeQueue

-----------------------------------------------------------------------------
(* Packets that change nothing of the messages going out.                   *)

LEMMA HandleConnackStep == ASSUME IInv, HandleConnack PROVE IInv'
<1>1. b2c' \in Seq(ToClient) /\ SafeQueue(b2c')
  BY TakenFacts DEF HandleConnack, Receive, Received
<1>2. outp \in Seq(ToBroker) /\ c2b \in Seq(ToBroker) /\ SafeQueue(outp)
  BY DEF IInv, TypeOK
<1>3. Packet("SUBSCRIBE", NULL) \in ToBroker /\ Safe(Packet("SUBSCRIBE", NULL))
  BY PacketType, OthersSafe
<1>4. outp' \in Seq(ToBroker) /\ SafeQueue(outp')
  BY <1>2, <1>3, AppendFacts, SafeAppend DEF HandleConnack
<1>5. ControlType' /\ ListsType' /\ CountType'
  BY Groups DEF HandleConnack, Received, ControlType, ListsType, CountType, broker, bounds
<1>6. SafeQueue(c2b') /\ Fits' /\ c2b' \in Seq(ToBroker)
  BY Groups DEF HandleConnack, QueueInv, Fits, QueueType
<1>7. ListInv' /\ QueueInv'
  BY <1>1, <1>4, <1>6, SameOut, SameMsgsFrame, Groups DEF HandleConnack
<1> QED
  BY <1>1, <1>4, <1>5, <1>6, <1>7, GroupsNext DEF QueueType

\* Steps that touch neither lists nor queues, except that packets received
\* are taken or dropped.
LEMMA ReadStep ==
    ASSUME IInv,
           b2c' = <<>> \/ (b2c # <<>> /\ b2c' = Tail(b2c)) \/ b2c' = b2c,
           UNCHANGED <<outp, c2b, out, inflight, published>>,
           ControlType', in' \in Seq(InMsg), CountType'
    PROVE  IInv'
<1>1. b2c' \in Seq(ToClient) /\ SafeQueue(b2c')
  BY TakenFacts, NoPackets DEF IInv, TypeOK
<1>2. SafeQueue(outp') /\ SafeQueue(c2b') /\ Fits'
  BY Groups DEF QueueInv, Fits
<1>3. ListInv' /\ QueueInv'
  BY <1>1, <1>2, SameOut, SameMsgsFrame, Groups
<1>4. QueueType' /\ ListsType'
  BY <1>1, Groups DEF QueueType, ListsType
<1> QED
  BY <1>3, <1>4, GroupsNext

LEMMA HandleSilently ==
    ASSUME IInv, HandleRefused \/ HandlePingresp \/ HandleSuback \/ ReadEnd PROVE IInv'
<1>1. /\ ControlType /\ in \in Seq(InMsg) /\ CountType
  BY Groups DEF ListsType
<1>2. CASE HandleRefused
  BY <1>1, <1>2, ReadStep DEF HandleRefused, SocketClose, ControlType, CountType, broker,
     bounds
<1>3. CASE HandlePingresp
  BY <1>1, <1>3, ReadStep DEF HandlePingresp, Receive, Received, ControlType, CountType,
     broker, bounds
<1>4. CASE HandleSuback
  BY <1>1, <1>4, ReadStep DEF HandleSuback, Receive, Received, ControlType, CountType,
     broker, bounds
<1>5. CASE ReadEnd
  BY <1>1, <1>5, ReadStep DEF ReadEnd, SocketClose, ControlType, CountType, broker, bounds
<1> QED
  BY <1>2, <1>3, <1>4, <1>5

LEMMA ReplyStep ==
    ASSUME IInv, NEW p \in ToBroker, Safe(p), b2c # <<>>, Reply(<<p>>),
           UNCHANGED <<run, state, ping, idle, published, inflight, broker, bounds>>,
           SameMsgs, out' \in Seq(OutMsg), in' \in Seq(InMsg),
           delivered' \in [InMsgs -> Nat]
    PROVE  IInv'
<1>1. /\ QueueType' /\ Fits' /\ told' \in [OutMsgs -> Nat]
      /\ SafeQueue(outp') /\ SafeQueue(c2b') /\ SafeQueue(b2c')
      /\ sock' \in BOOLEAN /\ wire' \in {"none", "up", "stalled", "cut"}
  BY ReplyFacts
<1>2. ControlType' /\ ListsType'
  BY <1>1, Groups DEF ControlType, ListsType, broker, bounds
<1>3. CountType'
  BY <1>1, Groups DEF CountType, broker
<1>4. ListInv' /\ QueueInv'
  BY <1>1, SameMsgsFrame, Groups
<1> QED
  BY <1>1, <1>2, <1>3, <1>4, GroupsNext

LEMMA OnMessageType ==
    ASSUME NEW m \in InMsgs, OnMessage(m), delivered \in [InMsgs -> Nat]
    PROVE  delivered' \in [InMsgs -> Nat]
  BY DEF OnMessage

LEMMA HandlePublishStep == ASSUME IInv, HandlePublish PROVE IInv'
<1> DEFINE m == Head(b2c).msg
<1>1. /\ b2c # <<>> /\ Head(b2c) \in ToClient /\ Head(b2c).kind = "PUBLISH"
      /\ m \in InMsgs
  BY TailFacts, KindType DEF HandlePublish, Receive, IInv, TypeOK
<1>2. /\ SameMsgs /\ out' \in Seq(OutMsg) /\ in \in Seq(InMsg)
      /\ delivered \in [InMsgs -> Nat]
      /\ UNCHANGED <<run, state, ping, idle, published, inflight, broker, bounds>>
  BY SameOut, Groups DEF HandlePublish, ListsType, CountType
<1> HIDE DEF m
<1>3. CASE Qos(m) = 0 /\ Received /\ OnMessage(m) /\ UNCHANGED <<in, outp, told, c2b>>
  <2>1. delivered' \in [InMsgs -> Nat]
    BY <1>1, <1>2, <1>3, OnMessageType
  <2>2. ControlType' /\ CountType'
    BY <1>2, <1>3, <2>1, Groups DEF ControlType, CountType, Received, broker, bounds
  <2>3. UNCHANGED <<out, inflight, published>>
    BY DEF HandlePublish
  <2> QED
    BY <1>1, <1>2, <1>3, <2>2, <2>3, ReadStep DEF Received
<1>4. CASE Qos(m) = 1 /\ Reply(<<Packet("PUBACK", m)>>) /\ OnMessage(m) /\ UNCHANGED in
  <2>1. delivered' \in [InMsgs -> Nat]
    BY <1>1, <1>2, <1>4, OnMessageType
  <2>2. Packet("PUBACK", m) \in ToBroker /\ Safe(Packet("PUBACK", m))
    BY <1>1, PacketType, OthersSafe
  <2> QED
    BY <1>1, <1>2, <1>4, <2>1, <2>2, ReplyStep
<1>5. CASE /\ Qos(m) = 2 /\ Reply(<<Packet("PUBREC", m)>>)
           /\ in' = Append(in, [msg |-> m, due |-> FALSE])
           /\ UNCHANGED delivered
  <2>1. in' \in Seq(InMsg)
    BY <1>1, <1>2, <1>5, AppendFacts DEF InMsg
  <2>2. Packet("PUBREC", m) \in ToBroker /\ Safe(Packet("PUBREC", m))
    BY <1>1, PacketType, OthersSafe
  <2> QED
    BY <1>1, <1>2, <1>5, <2>1, <2>2, ReplyStep
<1> QED
  BY <1>3, <1>4, <1>5 DEF HandlePublish, m

LEMMA HandlePubrelStep == ASSUME IInv, HandlePubrel PROVE IInv'
<1> DEFINE m == Head(b2c).msg
<1>1. b2c # <<>> /\ m \in InMsgs
  BY TailFacts, KindType DEF HandlePubrel, Receive, IInv, TypeOK
<1>2. /\ SameMsgs /\ out' \in Seq(OutMsg) /\ in \in Seq(InMsg)
      /\ delivered \in [InMsgs -> Nat]
      /\ UNCHANGED <<run, state, ping, idle, published, inflight, broker, bounds>>
  BY SameOut, Groups DEF HandlePubrel, ListsType, CountType
<1>3. Reply(<<Packet("PUBCOMP", m)>>)
  BY DEF HandlePubrel
<1>4. Packet("PUBCOMP", m) \in ToBroker /\ Safe(Packet("PUBCOMP", m))
  BY <1>1, PacketType, OthersSafe
<1>5. in' \in Seq(InMsg) /\ delivered' \in [InMsgs -> Nat]
  <2>1. \/ \E k \in DOMAIN in : Holds(in, k, m) /\ in' = Without(in, k) /\ OnMessage(m)
        \/ UNCHANGED <<in, delivered>>
    BY DEF HandlePubrel
  <2> HIDE DEF m
  <2> QED
    BY <1>1, <1>2, <2>1, WithoutFacts, OnMessageType
<1> HIDE DEF m
<1> QED
  BY <1>1, <1>2, <1>3, <1>4, <1>5, ReplyStep

\* PUBREC names a message under way, so none starts out of turn.
LEMMA HandlePubrecStep == ASSUME IInv, HandlePubrec PROVE IInv'
<1> DEFINE m == Head(b2c).msg
<1>1. b2c # <<>> /\ m \in OutMsgs /\ Safe(Head(b2c))
  BY TailFacts, SafeTail, KindType DEF HandlePubrec, Receive, IInv, TypeOK
<1>2. /\ in' \in Seq(InMsg) /\ delivered' \in [InMsgs -> Nat] /\ out \in Seq(OutMsg)
      /\ UNCHANGED <<run, state, ping, idle, published, inflight, broker, bounds>>
  BY Groups DEF HandlePubrec, ListsType, CountType
<1>3. Reply(<<Packet("PUBREL", m)>>)
  BY DEF HandlePubrec
<1>4. Packet("PUBREL", m) \in ToBroker /\ Safe(Packet("PUBREL", m))
  BY <1>1, PacketType DEF Safe, Packet
<1>5. SameMsgs /\ out' \in Seq(OutMsg)
  <2>1. CASE UNCHANGED out
    BY <1>2, <2>1, SameOut
  <2>2. ASSUME NEW k \in DOMAIN out, Holds(out, k, m),
               out' = [out EXCEPT ![k] = [msg |-> m, due |-> FALSE,
                                          state |-> "wait_for_pubcomp"]]
        PROVE  SameMsgs /\ out' \in Seq(OutMsg)
    <3>1. out[k].msg = m /\ k <= MaxInflight
      BY <1>1, <2>2 DEF Holds, Safe
    <3>2. out[k].state # "invalid"
      <4>1. Window /\ DOMAIN out = 1 .. Len(out) /\ k \in Nat /\ MaxInflight \in Nat
        BY <1>2, LimitAssumption DEF IInv, ListInv
      <4>2. ~(k > MaxInflight)
        BY <3>1, <4>1
      <4> QED
        BY <4>1, <4>2 DEF Window
    <3> DEFINE x == [msg |-> m, due |-> FALSE, state |-> "wait_for_pubcomp"]
    <3>a. out[k] \in OutMsg
      BY <1>2
    <3>b. x \in OutMsg
      BY <1>1 DEF OutMsg, OutStates
    <3>c. out' = [out EXCEPT ![k] = x]
      BY <2>2
    <3>d. x.msg = m /\ x.state # "invalid"
      OBVIOUS
    <3> HIDE DEF x
    <3>3. /\ out' \in Seq(OutMsg) /\ Len(out') = Len(out) /\ DOMAIN out' = DOMAIN out
          /\ \A i \in DOMAIN out : out'[i] = IF i = k THEN x ELSE out[i]
      BY <1>2, <3>b, <3>c, ExceptFacts
    <3>4. ASSUME NEW i \in DOMAIN out
          PROVE  /\ out'[i].msg = out[i].msg
                 /\ out'[i].state = "invalid" <=> out[i].state = "invalid"
      BY <3>1, <3>2, <3>3, <3>d
    <3> QED
      BY <1>2, <3>3, <3>4 DEF SameMsgs
  <2> QED
    BY <2>1, <2>2 DEF HandlePubrec
<1> HIDE DEF m
<1> QED
  BY <1>1, <1>2, <1>3, <1>4, <1>5, ReplyStep

-----------------------------------------------------------------------------
(* The loop's write and misc parts.                                         *)

LEMMA SendStep ==
    ASSUME IInv, NEW ps \in Seq(ToBroker), SafeQueue(ps), Send(ps), SameMsgs,
           ControlType', ListsType', UNCHANGED <<delivered, broker>>,
           b2c' = <<>> \/ b2c' = b2c
    PROVE  IInv'
<1>1. /\ outp \in Seq(ToBroker) /\ c2b \in Seq(ToBroker) /\ b2c \in Seq(ToClient)
      /\ told \in [OutMsgs -> Nat] /\ Fits
      /\ SafeQueue(outp) /\ SafeQueue(c2b) /\ SafeQueue(b2c)
  BY DEF IInv, TypeOK
<1>2. /\ outp' \in Seq(ToBroker) /\ c2b' \in Seq(ToBroker)
      /\ told' \in [OutMsgs -> Nat] /\ Fits'
      /\ SafeQueue(outp') /\ SafeQueue(c2b')
  BY <1>1, SendSafe DEF Send
<1>3. b2c' \in Seq(ToClient) /\ SafeQueue(b2c')
  BY <1>1, NoPackets
<1>4. CountType'
  BY <1>2, Groups DEF CountType, broker
<1>5. ListInv' /\ QueueInv'
  BY <1>2, <1>3, SameMsgsFrame, Groups
<1> QED
  BY <1>2, <1>3, <1>4, <1>5, GroupsNext DEF QueueType

LEMMA LoopWriteStep == ASSUME IInv, LoopWrite PROVE IInv'
<1>1. ControlType' /\ ListsType'
  BY Groups DEF LoopWrite, SocketClose, ControlType, ListsType, broker, bounds
<1>2. SameMsgs
  BY SameOut DEF LoopWrite
<1>3. Send(<<>>) /\ UNCHANGED <<delivered, broker>> /\ (b2c' = <<>> \/ b2c' = b2c)
  BY DEF LoopWrite, SocketClose
<1> QED
  BY <1>1, <1>2, <1>3, NoPackets, SendStep

\* What is sent again is about messages under way.
LEMMA RetriesSafe ==
    ASSUME IInv, NEW f \in Orders(DueOut), NEW g \in Orders(DueIn)
    PROVE  /\ [i \in DOMAIN f |-> RetryPacket(out[f[i]])] \in Seq(ToBroker)
           /\ SafeQueue([i \in DOMAIN f |-> RetryPacket(out[f[i]])])
           /\ [i \in DOMAIN g |-> Packet("PUBREC", in[g[i]].msg)] \in Seq(ToBroker)
           /\ SafeQueue([i \in DOMAIN g |-> Packet("PUBREC", in[g[i]].msg)])
<1>1. /\ out \in Seq(OutMsg) /\ in \in Seq(InMsg) /\ ListInv
      /\ DOMAIN out = 1 .. Len(out) /\ DOMAIN in = 1 .. Len(in)
      /\ Len(out) \in Int /\ Len(in) \in Int /\ 1 \in Int
  BY Groups DEF ListsType
<1>2. Cardinality(DueOut) \in Nat /\ Cardinality(DueIn) \in Nat
  <2>1. IsFiniteSet(1 .. Len(out)) /\ IsFiniteSet(1 .. Len(in))
    BY <1>1, FS_Interval
  <2>2. DueOut \subseteq 1 .. Len(out) /\ DueIn \subseteq 1 .. Len(in)
    BY <1>1 DEF DueOut, DueIn
  <2> QED
    BY <2>1, <2>2, FS_Subset, FS_CardinalityType
<1>3. f \in [1 .. Cardinality(DueOut) -> DueOut] /\ g \in [1 .. Cardinality(DueIn) -> DueIn]
  BY DEF Orders
<1>4. ASSUME NEW i \in DueOut
      PROVE  RetryPacket(out[i]) \in ToBroker /\ Safe(RetryPacket(out[i]))
  <2>1. i \in DOMAIN out /\ i \in Nat /\ out[i] \in OutMsg /\ out[i].state # "invalid"
    BY <1>1 DEF DueOut
  <2>2. out[i].msg \in OutMsgs
    BY <2>1 DEF OutMsg
  <2>3. RetryPacket(out[i]) \in ToBroker /\ RetryPacket(out[i]).msg = out[i].msg
    BY <2>2, PacketType DEF RetryPacket, Packet
  <2>4. ~(i > MaxInflight) /\ MaxInflight \in Nat
    BY <1>1, <2>1, LimitAssumption DEF ListInv, Window
  <2>5. \A k \in DOMAIN out : out[k].msg = out[i].msg => k <= MaxInflight
    BY <1>1, <2>1, <2>4 DEF ListInv, Distinct
  <2>6. out[i].msg \in published
    BY <1>1, <2>1 DEF ListInv, OutPublished
  <2> DEFINE p == RetryPacket(out[i])
  <2>7. p \in ToBroker /\ p.msg = out[i].msg
    BY <2>3
  <2> HIDE DEF p
  <2>8. Safe(p)
    BY <2>5, <2>6, <2>7 DEF Safe
  <2> QED
    BY <2>7, <2>8 DEF p
<1>5. ASSUME NEW i \in DueIn
      PROVE  Packet("PUBREC", in[i].msg) \in ToBroker /\ Safe(Packet("PUBREC", in[i].msg))
  <2>1. in[i].msg \in InMsgs
    <3>1. i \in DOMAIN in
      BY DEF DueIn
    <3>2. in[i] \in InMsg
      BY <1>1, <3>1
    <3> QED
      BY <3>2 DEF InMsg
  <2> QED
    BY <2>1, PacketType, OthersSafe
<1>6. \A i \in 1 .. Cardinality(DueOut) : f[i] \in DueOut
  BY <1>3
<1>7. \A i \in 1 .. Cardinality(DueIn) : g[i] \in DueIn
  BY <1>3
<1>8. DOMAIN f = 1 .. Cardinality(DueOut) /\ DOMAIN g = 1 .. Cardinality(DueIn)
  BY <1>3
<1> QED
  BY <1>2, <1>4, <1>5, <1>6, <1>7, <1>8 DEF SafeQueue

\* Marking messages, due or sent again, moves none.
LEMMA MarkFacts ==
    ASSUME out \in Seq(OutMsg), NEW d, \A i \in DOMAIN out : d[i] \in BOOLEAN,
           out' = [i \in DOMAIN out |-> [out[i] EXCEPT !.due = d[i]]],
           UNCHANGED <<inflight, published>>
    PROVE  SameMsgs /\ out' \in Seq(OutMsg)
<1>1. DOMAIN out = 1 .. Len(out) /\ Len(out) \in Nat /\ \A i \in DOMAIN out : out[i] \in OutMsg
  OBVIOUS
<1>2. \A i \in DOMAIN out : /\ out'[i] = [out[i] EXCEPT !.due = d[i]]
                            /\ out'[i] \in OutMsg
                            /\ out'[i].msg = out[i].msg /\ out'[i].state = out[i].state
  BY <1>1 DEF OutMsg
<1>3. out' \in Seq(OutMsg) /\ Len(out') = Len(out) /\ DOMAIN out' = DOMAIN out
  BY <1>1, <1>2
<1> QED
  BY <1>2, <1>3 DEF SameMsgs

LEMMA MarkInFacts ==
    ASSUME NEW q \in Seq(InMsg), NEW d, \A i \in DOMAIN q : d[i] \in BOOLEAN
    PROVE  [i \in DOMAIN q |-> [q[i] EXCEPT !.due = d[i]]] \in Seq(InMsg)
<1>1. DOMAIN q = 1 .. Len(q) /\ Len(q) \in Nat /\ \A i \in DOMAIN q : q[i] \in InMsg
  OBVIOUS
<1>2. \A i \in DOMAIN q : [q[i] EXCEPT !.due = d[i]] \in InMsg
  BY <1>1 DEF InMsg
<1> QED
  BY <1>1, <1>2

LEMMA MarkAllIn ==
    ASSUME NEW q \in Seq(InMsg), NEW b \in BOOLEAN
    PROVE  [i \in DOMAIN q |-> [q[i] EXCEPT !.due = b]] \in Seq(InMsg)
<1> DEFINE d == [i \in DOMAIN q |-> b]
<1>1. \A i \in DOMAIN q : d[i] = b
  OBVIOUS
<1> HIDE DEF d
<1>2. [i \in DOMAIN q |-> [q[i] EXCEPT !.due = d[i]]] \in Seq(InMsg)
  BY <1>1, MarkInFacts
<1> QED
  BY <1>1, <1>2

LEMMA MiscStep == ASSUME IInv, Misc PROVE IInv'
<1>1. /\ ControlType /\ ListsType /\ CountType /\ out \in Seq(OutMsg) /\ in \in Seq(InMsg)
      /\ UNCHANGED <<run, state, inflight, published, delivered, broker, bounds>>
  BY Groups DEF Misc, ListsType
<1>2. CASE SocketClose /\ UNCHANGED <<ping, idle, out, in, outp, told, c2b>>
  <2>1. ControlType' /\ CountType'
    BY <1>1, <1>2 DEF SocketClose, ControlType, CountType, broker, bounds
  <2> QED
    BY <1>1, <1>2, <2>1, ReadStep DEF SocketClose
<1>3. CASE /\ \E a \in {<<>>, <<Packet("PINGREQ", NULL)>>} : SendRetries(a)
           /\ ping' \in BOOLEAN /\ idle' \in BOOLEAN
           /\ Retried
           /\ UNCHANGED <<sock, wire, b2c>> \/ SocketClose
  <2>0. PICK a \in {<<>>, <<Packet("PINGREQ", NULL)>>} : SendRetries(a)
    BY <1>3
  <2>1. PICK f \in Orders(DueOut), g \in Orders(DueIn) :
                Send(a \o [i \in DOMAIN f |-> RetryPacket(out[f[i]])]
                       \o [i \in DOMAIN g |-> Packet("PUBREC", in[g[i]].msg)])
    BY <2>0 DEF SendRetries
  <2> DEFINE b == [i \in DOMAIN f |-> RetryPacket(out[f[i]])]
             c == [i \in DOMAIN g |-> Packet("PUBREC", in[g[i]].msg)]
  <2>2. a \in Seq(ToBroker) /\ SafeQueue(a)
    <3>1. Packet("PINGREQ", NULL) \in ToBroker /\ Safe(Packet("PINGREQ", NULL))
      BY PacketType, OthersSafe
    <3> QED
      BY <2>0, <3>1, OnePacket, NoPackets
  <2>3. b \in Seq(ToBroker) /\ SafeQueue(b) /\ c \in Seq(ToBroker) /\ SafeQueue(c)
    BY RetriesSafe
  <2>4. Send((a \o b) \o c)
    BY <2>1
  <2> HIDE DEF b, c
  <2>5. a \o b \in Seq(ToBroker) /\ SafeQueue(a \o b)
    BY <2>2, <2>3, ConcatFacts, SafeConcat
  <2>6. (a \o b) \o c \in Seq(ToBroker) /\ SafeQueue((a \o b) \o c)
    BY <2>3, <2>5, ConcatFacts, SafeConcat
  <2>7. SameMsgs /\ out' \in Seq(OutMsg)
    <3> DEFINE d == [i \in DOMAIN out |-> out[i].due /\ out[i].state = "invalid"]
    <3>1. \A i \in DOMAIN out : d[i] \in BOOLEAN
      BY <1>1 DEF OutMsg
    <3>2. out' = [i \in DOMAIN out |-> [out[i] EXCEPT !.due = d[i]]]
      BY <1>1, <1>3 DEF Retried, OutMsg
    <3> HIDE DEF d
    <3> QED
      BY <1>1, <3>1, <3>2, MarkFacts
  <2>8. in' \in Seq(InMsg)
    BY <1>1, <1>3, MarkAllIn DEF Retried
  <2>9. ControlType' /\ ListsType'
    BY <1>1, <1>3, <2>7, <2>8 DEF ControlType, ListsType, SocketClose, broker, bounds
  <2>10. b2c' = <<>> \/ b2c' = b2c
    BY <1>3 DEF SocketClose
  <2> QED
    BY <1>1, <2>4, <2>6, <2>7, <2>9, <2>10, SendStep
<1>4. ping \in BOOLEAN /\ idle \in BOOLEAN
  BY <1>1 DEF ControlType
<1> QED
  BY <1>2, <1>3, <1>4 DEF Misc

LEMMA ElapseStep == ASSUME IInv, RetryElapse \/ KeepaliveElapse PROVE IInv'
<1>1. /\ ControlType /\ ListsType /\ CountType /\ QueueType /\ QueueInv
      /\ out \in Seq(OutMsg) /\ in \in Seq(InMsg) /\ ListInv
  BY Groups DEF ListsType
<1>2. CASE RetryElapse
  <2>1. PICK D \in SUBSET DOMAIN out, E \in SUBSET DOMAIN in :
             /\ out' = [i \in DOMAIN out |-> [out[i] EXCEPT !.due = @ \/ i \in D]]
             /\ in' = [i \in DOMAIN in |-> [in[i] EXCEPT !.due = @ \/ i \in E]]
    BY <1>2 DEF RetryElapse
  <2>2. SameMsgs /\ out' \in Seq(OutMsg)
    <3> DEFINE d == [i \in DOMAIN out |-> out[i].due \/ i \in D]
    <3>0. \A i \in DOMAIN out : out[i] \in OutMsg
      BY <1>1
    <3>1. \A i \in DOMAIN out : out[i] \in OutMsg /\ out[i].due \in BOOLEAN
      BY <3>0 DEF OutMsg
    <3>2. \A i \in DOMAIN out : d[i] \in BOOLEAN
      BY <3>1
    <3>3. out' = [i \in DOMAIN out |-> [out[i] EXCEPT !.due = d[i]]]
      BY <2>1, <3>1 DEF OutMsg
    <3> HIDE DEF d
    <3> QED
      BY <1>1, <1>2, <3>2, <3>3, MarkFacts DEF RetryElapse
  <2>3. in' \in Seq(InMsg)
    <3> DEFINE d == [i \in DOMAIN in |-> in[i].due \/ i \in E]
    <3>0. \A i \in DOMAIN in : in[i] \in InMsg
      BY <1>1
    <3>1. \A i \in DOMAIN in : in[i] \in InMsg /\ in[i].due \in BOOLEAN
      BY <3>0 DEF InMsg
    <3>2. \A i \in DOMAIN in : d[i] \in BOOLEAN
      BY <3>1
    <3>3. in' = [i \in DOMAIN in |-> [in[i] EXCEPT !.due = d[i]]]
      BY <2>1, <3>1 DEF InMsg
    <3> HIDE DEF d
    <3> QED
      BY <1>1, <3>2, <3>3, MarkInFacts
  <2>4. elapses' \in Nat
    BY <1>1, <1>2 DEF RetryElapse, ControlType
  <2>5. ControlType' /\ ListsType' /\ CountType' /\ QueueType'
    BY <1>1, <1>2, <2>2, <2>3, <2>4 DEF RetryElapse, ControlType, ListsType, CountType,
       QueueType, broker
  <2>6. ListInv' /\ QueueInv'
    BY <1>1, <1>2, <2>2, SameMsgsFrame DEF RetryElapse, QueueInv, Fits
  <2> QED
    BY <2>5, <2>6, GroupsNext
<1>3. CASE KeepaliveElapse
  <2>1. elapses' \in Nat
    BY <1>1, <1>3 DEF KeepaliveElapse, ControlType
  <2>2. ControlType' /\ CountType'
    BY <1>1, <1>3, <2>1 DEF KeepaliveElapse, ControlType, CountType, broker
  <2> QED
    BY <1>1, <1>3, <2>2, ReadStep DEF KeepaliveElapse
<1> QED
  BY <1>2, <1>3

\* What survives of the packets when the connection breaks or stalls.
LEMMA LoseStep == ASSUME IInv, Lose PROVE IInv'
<1>1. /\ ControlType /\ ListsType /\ CountType /\ QueueType /\ QueueInv /\ ListInv
  BY Groups
<1>2. PICK n \in 0 .. Len(c2b), k \in 0 .. Len(b2c) :
          c2b' = SubSeq(c2b, 1, n) /\ b2c' = SubSeq(b2c, 1, k)
  BY DEF Lose, Prefix
<1>3. n \in Nat /\ n <= Len(c2b) /\ k \in Nat /\ k <= Len(b2c) /\ 1 \in Nat \ {0}
  BY <1>1 DEF QueueType
<1>4. c2b' \in Seq(ToBroker) /\ SafeQueue(c2b') /\ Len(c2b') <= Len(c2b)
  BY <1>1, <1>2, <1>3, SubSeqFacts, SafeSubSeq DEF QueueType, QueueInv
<1>5. b2c' \in Seq(ToClient) /\ SafeQueue(b2c')
  BY <1>1, <1>2, <1>3, SubSeqFacts, SafeSubSeq DEF QueueType, QueueInv
<1>6. Fits'
  BY <1>1, <1>4, BoundAssumption DEF Fits, QueueInv, QueueType
<1>7. losses' \in Nat
  BY <1>1 DEF Lose, ControlType
<1>8. ControlType' /\ ListsType' /\ CountType' /\ QueueType'
  BY <1>1, <1>4, <1>5, <1>7 DEF Lose, ControlType, ListsType, CountType, QueueType,
     client, broker
<1>9. ListInv' /\ QueueInv'
  BY <1>1, <1>4, <1>5, <1>6, SameOut, SameMsgsFrame DEF Lose, client, QueueInv
<1> QED
  BY <1>8, <1>9, GroupsNext

-----------------------------------------------------------------------------
(* The broker.                                                              *)

LEMMA BrokerFrame ==
    ASSUME IInv, UNCHANGED client,
           c2b' \in Seq(ToBroker), SafeQueue(c2b'), Len(c2b') <= Len(c2b),
           b2c' \in Seq(ToClient), SafeQueue(b2c'), ControlType', CountType'
    PROVE  IInv'
<1>1. /\ ListsType /\ QueueType /\ QueueInv /\ ListInv
  BY Groups
<1>2. Fits'
  BY <1>1, BoundAssumption DEF Fits, QueueInv, QueueType
<1>3. ListsType' /\ QueueType'
  BY <1>1 DEF ListsType, QueueType, client
<1>4. ListInv' /\ QueueInv'
  BY <1>1, <1>2, SameOut, SameMsgsFrame DEF client, QueueInv
<1> QED
  BY <1>3, <1>4, GroupsNext

LEMMA TakesFacts ==
    ASSUME IInv, NEW k, Takes(k)
    PROVE  /\ c2b' \in Seq(ToBroker) /\ SafeQueue(c2b') /\ Len(c2b') <= Len(c2b)
           /\ Head(c2b) \in ToBroker /\ Safe(Head(c2b)) /\ Head(c2b).kind = k
           /\ b2c \in Seq(ToClient) /\ SafeQueue(b2c)
  BY TailFacts, SafeTail DEF Takes, IInv, TypeOK

LEMMA AnswerFacts ==
    ASSUME IInv, NEW a, NEW m, Answer(a, m), Packet(a, m) \in ToClient,
           Safe(Packet(a, m))
    PROVE  b2c' \in Seq(ToClient) /\ SafeQueue(b2c')
<1>1. b2c \in Seq(ToClient) /\ SafeQueue(b2c)
  BY DEF IInv, TypeOK
<1> QED
  BY <1>1, AppendFacts, SafeAppend DEF Answer

LEMMA SameSafe ==
    ASSUME NEW p, NEW a, Safe(p) PROVE Safe(Packet(a, p.msg))
  BY DEF Safe, Packet

LEMMA AnsweringFacts ==
    ASSUME IInv, NEW k, NEW a, Answering(k, a), Packet(a, Head(c2b).msg) \in ToClient
    PROVE  /\ c2b' \in Seq(ToBroker) /\ SafeQueue(c2b') /\ Len(c2b') <= Len(c2b)
           /\ b2c' \in Seq(ToClient) /\ SafeQueue(b2c')
           /\ UNCHANGED <<client, wire, bstate, bounds>>
<1>1. Takes(k) /\ Answer(a, Head(c2b).msg) /\ UNCHANGED <<client, wire, bstate, bounds>>
  BY DEF Answering
<1>2. /\ c2b' \in Seq(ToBroker) /\ SafeQueue(c2b') /\ Len(c2b') <= Len(c2b)
      /\ Safe(Head(c2b))
  BY <1>1, TakesFacts
<1>3. Safe(Packet(a, Head(c2b).msg))
  BY <1>2, SameSafe
<1> QED
  BY <1>1, <1>2, <1>3, AnswerFacts

LEMMA BrokerSubscribeStep == ASSUME IInv, BrokerSubscribe \/ BrokerPingreq PROVE IInv'
<1>1. ControlType /\ CountType
  BY Groups
<1>2. CASE BrokerSubscribe
  <2>1. Packet("SUBACK", Head(c2b).msg) \in ToClient
    BY <1>2, TakesFacts, KindType, PacketType DEF BrokerSubscribe, Answering
  <2>2. /\ c2b' \in Seq(ToBroker) /\ SafeQueue(c2b') /\ Len(c2b') <= Len(c2b)
        /\ b2c' \in Seq(ToClient) /\ SafeQueue(b2c')
        /\ UNCHANGED <<client, wire, bstate, bounds>>
    BY <1>2, <2>1, AnsweringFacts DEF BrokerSubscribe
  <2>3. ControlType' /\ CountType'
    BY <1>1, <1>2, <2>2 DEF BrokerSubscribe, ControlType, CountType, client, bounds
  <2> QED
    BY <2>2, <2>3, BrokerFrame
<1>3. CASE BrokerPingreq
  <2>1. Packet("PINGRESP", Head(c2b).msg) \in ToClient
    BY <1>3, TakesFacts, KindType, PacketType DEF BrokerPingreq, Answering
  <2>2. /\ c2b' \in Seq(ToBroker) /\ SafeQueue(c2b') /\ Len(c2b') <= Len(c2b)
        /\ b2c' \in Seq(ToClient) /\ SafeQueue(b2c')
        /\ UNCHANGED <<client, wire, bstate, bounds>>
    BY <1>3, <2>1, AnsweringFacts DEF BrokerPingreq
  <2>3. ControlType' /\ CountType'
    BY <1>1, <1>3, <2>2 DEF BrokerPingreq, ControlType, CountType, client, bounds
  <2> QED
    BY <2>2, <2>3, BrokerFrame
<1> QED
  BY <1>2, <1>3

LEMMA ArrivesType ==
    ASSUME arrived \in [OutMsgs -> Nat], NEW m \in OutMsgs, Arrives(m)
    PROVE  arrived' \in [OutMsgs -> Nat]
  BY DEF Arrives

LEMMA BrokerReceiveStep == ASSUME IInv, BrokerReceive PROVE IInv'
<1> DEFINE m == Head(c2b).msg
<1>1. ControlType /\ CountType
  BY Groups
<1>2. CASE /\ Takes("PUBLISH") /\ Qos(m) = 0 /\ Arrives(m)
           /\ UNCHANGED <<client, wire, b2c, bstate, bsub, bin, bout, bounds>>
  <2>1. /\ c2b' \in Seq(ToBroker) /\ SafeQueue(c2b') /\ Len(c2b') <= Len(c2b)
        /\ b2c' \in Seq(ToClient) /\ SafeQueue(b2c') /\ m \in OutMsgs
    BY <1>2, TakesFacts, KindType
  <2>2. arrived' \in [OutMsgs -> Nat]
    BY <1>1, <1>2, <2>1, ArrivesType DEF CountType
  <2>3. ControlType' /\ CountType'
    BY <1>1, <1>2, <2>2 DEF ControlType, CountType, client, bounds
  <2> QED
    BY <1>2, <2>1, <2>3, BrokerFrame
<1>3. CASE /\ Answering("PUBLISH", "PUBACK") /\ Qos(m) = 1 /\ Arrives(m)
           /\ UNCHANGED <<bsub, bin, bout>>
  <2>1. m \in OutMsgs
    BY <1>3, TakesFacts, KindType DEF Answering
  <2>2. /\ c2b' \in Seq(ToBroker) /\ SafeQueue(c2b') /\ Len(c2b') <= Len(c2b)
        /\ b2c' \in Seq(ToClient) /\ SafeQueue(b2c')
        /\ UNCHANGED <<client, wire, bstate, bounds>>
    BY <1>3, <2>1, AnsweringFacts, PacketType
  <2>3. arrived' \in [OutMsgs -> Nat]
    BY <1>1, <1>3, <2>1, ArrivesType DEF CountType
  <2>4. ControlType' /\ CountType'
    BY <1>1, <1>3, <2>2, <2>3 DEF ControlType, CountType, client, bounds
  <2> QED
    BY <2>2, <2>4, BrokerFrame
<1>4. CASE /\ Answering("PUBLISH", "PUBREC") /\ Qos(m) = 2
           /\ bin' = bin \cup {m}
           /\ UNCHANGED <<bsub, bout, arrived>>
  <2>1. m \in OutMsgs
    BY <1>4, TakesFacts, KindType DEF Answering
  <2>2. /\ c2b' \in Seq(ToBroker) /\ SafeQueue(c2b') /\ Len(c2b') <= Len(c2b)
        /\ b2c' \in Seq(ToClient) /\ SafeQueue(b2c')
        /\ UNCHANGED <<client, wire, bstate, bounds>>
    BY <1>4, <2>1, AnsweringFacts, PacketType
  <2> HIDE DEF m
  <2>4. ControlType' /\ CountType'
    BY <1>1, <1>4, <2>1, <2>2 DEF ControlType, CountType, client, bounds
  <2> QED
    BY <2>2, <2>4, BrokerFrame
<1> QED
  BY <1>2, <1>3, <1>4 DEF BrokerReceive

LEMMA BrokerPubrelStep == ASSUME IInv, BrokerPubrel PROVE IInv'
<1> DEFINE m == Head(c2b).msg
<1>1. ControlType /\ CountType
  BY Groups
<1>2. /\ Answering("PUBREL", "PUBCOMP")
      /\ IF m \in bin THEN Arrives(m) ELSE UNCHANGED arrived
      /\ bin' = bin \ {m}
      /\ UNCHANGED <<bsub, bout>>
  BY DEF BrokerPubrel
<1>3. m \in OutMsgs
  BY <1>2, TakesFacts, KindType DEF Answering
<1>4. /\ c2b' \in Seq(ToBroker) /\ SafeQueue(c2b') /\ Len(c2b') <= Len(c2b)
      /\ b2c' \in Seq(ToClient) /\ SafeQueue(b2c')
      /\ UNCHANGED <<client, wire, bstate, bounds>>
  BY <1>2, <1>3, AnsweringFacts, PacketType
<1> HIDE DEF m
<1>5. arrived' \in [OutMsgs -> Nat]
  BY <1>1, <1>2, <1>3, ArrivesType DEF CountType
<1>6. ControlType' /\ CountType'
  BY <1>1, <1>2, <1>4, <1>5 DEF ControlType, CountType, client, bounds
<1> QED
  BY <1>4, <1>6, BrokerFrame

LEMMA BrokerAckedStep == ASSUME IInv, BrokerAcked PROVE IInv'
<1> DEFINE m == Head(c2b).msg
<1>1. ControlType /\ CountType
  BY Groups
<1>2. CASE Answering("PUBREC", "PUBREL") /\ bout' = [bout EXCEPT ![m] = "rel"]
  <2>1. m \in InMsgs
    BY <1>2, TakesFacts, KindType DEF Answering
  <2>2. /\ c2b' \in Seq(ToBroker) /\ SafeQueue(c2b') /\ Len(c2b') <= Len(c2b)
        /\ b2c' \in Seq(ToClient) /\ SafeQueue(b2c')
        /\ UNCHANGED <<client, wire, bstate, bounds, bsub, bin, arrived>>
    BY <1>2, <2>1, AnsweringFacts, PacketType DEF BrokerAcked
  <2> HIDE DEF m
  <2>3. ControlType' /\ CountType'
    BY <1>1, <1>2, <2>1, <2>2 DEF ControlType, CountType, client, bounds
  <2> QED
    BY <2>2, <2>3, BrokerFrame
<1>3. CASE /\ Takes("PUBACK") \/ Takes("PUBCOMP")
           /\ bout' = [bout EXCEPT ![m] = "done"]
           /\ UNCHANGED <<client, wire, b2c, bstate, bounds>>
  <2>1. /\ c2b' \in Seq(ToBroker) /\ SafeQueue(c2b') /\ Len(c2b') <= Len(c2b)
        /\ b2c' \in Seq(ToClient) /\ SafeQueue(b2c') /\ m \in InMsgs
    BY <1>3, TakesFacts, KindType
  <2>2. UNCHANGED <<bsub, bin, arrived>>
    BY DEF BrokerAcked
  <2> HIDE DEF m
  <2>3. ControlType' /\ CountType'
    BY <1>1, <1>3, <2>1, <2>2 DEF ControlType, CountType, client, bounds
  <2> QED
    BY <1>3, <2>1, <2>3, BrokerFrame
<1> QED
  BY <1>2, <1>3 DEF BrokerAcked

LEMMA BrokerRefuseStep == ASSUME IInv, BrokerRefuse PROVE IInv'
<1>1. ControlType /\ CountType
  BY Groups
<1>2. /\ c2b' \in Seq(ToBroker) /\ SafeQueue(c2b') /\ Len(c2b') <= Len(c2b)
  BY TakesFacts DEF BrokerRefuse
<1>3. b2c' \in Seq(ToClient) /\ SafeQueue(b2c')
  BY AnswerFacts, PacketType, OthersSafe DEF BrokerRefuse
<1>4. losses' \in Nat
  BY <1>1 DEF BrokerRefuse, ControlType
<1>5. ControlType' /\ CountType'
  BY <1>1, <1>4 DEF BrokerRefuse, ControlType, CountType, client
<1> QED
  BY <1>2, <1>3, <1>5, BrokerFrame DEF BrokerRefuse

LEMMA BrokerPublishStep == ASSUME IInv, BrokerPublish PROVE IInv'
<1>1. ControlType /\ CountType /\ QueueType /\ QueueInv
  BY Groups
<1>2. PICK m \in InMsgs :
          /\ Answer("PUBLISH", m)
          /\ bout' = [bout EXCEPT ![m] = IF Qos(m) = 0 THEN "done" ELSE "sent"]
  BY DEF BrokerPublish
<1>3. b2c' \in Seq(ToClient) /\ SafeQueue(b2c')
  BY <1>2, AnswerFacts, PacketType, OthersSafe
<1>4. c2b' \in Seq(ToBroker) /\ SafeQueue(c2b') /\ Len(c2b') <= Len(c2b)
  BY <1>1 DEF BrokerPublish, QueueType, QueueInv
<1>5. ControlType' /\ CountType'
  BY <1>1, <1>2 DEF BrokerPublish, ControlType, CountType, client, bounds
<1> QED
  BY <1>3, <1>4, <1>5, BrokerFrame DEF BrokerPublish

\* A session that goes on: what the broker sends again are its own messages.
LEMMA BrokerConnectStep == ASSUME IInv, BrokerConnect PROVE IInv'
<1>1. ControlType /\ CountType /\ QueueType /\ QueueInv
  BY Groups
<1>2. c2b' \in Seq(ToBroker) /\ SafeQueue(c2b') /\ Len(c2b') <= Len(c2b)
  BY TakesFacts DEF BrokerConnect
<1>3. bstate' = "on" /\ UNCHANGED <<client, wire, arrived, bounds>>
  BY DEF BrokerConnect
<1>4. Packet("CONNACK", NULL) \in ToClient /\ Safe(Packet("CONNACK", NULL))
  BY PacketType, OthersSafe
<1>5. CASE /\ bsub' = FALSE /\ bin' = {}
           /\ bout' = [m \in InMsgs |-> IF m \in Underway THEN "done" ELSE bout[m]]
           /\ Answer("CONNACK", NULL)
  <2>1. b2c' \in Seq(ToClient) /\ SafeQueue(b2c')
    BY <1>4, <1>5, AnswerFacts
  <2>2. ControlType' /\ CountType'
    BY <1>1, <1>3, <1>5 DEF ControlType, CountType, client, bounds
  <2> QED
    BY <1>2, <1>3, <2>1, <2>2, BrokerFrame
<1>6. CASE /\ UNCHANGED <<bsub, bin, bout>>
           /\ \E f \in [1 .. Cardinality(Underway) -> Underway] :
                 /\ \A m \in Underway : \E i \in DOMAIN f : f[i] = m
                 /\ b2c' = IF wire # "up" THEN b2c
                           ELSE Append(b2c, Packet("CONNACK", NULL))
                                \o [i \in DOMAIN f |-> Resent(f[i])]
  <2>1. PICK f \in [1 .. Cardinality(Underway) -> Underway] :
                 b2c' = IF wire # "up" THEN b2c
                        ELSE Append(b2c, Packet("CONNACK", NULL))
                             \o [i \in DOMAIN f |-> Resent(f[i])]
    BY <1>6
  <2>2. Cardinality(Underway) \in Nat
    BY MessageAssumption, FS_Subset, FS_CardinalityType DEF Underway
  <2>3. \A m \in Underway : Resent(m) \in ToClient /\ Safe(Resent(m))
    BY PacketType, OthersSafe DEF Underway, Resent
  <2>4. \A i \in 1 .. Cardinality(Underway) : f[i] \in Underway
    OBVIOUS
  <2> DEFINE r == [i \in DOMAIN f |-> Resent(f[i])]
             h == Append(b2c, Packet("CONNACK", NULL))
  <2>5. r \in Seq(ToClient) /\ SafeQueue(r)
    BY <2>2, <2>3, <2>4 DEF SafeQueue
  <2>6. h \in Seq(ToClient) /\ SafeQueue(h)
    BY <1>1, <1>4, AppendFacts, SafeAppend DEF QueueType, QueueInv
  <2>7. b2c' = b2c \/ b2c' = h \o r
    BY <2>1
  <2> HIDE DEF r, h
  <2>8. h \o r \in Seq(ToClient) /\ SafeQueue(h \o r)
    BY <2>5, <2>6, ConcatFacts, SafeConcat
  <2>9. b2c' \in Seq(ToClient) /\ SafeQueue(b2c')
    BY <1>1, <2>7, <2>8 DEF QueueType, QueueInv
  <2>10. ControlType' /\ CountType'
    BY <1>1, <1>3, <1>6 DEF ControlType, CountType, client, bounds
  <2> QED
    BY <1>2, <1>3, <2>9, <2>10, BrokerFrame
<1> QED
  BY <1>5, <1>6 DEF BrokerConnect

LEMMA BrokerStep == ASSUME IInv, Broker \/ BrokerRefuse \/ BrokerPublish PROVE IInv'
  BY BrokerConnectStep, BrokerSubscribeStep, BrokerReceiveStep, BrokerPubrelStep,
     BrokerAckedStep, BrokerRefuseStep, BrokerPublishStep DEF Broker

-----------------------------------------------------------------------------
(* Steps that move the window.                                              *)

\* The new packets, N, are safe in the new state.
LEMMA WindowFrame ==
    ASSUME ListInv', \A p : Safe(p) => Safe(p)',
           NEW N, \A p \in N : Safe(p)',
           \A i \in DOMAIN outp' : Safe(outp'[i]) \/ outp'[i] \in N,
           \A i \in DOMAIN c2b' : Safe(c2b'[i]) \/ c2b'[i] \in N,
           SafeQueue(b2c'), Fits'
    PROVE  QueueInv'
<1>1. ASSUME NEW i \in DOMAIN outp' PROVE Safe(outp[i])'
  <2>1. \A p : Safe(p) \/ p \in N => Safe(p)'
    OBVIOUS
  <2> QED
    BY <2>1 DEF Safe
<1>2. ASSUME NEW i \in DOMAIN c2b' PROVE Safe(c2b[i])'
  <2>1. \A p : Safe(p) \/ p \in N => Safe(p)'
    OBVIOUS
  <2> QED
    BY <2>1 DEF Safe
<1>3. ASSUME NEW i \in DOMAIN b2c' PROVE Safe(b2c[i])'
  BY DEF Safe, SafeQueue
<1> QED
  BY <1>1, <1>2, <1>3 DEF QueueInv, SafeQueue

\* What is left of the window when a message that does not wait is removed.
LEMMA RemoveWindow ==
    ASSUME ListInv, out \in Seq(OutMsg), NEW k \in DOMAIN out, k <= MaxInflight,
           NEW q, q = Without(out, k)
    PROVE  /\ q \in Seq(OutMsg) /\ Len(q) = Len(out) - 1 /\ Len(q) \in Nat
           /\ \A i \in DOMAIN q : i < MaxInflight => q[i].state # "invalid"
           /\ \A i \in DOMAIN q : i >= MaxInflight => q[i].state = "invalid"
           /\ \A i, j \in DOMAIN q : q[i].msg = q[j].msg => i = j
           /\ \A i \in DOMAIN q : q[i].msg \in published
           /\ \A i \in DOMAIN q : \E j \in DOMAIN out :
                 out[j].msg = q[i].msg /\ i <= j
           /\ inflight = IF Len(q) + 1 < MaxInflight THEN Len(q) + 1 ELSE MaxInflight
<1>1. /\ q \in Seq(OutMsg) /\ Len(q) = Len(out) - 1
      /\ \A i \in 1 .. Len(out) - 1 : q[i] = IF i < k THEN out[i] ELSE out[i + 1]
  BY WithoutFacts
<1>2. /\ Len(out) \in Nat /\ DOMAIN out = 1 .. Len(out) /\ DOMAIN q = 1 .. Len(out) - 1
      /\ k \in 1 .. Len(out) /\ MaxInflight \in Nat
  BY <1>1, LimitAssumption
<1>a. \A i \in DOMAIN out : out[i].state = "invalid" <=> i > MaxInflight
  BY DEF ListInv, Window
<1>b. ASSUME NEW i \in DOMAIN q
      PROVE  /\ i \in Nat /\ i \in DOMAIN out /\ i + 1 \in DOMAIN out
             /\ q[i] = IF i < k THEN out[i] ELSE out[i + 1]
  BY <1>1, <1>2
<1>3. ASSUME NEW i \in DOMAIN q, i < MaxInflight PROVE q[i].state # "invalid"
  <2>1. CASE i < k
    BY <1>2, <1>3, <1>a, <1>b, <2>1
  <2>2. CASE ~(i < k)
    <3>1. ~(i + 1 > MaxInflight)
      BY <1>2, <1>3, <1>b
    <3> QED
      BY <1>a, <1>b, <2>2, <3>1
  <2> QED
    BY <2>1, <2>2
<1>4. ASSUME NEW i \in DOMAIN q, i >= MaxInflight PROVE q[i].state = "invalid"
  <2>1. ~(i < k) /\ i + 1 > MaxInflight
    BY <1>2, <1>4, <1>b
  <2> QED
    BY <1>a, <1>b, <2>1
<1>5. \A i, j \in DOMAIN q : q[i].msg = q[j].msg => i = j
  <2>1. ASSUME NEW i \in DOMAIN q, NEW j \in DOMAIN q, q[i].msg = q[j].msg PROVE i = j
    <3> DEFINE a == IF i < k THEN i ELSE i + 1
               b == IF j < k THEN j ELSE j + 1
    <3>1. q[i] = out[a] /\ q[j] = out[b] /\ a \in DOMAIN out /\ b \in DOMAIN out
      BY <1>1, <1>2
    <3>2. a = b
      BY <2>1, <3>1 DEF ListInv, Distinct
    <3> QED
      BY <1>2, <3>2
  <2> QED
    BY <2>1
<1>6. \A i \in DOMAIN q : q[i].msg \in published
  BY <1>1, <1>2 DEF ListInv, OutPublished
<1>7. \A i \in DOMAIN q : \E j \in DOMAIN out : out[j].msg = q[i].msg /\ i <= j
  <2>1. ASSUME NEW i \in DOMAIN q
        PROVE  \E j \in DOMAIN out : out[j].msg = q[i].msg /\ i <= j
    <3> DEFINE a == IF i < k THEN i ELSE i + 1
    <3>1. q[i] = out[a] /\ a \in DOMAIN out /\ i <= a
      BY <1>1, <1>2
    <3> QED
      BY <3>1
  <2> QED
    BY <2>1
<1>8. inflight = IF Len(q) + 1 < MaxInflight THEN Len(q) + 1 ELSE MaxInflight
  BY <1>1, <1>2 DEF ListInv, Window
<1> QED
  BY <1>1, <1>2, <1>3, <1>4, <1>5, <1>6, <1>7, <1>8

\* Messages that only move forward leave what was safe safe.
LEMMA ForwardSafe ==
    ASSUME out \in Seq(OutMsg), out' \in Seq(OutMsg), published \subseteq published',
           \A i \in DOMAIN out' : \E j \in DOMAIN out :
               out[j].msg = out'[i].msg /\ i <= j
    PROVE  \A p : Safe(p) => Safe(p)'
<1>1. /\ DOMAIN out = 1 .. Len(out) /\ DOMAIN out' = 1 .. Len(out')
      /\ Len(out) \in Nat /\ Len(out') \in Nat /\ MaxInflight \in Nat
  BY LimitAssumption
<1>2. ASSUME NEW p, Safe(p), p.msg \in OutMsgs, NEW i \in DOMAIN out', out'[i].msg = p.msg
      PROVE  i <= MaxInflight
  <2>1. PICK j \in DOMAIN out : out[j].msg = out'[i].msg /\ i <= j
    OBVIOUS
  <2>2. j <= MaxInflight
    BY <1>2, <2>1 DEF Safe
  <2> QED
    BY <1>1, <2>1, <2>2
<1> QED
  BY <1>2 DEF Safe

LEMMA MessageRemoveStep ==
    ASSUME IInv, NEW k \in DOMAIN out, k <= MaxInflight, MessageRemove(k),
           b2c # <<>>, Received,
           UNCHANGED <<run, state, ping, idle, in, published, delivered, broker, bounds>>
    PROVE  IInv'
<1> DEFINE q == Without(out, k)
           starts == {i \in DOMAIN q : FirstInvalid(q, i)}
           tell == [told EXCEPT ![out[k].msg] = @ + 1]
<1>1. /\ ControlType /\ ListsType /\ CountType /\ QueueType /\ QueueInv /\ ListInv
      /\ out \in Seq(OutMsg) /\ MaxInflight \in Nat \ {0}
  BY Groups, LimitAssumption DEF ListsType
<1>2. q = Without(out, k)
  OBVIOUS
<1>3. starts = {i \in DOMAIN q : FirstInvalid(q, i)}
  OBVIOUS
<1>4. tell \in [OutMsgs -> Nat]
  <2>1. out[k] \in OutMsg
    BY <1>1
  <2>2. out[k].msg \in OutMsgs
    BY <2>1 DEF OutMsg
  <2> QED
    BY <1>1, <2>2 DEF CountType
<1>5. b2c' \in Seq(ToClient) /\ SafeQueue(b2c')
  BY TakenFacts DEF Received
<1>6. \/ /\ starts = {} \/ inflight - 1 >= MaxInflight
         /\ out' = q /\ inflight' = inflight - 1
         /\ told' = tell /\ UNCHANGED <<outp, c2b>>
      \/ \E i \in starts :
         /\ inflight - 1 < MaxInflight
         /\ out' = [q EXCEPT ![i].state = Waiting(q[i].msg)]
         /\ UNCHANGED inflight
         /\ PacketWrite(outp \o <<Packet("PUBLISH", q[i].msg)>>,
                        IF wire = "cut" THEN told ELSE tell)
  BY DEF MessageRemove
<1> HIDE DEF q, starts, tell
<1>7. /\ q \in Seq(OutMsg) /\ Len(q) = Len(out) - 1 /\ Len(q) \in Nat
      /\ \A i \in DOMAIN q : i < MaxInflight => q[i].state # "invalid"
      /\ \A i \in DOMAIN q : i >= MaxInflight => q[i].state = "invalid"
      /\ \A i, j \in DOMAIN q : q[i].msg = q[j].msg => i = j
      /\ \A i \in DOMAIN q : q[i].msg \in published
      /\ \A i \in DOMAIN q : \E j \in DOMAIN out : out[j].msg = q[i].msg /\ i <= j
      /\ inflight = IF Len(q) + 1 < MaxInflight THEN Len(q) + 1 ELSE MaxInflight
  BY <1>1, <1>2, RemoveWindow
<1>8. DOMAIN q = 1 .. Len(q) /\ \A i \in DOMAIN q : i \in Nat /\ q[i] \in OutMsg
  BY <1>7
<1>9. \A i \in DOMAIN q : FirstInvalid(q, i) <=> i = MaxInflight
  <2>1. ASSUME NEW i \in DOMAIN q, FirstInvalid(q, i) PROVE i = MaxInflight
    <3>1. i >= MaxInflight
      BY <1>1, <1>7, <1>8, <2>1 DEF FirstInvalid
    <3>2. CASE i > MaxInflight
      <4>1. MaxInflight \in 1 .. i - 1 /\ MaxInflight \in DOMAIN q
        BY <1>1, <1>7, <1>8, <3>2
      <4>2. q[MaxInflight].state = "invalid"
        BY <1>1, <1>7, <4>1
      <4> QED
        BY <2>1, <4>1, <4>2 DEF FirstInvalid
    <3> QED
      BY <1>1, <1>8, <3>1, <3>2
  <2>2. ASSUME NEW i \in DOMAIN q, i = MaxInflight PROVE FirstInvalid(q, i)
    <3>1. q[i].state = "invalid"
      BY <1>1, <1>7, <2>2
    <3>2. ASSUME NEW j \in 1 .. i - 1 PROVE q[j].state # "invalid"
      <4>1. j \in DOMAIN q /\ j < MaxInflight
        BY <1>1, <1>7, <1>8, <2>2
      <4> QED
        BY <1>7, <4>1
    <3> QED
      BY <3>1, <3>2 DEF FirstInvalid
  <2> QED
    BY <2>1, <2>2
<1>10. ControlType'
  BY <1>1 DEF ControlType, Received, broker, bounds
<1>11. CASE /\ starts = {} \/ inflight - 1 >= MaxInflight
            /\ out' = q /\ inflight' = inflight - 1
            /\ told' = tell /\ UNCHANGED <<outp, c2b>>
  <2>1. Len(q) < MaxInflight
    <3>1. inflight - 1 < MaxInflight
      BY <1>1, <1>7
    <3>2. starts = {}
      BY <1>1, <1>7, <1>11, <3>1
    <3>3. MaxInflight \notin DOMAIN q
      BY <1>3, <1>9, <3>2
    <3> QED
      BY <1>1, <1>7, <1>8, <3>3
  <2>2. inflight' = Len(q) /\ Len(out') = Len(q)
    BY <1>1, <1>7, <1>11, <2>1
  <2>3. \A i \in DOMAIN q : i < MaxInflight
    BY <1>1, <1>7, <1>8, <2>1
  <2>4. Window'
    BY <1>1, <1>7, <1>8, <1>11, <2>1, <2>2, <2>3 DEF Window
  <2>5. Distinct' /\ OutPublished'
    BY <1>7, <1>11 DEF Distinct, OutPublished
  <2>6. \A p : Safe(p) => Safe(p)'
    BY <1>1, <1>7, <1>11, ForwardSafe
  <2>7. SafeQueue(outp') /\ SafeQueue(c2b') /\ Fits'
    BY <1>1, <1>11 DEF QueueInv, Fits
  <2>8. QueueInv'
    <3> DEFINE N == {}
    <3>1. \A p \in N : Safe(p)'
      OBVIOUS
    <3>2. /\ \A i \in DOMAIN outp' : Safe(outp'[i]) \/ outp'[i] \in N
          /\ \A i \in DOMAIN c2b' : Safe(c2b'[i]) \/ c2b'[i] \in N
      BY <2>7 DEF SafeQueue
    <3>3. ListInv'
      BY <2>4, <2>5 DEF ListInv
    <3> HIDE DEF N
    <3> QED
      BY <1>5, <2>6, <2>7, <3>1, <3>2, <3>3, WindowFrame
  <2>9. ListsType' /\ CountType' /\ QueueType'
    BY <1>1, <1>4, <1>5, <1>7, <1>11, <2>2 DEF ListsType, CountType, QueueType, broker
  <2> QED
    BY <1>10, <2>4, <2>5, <2>8, <2>9, GroupsNext DEF ListInv
<1>12. ASSUME NEW i \in starts,
              out' = [q EXCEPT ![i].state = Waiting(q[i].msg)], UNCHANGED inflight,
              PacketWrite(outp \o <<Packet("PUBLISH", q[i].msg)>>,
                          IF wire = "cut" THEN told ELSE tell)
       PROVE  IInv'
  <2> DEFINE x == [q[i] EXCEPT !.state = Waiting(q[i].msg)]
  <2>0. PICK p : p = Packet("PUBLISH", q[i].msg)
    OBVIOUS
  <2>1. i \in DOMAIN q /\ i = MaxInflight /\ q[i] \in OutMsg
    BY <1>3, <1>8, <1>9
  <2>2. x \in OutMsg /\ x.msg = q[i].msg /\ x.state # "invalid"
    BY <2>1 DEF OutMsg, OutStates, Waiting
  <2>3. out' = [q EXCEPT ![i] = x]
    BY <1>12
  <2>4. p \in ToBroker /\ p.msg = q[i].msg
    BY <2>0, <2>1, PacketType DEF OutMsg, Packet
  <2>5. PacketWrite(outp \o <<p>>, IF wire = "cut" THEN told ELSE tell)
    BY <1>12, <2>0
  <2> HIDE DEF x
  <2>6. /\ out' \in Seq(OutMsg) /\ Len(out') = Len(q) /\ DOMAIN out' = DOMAIN q
        /\ \A j \in DOMAIN q : out'[j] = IF j = i THEN x ELSE q[j]
    BY <1>7, <2>1, <2>2, <2>3, ExceptFacts
  <2>7. \A j \in DOMAIN out' : out'[j].msg = q[j].msg
    BY <2>2, <2>6
  <2>8. Len(q) >= MaxInflight /\ inflight' = MaxInflight
    BY <1>1, <1>7, <1>8, <1>12, <2>1
  <2>9. \A j \in DOMAIN out' : out'[j].state = "invalid" <=> j > MaxInflight
    <3>1. ASSUME NEW j \in DOMAIN out'
          PROVE  out'[j].state = "invalid" <=> j > MaxInflight
      <4>1. j \in DOMAIN q /\ j \in Nat
        BY <1>8, <2>6
      <4>2. CASE j = i
        BY <1>1, <2>1, <2>2, <2>6, <4>1, <4>2
      <4>3. CASE j # i
        BY <1>1, <1>7, <2>1, <2>6, <4>1, <4>3
      <4> QED
        BY <4>2, <4>3
    <3> QED
      BY <3>1
  <2>10. Window'
    BY <1>1, <1>7, <2>6, <2>8, <2>9 DEF Window
  <2>11. Distinct' /\ OutPublished'
    BY <1>7, <2>6, <2>7 DEF Distinct, OutPublished
  <2>12. \A y : Safe(y) => Safe(y)'
    <3>1. \A j \in DOMAIN out' : \E l \in DOMAIN out : out[l].msg = out'[j].msg /\ j <= l
      BY <1>7, <2>6, <2>7
    <3> QED
      BY <1>1, <2>6, <3>1, ForwardSafe
  <2>13. Safe(p)'
    <3>1. p.msg \in published'
      BY <1>7, <2>1, <2>4
    <3>2. ASSUME NEW j \in DOMAIN out', out'[j].msg = p.msg PROVE j <= MaxInflight
      <4>1. j = i
        BY <1>7, <2>1, <2>4, <2>6, <2>7, <3>2
      <4> QED
        BY <1>1, <2>1, <4>1
    <3> QED
      BY <3>1, <3>2 DEF Safe
  <2>14. /\ outp' \in Seq(ToBroker) /\ c2b' \in Seq(ToBroker)
         /\ told' \in [OutMsgs -> Nat] /\ Fits'
         /\ \A j \in DOMAIN outp' :
               Safe(outp'[j]) \/ \E l \in DOMAIN <<p>> : outp'[j] = <<p>>[l]
         /\ \A j \in DOMAIN c2b' :
               Safe(c2b'[j]) \/ \E l \in DOMAIN <<p>> : c2b'[j] = <<p>>[l]
    <3>1. (IF wire = "cut" THEN told ELSE tell) \in [OutMsgs -> Nat]
      BY <1>1, <1>4 DEF CountType
    <3>2. <<p>> \in Seq(ToBroker)
      BY <2>4
    <3> QED
      BY <1>1, <2>5, <3>1, <3>2, SendFacts DEF QueueType, QueueInv
  <2>15. QueueInv'
    <3> DEFINE N == {p}
    <3>1. \A y \in N : Safe(y)'
      BY <2>13 DEF Safe
    <3>2. /\ \A j \in DOMAIN outp' : Safe(outp'[j]) \/ outp'[j] \in N
          /\ \A j \in DOMAIN c2b' : Safe(c2b'[j]) \/ c2b'[j] \in N
      BY <2>14
    <3>3. ListInv'
      BY <2>10, <2>11 DEF ListInv
    <3> HIDE DEF N
    <3> QED
      BY <1>5, <2>12, <2>14, <3>1, <3>2, <3>3, WindowFrame
  <2>16. ListsType' /\ CountType' /\ QueueType'
    BY <1>1, <1>5, <1>12, <2>6, <2>14 DEF ListsType, CountType, QueueType, broker
  <2> QED
    BY <1>10, <2>10, <2>11, <2>15, <2>16, GroupsNext DEF ListInv
<1> QED
  BY <1>6, <1>11, <1>12

LEMMA HandlePubackcompStep ==
    ASSUME IInv, NEW kind \in {"PUBACK", "PUBCOMP"}, HandlePubackcomp(kind) PROVE IInv'
<1> DEFINE m == Head(b2c).msg
<1>1. b2c # <<>> /\ m \in OutMsgs /\ Safe(Head(b2c))
  BY TailFacts, SafeTail, KindType DEF HandlePubackcomp, Receive, IInv, TypeOK
<1>2. /\ Received
      /\ UNCHANGED <<run, state, ping, idle, in, published, delivered, broker, bounds>>
  BY DEF HandlePubackcomp
<1>3. ASSUME NEW k \in DOMAIN out, Holds(out, k, m), MessageRemove(k) PROVE IInv'
  <2>1. k <= MaxInflight
    BY <1>1, <1>3 DEF Holds, Safe
  <2> QED
    BY <1>1, <1>2, <1>3, <2>1, MessageRemoveStep
<1>4. CASE UNCHANGED <<out, inflight, outp, told, c2b>>
  <2>1. ControlType' /\ CountType' /\ in' \in Seq(InMsg)
    BY <1>2, <1>4, Groups DEF ControlType, CountType, ListsType, Received, broker, bounds
  <2> QED
    BY <1>1, <1>2, <1>4, <2>1, ReadStep DEF Received
<1> QED
  BY <1>3, <1>4 DEF HandlePubackcomp

LEMMA PublishStep == ASSUME IInv, NEW m \in OutMsgs, Publish(m) PROVE IInv'
<1> DEFINE room == inflight < MaxInflight
           x == [msg |-> m, due |-> FALSE,
                 state |-> IF room THEN Waiting(m) ELSE "invalid"]
<1>1. /\ ControlType /\ ListsType /\ CountType /\ QueueType /\ QueueInv /\ ListInv
      /\ out \in Seq(OutMsg) /\ MaxInflight \in Nat \ {0}
      /\ Len(out) \in Nat /\ DOMAIN out = 1 .. Len(out)
  BY Groups, LimitAssumption DEF ListsType
<1>2. /\ m \notin published /\ published' = published \cup {m}
      /\ UNCHANGED <<run, sock, state, ping, idle, in, delivered, wire, b2c, broker, bounds>>
  BY DEF Publish
<1>3. \A i \in DOMAIN out : out[i].msg # m
  BY <1>1, <1>2 DEF ListInv, OutPublished
<1>4. x \in OutMsg /\ x.msg = m /\ (x.state = "invalid" <=> ~room)
  BY DEF OutMsg, OutStates, Waiting
<1>5. PICK p : p = Packet("PUBLISH", m)
  OBVIOUS
<1>6. p \in ToBroker /\ p.msg = m
  BY <1>5, PacketType DEF Packet
<1> HIDE DEF x
<1>7. /\ \/ Qos(m) = 0 /\ UNCHANGED <<out, inflight>>
         \/ out' = Append(out, x) /\ inflight' = IF room THEN inflight + 1 ELSE inflight
      /\ \/ /\ room \/ UNCHANGED <<out, inflight>>
            /\ Send(<<p>>)
         \/ UNCHANGED <<outp, told, c2b>>
  BY <1>5 DEF Publish, MessageQueue, x
<1>8. /\ ListInv' /\ ListsType'
      /\ \A y : Safe(y) => Safe(y)'
      /\ room \/ UNCHANGED <<out, inflight>> => Safe(p)'
  <2>1. CASE UNCHANGED <<out, inflight>>
    <3>1. ListInv' /\ ListsType'
      BY <1>1, <1>2, <2>1 DEF ListInv, Window, Distinct, OutPublished, ListsType
    <3>2. \A y : Safe(y) => Safe(y)'
      BY <1>2, <2>1 DEF Safe
    <3>3. Safe(p)'
      BY <1>2, <1>3, <1>6, <2>1 DEF Safe
    <3> QED
      BY <3>1, <3>2, <3>3
  <2>2. CASE /\ out' = Append(out, x)
             /\ inflight' = IF room THEN inflight + 1 ELSE inflight
    <3>1. /\ out' \in Seq(OutMsg) /\ Len(out') = Len(out) + 1
          /\ DOMAIN out' = 1 .. Len(out) + 1
          /\ \A i \in DOMAIN out : out'[i] = out[i]
          /\ out'[Len(out) + 1] = x
      BY <1>1, <1>4, <2>2
    <3>2. room <=> Len(out) < MaxInflight
      BY <1>1 DEF ListInv, Window
    <3>3. inflight' = IF Len(out') < MaxInflight THEN Len(out') ELSE MaxInflight
      BY <1>1, <2>2, <3>1, <3>2 DEF ListInv, Window
    <3>4. ASSUME NEW i \in DOMAIN out'
          PROVE  /\ out'[i].state = "invalid" <=> i > MaxInflight
                 /\ out'[i].msg \in published'
      <4>1. CASE i \in DOMAIN out
        BY <1>1, <1>2, <3>1, <4>1 DEF ListInv, Window, OutPublished
      <4>2. CASE i = Len(out) + 1
        BY <1>1, <1>2, <1>4, <3>1, <3>2, <4>2
      <4> QED
        BY <1>1, <3>1, <4>1, <4>2
    <3>5. Distinct'
      BY <1>1, <1>3, <1>4, <3>1 DEF ListInv, Distinct
    <3>6. ListInv'
      BY <3>3, <3>4, <3>5 DEF ListInv, Window, OutPublished
    <3>7. inflight' \in Nat
      BY <1>1, <2>2 DEF ListsType
    <3>8. ListsType'
      BY <1>1, <1>2, <3>1, <3>7 DEF ListsType
    <3>9. \A y : Safe(y) => Safe(y)'
      <4>1. ASSUME NEW y, Safe(y), y.msg \in OutMsgs, NEW i \in DOMAIN out',
                   out'[i].msg = y.msg
            PROVE  i <= MaxInflight
        <5>1. y.msg \in published /\ y.msg # m
          BY <1>2, <4>1 DEF Safe
        <5>2. i \in DOMAIN out
          BY <1>1, <1>4, <3>1, <4>1, <5>1
        <5> QED
          BY <3>1, <4>1, <5>2 DEF Safe
      <4> QED
        BY <1>2, <4>1 DEF Safe
    <3>10. room => Safe(p)'
      <4>1. ASSUME room, NEW i \in DOMAIN out', out'[i].msg = p.msg PROVE i <= MaxInflight
        <5>1. i = Len(out) + 1
          BY <1>1, <1>3, <1>6, <3>1, <4>1
        <5> QED
          BY <1>1, <3>2, <4>1, <5>1
      <4> QED
        BY <1>2, <1>6, <4>1 DEF Safe
    <3> QED
      BY <3>1, <3>6, <3>8, <3>9, <3>10, <1>1
  <2> QED
    BY <1>7, <2>1, <2>2
<1>9. ControlType' /\ b2c' \in Seq(ToClient) /\ SafeQueue(b2c')
  BY <1>1, <1>2 DEF ControlType, QueueType, QueueInv, broker, bounds
<1>10. CASE (room \/ UNCHANGED <<out, inflight>>) /\ Send(<<p>>)
  <2>1. <<p>> \in Seq(ToBroker)
    BY <1>6
  <2>2. /\ outp' \in Seq(ToBroker) /\ c2b' \in Seq(ToBroker)
        /\ told' \in [OutMsgs -> Nat] /\ Fits'
        /\ \A j \in DOMAIN outp' :
              Safe(outp'[j]) \/ \E l \in DOMAIN <<p>> : outp'[j] = <<p>>[l]
        /\ \A j \in DOMAIN c2b' :
              Safe(c2b'[j]) \/ \E l \in DOMAIN <<p>> : c2b'[j] = <<p>>[l]
    BY <1>1, <1>10, <2>1, SendFacts DEF Send, QueueType, QueueInv, CountType
  <2>3. QueueInv'
    <3> DEFINE N == {p}
    <3>1. \A y \in N : Safe(y)'
      BY <1>8, <1>10 DEF Safe
    <3>2. /\ \A j \in DOMAIN outp' : Safe(outp'[j]) \/ outp'[j] \in N
          /\ \A j \in DOMAIN c2b' : Safe(c2b'[j]) \/ c2b'[j] \in N
      BY <2>2
    <3> HIDE DEF N
    <3> QED
      BY <1>8, <1>9, <2>2, <3>1, <3>2, WindowFrame
  <2>4. CountType' /\ QueueType'
    BY <1>1, <1>2, <1>9, <2>2 DEF CountType, QueueType, broker
  <2> QED
    BY <1>8, <1>9, <2>3, <2>4, GroupsNext
<1>11. CASE UNCHANGED <<outp, told, c2b>>
  <2>1. SafeQueue(outp') /\ SafeQueue(c2b') /\ Fits'
    BY <1>1, <1>11 DEF QueueInv, Fits
  <2>2. QueueInv'
    <3> DEFINE N == {}
    <3>1. \A y \in N : Safe(y)'
      OBVIOUS
    <3>2. /\ \A j \in DOMAIN outp' : Safe(outp'[j]) \/ outp'[j] \in N
          /\ \A j \in DOMAIN c2b' : Safe(c2b'[j]) \/ c2b'[j] \in N
      BY <2>1 DEF SafeQueue
    <3> HIDE DEF N
    <3> QED
      BY <1>8, <1>9, <2>1, <3>1, <3>2, WindowFrame
  <2>3. CountType' /\ QueueType'
    BY <1>1, <1>2, <1>9, <1>11 DEF CountType, QueueType, broker
  <2> QED
    BY <1>8, <1>9, <2>2, <2>3, GroupsNext
<1> QED
  BY <1>7, <1>10, <1>11

\* A new connection: the oldest messages are under way again, and no packet of
\* the old one is left.
LEMMA ReconnectedStep == ASSUME IInv, Reconnected, run' \in {"new", "loop", "ended"} PROVE IInv'
<1>1. /\ ControlType /\ ListsType /\ CountType /\ QueueType /\ QueueInv /\ ListInv
      /\ out \in Seq(OutMsg) /\ in \in Seq(InMsg) /\ MaxInflight \in Nat \ {0}
      /\ Len(out) \in Nat /\ DOMAIN out = 1 .. Len(out)
  BY Groups, LimitAssumption DEF ListsType
<1>2. \A i \in DOMAIN out : out[i] \in OutMsg
  BY <1>1
<1>3. /\ DOMAIN out' = DOMAIN out
      /\ \A i \in DOMAIN out :
            out'[i] = [out[i] EXCEPT !.due = TRUE,
                                     !.state = IF i > MaxInflight THEN "invalid"
                                               ELSE IF Qos(out[i].msg) = 1
                                               THEN "wait_for_puback" ELSE @]
  BY DEF Reconnected, ReconnectReset
<1>4. ASSUME NEW i \in DOMAIN out
      PROVE  /\ out'[i] \in OutMsg /\ out'[i].msg = out[i].msg
             /\ out'[i].state = IF i > MaxInflight THEN "invalid"
                                ELSE IF Qos(out[i].msg) = 1
                                THEN "wait_for_puback" ELSE out[i].state
  BY <1>2, <1>3 DEF OutMsg, OutStates
<1>5. out' \in Seq(OutMsg) /\ Len(out') = Len(out)
  <2>1. out' = [i \in 1 .. Len(out) |-> out'[i]]
    BY <1>1 DEF Reconnected, ReconnectReset
  <2> QED
    BY <1>1, <1>4, <2>1
<1>6. inflight' = (IF Len(out) < MaxInflight THEN Len(out) ELSE MaxInflight)
  BY DEF Reconnected, ReconnectReset
<1>7. in' \in Seq(InMsg)
  BY <1>1, MarkAllIn DEF Reconnected, ReconnectReset
<1>8. UNCHANGED <<published, told, delivered, bsub, bin, bout, arrived, bounds>>
  BY DEF Reconnected
<1>9. \A i \in DOMAIN out : out[i].state = "invalid" <=> i > MaxInflight
  BY <1>1 DEF ListInv, Window
<1>10. \A i \in DOMAIN out : out'[i].state = "invalid" <=> i > MaxInflight
  BY <1>4, <1>9
<1>11. ListInv'
  <2>1. Window'
    BY <1>3, <1>5, <1>6, <1>10 DEF Window
  <2>2. Distinct' /\ OutPublished'
    BY <1>1, <1>3, <1>4, <1>8 DEF ListInv, Distinct, OutPublished
  <2> QED
    BY <2>1, <2>2 DEF ListInv
<1>12. ListsType'
  BY <1>1, <1>5, <1>6, <1>7, <1>8 DEF ListsType
<1>13. ControlType' /\ CountType'
  BY <1>1, <1>8 DEF Reconnected, ControlType, CountType, bounds
<1>14. outp' = <<>> /\ b2c' = <<>> /\ c2b' = <<Packet("CONNECT", NULL)>>
  BY DEF Reconnected, Kept
<1>15. Packet("CONNECT", NULL) \in ToBroker /\ Packet("CONNECT", NULL).msg = NULL
  BY PacketType DEF Packet
<1>16. QueueType'
  BY <1>14, <1>15 DEF QueueType
<1>17. QueueInv'
  <2>1. DOMAIN outp' = {} /\ DOMAIN b2c' = {} /\ DOMAIN c2b' = {1} /\ Len(c2b') = 1
        /\ c2b'[1] = Packet("CONNECT", NULL)
    BY <1>14
  <2>2. Fits'
    BY <2>1, BoundAssumption DEF Fits
  <2>3. Packet("CONNECT", NULL).msg \notin OutMsgs
    BY <1>15, MessageAssumption
  <2> QED
    BY <2>1, <2>2, <2>3 DEF QueueInv, SafeQueue, Safe
<1> QED
  BY <1>11, <1>12, <1>13, <1>16, <1>17, GroupsNext

-----------------------------------------------------------------------------
(* The theorems.                                                            *)

LEMMA StutterStep == ASSUME IInv, UNCHANGED vars PROVE IInv'
<1>1. /\ ControlType /\ ListsType /\ CountType /\ QueueType /\ QueueInv /\ ListInv
      /\ UNCHANGED <<client, wire, c2b, b2c, broker, bounds>>
  BY Groups DEF vars
<1>2. ControlType' /\ ListsType'
  BY <1>1 DEF ControlType, ListsType, client, broker, bounds
<1>3. CountType' /\ QueueType'
  BY <1>1 DEF CountType, QueueType, client, broker
<1>4. ListInv' /\ QueueInv'
  BY <1>1 DEF ListInv, Window, Distinct, OutPublished, QueueInv, SafeQueue, Safe, Fits, client
<1> QED
  BY <1>2, <1>3, <1>4, GroupsNext

LEMMA InitStep == Init => IInv
<1> SUFFICES ASSUME Init PROVE IInv
  OBVIOUS
<1>1. /\ out = <<>> /\ in = <<>> /\ outp = <<>> /\ c2b = <<>> /\ b2c = <<>>
      /\ inflight = 0 /\ published = {}
  BY DEF Init
<1>2. /\ <<>> \in Seq(OutMsg) /\ <<>> \in Seq(InMsg) /\ <<>> \in Seq(ToBroker)
      /\ <<>> \in Seq(ToClient) /\ DOMAIN <<>> = {} /\ Len(<<>>) = 0
  OBVIOUS
<1>3. ControlType
  BY BoundAssumption DEF Init, ControlType
<1>4. ListsType /\ QueueType
  BY <1>1, <1>2 DEF ListsType, QueueType
<1>5. CountType
  BY DEF Init, CountType
<1>6. ListInv /\ QueueInv
  BY <1>1, <1>2, LimitAssumption, BoundAssumption
    DEF ListInv, Window, Distinct, OutPublished, QueueInv, SafeQueue, Fits
<1> QED
  BY <1>3, <1>4, <1>5, <1>6, Groups

LEMMA ConnectStep == ASSUME IInv, ClientConnect \/ Reconnect PROVE IInv'
<1>1. CASE ClientConnect /\ Reconnected
  BY <1>1, ReconnectedStep DEF ClientConnect
<1>2. CASE Reconnect
  <2>1. Reconnected /\ run' \in {"new", "loop", "ended"}
    BY <1>2 DEF Reconnect
  <2> QED
    BY <2>1, ReconnectedStep
<1>3. CASE ClientConnect /\ ~Reconnected
  <2>1. /\ run' = "ended"
        /\ UNCHANGED <<sock, state, ping, idle, out, inflight, in, outp, published,
                       told, delivered, wire, c2b, b2c, broker, bounds>>
    BY <1>3 DEF ClientConnect
  <2>2. ControlType /\ ListsType /\ CountType /\ QueueType /\ QueueInv /\ ListInv
    BY Groups
  <2>3. ControlType' /\ ListsType'
    BY <2>1, <2>2 DEF ControlType, ListsType, broker, bounds
  <2>4. CountType' /\ QueueType'
    BY <2>1, <2>2 DEF CountType, QueueType, broker
  <2>5. ListInv' /\ QueueInv'
    BY <2>1, <2>2 DEF ListInv, Window, Distinct, OutPublished, QueueInv, SafeQueue, Safe, Fits
  <2> QED
    BY <2>3, <2>4, <2>5, GroupsNext
<1> QED
  BY <1>1, <1>2, <1>3

LEMMA NextStep == ASSUME IInv, [Next]_vars PROVE IInv'
<1>1. CASE ClientConnect \/ Reconnect
  BY <1>1, ConnectStep
<1>2. CASE \E m \in OutMsgs : Publish(m)
  BY <1>2, PublishStep
<1>3. CASE LoopRead
  <2>1. CASE HandleConnack
    BY <2>1, HandleConnackStep
  <2>2. CASE HandleRefused \/ HandlePingresp \/ HandleSuback \/ ReadEnd
    BY <2>2, HandleSilently
  <2>3. CASE HandlePublish
    BY <2>3, HandlePublishStep
  <2>4. CASE HandlePubrel
    BY <2>4, HandlePubrelStep
  <2>5. CASE HandlePubrec
    BY <2>5, HandlePubrecStep
  <2>6. CASE HandlePubackcomp("PUBACK") \/ HandlePubackcomp("PUBCOMP")
    BY <2>6, HandlePubackcompStep
  <2> QED
    BY <1>3, <2>1, <2>2, <2>3, <2>4, <2>5, <2>6 DEF LoopRead
<1>4. CASE LoopWrite
  BY <1>4, LoopWriteStep
<1>5. CASE Misc
  BY <1>5, MiscStep
<1>6. CASE Broker \/ BrokerRefuse \/ BrokerPublish
  BY <1>6, BrokerStep
<1>7. CASE Lose
  BY <1>7, LoseStep
<1>8. CASE RetryElapse \/ KeepaliveElapse
  BY <1>8, ElapseStep
<1>9. CASE UNCHANGED vars
  BY <1>9, StutterStep
<1> QED
  BY <1>1, <1>2, <1>3, <1>4, <1>5, <1>6, <1>7, <1>8, <1>9 DEF Next, Application

\* The inductive invariant: Window, and no packet about a message that waits.
THEOREM Invariance == Spec => []IInv
<1>1. IInv /\ [Next]_vars => IInv'
  BY NextStep
<1> QED
  BY InitStep, <1>1, PTL DEF Spec

\* The counter of messages under way never falls below zero and no queue holds
\* anything but packets, whatever is acknowledged after a reconnection
\* (_mosquitto_message_remove, _mosquitto_messages_reconnect_reset).
THEOREM TypeCorrect == Spec => []TypeOK
<1>1. IInv => TypeOK
  BY DEF IInv
<1> QED
  BY Invariance, <1>1, PTL

\* For any limit and any messages: those under way are the oldest ones, as many
\* as the limit allows, across acknowledgements in any order, writes that fail
\* and reconnections (_mosquitto_message_queue, _mosquitto_message_remove).
THEOREM WindowKept == Spec => []Window
<1>1. IInv => Window
  BY DEF IInv, ListInv
<1> QED
  BY Invariance, <1>1, PTL

-----------------------------------------------------------------------------
(* CONNECT comes first: only a new connection sends it, and as long as it   *)
(* has not been read nothing can take its place on a connection that works. *)

NoConnect(q) == \A i \in DOMAIN q : q[i].kind # "CONNECT"

ConnInv ==
    /\ \A i \in DOMAIN c2b : c2b[i].kind = "CONNECT" <=> (i = 1 /\ bstate = "await")
    /\ NoConnect(outp)
    /\ wire = "up" /\ bstate = "await" => c2b # <<>>

LEMMA ConnFrame ==
    ASSUME ConnInv, UNCHANGED <<c2b, bstate>>, NoConnect(outp'), wire' = wire \/ wire' # "up"
    PROVE  ConnInv'
  BY DEF ConnInv

LEMMA NoConnectConcat ==
    ASSUME NEW a \in Seq(ToBroker), NEW b \in Seq(ToBroker), NoConnect(a), NoConnect(b)
    PROVE  NoConnect(a \o b)
<1>1. \A i \in DOMAIN (a \o b) :
           \/ i \in DOMAIN a /\ (a \o b)[i] = a[i]
           \/ i - Len(a) \in DOMAIN b /\ (a \o b)[i] = b[i - Len(a)]
  BY ConcatFacts
<1> QED
  BY <1>1 DEF NoConnect

LEMMA NoConnectPackets ==
    \A k \in {"PUBLISH", "PUBREL", "PUBACK", "PUBREC", "PUBCOMP", "SUBSCRIBE", "PINGREQ"} :
       \A m : NoConnect(<<Packet(k, m)>>)
  BY DEF NoConnect, Packet

LEMMA ConnWrite ==
    ASSUME IInv, ConnInv, NEW q \in Seq(ToBroker), NoConnect(q), NEW t,
           PacketWrite(q, t), bstate' = bstate, wire' = wire \/ wire' # "up"
    PROVE  ConnInv'
<1> DEFINE room == MaxWire - Len(c2b)
           n == IF Len(q) < room THEN Len(q) ELSE room
<1>1. /\ room \in Nat /\ n \in Nat /\ n <= Len(q) /\ Len(q) \in Nat
      /\ Len(c2b) \in Nat /\ c2b \in Seq(ToBroker)
  BY BoundAssumption DEF IInv, TypeOK, Fits
<1>2. CASE /\ wire = "up" /\ c2b' = c2b \o SubSeq(q, 1, n)
           /\ outp' = SubSeq(q, n + 1, Len(q))
  <2> DEFINE a == SubSeq(q, 1, n)
             z == SubSeq(q, n + 1, Len(q))
  <2>1. 1 \in Nat \ {0} /\ n + 1 \in Nat \ {0}
    BY <1>1
  <2> HIDE DEF n
  <2>2. /\ a \in Seq(ToBroker)
        /\ \A i \in DOMAIN a : 1 + i - 1 \in DOMAIN q /\ a[i] = q[1 + i - 1]
    BY <1>1, <2>1, SubSeqFacts
  <2>3. \A i \in DOMAIN z : n + 1 + i - 1 \in DOMAIN q /\ z[i] = q[n + 1 + i - 1]
    BY <1>1, <2>1, SubSeqFacts
  <2>4. NoConnect(z) /\ NoConnect(a)
    BY <2>2, <2>3 DEF NoConnect
  <2>5. c2b' = c2b \o a /\ outp' = z
    BY <1>2
  <2> HIDE DEF a, z
  <2>6. \A i \in DOMAIN (c2b \o a) :
           \/ i \in DOMAIN c2b /\ (c2b \o a)[i] = c2b[i]
           \/ i - Len(c2b) \in DOMAIN a /\ (c2b \o a)[i] = a[i - Len(c2b)]
    BY <1>1, <2>2, ConcatFacts
  <2>7. c2b # <<>> => c2b \o a # <<>>
    <3>1. Len(c2b \o a) = Len(c2b) + Len(a) /\ Len(a) \in Nat
      BY <1>1, <2>2, ConcatFacts
    <3>2. c2b # <<>> => Len(c2b) > 0
      BY <1>1
    <3>3. Len(c2b \o a) > 0 => c2b \o a # <<>>
      OBVIOUS
    <3> QED
      BY <1>1, <3>1, <3>2, <3>3
  <2>8. ASSUME NEW i \in DOMAIN (c2b \o a)
        PROVE  (c2b \o a)[i].kind = "CONNECT" <=> (i = 1 /\ bstate = "await")
    <3>1. CASE i \in DOMAIN c2b /\ (c2b \o a)[i] = c2b[i]
      BY <3>1 DEF ConnInv
    <3>2. CASE i - Len(c2b) \in DOMAIN a /\ (c2b \o a)[i] = a[i - Len(c2b)]
      <4>1. (c2b \o a)[i].kind # "CONNECT"
        BY <2>4, <3>2 DEF NoConnect
      <4>2. i = 1 => Len(c2b) = 0
        BY <1>1, <2>2, <3>2
      <4>3. Len(c2b) = 0 => c2b = <<>>
        BY <1>1
      <4>4. i = 1 => bstate # "await"
        BY <1>2, <4>2, <4>3 DEF ConnInv
      <4> QED
        BY <4>1, <4>4
    <3> QED
      BY <2>6, <3>1, <3>2
  <2> QED
    BY <2>4, <2>5, <2>7, <2>8 DEF ConnInv
<1>3. CASE outp' \in {<<>>, q} /\ UNCHANGED c2b
  <2>1. NoConnect(outp')
    BY <1>3 DEF NoConnect
  <2> QED
    BY <1>3, <2>1, ConnFrame
<1> QED
  BY <1>2, <1>3 DEF PacketWrite

LEMMA ConnSend ==
    ASSUME IInv, ConnInv, NEW ps \in Seq(ToBroker), NoConnect(ps), NEW t,
           PacketWrite(outp \o ps, t), bstate' = bstate, wire' = wire \/ wire' # "up"
    PROVE  ConnInv'
<1>1. outp \in Seq(ToBroker) /\ NoConnect(outp)
  BY DEF IInv, TypeOK, ConnInv
<1>2. outp \o ps \in Seq(ToBroker) /\ NoConnect(outp \o ps)
  BY <1>1, ConcatFacts, NoConnectConcat
<1> QED
  BY <1>2, ConnWrite

LEMMA ConnReply ==
    ASSUME IInv, ConnInv, NEW p \in ToBroker, p.kind # "CONNECT", Reply(<<p>>),
           bstate' = bstate
    PROVE  ConnInv'
<1>1. <<p>> \in Seq(ToBroker) /\ NoConnect(<<p>>)
  BY DEF NoConnect
<1>2. PacketWrite(outp \o <<p>>, told) /\ (wire' = wire \/ wire' # "up")
  BY DEF Reply, Send, SocketClose
<1> QED
  BY <1>1, <1>2, ConnSend

LEMMA ConnHandle ==
    ASSUME IInv, ConnInv, HandlePublish \/ HandlePubrel \/ HandlePubrec
    PROVE  ConnInv'
<1> DEFINE m == Head(b2c).msg
<1>1. bstate' = bstate
  BY DEF HandlePublish, HandlePubrel, HandlePubrec, broker
<1>2. Head(b2c) \in ToClient
  BY TailFacts DEF IInv, TypeOK, HandlePublish, HandlePubrel, HandlePubrec, Receive
<1>3. CASE HandlePublish /\ Reply(<<Packet("PUBACK", m)>>)
  <2>1. m \in InMsgs
    BY <1>2, <1>3, KindType DEF HandlePublish, Receive
  <2> DEFINE p == Packet("PUBACK", m)
  <2>2. p \in ToBroker /\ p.kind # "CONNECT" /\ Reply(<<p>>)
    BY <1>3, <2>1, PacketType DEF Packet
  <2> HIDE DEF p
  <2> QED
    BY <1>1, <2>2, ConnReply
<1>4. CASE HandlePublish /\ Reply(<<Packet("PUBREC", m)>>)
  <2>1. m \in InMsgs
    BY <1>2, <1>4, KindType DEF HandlePublish, Receive
  <2> DEFINE p == Packet("PUBREC", m)
  <2>2. p \in ToBroker /\ p.kind # "CONNECT" /\ Reply(<<p>>)
    BY <1>4, <2>1, PacketType DEF Packet
  <2> HIDE DEF p
  <2> QED
    BY <1>1, <2>2, ConnReply
<1>5. CASE HandlePublish /\ Received /\ UNCHANGED <<outp, c2b>>
  <2>1. NoConnect(outp') /\ UNCHANGED <<c2b, bstate>> /\ wire' = wire
    BY <1>1, <1>5 DEF ConnInv, Received
  <2> QED
    BY <2>1, ConnFrame
<1>6. CASE HandlePubrel
  <2>1. m \in InMsgs
    BY <1>2, <1>6, KindType DEF HandlePubrel, Receive
  <2> DEFINE p == Packet("PUBCOMP", m)
  <2>2. p \in ToBroker /\ p.kind # "CONNECT" /\ Reply(<<p>>)
    BY <1>6, <2>1, PacketType DEF HandlePubrel, Packet
  <2> HIDE DEF p
  <2> QED
    BY <1>1, <2>2, ConnReply
<1>7. CASE HandlePubrec
  <2>1. m \in OutMsgs
    BY <1>2, <1>7, KindType DEF HandlePubrec, Receive
  <2> DEFINE p == Packet("PUBREL", m)
  <2>2. p \in ToBroker /\ p.kind # "CONNECT" /\ Reply(<<p>>)
    BY <1>7, <2>1, PacketType DEF HandlePubrec, Packet
  <2> HIDE DEF p
  <2> QED
    BY <1>1, <2>2, ConnReply
<1> QED
  BY <1>3, <1>4, <1>5, <1>6, <1>7 DEF HandlePublish

LEMMA ConnOne ==
    ASSUME IInv, ConnInv, NEW m \in OutMsgs, NEW k \in {"PUBLISH", "PUBREL"}, NEW t,
           PacketWrite(outp \o <<Packet(k, m)>>, t), UNCHANGED <<bstate, wire>>
    PROVE  ConnInv'
<1> DEFINE p == Packet(k, m)
<1>1. p \in ToBroker /\ p.kind # "CONNECT"
  BY PacketType DEF Packet
<1>2. PacketWrite(outp \o <<p>>, t)
  OBVIOUS
<1> HIDE DEF p
<1>3. <<p>> \in Seq(ToBroker) /\ NoConnect(<<p>>)
  BY <1>1 DEF NoConnect
<1> QED
  BY <1>2, <1>3, ConnSend

LEMMA ConnPublish == ASSUME IInv, ConnInv, NEW m \in OutMsgs, Publish(m) PROVE ConnInv'
<1>1. UNCHANGED <<bstate, wire>>
  BY DEF Publish, broker
<1>2. CASE Send(<<Packet("PUBLISH", m)>>)
  BY <1>1, <1>2, ConnOne DEF Send
<1>3. CASE UNCHANGED <<outp, c2b>>
  <2>1. NoConnect(outp')
    BY <1>3 DEF ConnInv
  <2> QED
    BY <1>1, <1>3, <2>1, ConnFrame
<1> QED
  BY <1>2, <1>3 DEF Publish

LEMMA ConnAcked ==
    ASSUME IInv, ConnInv, NEW kind \in {"PUBACK", "PUBCOMP"}, HandlePubackcomp(kind)
    PROVE  ConnInv'
<1>1. UNCHANGED <<bstate, wire>>
  BY DEF HandlePubackcomp, Received, broker
<1>2. CASE UNCHANGED <<outp, c2b>>
  <2>1. NoConnect(outp')
    BY <1>2 DEF ConnInv
  <2> QED
    BY <1>1, <1>2, <2>1, ConnFrame
<1>3. CASE \E k \in DOMAIN out : MessageRemove(k) /\ ~UNCHANGED <<outp, c2b>>
  <2>1. PICK k \in DOMAIN out : MessageRemove(k) /\ ~UNCHANGED <<outp, c2b>>
    BY <1>3
  <2> DEFINE q == Without(out, k)
             tell == [told EXCEPT ![out[k].msg] = @ + 1]
  <2>2. PICK i \in DOMAIN q :
              PacketWrite(outp \o <<Packet("PUBLISH", q[i].msg)>>,
                          IF wire = "cut" THEN told ELSE tell)
    BY <2>1 DEF MessageRemove
  <2>3. out \in Seq(OutMsg)
    BY Groups DEF ListsType
  <2>4. q \in Seq(OutMsg)
    BY <2>3, WithoutFacts
  <2> HIDE DEF q, tell
  <2>5. q[i].msg \in OutMsgs
    <3>1. q[i] \in OutMsg
      BY <2>4
    <3> QED
      BY <3>1 DEF OutMsg
  <2> QED
    BY <1>1, <2>2, <2>5, ConnOne
<1> QED
  BY <1>2, <1>3 DEF HandlePubackcomp

LEMMA ConnMisc == ASSUME IInv, ConnInv, Misc PROVE ConnInv'
<1>1. bstate' = bstate
  BY DEF Misc, broker
<1>2. CASE SocketClose /\ UNCHANGED <<outp, c2b>>
  <2>1. NoConnect(outp') /\ wire' # "up"
    BY <1>2 DEF ConnInv, SocketClose
  <2> QED
    BY <1>1, <1>2, <2>1, ConnFrame
<1>3. CASE /\ \E a \in {<<>>, <<Packet("PINGREQ", NULL)>>} : SendRetries(a)
           /\ wire' = wire \/ wire' # "up"
  <2>0. PICK a \in {<<>>, <<Packet("PINGREQ", NULL)>>} : SendRetries(a)
    BY <1>3
  <2>1. PICK f \in Orders(DueOut), g \in Orders(DueIn) :
                Send(a \o [i \in DOMAIN f |-> RetryPacket(out[f[i]])]
                       \o [i \in DOMAIN g |-> Packet("PUBREC", in[g[i]].msg)])
    BY <2>0 DEF SendRetries
  <2> DEFINE b == [i \in DOMAIN f |-> RetryPacket(out[f[i]])]
             c == [i \in DOMAIN g |-> Packet("PUBREC", in[g[i]].msg)]
  <2>2. a \in Seq(ToBroker) /\ NoConnect(a)
    <3>1. Packet("PINGREQ", NULL) \in ToBroker
      BY PacketType
    <3>2. NoConnect(<<Packet("PINGREQ", NULL)>>) /\ NoConnect(<<>>)
      BY DEF NoConnect, Packet
    <3> QED
      BY <2>0, <3>1, <3>2, OnePacket, NoPackets
  <2>3. b \in Seq(ToBroker) /\ c \in Seq(ToBroker)
    BY RetriesSafe
  <2>4. NoConnect(b) /\ NoConnect(c)
    BY DEF NoConnect, RetryPacket, Packet
  <2>5. PacketWrite(outp \o ((a \o b) \o c), told)
    BY <2>1 DEF Send
  <2> HIDE DEF b, c
  <2>6. a \o b \in Seq(ToBroker) /\ NoConnect(a \o b)
    BY <2>2, <2>3, <2>4, ConcatFacts, NoConnectConcat
  <2>7. (a \o b) \o c \in Seq(ToBroker) /\ NoConnect((a \o b) \o c)
    BY <2>3, <2>4, <2>6, ConcatFacts, NoConnectConcat
  <2> QED
    BY <1>1, <1>3, <2>5, <2>7, ConnSend
<1> QED
  BY <1>2, <1>3 DEF Misc, SocketClose

LEMMA ConnRead ==
    ASSUME IInv, ConnInv,
           \/ HandleConnack \/ HandleRefused \/ HandlePingresp \/ HandleSuback \/ ReadEnd
           \/ RetryElapse \/ KeepaliveElapse \/ UNCHANGED vars
    PROVE  ConnInv'
<1>1. UNCHANGED <<c2b, bstate>> /\ (wire' = wire \/ wire' # "up")
  BY DEF HandleConnack, HandleRefused, HandlePingresp, HandleSuback, ReadEnd, RetryElapse,
         KeepaliveElapse, vars, SocketClose, Received, broker
<1>2. outp' = outp \/ outp' = Append(outp, Packet("SUBSCRIBE", NULL))
  BY DEF HandleConnack, HandleRefused, HandlePingresp, HandleSuback, ReadEnd, RetryElapse,
         KeepaliveElapse, vars, client
<1>3. NoConnect(outp')
  <2>1. NoConnect(outp) /\ outp \in Seq(ToBroker)
    BY DEF ConnInv, IInv, TypeOK
  <2> DEFINE p == Packet("SUBSCRIBE", NULL)
  <2>2. p \in ToBroker /\ p.kind # "CONNECT"
    BY PacketType DEF Packet
  <2>3. outp' = outp \/ outp' = Append(outp, p)
    BY <1>2
  <2> HIDE DEF p
  <2> QED
    BY <2>1, <2>2, <2>3, AppendFacts DEF NoConnect
<1> QED
  BY <1>1, <1>3, ConnFrame

\* The broker reads the packet at the head: with CONNECT the wait is over.
LEMMA ConnBroker ==
    ASSUME IInv, ConnInv, Broker \/ BrokerRefuse \/ BrokerPublish PROVE ConnInv'
<1>1. UNCHANGED <<outp, wire>>
  BY DEF Broker, BrokerRefuse, BrokerPublish, BrokerConnect, BrokerSubscribe, BrokerPingreq,
         BrokerReceive, BrokerPubrel, BrokerAcked, Answering, client
<1>2. CASE BrokerPublish
  BY <1>2, ConnFrame DEF BrokerPublish, client, ConnInv
<1>3. CASE Broker \/ BrokerRefuse
  <2>1. c2b # <<>> /\ c2b' = Tail(c2b)
    BY <1>3 DEF Broker, BrokerRefuse, BrokerConnect, BrokerSubscribe, BrokerPingreq,
       BrokerReceive, BrokerPubrel, BrokerAcked, Answering, Takes
  <2>2. \A i \in DOMAIN c2b' : i + 1 \in DOMAIN c2b /\ c2b'[i] = c2b[i + 1] /\ i + 1 # 1
    BY <2>1, TailFacts DEF IInv, TypeOK
  <2>3. \A i \in DOMAIN c2b' : c2b'[i].kind # "CONNECT"
    BY <2>2 DEF ConnInv
  <2>4. Head(c2b) = c2b[1] /\ 1 \in DOMAIN c2b
    BY <2>1, TailFacts DEF IInv, TypeOK
  <2>5. bstate' # "await"
    <3>1. CASE BrokerConnect \/ BrokerRefuse
      BY <3>1 DEF BrokerConnect, BrokerRefuse
    <3>2. CASE ~BrokerConnect /\ ~BrokerRefuse
      <4>1. bstate' = bstate
        BY <1>3, <3>2 DEF Broker, BrokerSubscribe, BrokerPingreq, BrokerReceive,
           BrokerPubrel, BrokerAcked, Answering
      <4>2. Head(c2b).kind # "CONNECT"
        BY <1>3, <3>2 DEF Broker, BrokerSubscribe, BrokerPingreq, BrokerReceive,
           BrokerPubrel, BrokerAcked, Answering, Takes
      <4> QED
        BY <2>4, <4>1, <4>2 DEF ConnInv
    <3> QED
      BY <3>1, <3>2
  <2> QED
    BY <1>1, <2>3, <2>5 DEF ConnInv
<1> QED
  BY <1>2, <1>3

LEMMA ConnLose == ASSUME IInv, ConnInv, Lose PROVE ConnInv'
<1>1. PICK n \in 0 .. Len(c2b) : c2b' = SubSeq(c2b, 1, n)
  BY DEF Lose, Prefix
<1>2. c2b \in Seq(ToBroker) /\ n \in Nat /\ n <= Len(c2b) /\ 1 \in Nat \ {0}
  BY <1>1 DEF IInv, TypeOK
<1>3. \A i \in DOMAIN c2b' : 1 + i - 1 \in DOMAIN c2b /\ c2b'[i] = c2b[1 + i - 1]
  BY <1>1, <1>2, SubSeqFacts
<1>4. \A i \in DOMAIN c2b' : i \in DOMAIN c2b /\ c2b'[i] = c2b[i]
  BY <1>3, <1>2, <1>1
<1>5. wire' # "up" /\ UNCHANGED <<outp, bstate>>
  BY DEF Lose, client, broker
<1> QED
  BY <1>4, <1>5 DEF ConnInv, NoConnect

LEMMA ConnNew == ASSUME Reconnected PROVE ConnInv'
<1>1. /\ outp' = <<>> /\ bstate' = "await"
      /\ c2b' = <<Packet("CONNECT", NULL)>>
  BY DEF Reconnected, Kept
<1>2. DOMAIN c2b' = {1} /\ c2b'[1].kind = "CONNECT" /\ c2b' # <<>> /\ DOMAIN outp' = {}
  BY <1>1 DEF Packet
<1> QED
  BY <1>1, <1>2 DEF ConnInv, NoConnect

LEMMA ConnStep == ASSUME IInv, ConnInv, [Next]_vars PROVE ConnInv'
<1>1. CASE Reconnected
  BY <1>1, ConnNew
<1>2. CASE ClientConnect /\ ~Reconnected
  <2>1. UNCHANGED <<outp, c2b, bstate, wire>>
    BY <1>2 DEF ClientConnect, broker
  <2>2. NoConnect(outp')
    BY <2>1 DEF ConnInv
  <2> QED
    BY <2>1, <2>2, ConnFrame
<1>3. CASE \E m \in OutMsgs : Publish(m)
  BY <1>3, ConnPublish
<1>4. CASE LoopRead
  BY <1>4, ConnHandle, ConnRead, ConnAcked DEF LoopRead
<1>5. CASE LoopWrite
  <2>1. PacketWrite(outp \o <<>>, told) /\ bstate' = bstate /\ (wire' = wire \/ wire' # "up")
    BY <1>5 DEF LoopWrite, Send, SocketClose, broker
  <2>2. <<>> \in Seq(ToBroker) /\ NoConnect(<<>>)
    BY DEF NoConnect
  <2> QED
    BY <2>1, <2>2, ConnSend
<1>6. CASE Misc
  BY <1>6, ConnMisc
<1>7. CASE Broker \/ BrokerRefuse \/ BrokerPublish
  BY <1>7, ConnBroker
<1>8. CASE Lose
  BY <1>8, ConnLose
<1>9. CASE RetryElapse \/ KeepaliveElapse \/ UNCHANGED vars
  BY <1>9, ConnRead
<1> QED
  BY <1>1, <1>2, <1>3, <1>4, <1>5, <1>6, <1>7, <1>8, <1>9 DEF Next, Application, Reconnect

\* For any number of losses: on every connection CONNECT is the first packet
\* the broker reads, whatever was left in the queue of the last one
\* (_mosquitto_reconnect).
THEOREM ConnectIsFirst == Spec => []ConnectFirst
<1>1. Init => ConnInv
  <2> SUFFICES ASSUME Init PROVE ConnInv
    OBVIOUS
  <2>1. c2b = <<>> /\ outp = <<>> /\ bstate = "none"
    BY DEF Init
  <2> QED
    BY <2>1 DEF ConnInv, NoConnect
<1>2. IInv /\ ConnInv /\ [Next]_vars => ConnInv'
  BY ConnStep
<1>3. IInv /\ ConnInv => ConnectFirst
  <2> SUFFICES ASSUME IInv, ConnInv, c2b # <<>>
               PROVE  bstate = "await" <=> Head(c2b).kind = "CONNECT"
    BY DEF ConnectFirst
  <2>1. Head(c2b) = c2b[1] /\ 1 \in DOMAIN c2b
    BY TailFacts DEF IInv, TypeOK
  <2> QED
    BY <2>1 DEF ConnInv
<1> QED
  BY Invariance, <1>1, <1>2, <1>3, PTL DEF Spec

-----------------------------------------------------------------------------
(* The refinement of MqttDelivery.  The stream is what the broker has not   *)
(* read and the library has not written: c2b \o outp.  Every step but a     *)
(* new connection leaves some packets of the stream out, keeps the others   *)
(* in order, and adds packets at the end.  The operators take the state as  *)
(* arguments: su is setup, arr is arrived, b is bin, o is out, t is told.   *)

\* A QoS 2 message of a session that is kept.
Lasts(su, m) == su.qos[m] = 2 /\ ~su.clean

\* The broker has the message, or had it.
Came(su, arr, b, m) == su.clean \/ m \in b \/ arr[m] > 0

\* What a packet about a message going out says of it is true.
Proper(su, arr, b, p) ==
    p.msg \in OutMsgs =>
        /\ p.kind \in {"PUBREL", "PUBREC"} => su.qos[p.msg] = 2 /\ Came(su, arr, b, p.msg)
        /\ p.kind = "PUBCOMP" => su.qos[p.msg] = 2 /\ (su.clean \/ arr[p.msg] > 0)
        /\ p.kind = "PUBACK" => su.qos[p.msg] = 1 /\ arr[p.msg] > 0

ProperAll(su, arr, b, s) == \A i \in DOMAIN s : Proper(su, arr, b, s[i])

Once(su, arr, m) == su.qos[m] = 0 \/ Lasts(su, m) => arr[m] = 0

\* The packet is not in the stream.
No(s, k, m) == \A i \in DOMAIN s : s[i] # Packet(k, m)

\* A message that must not arrive again is not sent again, ...
Fresh(su, arr, s) ==
    \A i \in DOMAIN s, m \in OutMsgs : s[i] = Packet("PUBLISH", m) => Once(su, arr, m)

\* ... nor twice, when it has QoS 0, ...
Single(su, s) ==
    \A i, j \in DOMAIN s, m \in OutMsgs :
       s[i] = Packet("PUBLISH", m) /\ s[j] = Packet("PUBLISH", m) /\ su.qos[m] = 0 => i = j

\* ... nor behind its release.
Released(s) ==
    \A i, j \in DOMAIN s, m \in OutMsgs :
       i < j => ~(s[i] = Packet("PUBREL", m) /\ s[j] = Packet("PUBLISH", m))

Sound(su, arr, b, s) ==
    ProperAll(su, arr, b, s) /\ Fresh(su, arr, s) /\ Single(su, s) /\ Released(s)

\* A message in the list has been received if it waits for PUBCOMP; if not,
\* it has not arrived, and its release is not under way.
Book(su, arr, b, e, s) ==
    /\ su.qos[e.msg] # 0
    /\ e.state = "wait_for_pubcomp" => su.qos[e.msg] = 2 /\ Came(su, arr, b, e.msg)
    /\ e.state # "wait_for_pubcomp" =>
          (Lasts(su, e.msg) => arr[e.msg] = 0) /\ No(s, "PUBREL", e.msg)

Books(su, arr, b, o, s) == \A k \in DOMAIN o : Book(su, arr, b, o[k], s)

\* What has not been told of yet.
Untold(su, t, o, pub, q) ==
    /\ \A k \in DOMAIN o : t[o[k].msg] = 0
    /\ \A m \in OutMsgs \ pub : t[m] = 0
    /\ \A i \in DOMAIN q, m \in OutMsgs :
          q[i] = Packet("PUBLISH", m) /\ su.qos[m] = 0 => t[m] = 0

\* What has not arrived yet.
Unpassed(su, arr, b, pub) ==
    /\ \A m \in OutMsgs \ pub : arr[m] = 0
    /\ \A m \in b : su.qos[m] = 2 /\ (~su.clean => arr[m] = 0)

Stream == c2b \o outp

DInv ==
    /\ Sound(setup, arrived, bin, Stream)
    /\ ProperAll(setup, arrived, bin, b2c)
    /\ Books(setup, arrived, bin, out, Stream)
    /\ Untold(setup, told, out, published, outp)
    /\ Unpassed(setup, arrived, bin, published)

-----------------------------------------------------------------------------
(* Streams.                                                                 *)

\* t is s with some packets left out.
Thin(t, s) ==
    \E f \in [DOMAIN t -> DOMAIN s] :
       /\ \A i \in DOMAIN t : t[i] = s[f[i]]
       /\ \A i, j \in DOMAIN t : i < j => f[i] < f[j]
       /\ \A i, j \in DOMAIN t : f[i] = f[j] => i = j

LEMMA SoundThin ==
    ASSUME NEW su, NEW arr, NEW b, NEW s, NEW t, Sound(su, arr, b, s), Thin(t, s)
    PROVE  Sound(su, arr, b, t)
<1>1. PICK f \in [DOMAIN t -> DOMAIN s] :
         /\ \A i \in DOMAIN t : t[i] = s[f[i]]
         /\ \A i, j \in DOMAIN t : i < j => f[i] < f[j]
         /\ \A i, j \in DOMAIN t : f[i] = f[j] => i = j
  BY DEF Thin
<1>2. \A i \in DOMAIN t : f[i] \in DOMAIN s
  OBVIOUS
<1>3. ProperAll(su, arr, b, t)
  BY <1>1, <1>2 DEF Sound, ProperAll
<1>4. Fresh(su, arr, t)
  BY <1>1, <1>2 DEF Sound, Fresh
<1>5. Single(su, t)
  BY <1>1, <1>2 DEF Sound, Single
<1>6. Released(t)
  BY <1>1, <1>2 DEF Sound, Released
<1> QED
  BY <1>3, <1>4, <1>5, <1>6 DEF Sound

LEMMA NoThin ==
    ASSUME NEW s, NEW t, NEW k, NEW m, No(s, k, m), Thin(t, s)
    PROVE  No(t, k, m)
<1>1. PICK f \in [DOMAIN t -> DOMAIN s] : \A i \in DOMAIN t : t[i] = s[f[i]]
  BY DEF Thin
<1> QED
  BY <1>1 DEF No

LEMMA BooksThin ==
    ASSUME NEW su, NEW arr, NEW b, NEW o, NEW s, NEW t, Books(su, arr, b, o, s), Thin(t, s)
    PROVE  Books(su, arr, b, o, t)
  BY NoThin DEF Books, Book

\* What may be added behind the packets of s.
Addable(su, arr, b, s, ps) ==
    /\ ProperAll(su, arr, b, ps) /\ Fresh(su, arr, ps) /\ Single(su, ps)
    /\ \A i \in DOMAIN ps, m \in OutMsgs :
          ps[i] = Packet("PUBLISH", m) =>
             /\ No(s, "PUBREL", m) /\ No(ps, "PUBREL", m)
             /\ su.qos[m] = 0 => No(s, "PUBLISH", m)

LEMMA SoundAppend ==
    ASSUME NEW su, NEW arr, NEW b, NEW s \in Seq(ToBroker), NEW ps \in Seq(ToBroker),
           Sound(su, arr, b, s), Addable(su, arr, b, s, ps)
    PROVE  Sound(su, arr, b, s \o ps)
<1> DEFINE u == s \o ps
<1>1. /\ Len(s) \in Nat /\ DOMAIN s = 1 .. Len(s) /\ DOMAIN ps = 1 .. Len(ps)
      /\ \A i \in DOMAIN u : i \in Int
  BY ConcatFacts
<1>2. \A i \in DOMAIN u :
         \/ i \in DOMAIN s /\ u[i] = s[i]
         \/ i - Len(s) \in DOMAIN ps /\ u[i] = ps[i - Len(s)]
  BY ConcatFacts
<1> HIDE DEF u
<1>3. ProperAll(su, arr, b, u)
  BY <1>2 DEF Sound, Addable, ProperAll
<1>4. Fresh(su, arr, u)
  BY <1>2 DEF Sound, Addable, Fresh
<1>5. Single(su, u)
  <2> SUFFICES ASSUME NEW i \in DOMAIN u, NEW j \in DOMAIN u, NEW m \in OutMsgs,
                      u[i] = Packet("PUBLISH", m), u[j] = Packet("PUBLISH", m),
                      su.qos[m] = 0
               PROVE  i = j
    BY DEF Single
  <2>1. CASE i \in DOMAIN s /\ u[i] = s[i] /\ j \in DOMAIN s /\ u[j] = s[j]
    BY <2>1 DEF Sound, Single
  <2>2. CASE /\ i - Len(s) \in DOMAIN ps /\ u[i] = ps[i - Len(s)]
             /\ j - Len(s) \in DOMAIN ps /\ u[j] = ps[j - Len(s)]
    <3>1. i - Len(s) = j - Len(s)
      BY <2>2 DEF Addable, Single
    <3> QED
      BY <1>1, <3>1
  <2>3. CASE i \in DOMAIN s /\ u[i] = s[i] /\ j - Len(s) \in DOMAIN ps /\ u[j] = ps[j - Len(s)]
    BY <2>3 DEF Addable, No
  <2>4. CASE j \in DOMAIN s /\ u[j] = s[j] /\ i - Len(s) \in DOMAIN ps /\ u[i] = ps[i - Len(s)]
    BY <2>4 DEF Addable, No
  <2> QED
    BY <1>2, <2>1, <2>2, <2>3, <2>4
<1>6. Released(u)
  <2> SUFFICES ASSUME NEW i \in DOMAIN u, NEW j \in DOMAIN u, NEW m \in OutMsgs,
                      i < j, u[i] = Packet("PUBREL", m), u[j] = Packet("PUBLISH", m)
               PROVE  FALSE
    BY DEF Released
  <2>1. CASE j \in DOMAIN s /\ u[j] = s[j]
    <3>1. i \in DOMAIN s /\ ~(i - Len(s) \in DOMAIN ps)
      BY <1>1, <1>2, <2>1
    <3> QED
      BY <1>2, <2>1, <3>1 DEF Sound, Released
  <2>2. CASE j - Len(s) \in DOMAIN ps /\ u[j] = ps[j - Len(s)]
    BY <1>2, <2>2 DEF Addable, No
  <2> QED
    BY <1>2, <2>1, <2>2
<1> QED
  BY <1>3, <1>4, <1>5, <1>6 DEF Sound, u

LEMMA NoConcat ==
    ASSUME NEW s \in Seq(ToBroker), NEW ps \in Seq(ToBroker), NEW k, NEW m,
           No(s, k, m), No(ps, k, m)
    PROVE  No(s \o ps, k, m)
  BY ConcatFacts DEF No

\* Streams that leave nothing out, the head, or the end.
LEMMA ThinSame == ASSUME NEW s \in Seq(ToBroker) PROVE Thin(s, s)
<1> DEFINE f == [i \in DOMAIN s |-> i]
<1>1. /\ f \in [DOMAIN s -> DOMAIN s] /\ \A i \in DOMAIN s : f[i] = i
  OBVIOUS
<1> HIDE DEF f
<1> QED
  BY <1>1 DEF Thin

LEMMA ThinTail ==
    ASSUME NEW c \in Seq(ToBroker), NEW q \in Seq(ToBroker), c # <<>>
    PROVE  Thin(Tail(c) \o q, c \o q)
<1> DEFINE u == c \o q
           v == Tail(c) \o q
<1>1. /\ Tail(c) \in Seq(ToBroker) /\ Len(Tail(c)) = Len(c) - 1
      /\ \A i \in 1 .. Len(Tail(c)) : Tail(c)[i] = c[i + 1]
      /\ Len(c) \in Nat /\ Len(c) >= 1 /\ Len(q) \in Nat
  OBVIOUS
<1>2. /\ u \in Seq(ToBroker) /\ Len(u) = Len(c) + Len(q)
      /\ \A i \in 1 .. Len(c) + Len(q) : u[i] = IF i <= Len(c) THEN c[i] ELSE q[i - Len(c)]
  BY ConcatProperties
<1>3. /\ v \in Seq(ToBroker) /\ Len(v) = Len(Tail(c)) + Len(q)
      /\ \A i \in 1 .. Len(Tail(c)) + Len(q) :
            v[i] = IF i <= Len(Tail(c)) THEN Tail(c)[i] ELSE q[i - Len(Tail(c))]
  BY <1>1, ConcatProperties
<1> HIDE DEF u, v
<1>4. DOMAIN v = 1 .. Len(c) - 1 + Len(q) /\ DOMAIN u = 1 .. Len(c) + Len(q)
  BY <1>1, <1>2, <1>3
<1>5. ASSUME NEW i \in DOMAIN v PROVE i + 1 \in DOMAIN u /\ v[i] = u[i + 1]
  <2>1. CASE i <= Len(c) - 1
    <3>1. /\ i \in 1 .. Len(Tail(c)) /\ i <= Len(Tail(c)) /\ i + 1 <= Len(c)
          /\ i + 1 \in 1 .. Len(c) + Len(q) /\ i \in 1 .. Len(Tail(c)) + Len(q)
      BY <1>1, <1>4, <2>1
    <3> QED
      BY <1>1, <1>2, <1>3, <1>4, <3>1
  <2>2. CASE i > Len(c) - 1
    <3>1. /\ ~(i <= Len(Tail(c))) /\ ~(i + 1 <= Len(c)) /\ i - Len(Tail(c)) = i + 1 - Len(c)
          /\ i + 1 \in 1 .. Len(c) + Len(q) /\ i \in 1 .. Len(Tail(c)) + Len(q)
      BY <1>1, <1>4, <2>2
    <3>2. v[i] = q[i - Len(Tail(c))]
      BY <1>3, <3>1
    <3>3. u[i + 1] = q[i + 1 - Len(c)]
      BY <1>2, <3>1
    <3> QED
      BY <1>4, <3>1, <3>2, <3>3
  <2> QED
    BY <1>1, <1>4, <2>1, <2>2
<1> DEFINE f == [i \in DOMAIN v |-> i + 1]
<1>6. f \in [DOMAIN v -> DOMAIN u] /\ \A i \in DOMAIN v : f[i] = i + 1 /\ v[i] = u[f[i]]
  BY <1>5
<1>7. \A i, j \in DOMAIN v : (i < j => i + 1 < j + 1) /\ (i + 1 = j + 1 => i = j)
  BY <1>1, <1>4
<1> HIDE DEF f
<1>8. Thin(v, u)
  BY <1>6, <1>7 DEF Thin
<1> QED
  BY <1>8 DEF u, v

LEMMA ThinPrefix ==
    ASSUME NEW c \in Seq(ToBroker), NEW q \in Seq(ToBroker), NEW n \in 0 .. Len(c)
    PROVE  SubSeq(c, 1, n) \in Seq(ToBroker) /\ Thin(SubSeq(c, 1, n) \o q, c \o q)
<1> DEFINE d == SubSeq(c, 1, n)
           u == c \o q
           v == d \o q
<1>1. /\ d \in Seq(ToBroker) /\ Len(d) = n /\ \A i \in 1 .. n : d[i] = c[i]
      /\ Len(c) \in Nat /\ Len(q) \in Nat /\ n \in Nat /\ n <= Len(c)
  OBVIOUS
<1> HIDE DEF d
<1>2. /\ u \in Seq(ToBroker) /\ Len(u) = Len(c) + Len(q)
      /\ \A i \in 1 .. Len(c) + Len(q) : u[i] = IF i <= Len(c) THEN c[i] ELSE q[i - Len(c)]
  BY ConcatProperties
<1>3. /\ v \in Seq(ToBroker) /\ Len(v) = n + Len(q)
      /\ \A i \in 1 .. n + Len(q) : v[i] = IF i <= n THEN d[i] ELSE q[i - n]
  BY <1>1, ConcatProperties
<1> HIDE DEF u, v
<1>4. DOMAIN v = 1 .. n + Len(q) /\ DOMAIN u = 1 .. Len(c) + Len(q)
  BY <1>1, <1>2, <1>3
<1> DEFINE f == [i \in DOMAIN v |-> IF i <= n THEN i ELSE i + (Len(c) - n)]
<1>5. ASSUME NEW i \in DOMAIN v PROVE f[i] \in DOMAIN u /\ v[i] = u[f[i]]
  <2>1. CASE i <= n
    <3>1. i \in 1 .. n /\ i \in 1 .. n + Len(q) /\ i \in 1 .. Len(c) + Len(q) /\ i <= Len(c)
          /\ f[i] = i
      BY <1>1, <1>4, <2>1
    <3> HIDE DEF f
    <3> QED
      BY <1>1, <1>2, <1>3, <1>4, <2>1, <3>1
  <2>2. CASE ~(i <= n)
    <3>1. /\ f[i] = i + (Len(c) - n) /\ ~(f[i] <= Len(c)) /\ f[i] - Len(c) = i - n
          /\ f[i] \in 1 .. Len(c) + Len(q) /\ i \in 1 .. n + Len(q)
      BY <1>1, <1>4, <2>2
    <3> HIDE DEF f
    <3> QED
      BY <1>2, <1>3, <1>4, <2>2, <3>1
  <2> QED
    BY <2>1, <2>2
<1>6. f \in [DOMAIN v -> DOMAIN u]
  BY <1>5
<1>7. \A i, j \in DOMAIN v : (i < j => f[i] < f[j]) /\ (f[i] = f[j] => i = j)
  BY <1>1, <1>4
<1> HIDE DEF f
<1>8. Thin(v, u)
  BY <1>5, <1>6, <1>7 DEF Thin
<1> QED
  BY <1>1, <1>8 DEF d, u, v

LEMMA ThinFront ==
    ASSUME NEW c \in Seq(ToBroker), NEW q \in Seq(ToBroker)
    PROVE  Thin(c, c \o q)
<1> DEFINE u == c \o q
<1>1. /\ u \in Seq(ToBroker) /\ Len(u) = Len(c) + Len(q)
      /\ \A i \in 1 .. Len(c) + Len(q) : u[i] = IF i <= Len(c) THEN c[i] ELSE q[i - Len(c)]
  BY ConcatProperties
<1>2. DOMAIN c = 1 .. Len(c) /\ Len(c) \in Nat /\ Len(q) \in Nat
  OBVIOUS
<1> HIDE DEF u
<1>3. DOMAIN u = 1 .. Len(c) + Len(q)
  BY <1>1
<1>4. ASSUME NEW i \in DOMAIN c PROVE i \in DOMAIN u /\ c[i] = u[i]
  <2>1. i \in 1 .. Len(c) + Len(q) /\ i <= Len(c)
    BY <1>2
  <2> QED
    BY <1>1, <1>3, <2>1
<1> DEFINE f == [i \in DOMAIN c |-> i]
<1>5. f \in [DOMAIN c -> DOMAIN u] /\ \A i \in DOMAIN c : f[i] = i
  BY <1>4
<1> HIDE DEF f
<1>6. Thin(c, u)
  BY <1>4, <1>5 DEF Thin
<1> QED
  BY <1>6 DEF u

\* A write takes packets from the queue to the connection, or loses some.
LEMMA WriteThin ==
    ASSUME NEW q \in Seq(ToBroker), NEW t, c2b \in Seq(ToBroker), Fits, PacketWrite(q, t)
    PROVE  Thin(Stream', c2b \o q)
<1> DEFINE room == MaxWire - Len(c2b)
           n == IF Len(q) < room THEN Len(q) ELSE room
<1>1. n \in 0 .. Len(q) /\ Len(q) \in Nat
  BY BoundAssumption DEF Fits
<1>2. CASE c2b' = c2b \o SubSeq(q, 1, n) /\ outp' = SubSeq(q, n + 1, Len(q))
  <2> DEFINE a == SubSeq(q, 1, n)
             d == SubSeq(q, n + 1, Len(q))
  <2>1. c2b' = c2b \o a /\ outp' = d
    BY <1>2
  <2> HIDE DEF n
  <2>2. /\ a \in Seq(ToBroker) /\ Len(a) = n /\ \A i \in 1 .. n : a[i] = q[i]
        /\ d \in Seq(ToBroker) /\ Len(d) = Len(q) - n
        /\ \A i \in 1 .. Len(q) - n : d[i] = q[n + i]
    BY <1>1
  <2> HIDE DEF a, d
  <2>3. /\ a \o d \in Seq(ToBroker) /\ Len(a \o d) = Len(q)
        /\ \A i \in 1 .. Len(q) : (a \o d)[i] = IF i <= n THEN a[i] ELSE d[i - n]
    BY <1>1, <2>2, ConcatProperties
  <2>4. ASSUME NEW i \in 1 .. Len(q) PROVE (a \o d)[i] = q[i]
    <3>1. CASE i <= n
      BY <1>1, <2>2, <2>3, <3>1
    <3>2. CASE ~(i <= n)
      <4>1. i - n \in 1 .. Len(q) - n /\ n + (i - n) = i
        BY <1>1, <3>2
      <4> QED
        BY <2>2, <2>3, <3>2, <4>1
    <3> QED
      BY <3>1, <3>2
  <2>5. a \o d = q
    BY <2>3, <2>4, SeqEqual
  <2>6. (c2b \o a) \o d = c2b \o q
    <3>1. c2b \in Seq(ToBroker) /\ a \in Seq(ToBroker) /\ d \in Seq(ToBroker)
      BY <2>2
    <3>2. (c2b \o a) \o d = c2b \o (a \o d)
      BY <3>1
    <3> QED
      BY <2>5, <3>2
  <2>7. Stream' = c2b \o q
    BY <2>1, <2>6 DEF Stream
  <2>8. c2b \o q \in Seq(ToBroker)
    BY ConcatFacts
  <2> QED
    BY <2>7, <2>8, ThinSame
<1>3. CASE outp' = <<>> /\ c2b' = c2b
  <2>1. Stream' = c2b
    BY <1>3, ConcatEmptySeq DEF Stream
  <2> QED
    BY <2>1, ThinFront
<1>4. CASE outp' = q /\ c2b' = c2b
  <2>1. Stream' = c2b \o q /\ c2b \o q \in Seq(ToBroker)
    BY <1>4, ConcatFacts DEF Stream
  <2> QED
    BY <2>1, ThinSame
<1> QED
  BY <1>2, <1>3, <1>4 DEF PacketWrite

\* on_publish is called once for each QoS 0 message written, which is then
\* queued no longer.
LEMMA WrittenOnce ==
    ASSUME NEW q \in Seq(ToBroker), NEW t \in [OutMsgs -> Nat], Single(setup, q),
           NEW m \in OutMsgs
    PROVE  \/ Written(t, q)[m] = t[m]
           \/ /\ Qos(m) = 0 /\ Written(t, q)[m] = t[m] + 1
              /\ \E i \in DOMAIN q : q[i] = Packet("PUBLISH", m)
<1> DEFINE W == {i \in DOMAIN q : Qos(m) = 0 /\ q[i] = Packet("PUBLISH", m)}
<1>1. Written(t, q)[m] = t[m] + Cardinality(W) /\ t[m] \in Nat
  BY DEF Written
<1>2. CASE W = {}
  <2>1. Cardinality(W) = 0
    BY <1>2, FS_EmptySet
  <2> QED
    BY <1>1, <2>1
<1>3. CASE W # {}
  <2>1. PICK i \in DOMAIN q : Qos(m) = 0 /\ q[i] = Packet("PUBLISH", m)
    BY <1>3
  <2>2. W = {i}
    BY <2>1 DEF Single, Qos
  <2>3. Cardinality(W) = 1
    BY <2>2, FS_Singleton
  <2> QED
    BY <1>1, <2>1, <2>3
<1> QED
  BY <1>2, <1>3

LEMMA WriteTells ==
    ASSUME NEW q \in Seq(ToBroker), NEW t \in [OutMsgs -> Nat], c2b \in Seq(ToBroker), Fits,
           Single(setup, q), PacketWrite(q, t), NEW m \in OutMsgs
    PROVE  \/ told'[m] = t[m]
           \/ /\ Qos(m) = 0 /\ told'[m] = t[m] + 1 /\ No(outp', "PUBLISH", m)
              /\ \E i \in DOMAIN q : q[i] = Packet("PUBLISH", m)
<1> DEFINE room == MaxWire - Len(c2b)
           n == IF Len(q) < room THEN Len(q) ELSE room
<1>1. n \in 0 .. Len(q) /\ Len(q) \in Nat
  BY BoundAssumption DEF Fits
<1>2. CASE outp' = SubSeq(q, n + 1, Len(q)) /\ told' = Written(t, SubSeq(q, 1, n))
  <2> DEFINE a == SubSeq(q, 1, n)
             d == SubSeq(q, n + 1, Len(q))
  <2>1. outp' = d /\ told' = Written(t, a)
    BY <1>2
  <2> HIDE DEF n
  <2>2. /\ a \in Seq(ToBroker) /\ \A i \in DOMAIN a : i \in DOMAIN q /\ i <= n /\ a[i] = q[i]
        /\ d \in Seq(ToBroker)
        /\ \A i \in DOMAIN d : n + i \in DOMAIN q /\ n + i > n /\ d[i] = q[n + i]
    BY <1>1
  <2> HIDE DEF a, d
  <2>3. Single(setup, a)
    BY <2>2 DEF Single
  <2>4. CASE Written(t, a)[m] = t[m]
    BY <2>1, <2>4
  <2>5. CASE /\ Qos(m) = 0 /\ Written(t, a)[m] = t[m] + 1
             /\ \E i \in DOMAIN a : a[i] = Packet("PUBLISH", m)
    <3>1. PICK i \in DOMAIN a : a[i] = Packet("PUBLISH", m)
      BY <2>5
    <3>2. i \in DOMAIN q /\ i <= n /\ q[i] = Packet("PUBLISH", m)
      BY <2>2, <3>1
    <3>3. ASSUME NEW j \in DOMAIN d, d[j] = Packet("PUBLISH", m) PROVE FALSE
      <4>1. n + j \in DOMAIN q /\ q[n + j] = Packet("PUBLISH", m) /\ n + j > n
        BY <2>2, <3>3
      <4>2. i = n + j
        BY <2>5, <3>2, <4>1 DEF Single, Qos
      <4>3. i \in Int /\ n \in Int
        BY <1>1, <3>2
      <4> QED
        BY <3>2, <4>1, <4>2, <4>3
    <3>4. No(outp', "PUBLISH", m)
      BY <2>1, <3>3 DEF No
    <3> QED
      BY <2>1, <2>5, <3>2, <3>4
  <2> QED
    BY <2>2, <2>3, <2>4, <2>5, WrittenOnce
<1>3. CASE outp' = <<>> /\ told' = Written(t, q)
  <2>1. No(outp', "PUBLISH", m)
    BY <1>3 DEF No
  <2> QED
    BY <1>3, <2>1, WrittenOnce
<1>4. CASE told' = t
  BY <1>4
<1> QED
  BY <1>2, <1>3, <1>4 DEF PacketWrite

LEMMA ThinBack ==
    ASSUME NEW c \in Seq(ToBroker), NEW q \in Seq(ToBroker)
    PROVE  Thin(q, c \o q)
<1> DEFINE u == c \o q
           l == Len(c)
<1>1. /\ u \in Seq(ToBroker) /\ Len(u) = l + Len(q)
      /\ \A i \in 1 .. l + Len(q) : u[i] = IF i <= l THEN c[i] ELSE q[i - l]
  BY ConcatProperties
<1>2. DOMAIN q = 1 .. Len(q) /\ l \in Nat /\ Len(q) \in Nat
  OBVIOUS
<1> HIDE DEF u, l
<1>3. DOMAIN u = 1 .. l + Len(q)
  BY <1>1
<1>4. ASSUME NEW i \in DOMAIN q PROVE i + l \in DOMAIN u /\ q[i] = u[i + l]
  <2>0. PICK j : j = i + l
    OBVIOUS
  <2>1. j \in 1 .. l + Len(q) /\ ~(j <= l) /\ j - l = i
    BY <1>2, <2>0
  <2>2. u[j] = q[j - l]
    BY <1>1, <2>1
  <2>3. j \in DOMAIN u /\ q[i] = u[j]
    BY <1>3, <2>1, <2>2
  <2> QED
    BY <2>0, <2>3
<1> DEFINE f == [i \in DOMAIN q |-> i + l]
<1>5. f \in [DOMAIN q -> DOMAIN u] /\ \A i \in DOMAIN q : f[i] = i + l
  BY <1>4
<1>6. \A i, j \in DOMAIN q : (i < j => i + l < j + l) /\ (i + l = j + l => i = j)
  BY <1>2
<1> HIDE DEF f
<1>7. Thin(q, u)
  BY <1>4, <1>5, <1>6 DEF Thin
<1> QED
  BY <1>7 DEF u

LEMMA DeliveryTypes ==
    ASSUME IInv
    PROVE  /\ outp \in Seq(ToBroker) /\ c2b \in Seq(ToBroker) /\ b2c \in Seq(ToClient)
           /\ Stream \in Seq(ToBroker) /\ out \in Seq(OutMsg) /\ in \in Seq(InMsg)
           /\ told \in [OutMsgs -> Nat] /\ arrived \in [OutMsgs -> Nat]
           /\ published \subseteq OutMsgs /\ bin \subseteq OutMsgs /\ Fits
           /\ SafeQueue(outp) /\ SafeQueue(c2b) /\ SafeQueue(b2c) /\ ListInv
           /\ setup.clean \in BOOLEAN
           /\ \A m \in OutMsgs : Qos(m) \in {0, 1, 2} /\ Qos(m) = setup.qos[m]
<1>1. /\ outp \in Seq(ToBroker) /\ c2b \in Seq(ToBroker) /\ b2c \in Seq(ToClient)
      /\ out \in Seq(OutMsg) /\ in \in Seq(InMsg)
      /\ told \in [OutMsgs -> Nat] /\ arrived \in [OutMsgs -> Nat]
      /\ published \subseteq OutMsgs /\ bin \subseteq OutMsgs /\ Fits
      /\ SafeQueue(outp) /\ SafeQueue(c2b) /\ SafeQueue(b2c) /\ ListInv
  BY DEF IInv, TypeOK, OutMsg, InMsg
<1>2. Stream \in Seq(ToBroker)
  BY <1>1, ConcatFacts DEF Stream
<1>3. setup \in [clean : BOOLEAN, qos : [OutMsgs \cup InMsgs -> 0 .. 2]]
  BY MessageAssumption DEF IInv, TypeOK
<1>4. \A m \in OutMsgs : Qos(m) \in {0, 1, 2} /\ Qos(m) = setup.qos[m]
  BY <1>3 DEF Qos
<1> QED
  BY <1>1, <1>2, <1>3, <1>4

\* A step that neither receives nor releases messages at the broker.
LEMMA KeepDInv ==
    ASSUME IInv, DInv, NEW ps \in Seq(ToBroker),
           Addable(setup, arrived, bin, Stream, ps), Thin(Stream', Stream \o ps),
           UNCHANGED <<setup, arrived, bin>>, published \subseteq published',
           Books(setup, arrived, bin, out', Stream \o ps),
           ProperAll(setup, arrived, bin, b2c'),
           Untold(setup, told', out', published', outp')
    PROVE  DInv'
<1>1. Stream \in Seq(ToBroker)
  BY DeliveryTypes
<1>2. Sound(setup, arrived, bin, Stream \o ps)
  BY <1>1, SoundAppend DEF DInv
<1>3. Sound(setup, arrived, bin, Stream')
  BY <1>2, SoundThin
<1>4. Books(setup, arrived, bin, out', Stream')
  BY BooksThin
<1>5. Unpassed(setup, arrived, bin, published')
  BY DEF DInv, Unpassed
<1> QED
  BY <1>3, <1>4, <1>5 DEF DInv

\* What the application may be told of now.
Due(m) == told[m] = 0 /\ (Qos(m) = 1 \/ Lasts(setup, m) => arrived[m] > 0)

\* A QoS 0 message may be added only when it is published.
NewZero(ps) ==
    \A i \in DOMAIN ps, m \in OutMsgs :
       ps[i] = Packet("PUBLISH", m) /\ Qos(m) = 0 => told[m] = 0 /\ m \in published'

\* A step that sends, and acknowledges what t says.
LEMMA SendDelivers ==
    ASSUME IInv, DInv, NEW ps \in Seq(ToBroker),
           Addable(setup, arrived, bin, Stream, ps), NewZero(ps),
           NEW t \in [OutMsgs -> Nat], PacketWrite(outp \o ps, t),
           \A m \in OutMsgs : \/ t[m] = told[m]
                              \/ t[m] = 1 /\ Qos(m) # 0 /\ m \in published /\ Due(m),
           UNCHANGED <<setup, arrived, bin>>, published \subseteq published',
           Books(setup, arrived, bin, out', Stream \o ps),
           \A k \in DOMAIN out' : out'[k].msg \in OutMsgs /\ t[out'[k].msg] = 0,
           ProperAll(setup, arrived, bin, b2c')
    PROVE  /\ DInv'
           /\ told' \in [OutMsgs -> Nat]
           /\ \A m \in OutMsgs :
                 \/ told'[m] = told[m]
                 \/ /\ told'[m] = 1 /\ m \in published' /\ Due(m)
                    /\ Qos(m) = 0 \/ t[m] # told[m]
<1> DEFINE q == outp \o ps
<1>1. /\ outp \in Seq(ToBroker) /\ c2b \in Seq(ToBroker) /\ Stream \in Seq(ToBroker)
      /\ Fits /\ SafeQueue(outp) /\ told \in [OutMsgs -> Nat]
      /\ \A m \in OutMsgs : Qos(m) \in {0, 1, 2} /\ Qos(m) = setup.qos[m]
  BY DeliveryTypes
<1>2. /\ q \in Seq(ToBroker)
      /\ \A i \in DOMAIN q : (\E j \in DOMAIN outp : q[i] = outp[j])
                             \/ (\E j \in DOMAIN ps : q[i] = ps[j])
  <2>1. /\ outp \o ps \in Seq(ToBroker)
        /\ \A i \in DOMAIN (outp \o ps) :
              \/ i \in DOMAIN outp /\ (outp \o ps)[i] = outp[i]
              \/ i - Len(outp) \in DOMAIN ps /\ (outp \o ps)[i] = ps[i - Len(outp)]
    BY <1>1, ConcatFacts
  <2>2. /\ q \in Seq(ToBroker)
        /\ \A i \in DOMAIN q : \/ i \in DOMAIN outp /\ q[i] = outp[i]
                               \/ i - Len(outp) \in DOMAIN ps /\ q[i] = ps[i - Len(outp)]
    BY <2>1
  <2> HIDE DEF q
  <2> QED
    BY <2>2
<1>3. Stream \o ps = c2b \o q
  BY <1>1 DEF Stream
<1>4. PacketWrite(q, t)
  OBVIOUS
<1> HIDE DEF q
<1>5. Thin(Stream', c2b \o q)
  BY <1>1, <1>2, <1>4, WriteThin
<1>6. Sound(setup, arrived, bin, c2b \o q)
  BY <1>1, <1>3, SoundAppend DEF DInv
<1>7. Single(setup, q)
  <2>1. Sound(setup, arrived, bin, q)
    BY <1>1, <1>2, <1>6, ThinBack, SoundThin
  <2> QED
    BY <2>1 DEF Sound
<1>8. /\ told' \in [OutMsgs -> Nat]
      /\ \A i \in DOMAIN outp' : \E j \in DOMAIN q : outp'[i] = q[j]
  BY <1>1, <1>2, <1>4, PacketWriteFacts
<1>9. ASSUME NEW i \in DOMAIN q, NEW m \in OutMsgs, q[i] = Packet("PUBLISH", m), Qos(m) = 0
      PROVE  told[m] = 0 /\ m \in published'
  <2>1. CASE \E j \in DOMAIN outp : q[i] = outp[j]
    <3>1. PICK j \in DOMAIN outp : outp[j] = Packet("PUBLISH", m)
      BY <1>9, <2>1
    <3>2. told[m] = 0
      BY <1>1, <1>9, <3>1 DEF DInv, Untold
    <3>3. Safe(Packet("PUBLISH", m))
      BY <1>1, <3>1 DEF SafeQueue
    <3>4. m \in published
      BY <3>3 DEF Safe, Packet
    <3> QED
      BY <3>2, <3>4
  <2>2. CASE \E j \in DOMAIN ps : q[i] = ps[j]
    BY <1>9, <2>2 DEF NewZero
  <2> QED
    BY <1>2, <2>1, <2>2
<1>10. ASSUME NEW m \in OutMsgs
       PROVE  \/ told'[m] = t[m]
              \/ /\ Qos(m) = 0 /\ told'[m] = 1 /\ No(outp', "PUBLISH", m)
                 /\ told[m] = 0 /\ m \in published'
  <2>1. CASE told'[m] = t[m]
    BY <2>1
  <2>2. CASE /\ Qos(m) = 0 /\ told'[m] = t[m] + 1 /\ No(outp', "PUBLISH", m)
             /\ \E i \in DOMAIN q : q[i] = Packet("PUBLISH", m)
    <3>1. told[m] = 0 /\ m \in published'
      BY <1>9, <2>2
    <3>2. t[m] = 0
      BY <2>2, <3>1
    <3> QED
      BY <2>2, <3>1, <3>2
  <2>3. /\ q \in Seq(ToBroker) /\ c2b \in Seq(ToBroker) /\ Fits /\ Single(setup, q)
        /\ PacketWrite(q, t)
    BY <1>1, <1>2, <1>4, <1>7
  <2>4. \/ told'[m] = t[m]
        \/ /\ Qos(m) = 0 /\ told'[m] = t[m] + 1 /\ No(outp', "PUBLISH", m)
           /\ \E i \in DOMAIN q : q[i] = Packet("PUBLISH", m)
    BY <2>3, WriteTells
  <2> QED
    BY <2>1, <2>2, <2>4
<1>11. Untold(setup, told', out', published', outp')
  <2>1. ASSUME NEW k \in DOMAIN out' PROVE told'[out'[k].msg] = 0
    <3>1. Qos(out'[k].msg) # 0 /\ t[out'[k].msg] = 0 /\ out'[k].msg \in OutMsgs
      BY <1>1 DEF Books, Book
    <3> QED
      BY <1>10, <3>1
  <2>2. ASSUME NEW m \in OutMsgs \ published' PROVE told'[m] = 0
    <3>1. told[m] = 0 /\ m \notin published
      BY DEF DInv, Untold
    <3>2. t[m] = 0
      BY <3>1
    <3> QED
      BY <1>10, <3>2
  <2>3. ASSUME NEW i \in DOMAIN outp', NEW m \in OutMsgs, outp'[i] = Packet("PUBLISH", m),
               setup.qos[m] = 0
        PROVE  told'[m] = 0
    <3>1. PICK j \in DOMAIN q : q[j] = Packet("PUBLISH", m)
      BY <1>8, <2>3
    <3>2. Qos(m) = 0 /\ told[m] = 0
      BY <1>1, <1>9, <2>3, <3>1
    <3>3. t[m] = 0
      BY <3>2
    <3>4. ~No(outp', "PUBLISH", m)
      BY <2>3 DEF No
    <3> QED
      BY <1>10, <3>3, <3>4
  <2> QED
    BY <2>1, <2>2, <2>3 DEF Untold
<1>12. DInv'
  BY <1>3, <1>5, <1>11, KeepDInv
<1>13. ASSUME NEW m \in OutMsgs, told'[m] # told[m]
       PROVE  /\ told'[m] = 1 /\ m \in published' /\ Due(m)
              /\ Qos(m) = 0 \/ t[m] # told[m]
  <2>1. CASE told'[m] = t[m]
    BY <1>13, <2>1
  <2>2. CASE Qos(m) = 0 /\ told'[m] = 1 /\ told[m] = 0 /\ m \in published'
    BY <1>1, <2>2 DEF Due, Lasts
  <2> QED
    BY <1>10, <2>1, <2>2
<1> QED
  BY <1>8, <1>12, <1>13

\* Such a step tells, as MqttDelivery says.
LEMMA Tells ==
    ASSUME IInv, UNCHANGED <<setup, arrived, published>>, told' \in [OutMsgs -> Nat],
           \A m \in OutMsgs : \/ told'[m] = told[m]
                              \/ told'[m] = 1 /\ m \in published /\ Due(m)
    PROVE  Delivery!Next
<1> DEFINE M == {m \in OutMsgs : told'[m] # told[m]}
<1>1. M \in SUBSET published
  OBVIOUS
<1>2. \A m \in M : told[m] = 0 /\ (Delivery!Qos(m) = 1 \/ Delivery!Kept(m) => arrived[m] > 0)
  BY DEF Due, Lasts, Qos, Delivery!Qos, Delivery!Kept
<1>3. told' = [m \in OutMsgs |-> IF m \in M THEN 1 ELSE told[m]]
  <2>1. \A m \in OutMsgs : told'[m] = IF m \in M THEN 1 ELSE told[m]
    OBVIOUS
  <2>2. told' = [m \in OutMsgs |-> told'[m]]
    OBVIOUS
  <2> HIDE DEF M
  <2> QED
    BY <2>1, <2>2
<1> HIDE DEF M
<1>4. Delivery!Told(M)
  BY <1>2, <1>3 DEF Delivery!Told
<1>5. Delivery!Tell
  BY <1>1, <1>4 DEF Delivery!Tell
<1> QED
  BY <1>5 DEF Delivery!Next

LEMMA BooksAppend ==
    ASSUME NEW su, NEW arr, NEW b, NEW o, NEW s \in Seq(ToBroker), NEW ps \in Seq(ToBroker),
           Books(su, arr, b, o, s),
           \A k \in DOMAIN o :
              o[k].state # "wait_for_pubcomp" => No(ps, "PUBREL", o[k].msg)
    PROVE  Books(su, arr, b, o, s \o ps)
<1>1. ASSUME NEW k \in DOMAIN o PROVE Book(su, arr, b, o[k], s \o ps)
  <2>1. Book(su, arr, b, o[k], s)
    BY DEF Books
  <2>2. o[k].state # "wait_for_pubcomp" => No(s \o ps, "PUBREL", o[k].msg)
    <3>1. o[k].state # "wait_for_pubcomp" =>
             No(s, "PUBREL", o[k].msg) /\ No(ps, "PUBREL", o[k].msg)
      BY <2>1 DEF Book
    <3> QED
      BY <3>1, NoConcat
  <2> QED
    BY <2>1, <2>2 DEF Book
<1> QED
  BY <1>1 DEF Books

-----------------------------------------------------------------------------
(* The steps.                                                               *)

Delivers == DInv' /\ [Delivery!Next]_(Delivery!vars)

LEMMA Unseen ==
    ASSUME UNCHANGED <<setup, published, arrived, told>>
    PROVE  [Delivery!Next]_(Delivery!vars)
  BY DEF Delivery!vars

LEMMA NoneAddable ==
    ASSUME NEW su, NEW arr, NEW b, NEW s
    PROVE  Addable(su, arr, b, s, <<>>)
  BY DEF Addable, ProperAll, Fresh, Single

\* The messages in the list and what they wait for stay the same.
SameBooks ==
    \A k \in DOMAIN out' :
       /\ k \in DOMAIN out /\ out'[k].msg = out[k].msg
       /\ out'[k].state = "wait_for_pubcomp" <=> out[k].state = "wait_for_pubcomp"

LEMMA SameBooksKept ==
    ASSUME IInv, DInv, SameBooks
    PROVE  /\ Books(setup, arrived, bin, out', Stream)
           /\ \A k \in DOMAIN out' : out'[k].msg \in OutMsgs /\ told[out'[k].msg] = 0
<1>1. Books(setup, arrived, bin, out', Stream)
  BY DEF SameBooks, DInv, Books, Book
<1>2. \A k \in DOMAIN out : out[k].msg \in OutMsgs
  <2>1. \A k \in DOMAIN out : out[k] \in OutMsg
    BY DeliveryTypes
  <2> QED
    BY <2>1 DEF OutMsg
<1> QED
  BY <1>1, <1>2 DEF SameBooks, DInv, Untold

LEMMA ReadsBack ==
    ASSUME IInv, DInv, \/ b2c' \in {<<>>, b2c}
                       \/ b2c # <<>> /\ b2c' = Tail(b2c)
    PROVE  ProperAll(setup, arrived, bin, b2c')
<1>1. ProperAll(setup, arrived, bin, b2c) /\ b2c \in Seq(ToClient)
  BY DeliveryTypes DEF DInv
<1>2. CASE b2c' \in {<<>>, b2c}
  BY <1>1, <1>2 DEF ProperAll
<1>3. CASE b2c # <<>> /\ b2c' = Tail(b2c)
  BY <1>1, <1>3, TailFacts DEF ProperAll
<1> QED
  BY <1>2, <1>3

\* Steps that send nothing.
LEMMA ReadDelivers ==
    ASSUME IInv, DInv, UNCHANGED <<setup, arrived, bin, published, told, outp, c2b>>,
           SameBooks, ProperAll(setup, arrived, bin, b2c')
    PROVE  Delivers
<1>1. Stream \in Seq(ToBroker) /\ <<>> \in Seq(ToBroker)
  BY DeliveryTypes
<1>2. Stream \o <<>> = Stream
  BY <1>1, ConcatEmptySeq
<1>3. Stream' = Stream
  BY DEF Stream
<1>4. Thin(Stream', Stream \o <<>>)
  BY <1>1, <1>2, <1>3, ThinSame
<1>5. Untold(setup, told', out', published', outp')
  BY SameBooksKept DEF DInv, Untold
<1>6. DInv'
  BY <1>1, <1>2, <1>4, <1>5, SameBooksKept, NoneAddable, KeepDInv
<1> QED
  BY <1>6, Unseen DEF Delivers

LEMMA ConnackDelivers == ASSUME IInv, DInv, HandleConnack PROVE Delivers
<1> DEFINE p == Packet("SUBSCRIBE", NULL)
<1>1. /\ UNCHANGED <<setup, arrived, bin, published, told, out, c2b>>
      /\ outp' = Append(outp, p) /\ b2c # <<>> /\ b2c' = Tail(b2c)
  BY DEF HandleConnack, Receive, Received, broker, bounds
<1>2. p \in ToBroker /\ p.msg = NULL /\ p.kind = "SUBSCRIBE"
  BY PacketType DEF Packet
<1>3. \A m : p # Packet("PUBLISH", m) /\ p # Packet("PUBREL", m)
  BY DEF Packet
<1> HIDE DEF p
<1>4. /\ outp \in Seq(ToBroker) /\ c2b \in Seq(ToBroker) /\ Stream \in Seq(ToBroker)
  BY DeliveryTypes
<1>5. <<p>> \in Seq(ToBroker) /\ DOMAIN <<p>> = {1} /\ <<p>>[1] = p
  BY <1>2
<1>6. outp' = outp \o <<p>>
  BY <1>1, <1>2, <1>4
<1>7. Stream' = Stream \o <<p>>
  BY <1>1, <1>4, <1>5, <1>6 DEF Stream
<1>8. Addable(setup, arrived, bin, Stream, <<p>>)
  BY <1>2, <1>3, <1>5, MessageAssumption DEF Addable, ProperAll, Proper, Fresh, Single
<1>9. Thin(Stream', Stream \o <<p>>)
  <2>1. Stream \o <<p>> \in Seq(ToBroker)
    BY <1>4, <1>5, ConcatFacts
  <2> QED
    BY <1>7, <2>1, ThinSame
<1>10. Books(setup, arrived, bin, out', Stream \o <<p>>)
  <2>1. Books(setup, arrived, bin, out', Stream)
    BY <1>1 DEF DInv
  <2>2. \A m : No(<<p>>, "PUBREL", m)
    BY <1>3, <1>5 DEF No
  <2> QED
    BY <1>4, <1>5, <2>1, <2>2, BooksAppend
<1>11. Untold(setup, told', out', published', outp')
  <2>1. \A i \in DOMAIN outp' : (i \in DOMAIN outp /\ outp'[i] = outp[i]) \/ outp'[i] = p
    BY <1>1, <1>2, <1>4, AppendFacts
  <2> QED
    BY <1>1, <1>3, <2>1 DEF DInv, Untold
<1>12. ProperAll(setup, arrived, bin, b2c')
  BY <1>1, ReadsBack
<1>13. DInv'
  BY <1>1, <1>5, <1>8, <1>9, <1>10, <1>11, <1>12, KeepDInv
<1> QED
  BY <1>1, <1>13, Unseen DEF Delivers

\* Packets that are not about a message going out.
Foreign(ps) == \A i \in DOMAIN ps : ps[i].msg \notin OutMsgs

LEMMA ForeignAddable ==
    ASSUME NEW ps, Foreign(ps), NEW su, NEW arr, NEW b, NEW s
    PROVE  /\ Addable(su, arr, b, s, ps) /\ NewZero(ps)
<1>1. \A i \in DOMAIN ps, m \in OutMsgs : \A k : ps[i] # Packet(k, m)
  BY DEF Foreign, Packet
<1>2. ProperAll(su, arr, b, ps)
  BY DEF Foreign, ProperAll, Proper
<1> QED
  BY <1>1, <1>2 DEF Addable, Fresh, Single, NewZero, No

LEMMA ForeignDelivers ==
    ASSUME IInv, DInv, NEW ps \in Seq(ToBroker), Foreign(ps),
           PacketWrite(outp \o ps, told), SameBooks,
           UNCHANGED <<setup, arrived, bin, published>>,
           ProperAll(setup, arrived, bin, b2c')
    PROVE  Delivers
<1>1. /\ Stream \in Seq(ToBroker) /\ told \in [OutMsgs -> Nat]
  BY DeliveryTypes
<1>2. /\ Addable(setup, arrived, bin, Stream, ps) /\ NewZero(ps)
      /\ \A m \in OutMsgs : No(ps, "PUBREL", m)
  <2>1. Addable(setup, arrived, bin, Stream, ps) /\ NewZero(ps)
    BY ForeignAddable
  <2>2. ASSUME NEW m \in OutMsgs PROVE No(ps, "PUBREL", m)
    BY DEF Foreign, No, Packet
  <2> QED
    BY <2>1, <2>2
<1>3. /\ Books(setup, arrived, bin, out', Stream)
      /\ \A k \in DOMAIN out' : out'[k].msg \in OutMsgs /\ told[out'[k].msg] = 0
  BY SameBooksKept
<1>4. Books(setup, arrived, bin, out', Stream \o ps)
  BY <1>1, <1>2, <1>3, BooksAppend
<1>5. /\ DInv' /\ told' \in [OutMsgs -> Nat]
      /\ \A m \in OutMsgs : \/ told'[m] = told[m]
                            \/ told'[m] = 1 /\ m \in published' /\ Due(m)
  BY <1>1, <1>2, <1>3, <1>4, SendDelivers
<1>6. Delivery!Next
  BY <1>5, Tells
<1> QED
  BY <1>5, <1>6 DEF Delivers

LEMMA LoopWriteDelivers == ASSUME IInv, DInv, LoopWrite PROVE Delivers
<1>1. /\ UNCHANGED <<setup, arrived, bin, published, out>>
      /\ PacketWrite(outp \o <<>>, told) /\ b2c' \in {<<>>, b2c}
  BY DEF LoopWrite, Send, SocketClose, broker, bounds
<1>2. <<>> \in Seq(ToBroker) /\ Foreign(<<>>) /\ SameBooks
  BY <1>1 DEF Foreign, SameBooks
<1>3. ProperAll(setup, arrived, bin, b2c')
  BY <1>1, ReadsBack
<1> QED
  BY <1>1, <1>2, <1>3, ForeignDelivers

\* The library answers messages that come in.
LEMMA AnswerDelivers ==
    ASSUME IInv, DInv, NEW k \in {"PUBACK", "PUBREC", "PUBCOMP"}, NEW m \in InMsgs,
           b2c # <<>>, Reply(<<Packet(k, m)>>),
           UNCHANGED <<setup, arrived, bin, published, out>>
    PROVE  Delivers
<1> DEFINE p == Packet(k, m)
<1>1. p \in ToBroker /\ p.msg \notin OutMsgs
  BY PacketType, MessageAssumption DEF Packet
<1>2. PacketWrite(outp \o <<p>>, told) /\ (b2c' = Tail(b2c) \/ b2c' \in {<<>>, b2c})
  BY DEF Reply, Send, SocketClose
<1> HIDE DEF p
<1>3. <<p>> \in Seq(ToBroker) /\ Foreign(<<p>>) /\ SameBooks
  BY <1>1 DEF Foreign, SameBooks
<1>4. ProperAll(setup, arrived, bin, b2c')
  BY <1>2, ReadsBack
<1> QED
  BY <1>2, <1>3, <1>4, ForeignDelivers

LEMMA IncomingDelivers == ASSUME IInv, DInv, HandlePublish \/ HandlePubrel PROVE Delivers
<1> DEFINE m == Head(b2c).msg
<1>1. UNCHANGED <<setup, arrived, bin, published, out>>
  BY DEF HandlePublish, HandlePubrel, broker, bounds
<1>2. b2c # <<>> /\ m \in InMsgs
  BY TailFacts, KindType DEF HandlePublish, HandlePubrel, Receive, IInv, TypeOK
<1>3. \/ \E k \in {"PUBACK", "PUBREC", "PUBCOMP"} : Reply(<<Packet(k, m)>>)
      \/ b2c' = Tail(b2c) /\ UNCHANGED <<outp, told, c2b>>
  BY DEF HandlePublish, HandlePubrel, Received
<1> HIDE DEF m
<1>4. CASE b2c' = Tail(b2c) /\ UNCHANGED <<outp, told, c2b>>
  <2>1. SameBooks
    BY <1>1 DEF SameBooks
  <2>2. ProperAll(setup, arrived, bin, b2c')
    BY <1>2, <1>4, ReadsBack
  <2> QED
    BY <1>1, <1>4, <2>1, <2>2, ReadDelivers
<1>5. CASE \E k \in {"PUBACK", "PUBREC", "PUBCOMP"} : Reply(<<Packet(k, m)>>)
  BY <1>1, <1>2, <1>5, AnswerDelivers
<1> QED
  BY <1>3, <1>4, <1>5

LEMMA SilentDelivers ==
    ASSUME IInv, DInv,
           \/ HandleRefused \/ HandlePingresp \/ HandleSuback \/ ReadEnd \/ KeepaliveElapse
           \/ RetryElapse \/ UNCHANGED vars \/ (ClientConnect /\ ~Reconnected)
    PROVE  Delivers
<1>1. UNCHANGED <<setup, arrived, bin, published, told, outp, c2b>>
  BY DEF HandleRefused, HandlePingresp, HandleSuback, ReadEnd, KeepaliveElapse, RetryElapse,
     vars, client, ClientConnect, broker, bounds
<1>2. \/ b2c' \in {<<>>, b2c}
      \/ b2c # <<>> /\ b2c' = Tail(b2c)
  BY DEF HandleRefused, HandlePingresp, HandleSuback, ReadEnd, KeepaliveElapse, RetryElapse,
     vars, ClientConnect, Receive, Received, SocketClose
<1>3. \/ out' = out
      \/ \E D \in SUBSET DOMAIN out :
            out' = [i \in DOMAIN out |-> [out[i] EXCEPT !.due = @ \/ i \in D]]
  BY DEF HandleRefused, HandlePingresp, HandleSuback, ReadEnd, KeepaliveElapse, RetryElapse,
     vars, client, ClientConnect
<1>4. SameBooks
  <2>1. \A i \in DOMAIN out : out[i] \in OutMsg
    BY DeliveryTypes
  <2>2. ASSUME NEW i \in DOMAIN out, NEW D
        PROVE  LET e == [out[i] EXCEPT !.due = @ \/ i \in D]
               IN  e.msg = out[i].msg /\ e.state = out[i].state
    BY <2>1 DEF OutMsg
  <2> QED
    BY <1>3, <2>2 DEF SameBooks
<1> QED
  BY <1>1, <1>2, <1>4, ReadsBack, ReadDelivers

LEMMA SendTells ==
    ASSUME IInv, DInv, NEW ps \in Seq(ToBroker),
           Addable(setup, arrived, bin, Stream, ps), NewZero(ps),
           NEW t \in [OutMsgs -> Nat], PacketWrite(outp \o ps, t),
           \A m \in OutMsgs : \/ t[m] = told[m]
                              \/ t[m] = 1 /\ Qos(m) # 0 /\ m \in published /\ Due(m),
           UNCHANGED <<setup, arrived, bin, published>>,
           Books(setup, arrived, bin, out', Stream \o ps),
           \A k \in DOMAIN out' : out'[k].msg \in OutMsgs /\ t[out'[k].msg] = 0,
           ProperAll(setup, arrived, bin, b2c')
    PROVE  Delivers
<1>1. /\ DInv' /\ told' \in [OutMsgs -> Nat]
      /\ \A m \in OutMsgs : \/ told'[m] = told[m]
                            \/ told'[m] = 1 /\ m \in published' /\ Due(m)
  BY SendDelivers
<1>2. Delivery!Next
  BY <1>1, Tells
<1> QED
  BY <1>1, <1>2 DEF Delivers

LEMMA DifferentPackets ==
    /\ \A k, l, m, n : Packet(k, m) = Packet(l, n) => k = l /\ m = n
    /\ \A k, m : Packet(k, m).kind = k /\ Packet(k, m).msg = m
  BY DEF Packet

LEMMA PubrecDelivers == ASSUME IInv, DInv, HandlePubrec PROVE Delivers
<1> DEFINE h == Head(b2c)
           m == h.msg
           p == Packet("PUBREL", m)
<1>1. /\ UNCHANGED <<setup, arrived, bin, published>>
      /\ Reply(<<p>>) /\ b2c # <<>> /\ h.kind = "PUBREC"
  BY DEF HandlePubrec, Receive, broker, bounds
<1>2. h \in ToClient /\ m \in OutMsgs /\ Proper(setup, arrived, bin, h)
  <2>1. b2c \in Seq(ToClient) /\ ProperAll(setup, arrived, bin, b2c)
    BY DeliveryTypes DEF DInv
  <2>2. h \in ToClient /\ 1 \in DOMAIN b2c /\ h = b2c[1]
    BY <1>1, <2>1, TailFacts
  <2> QED
    BY <1>1, <2>1, <2>2, KindType DEF ProperAll
<1>3. setup.qos[m] = 2 /\ Came(setup, arrived, bin, m)
  BY <1>1, <1>2 DEF Proper
<1>4. \/ \E k \in DOMAIN out :
           /\ Holds(out, k, m)
           /\ out' = [out EXCEPT ![k] = [msg |-> m, due |-> FALSE,
                                        state |-> "wait_for_pubcomp"]]
      \/ (\A k \in DOMAIN out : out[k].msg # m) /\ out' = out
  BY DEF HandlePubrec
<1>5. PacketWrite(outp \o <<p>>, told) /\ (b2c' = Tail(b2c) \/ b2c' \in {<<>>, b2c})
  BY <1>1 DEF Reply, Send, SocketClose
<1> HIDE DEF h, m
<1>6. p \in ToBroker /\ p.kind = "PUBREL" /\ p.msg = m
      /\ \A n : p # Packet("PUBLISH", n) /\ (p = Packet("PUBREL", n) => n = m)
  BY <1>2, PacketType, DifferentPackets
<1> HIDE DEF p
<1>7. <<p>> \in Seq(ToBroker) /\ DOMAIN <<p>> = {1} /\ <<p>>[1] = p
  BY <1>6
<1>8. Proper(setup, arrived, bin, p)
  BY <1>3, <1>6 DEF Proper
<1>9. Addable(setup, arrived, bin, Stream, <<p>>) /\ NewZero(<<p>>)
  BY <1>6, <1>7, <1>8 DEF Addable, ProperAll, Fresh, Single, NewZero
<1>10. /\ out \in Seq(OutMsg) /\ told \in [OutMsgs -> Nat] /\ Stream \in Seq(ToBroker)
       /\ Distinct /\ Books(setup, arrived, bin, out, Stream)
       /\ \A k \in DOMAIN out : told[out[k].msg] = 0
  BY DeliveryTypes DEF ListInv, DInv, Untold
<1>11. /\ DOMAIN out' = DOMAIN out
       /\ \A k \in DOMAIN out : out'[k].msg = out[k].msg /\ out[k].msg \in OutMsgs
       /\ \A k \in DOMAIN out :
             \/ out'[k] = out[k] /\ out[k].msg # m
             \/ out'[k].msg = m /\ out'[k].state = "wait_for_pubcomp"
  <2>1. \A k \in DOMAIN out : out[k].msg \in OutMsgs
    <3>1. \A k \in DOMAIN out : out[k] \in OutMsg
      BY <1>10
    <3> QED
      BY <3>1 DEF OutMsg
  <2>2. CASE \E k \in DOMAIN out :
                /\ Holds(out, k, m)
                /\ out' = [out EXCEPT ![k] = [msg |-> m, due |-> FALSE,
                                             state |-> "wait_for_pubcomp"]]
    <3> DEFINE e == [msg |-> m, due |-> FALSE, state |-> "wait_for_pubcomp"]
    <3>1. PICK k \in DOMAIN out : out[k].msg = m /\ out' = [out EXCEPT ![k] = e]
      BY <2>2 DEF Holds
    <3>2. e.msg = m /\ e.state = "wait_for_pubcomp"
      OBVIOUS
    <3> HIDE DEF e
    <3>3. \A j \in DOMAIN out : out'[j] = IF j = k THEN e ELSE out[j]
      BY <3>1
    <3>4. DOMAIN out' = DOMAIN out
      BY <3>1
    <3>5. \A j \in DOMAIN out : j # k => out[j].msg # m
      BY <1>10, <3>1 DEF Distinct
    <3> QED
      BY <2>1, <3>1, <3>2, <3>3, <3>4, <3>5
  <2>3. CASE (\A k \in DOMAIN out : out[k].msg # m) /\ out' = out
    BY <2>1, <2>3
  <2> QED
    BY <1>4, <2>2, <2>3
<1>12. Books(setup, arrived, bin, out', Stream)
  <2>1. ASSUME NEW k \in DOMAIN out PROVE Book(setup, arrived, bin, out'[k], Stream)
    <3>1. CASE out'[k] = out[k]
      BY <1>10, <3>1 DEF Books
    <3>2. CASE out'[k].msg = m /\ out'[k].state = "wait_for_pubcomp"
      BY <1>3, <3>2 DEF Book
    <3> QED
      BY <1>11, <3>1, <3>2
  <2> QED
    BY <1>11, <2>1 DEF Books
<1>13. \A k \in DOMAIN out' :
          out'[k].state # "wait_for_pubcomp" => No(<<p>>, "PUBREL", out'[k].msg)
  BY <1>6, <1>7, <1>11 DEF No
<1>14. Books(setup, arrived, bin, out', Stream \o <<p>>)
  BY <1>7, <1>10, <1>12, <1>13, BooksAppend
<1>15. \A k \in DOMAIN out' : out'[k].msg \in OutMsgs /\ told[out'[k].msg] = 0
  BY <1>10, <1>11
<1>16. ProperAll(setup, arrived, bin, b2c')
  BY <1>1, <1>5, ReadsBack
<1> QED
  BY <1>1, <1>5, <1>7, <1>9, <1>10, <1>14, <1>15, <1>16, SendTells

\* No packet names a message that has not been published.
LEMMA Unpublished ==
    ASSUME IInv, NEW m \in OutMsgs, m \notin published
    PROVE  \A k : No(Stream, k, m)
<1>1. /\ outp \in Seq(ToBroker) /\ c2b \in Seq(ToBroker)
      /\ SafeQueue(outp) /\ SafeQueue(c2b)
  BY DeliveryTypes
<1>2. SafeQueue(Stream)
  BY <1>1, SafeConcat DEF Stream
<1>3. \A k : ~Safe(Packet(k, m))
  BY DEF Safe, Packet
<1> QED
  BY <1>2, <1>3 DEF SafeQueue, No

LEMMA PublishDelivers == ASSUME IInv, DInv, NEW m \in OutMsgs, Publish(m) PROVE Delivers
<1> DEFINE p == Packet("PUBLISH", m)
<1>1. /\ UNCHANGED <<setup, arrived, bin, b2c>> /\ m \notin published
      /\ published' = published \cup {m}
  BY DEF Publish, broker, bounds
<1>2. /\ out \in Seq(OutMsg) /\ told \in [OutMsgs -> Nat] /\ Stream \in Seq(ToBroker)
      /\ Books(setup, arrived, bin, out, Stream) /\ published \subseteq OutMsgs
      /\ outp \in Seq(ToBroker)
      /\ \A k \in DOMAIN out : told[out[k].msg] = 0
      /\ told[m] = 0 /\ arrived[m] = 0
      /\ \A n \in OutMsgs : Qos(n) \in {0, 1, 2} /\ Qos(n) = setup.qos[n]
  BY <1>1, DeliveryTypes DEF DInv, Untold, Unpassed
<1>3. \A k : No(Stream, k, m)
  BY <1>1, Unpublished
<1>4. \A k \in DOMAIN out : out[k].msg \in OutMsgs
  <2>1. \A k \in DOMAIN out : out[k] \in OutMsg
    BY <1>2
  <2> QED
    BY <2>1 DEF OutMsg
<1>5. /\ Books(setup, arrived, bin, out', Stream)
      /\ \A k \in DOMAIN out' : out'[k].msg \in OutMsgs /\ told[out'[k].msg] = 0
  <2>1. CASE out' = out
    BY <1>2, <1>4, <2>1
  <2>2. CASE Qos(m) # 0 /\ MessageQueue(m)
    <3> DEFINE e == [msg |-> m, due |-> FALSE,
                     state |-> IF inflight < MaxInflight THEN Waiting(m) ELSE "invalid"]
    <3>1. out' = Append(out, e)
      BY <2>2 DEF MessageQueue
    <3>2. e \in OutMsg /\ e.msg = m /\ e.state # "wait_for_pubcomp"
      BY DEF OutMsg, OutStates, Waiting
    <3> HIDE DEF e
    <3>3. Book(setup, arrived, bin, e, Stream)
      BY <1>2, <1>3, <2>2, <3>2 DEF Book
    <3>4. \A k \in DOMAIN out' : (k \in DOMAIN out /\ out'[k] = out[k]) \/ out'[k] = e
      BY <1>2, <3>1, <3>2, AppendFacts
    <3> QED
      BY <1>2, <1>4, <3>2, <3>3, <3>4 DEF Books
  <2> QED
    BY <2>1, <2>2 DEF Publish
<1>6. ProperAll(setup, arrived, bin, b2c')
  BY <1>1, ReadsBack
<1>7. published \subseteq published' /\ m \in published'
  BY <1>1
<1>8. p \in ToBroker /\ \A n : p # Packet("PUBREL", n) /\ (p = Packet("PUBLISH", n) => n = m)
      /\ p.kind = "PUBLISH"
  BY PacketType, DifferentPackets
<1> HIDE DEF p
<1>9. CASE PacketWrite(outp \o <<p>>, told)
  <2>1. <<p>> \in Seq(ToBroker) /\ DOMAIN <<p>> = {1} /\ <<p>>[1] = p
    BY <1>8
  <2>2. Addable(setup, arrived, bin, Stream, <<p>>)
    <3>1. Proper(setup, arrived, bin, p) /\ Once(setup, arrived, m)
      BY <1>2, <1>8 DEF Proper, Once
    <3>2. No(<<p>>, "PUBREL", m)
      BY <1>8, <2>1 DEF No
    <3> QED
      BY <1>3, <1>8, <2>1, <3>1, <3>2 DEF Addable, ProperAll, Fresh, Single
  <2>3. NewZero(<<p>>)
    BY <1>2, <1>7, <1>8, <2>1 DEF NewZero
  <2>4. \A n : No(<<p>>, "PUBREL", n)
    BY <1>8, <2>1 DEF No
  <2>5. Books(setup, arrived, bin, out', Stream \o <<p>>)
    BY <1>2, <1>5, <2>1, <2>4, BooksAppend
  <2>6. /\ DInv' /\ told' \in [OutMsgs -> Nat]
        /\ \A n \in OutMsgs : \/ told'[n] = told[n]
                              \/ /\ told'[n] = 1 /\ n \in published' /\ Due(n)
                                 /\ Qos(n) = 0 \/ told[n] # told[n]
    BY <1>1, <1>2, <1>5, <1>6, <1>7, <1>9, <2>1, <2>2, <2>3, <2>5, SendDelivers
  <2> DEFINE M == {n \in OutMsgs : told'[n] # told[n]}
  <2>7. M \in SUBSET {n \in published' : Delivery!Qos(n) = 0}
    BY <2>6 DEF Delivery!Qos, Qos
  <2>8. \A n \in M : told[n] = 0
                     /\ (Delivery!Qos(n) = 1 \/ Delivery!Kept(n) => arrived[n] > 0)
    BY <2>6 DEF Due, Lasts, Qos, Delivery!Qos, Delivery!Kept
  <2>9. told' = [n \in OutMsgs |-> IF n \in M THEN 1 ELSE told[n]]
    <3>1. \A n \in OutMsgs : told'[n] = IF n \in M THEN 1 ELSE told[n]
      BY <2>6
    <3>2. told' = [n \in OutMsgs |-> told'[n]]
      BY <2>6
    <3> HIDE DEF M
    <3> QED
      BY <3>1, <3>2
  <2> HIDE DEF M
  <2>10. Delivery!Publish(m)
    BY <1>1, <2>7, <2>8, <2>9 DEF Delivery!Publish, Delivery!Told
  <2> QED
    BY <2>6, <2>10 DEF Delivers, Delivery!Next
<1>10. CASE UNCHANGED <<outp, told, c2b>>
  <2>1. Stream' = Stream /\ <<>> \in Seq(ToBroker) /\ Stream \o <<>> = Stream
    BY <1>2, <1>10, ConcatEmptySeq DEF Stream
  <2>2. Thin(Stream', Stream \o <<>>)
    BY <1>2, <2>1, ThinSame
  <2>3. Untold(setup, told', out', published', outp')
    BY <1>5, <1>7, <1>10 DEF DInv, Untold
  <2>4. Books(setup, arrived, bin, out', Stream \o <<>>)
    BY <1>5, <2>1
  <2>5. DInv'
    BY <1>1, <1>6, <1>7, <2>1, <2>2, <2>3, <2>4, NoneAddable, KeepDInv
  <2>6. told' = [n \in OutMsgs |-> IF n \in {} THEN 1 ELSE told[n]]
    BY <1>2, <1>10
  <2>7. Delivery!Told({})
    BY <2>6 DEF Delivery!Told
  <2>8. Delivery!Publish(m)
    BY <1>1, <2>7 DEF Delivery!Publish
  <2> QED
    BY <2>5, <2>8 DEF Delivers, Delivery!Next
<1> QED
  BY <1>9, <1>10 DEF Publish, Send, p

\* A packet that is not about a message going out, or is sent again.
Again(x) == x.msg \notin OutMsgs \/ \E k \in DOMAIN out : x = RetryPacket(out[k])
AgainAll(q) == \A i \in DOMAIN q : Again(q[i])

LEMMA AgainConcat ==
    ASSUME NEW a \in Seq(ToBroker), NEW b \in Seq(ToBroker), AgainAll(a), AgainAll(b)
    PROVE  AgainAll(a \o b)
  BY ConcatFacts DEF AgainAll

\* What a packet sent again says is what the list says of its message.
LEMMA AgainIs ==
    ASSUME IInv, DInv, NEW x, Again(x), NEW m \in OutMsgs
    PROVE  /\ x = Packet("PUBLISH", m) =>
                 \E k \in DOMAIN out : out[k].msg = m /\ out[k].state # "wait_for_pubcomp"
           /\ x = Packet("PUBREL", m) =>
                 \E k \in DOMAIN out : out[k].msg = m /\ out[k].state = "wait_for_pubcomp"
           /\ Proper(setup, arrived, bin, x)
<1>1. CASE x.msg \notin OutMsgs
  BY <1>1, DifferentPackets DEF Proper
<1>2. CASE \E k \in DOMAIN out : x = RetryPacket(out[k])
  <2>1. PICK k \in DOMAIN out : x = RetryPacket(out[k])
    BY <1>2
  <2>2. Book(setup, arrived, bin, out[k], Stream)
    BY DEF DInv, Books
  <2>3. CASE out[k].state = "wait_for_pubcomp"
    <3>1. x = Packet("PUBREL", out[k].msg)
      BY <2>1, <2>3 DEF RetryPacket
    <3>2. x.kind = "PUBREL" /\ x.msg = out[k].msg
      BY <3>1, DifferentPackets
    <3>3. Proper(setup, arrived, bin, x)
      BY <2>2, <2>3, <3>2 DEF Book, Proper
    <3> QED
      BY <2>3, <3>1, <3>3, DifferentPackets
  <2>4. CASE out[k].state # "wait_for_pubcomp"
    <3>1. x = Packet("PUBLISH", out[k].msg)
      BY <2>1, <2>4 DEF RetryPacket
    <3>2. x.kind = "PUBLISH"
      BY <3>1, DifferentPackets
    <3>3. Proper(setup, arrived, bin, x)
      BY <3>2 DEF Proper
    <3> QED
      BY <2>4, <3>1, <3>3, DifferentPackets
  <2> QED
    BY <2>3, <2>4
<1> QED
  BY <1>1, <1>2 DEF Again

LEMMA AgainDelivers ==
    ASSUME IInv, DInv, NEW ps \in Seq(ToBroker), AgainAll(ps),
           PacketWrite(outp \o ps, told), SameBooks,
           UNCHANGED <<setup, arrived, bin, published>>,
           ProperAll(setup, arrived, bin, b2c')
    PROVE  Delivers
<1>1. /\ Stream \in Seq(ToBroker) /\ told \in [OutMsgs -> Nat] /\ Distinct
      /\ Books(setup, arrived, bin, out, Stream)
      /\ \A m \in OutMsgs : Qos(m) = setup.qos[m]
  BY DeliveryTypes DEF ListInv, DInv
<1>2. ASSUME NEW k \in DOMAIN out, out[k].msg \in OutMsgs, out[k].state # "wait_for_pubcomp"
      PROVE  No(ps, "PUBREL", out[k].msg)
  <2> SUFFICES ASSUME NEW i \in DOMAIN ps, ps[i] = Packet("PUBREL", out[k].msg)
               PROVE  FALSE
    BY DEF No
  <2>1. PICK j \in DOMAIN out : out[j].msg = out[k].msg /\ out[j].state = "wait_for_pubcomp"
    BY <1>2, AgainIs DEF AgainAll
  <2> QED
    BY <1>1, <1>2, <2>1 DEF Distinct
<1>3. ASSUME NEW i \in DOMAIN ps, NEW m \in OutMsgs, ps[i] = Packet("PUBLISH", m)
      PROVE  /\ Once(setup, arrived, m) /\ setup.qos[m] # 0
             /\ No(Stream, "PUBREL", m) /\ No(ps, "PUBREL", m)
  <2>1. PICK k \in DOMAIN out : out[k].msg = m /\ out[k].state # "wait_for_pubcomp"
    BY <1>3, AgainIs DEF AgainAll
  <2>2. Book(setup, arrived, bin, out[k], Stream)
    BY <1>1 DEF Books
  <2> QED
    BY <1>2, <2>1, <2>2 DEF Book, Once
<1>4. ProperAll(setup, arrived, bin, ps)
  <2>1. ASSUME NEW i \in DOMAIN ps PROVE Proper(setup, arrived, bin, ps[i])
    <3>1. CASE OutMsgs = {}
      BY <3>1 DEF Proper
    <3>2. CASE OutMsgs # {}
      BY <3>2, AgainIs DEF AgainAll
    <3> QED
      BY <3>1, <3>2
  <2> QED
    BY <2>1 DEF ProperAll
<1>5. Addable(setup, arrived, bin, Stream, ps)
  BY <1>3, <1>4 DEF Addable, Fresh, Single
<1>6. NewZero(ps)
  BY <1>1, <1>3 DEF NewZero
<1>7. /\ Books(setup, arrived, bin, out', Stream)
      /\ \A k \in DOMAIN out' : out'[k].msg \in OutMsgs /\ told[out'[k].msg] = 0
  BY SameBooksKept
<1>8. \A k \in DOMAIN out' :
         out'[k].state # "wait_for_pubcomp" => No(ps, "PUBREL", out'[k].msg)
  BY <1>2, <1>7 DEF SameBooks
<1>9. Books(setup, arrived, bin, out', Stream \o ps)
  BY <1>1, <1>7, <1>8, BooksAppend
<1> QED
  BY <1>1, <1>5, <1>6, <1>7, <1>9, SendTells

LEMMA MiscDelivers == ASSUME IInv, DInv, Misc PROVE Delivers
<1>1. UNCHANGED <<setup, arrived, bin, published>>
  BY DEF Misc, broker, bounds
<1>2. CASE SocketClose /\ UNCHANGED <<out, outp, told, c2b>>
  <2>1. SameBooks /\ b2c' \in {<<>>, b2c}
    BY <1>2 DEF SameBooks, SocketClose
  <2> QED
    BY <1>1, <1>2, <2>1, ReadsBack, ReadDelivers
<1>3. CASE /\ \E a \in {<<>>, <<Packet("PINGREQ", NULL)>>} : SendRetries(a)
           /\ Retried /\ b2c' \in {<<>>, b2c}
  <2>0. PICK a \in {<<>>, <<Packet("PINGREQ", NULL)>>} : SendRetries(a)
    BY <1>3
  <2>1. PICK f \in Orders(DueOut), g \in Orders(DueIn) :
                Send(a \o [i \in DOMAIN f |-> RetryPacket(out[f[i]])]
                       \o [i \in DOMAIN g |-> Packet("PUBREC", in[g[i]].msg)])
    BY <2>0 DEF SendRetries
  <2> DEFINE b == [i \in DOMAIN f |-> RetryPacket(out[f[i]])]
             c == [i \in DOMAIN g |-> Packet("PUBREC", in[g[i]].msg)]
  <2>2. a \in Seq(ToBroker) /\ AgainAll(a)
    <3>1. Packet("PINGREQ", NULL) \in ToBroker /\ Packet("PINGREQ", NULL).msg \notin OutMsgs
      BY PacketType, DifferentPackets, MessageAssumption
    <3>2. AgainAll(<<Packet("PINGREQ", NULL)>>) /\ AgainAll(<<>>)
      BY <3>1 DEF AgainAll, Again
    <3> QED
      BY <2>0, <3>1, <3>2, OnePacket, NoPackets
  <2>3. b \in Seq(ToBroker) /\ c \in Seq(ToBroker)
    BY RetriesSafe
  <2>4. AgainAll(b)
    <3>1. \A i \in DOMAIN f : f[i] \in DueOut
      BY DEF Orders
    <3>2. \A i \in DOMAIN f : f[i] \in DOMAIN out
      BY <3>1 DEF DueOut
    <3> QED
      BY <3>2 DEF AgainAll, Again
  <2>5. AgainAll(c)
    <3>1. \A i \in DOMAIN g : g[i] \in DueIn
      BY DEF Orders
    <3>2. \A i \in DOMAIN in : in[i] \in InMsg
      BY DeliveryTypes
    <3>3. \A i \in DOMAIN in : in[i].msg \notin OutMsgs
      BY <3>2, MessageAssumption DEF InMsg
    <3>4. \A i \in DOMAIN g : in[g[i]].msg \notin OutMsgs
      BY <3>1, <3>3 DEF DueIn
    <3> QED
      BY <3>4, DifferentPackets DEF AgainAll, Again
  <2>6. PacketWrite(outp \o ((a \o b) \o c), told)
    BY <2>1 DEF Send
  <2> HIDE DEF b, c
  <2>7. a \o b \in Seq(ToBroker) /\ AgainAll(a \o b)
    BY <2>2, <2>3, <2>4, ConcatFacts, AgainConcat
  <2>8. (a \o b) \o c \in Seq(ToBroker) /\ AgainAll((a \o b) \o c)
    BY <2>3, <2>5, <2>7, ConcatFacts, AgainConcat
  <2>9. SameBooks
    <3>1. \A i \in DOMAIN out : out[i] \in OutMsg
      BY DeliveryTypes
    <3>2. DOMAIN out' = DOMAIN out
          /\ \A i \in DOMAIN out :
                out'[i] = [out[i] EXCEPT !.due = out[i].due /\ out[i].state = "invalid"]
      BY <1>3, <3>1 DEF Retried, OutMsg
    <3>3. \A i \in DOMAIN out : out'[i].msg = out[i].msg /\ out'[i].state = out[i].state
      BY <3>1, <3>2 DEF OutMsg
    <3> QED
      BY <3>2, <3>3 DEF SameBooks
  <2>10. ProperAll(setup, arrived, bin, b2c')
    BY <1>3, ReadsBack
  <2> QED
    BY <1>1, <2>6, <2>8, <2>9, <2>10, AgainDelivers
<1> QED
  BY <1>2, <1>3 DEF Misc, SocketClose

\* The message acknowledged is told of, and the next one starts.
LEMMA RemoveDelivers ==
    ASSUME IInv, DInv, NEW k \in DOMAIN out, MessageRemove(k),
           out[k].msg \in OutMsgs, Due(out[k].msg),
           UNCHANGED <<setup, arrived, bin, published>>,
           ProperAll(setup, arrived, bin, b2c')
    PROVE  Delivers
<1> DEFINE n == out[k].msg
           q == Without(out, k)
           starts == {i \in DOMAIN q : FirstInvalid(q, i)}
           tell == [told EXCEPT ![out[k].msg] = @ + 1]
<1>1. /\ out \in Seq(OutMsg) /\ told \in [OutMsgs -> Nat] /\ Stream \in Seq(ToBroker)
      /\ Distinct /\ OutPublished /\ Books(setup, arrived, bin, out, Stream)
      /\ \A j \in DOMAIN out : told[out[j].msg] = 0
      /\ \A m \in OutMsgs : Qos(m) = setup.qos[m]
      /\ outp \in Seq(ToBroker) /\ c2b \in Seq(ToBroker)
  BY DeliveryTypes DEF ListInv, DInv, Untold
<1>2. \A j \in DOMAIN out : out[j] \in OutMsg /\ out[j].msg \in OutMsgs
  <2>1. \A j \in DOMAIN out : out[j] \in OutMsg
    BY <1>1
  <2> QED
    BY <2>1 DEF OutMsg
<1>3. \A i \in DOMAIN q : \E j \in DOMAIN out : q[i] = out[j] /\ j # k
  <2>1. /\ q \in Seq(OutMsg) /\ Len(q) = Len(out) - 1
        /\ \A i \in 1 .. Len(out) - 1 : q[i] = IF i < k THEN out[i] ELSE out[i + 1]
    BY <1>1, WithoutFacts
  <2>2. DOMAIN q = 1 .. Len(out) - 1 /\ DOMAIN out = 1 .. Len(out) /\ Len(out) \in Nat
    BY <1>1, <2>1
  <2> HIDE DEF q
  <2> SUFFICES ASSUME NEW i \in DOMAIN q PROVE \E j \in DOMAIN out : q[i] = out[j] /\ j # k
    OBVIOUS
  <2>3. CASE i < k
    BY <2>1, <2>2, <2>3
  <2>4. CASE ~(i < k)
    <3>1. i + 1 \in DOMAIN out /\ i + 1 # k
      BY <2>2, <2>4
    <3> QED
      BY <2>1, <2>2, <2>4, <3>1
  <2> QED
    BY <2>3, <2>4
<1>4. \/ out' = q /\ told' = tell /\ UNCHANGED <<outp, c2b>>
      \/ \E i \in starts :
         /\ out' = [q EXCEPT ![i].state = Waiting(q[i].msg)]
         /\ PacketWrite(outp \o <<Packet("PUBLISH", q[i].msg)>>,
                        IF wire = "cut" THEN told ELSE tell)
  BY DEF MessageRemove
<1>5. \A i \in starts : i \in DOMAIN q /\ q[i].state = "invalid"
  BY DEF FirstInvalid
<1>6. /\ tell \in [OutMsgs -> Nat] /\ tell[n] = 1 /\ told[n] = 0
      /\ \A m \in OutMsgs : m # n => tell[m] = told[m]
  BY <1>1, <1>2
<1>7. Qos(n) # 0 /\ n \in published
  BY <1>1, <1>2 DEF Books, Book, OutPublished
<1>8. \A i \in DOMAIN q : /\ q[i] \in OutMsg /\ q[i].msg \in OutMsgs /\ q[i].msg # n
                          /\ told[q[i].msg] = 0 /\ tell[q[i].msg] = 0
                          /\ Book(setup, arrived, bin, q[i], Stream)
  <2> HIDE DEF q, tell
  <2> SUFFICES ASSUME NEW i \in DOMAIN q
               PROVE  /\ q[i] \in OutMsg /\ q[i].msg \in OutMsgs /\ q[i].msg # n
                      /\ told[q[i].msg] = 0 /\ tell[q[i].msg] = 0
                      /\ Book(setup, arrived, bin, q[i], Stream)
    OBVIOUS
  <2>1. PICK j \in DOMAIN out : q[i] = out[j] /\ j # k
    BY <1>3
  <2>2. out[j].msg # n
    BY <1>1, <2>1 DEF Distinct
  <2> QED
    BY <1>1, <1>2, <1>6, <2>1, <2>2 DEF Books
<1> HIDE DEF q, starts, tell
<1>9. CASE out' = q /\ told' = tell /\ UNCHANGED <<outp, c2b>>
  <2>1. Stream' = Stream /\ <<>> \in Seq(ToBroker) /\ Stream \o <<>> = Stream
    BY <1>1, <1>9, ConcatEmptySeq DEF Stream
  <2>2. Thin(Stream', Stream \o <<>>)
    BY <1>1, <2>1, ThinSame
  <2>3. Books(setup, arrived, bin, out', Stream \o <<>>)
    BY <1>8, <1>9, <2>1 DEF Books
  <2>4. Untold(setup, told', out', published', outp')
    <3>1. \A j \in DOMAIN out' : told'[out'[j].msg] = 0
      BY <1>8, <1>9
    <3>2. \A m \in OutMsgs \ published' : told'[m] = 0
      BY <1>6, <1>7, <1>9 DEF DInv, Untold
    <3>3. \A i \in DOMAIN outp', m \in OutMsgs :
             outp'[i] = Packet("PUBLISH", m) /\ setup.qos[m] = 0 => told'[m] = 0
      BY <1>1, <1>6, <1>7, <1>9 DEF DInv, Untold
    <3> QED
      BY <3>1, <3>2, <3>3 DEF Untold
  <2>5. DInv'
    BY <2>1, <2>2, <2>3, <2>4, NoneAddable, KeepDInv
  <2>6. Delivery!Next
    BY <1>6, <1>7, <1>9, Tells
  <2> QED
    BY <2>5, <2>6 DEF Delivers
<1>10. ASSUME NEW i \in starts,
              out' = [q EXCEPT ![i].state = Waiting(q[i].msg)],
              PacketWrite(outp \o <<Packet("PUBLISH", q[i].msg)>>,
                          IF wire = "cut" THEN told ELSE tell)
       PROVE  Delivers
  <2> DEFINE x == q[i].msg
             p == Packet("PUBLISH", x)
             t == IF wire = "cut" THEN told ELSE tell
             e == [q[i] EXCEPT !.state = Waiting(q[i].msg)]
  <2>1. /\ i \in DOMAIN q /\ q[i].state = "invalid" /\ x \in OutMsgs
        /\ Book(setup, arrived, bin, q[i], Stream)
    BY <1>5, <1>8
  <2>2. /\ t \in [OutMsgs -> Nat]
        /\ \A m \in OutMsgs : \/ t[m] = told[m]
                              \/ t[m] = 1 /\ Qos(m) # 0 /\ m \in published /\ Due(m)
        /\ \A j \in DOMAIN q : t[q[j].msg] = 0
    BY <1>1, <1>6, <1>7, <1>8
  <2>3. e.msg = x /\ e.state # "wait_for_pubcomp"
    BY <1>8, <2>1 DEF OutMsg, Waiting
  <2>4. DOMAIN out' = DOMAIN q /\ \A j \in DOMAIN q : out'[j] = IF j = i THEN e ELSE q[j]
    BY <1>10, <2>1
  <2>5. PacketWrite(outp \o <<p>>, t)
    BY <1>10
  <2>6. p \in ToBroker /\ p.kind = "PUBLISH"
        /\ \A m : p # Packet("PUBREL", m) /\ (p = Packet("PUBLISH", m) => m = x)
    BY <2>1, PacketType, DifferentPackets
  <2>7. /\ setup.qos[x] # 0 /\ (Lasts(setup, x) => arrived[x] = 0)
        /\ No(Stream, "PUBREL", x)
    BY <2>1 DEF Book
  <2>8. Book(setup, arrived, bin, e, Stream)
    BY <2>3, <2>7 DEF Book
  <2> HIDE DEF p, t, e, x
  <2>9. <<p>> \in Seq(ToBroker) /\ DOMAIN <<p>> = {1} /\ <<p>>[1] = p
    BY <2>6
  <2>10. \A m : No(<<p>>, "PUBREL", m)
    BY <2>6, <2>9 DEF No
  <2>11. Addable(setup, arrived, bin, Stream, <<p>>)
    <3>1. Proper(setup, arrived, bin, p) /\ Once(setup, arrived, x)
      BY <2>6, <2>7 DEF Proper, Once
    <3> QED
      BY <2>6, <2>7, <2>9, <2>10, <3>1 DEF Addable, ProperAll, Fresh, Single
  <2>12. NewZero(<<p>>)
    BY <1>1, <2>6, <2>7, <2>9 DEF NewZero
  <2>13. Books(setup, arrived, bin, out', Stream)
    BY <1>8, <2>4, <2>8 DEF Books
  <2>14. Books(setup, arrived, bin, out', Stream \o <<p>>)
    BY <1>1, <2>9, <2>10, <2>13, BooksAppend
  <2>15. \A j \in DOMAIN out' : out'[j].msg \in OutMsgs /\ t[out'[j].msg] = 0
    BY <1>8, <2>1, <2>2, <2>3, <2>4 DEF x
  <2> QED
    BY <2>2, <2>5, <2>9, <2>11, <2>12, <2>14, <2>15, SendTells
<1> QED
  BY <1>4, <1>9, <1>10

LEMMA AckedDelivers ==
    ASSUME IInv, DInv, NEW kind \in {"PUBACK", "PUBCOMP"}, HandlePubackcomp(kind)
    PROVE  Delivers
<1> DEFINE h == Head(b2c)
           m == h.msg
<1>1. /\ UNCHANGED <<setup, arrived, bin, published>>
      /\ b2c # <<>> /\ b2c' = Tail(b2c) /\ h.kind = kind
  BY DEF HandlePubackcomp, Receive, Received, broker, bounds
<1>2. m \in OutMsgs /\ Proper(setup, arrived, bin, h)
  <2>1. b2c \in Seq(ToClient) /\ ProperAll(setup, arrived, bin, b2c)
    BY DeliveryTypes DEF DInv
  <2>2. h \in ToClient /\ 1 \in DOMAIN b2c /\ h = b2c[1]
    BY <1>1, <2>1, TailFacts
  <2> QED
    BY <1>1, <2>1, <2>2, KindType DEF ProperAll
<1>3. Qos(m) = 1 \/ Lasts(setup, m) => arrived[m] > 0
  BY <1>1, <1>2, DeliveryTypes DEF Proper, Lasts
<1>4. \/ \E k \in DOMAIN out : out[k].msg = m /\ MessageRemove(k)
      \/ UNCHANGED <<out, outp, told, c2b>>
  BY DEF HandlePubackcomp, Holds
<1>5. ProperAll(setup, arrived, bin, b2c')
  BY <1>1, ReadsBack
<1> HIDE DEF h, m
<1>6. CASE \E k \in DOMAIN out : out[k].msg = m /\ MessageRemove(k)
  <2>1. PICK k \in DOMAIN out : out[k].msg = m /\ MessageRemove(k)
    BY <1>6
  <2>2. told[out[k].msg] = 0
    BY DEF DInv, Untold
  <2>3. Due(out[k].msg)
    BY <1>3, <2>1, <2>2 DEF Due
  <2> QED
    BY <1>1, <1>2, <1>5, <2>1, <2>3, RemoveDelivers
<1>7. CASE UNCHANGED <<out, outp, told, c2b>>
  <2>1. SameBooks
    BY <1>7 DEF SameBooks
  <2> QED
    BY <1>1, <1>5, <1>7, <2>1, ReadDelivers
<1> QED
  BY <1>4, <1>6, <1>7

-----------------------------------------------------------------------------
(* The broker, the network and new connections.                             *)

LEMMA PacketIs == \A p \in ToBroker : p = Packet(p.kind, p.msg)
  BY DEF ToBroker, Packet

LEMMA TailOfConcat ==
    ASSUME NEW c \in Seq(ToBroker), NEW q \in Seq(ToBroker), c # <<>>
    PROVE  Tail(c \o q) = Tail(c) \o q /\ Head(c \o q) = Head(c) /\ c \o q # <<>>
  OBVIOUS

\* The broker takes the head of the stream.
LEMMA HeadTaken ==
    ASSUME IInv, DInv, NEW k, Takes(k), outp' = outp
    PROVE  /\ Thin(Stream', Stream)
           /\ Proper(setup, arrived, bin, Head(c2b))
           /\ Head(c2b) \in ToBroker /\ Head(c2b) = Packet(k, Head(c2b).msg)
           /\ \A m \in OutMsgs :
                 /\ Head(c2b) = Packet("PUBLISH", m) =>
                       Once(setup, arrived, m)
                       /\ (setup.qos[m] = 0 => No(Stream', "PUBLISH", m))
                 /\ Head(c2b) = Packet("PUBREL", m) =>
                       No(Stream', "PUBLISH", m) /\ ~No(Stream, "PUBREL", m)
<1> DEFINE h == Head(c2b)
<1>1. /\ c2b \in Seq(ToBroker) /\ outp \in Seq(ToBroker) /\ Stream \in Seq(ToBroker)
      /\ Sound(setup, arrived, bin, Stream) /\ c2b # <<>> /\ c2b' = Tail(c2b)
      /\ h.kind = k
  BY DeliveryTypes DEF DInv, Takes
<1>2. Thin(Stream', Stream)
  BY <1>1, ThinTail DEF Stream
<1>3. Stream' = Tail(Stream) /\ h = Head(Stream) /\ Stream # <<>>
  BY <1>1, TailOfConcat DEF Stream
<1>4. h \in ToBroker
  BY <1>1, TailFacts
<1>5. h = Packet(k, h.msg)
  BY <1>1, <1>4, PacketIs
<1> HIDE DEF h
<1>6. /\ 1 \in DOMAIN Stream /\ h = Stream[1]
      /\ \A i \in DOMAIN Stream' :
            i + 1 \in DOMAIN Stream /\ Stream'[i] = Stream[i + 1] /\ 1 < i + 1
  <2>1. DOMAIN Tail(Stream) \subseteq Nat \ {0}
    BY <1>1, <1>3
  <2>2. /\ 1 \in DOMAIN Stream /\ Head(Stream) = Stream[1]
        /\ \A i \in DOMAIN Tail(Stream) : i + 1 \in DOMAIN Stream
                                          /\ Tail(Stream)[i] = Stream[i + 1]
    BY <1>1, <1>3, TailFacts
  <2> QED
    BY <1>3, <2>1, <2>2
<1>7. Proper(setup, arrived, bin, h)
  BY <1>1, <1>6 DEF Sound, ProperAll
<1>8. ASSUME NEW m \in OutMsgs, h = Packet("PUBLISH", m)
      PROVE  /\ Once(setup, arrived, m)
             /\ setup.qos[m] = 0 => No(Stream', "PUBLISH", m)
  <2>1. Once(setup, arrived, m)
    BY <1>1, <1>6, <1>8 DEF Sound, Fresh
  <2>2. ASSUME setup.qos[m] = 0, NEW i \in DOMAIN Stream', Stream'[i] = Packet("PUBLISH", m)
        PROVE  FALSE
    <3>1. i + 1 \in DOMAIN Stream /\ Stream[i + 1] = Packet("PUBLISH", m) /\ 1 < i + 1
      BY <1>6, <2>2
    <3>2. 1 = i + 1
      BY <1>1, <1>6, <1>8, <2>2, <3>1 DEF Sound, Single
    <3> QED
      BY <3>1, <3>2
  <2> QED
    BY <2>1, <2>2 DEF No
<1>9. ASSUME NEW m \in OutMsgs, h = Packet("PUBREL", m)
      PROVE  No(Stream', "PUBLISH", m) /\ ~No(Stream, "PUBREL", m)
  <2>1. ASSUME NEW i \in DOMAIN Stream', Stream'[i] = Packet("PUBLISH", m) PROVE FALSE
    BY <1>1, <1>6, <1>9, <2>1 DEF Sound, Released
  <2> QED
    BY <1>6, <1>9, <2>1 DEF No
<1> QED
  BY <1>2, <1>4, <1>5, <1>7, <1>8, <1>9 DEF h

\* What has come and arrived stays so.
Onward ==
    \A m \in OutMsgs : /\ Came(setup, arrived, bin, m) => Came(setup, arrived', bin', m)
                       /\ arrived[m] > 0 => arrived'[m] > 0

LEMMA ProperOnward ==
    ASSUME Onward, NEW p, Proper(setup, arrived, bin, p)
    PROVE  Proper(setup, arrived', bin', p)
  BY DEF Onward, Proper

\* A message that arrives is one that may, and is not behind in the stream.
Arriving(m) ==
    /\ m \in published
    /\ setup.qos[m] = 0 \/ Lasts(setup, m) => No(Stream', "PUBLISH", m)
    /\ Lasts(setup, m) =>
          \A k \in DOMAIN out : out[k].msg = m => out[k].state = "wait_for_pubcomp"

LEMMA BrokerKeeps ==
    ASSUME IInv, DInv, UNCHANGED <<setup, published, told, out, outp>>,
           Thin(Stream', Stream), Onward,
           \A m \in OutMsgs : arrived'[m] # arrived[m] => Arriving(m),
           \A m \in bin' : setup.qos[m] = 2 /\ (~setup.clean => arrived'[m] = 0),
           ProperAll(setup, arrived', bin', b2c')
    PROVE  DInv'
<1>1. Sound(setup, arrived, bin, Stream')
  BY SoundThin DEF DInv
<1>2. Books(setup, arrived, bin, out, Stream')
  BY BooksThin DEF DInv
<1>3. Sound(setup, arrived', bin', Stream')
  <2>1. ProperAll(setup, arrived', bin', Stream')
    BY <1>1, ProperOnward DEF Sound, ProperAll
  <2>2. Fresh(setup, arrived', Stream')
    <3> SUFFICES ASSUME NEW i \in DOMAIN Stream', NEW m \in OutMsgs,
                        Stream'[i] = Packet("PUBLISH", m)
                 PROVE  Once(setup, arrived', m)
      BY DEF Fresh
    <3>1. Once(setup, arrived, m)
      BY <1>1 DEF Sound, Fresh
    <3>2. ~No(Stream', "PUBLISH", m)
      BY DEF No
    <3> QED
      BY <3>1, <3>2 DEF Once, Arriving
  <2> QED
    BY <1>1, <2>1, <2>2 DEF Sound
<1>4. Books(setup, arrived', bin', out, Stream')
  <2>1. ASSUME NEW k \in DOMAIN out PROVE Book(setup, arrived', bin', out[k], Stream')
    <3>1. Book(setup, arrived, bin, out[k], Stream') /\ out[k].msg \in OutMsgs
      <4>1. out[k] \in OutMsg
        BY DeliveryTypes
      <4> QED
        BY <1>2, <4>1 DEF Books, OutMsg
    <3>2. CASE out[k].state = "wait_for_pubcomp"
      BY <3>1, <3>2 DEF Book, Onward
    <3>3. CASE out[k].state # "wait_for_pubcomp"
      <4>1. Lasts(setup, out[k].msg) => arrived'[out[k].msg] = arrived[out[k].msg]
        BY <3>1, <3>3 DEF Arriving
      <4> QED
        BY <3>1, <3>3, <4>1 DEF Book
    <3> QED
      BY <3>2, <3>3
  <2> QED
    BY <2>1 DEF Books
<1>5. Unpassed(setup, arrived', bin', published)
  BY DEF DInv, Unpassed, Arriving
<1> QED
  BY <1>3, <1>4, <1>5 DEF DInv

\* What the broker sends back.
LEMMA BackKeeps ==
    ASSUME IInv, DInv, Onward, NEW p \in ToClient, Proper(setup, arrived', bin', p),
           b2c' = b2c \/ b2c' = Append(b2c, p)
    PROVE  ProperAll(setup, arrived', bin', b2c')
<1>1. b2c \in Seq(ToClient) /\ ProperAll(setup, arrived, bin, b2c)
  BY DeliveryTypes DEF DInv
<1>2. ProperAll(setup, arrived', bin', b2c)
  BY <1>1, ProperOnward DEF ProperAll
<1> QED
  BY <1>1, <1>2, AppendFacts DEF ProperAll

\* The broker takes a packet that makes nothing arrive.
LEMMA PassiveDelivers ==
    ASSUME IInv, DInv, UNCHANGED <<setup, published, told, out, outp, arrived, bin>>,
           Thin(Stream', Stream), NEW p \in ToClient, p.msg \notin OutMsgs,
           b2c' = b2c \/ b2c' = Append(b2c, p)
    PROVE  Delivers
<1>1. Onward
  BY DEF Onward
<1>2. \A m \in bin' : setup.qos[m] = 2 /\ (~setup.clean => arrived'[m] = 0)
  BY DEF DInv, Unpassed
<1>3. Proper(setup, arrived', bin', p)
  BY DEF Proper
<1>4. ProperAll(setup, arrived', bin', b2c')
  BY <1>1, <1>3, BackKeeps
<1>5. DInv'
  BY <1>1, <1>2, <1>4, BrokerKeeps
<1> QED
  BY <1>5, Unseen DEF Delivers

LEMMA BrokerPassive ==
    ASSUME IInv, DInv,
           BrokerSubscribe \/ BrokerPingreq \/ BrokerAcked \/ BrokerRefuse \/ BrokerPublish
    PROVE  Delivers
<1>1. UNCHANGED <<setup, published, told, out, outp, arrived, bin>>
  BY DEF BrokerSubscribe, BrokerPingreq, BrokerAcked, BrokerRefuse, BrokerPublish, Answering,
     client, bounds
<1>2. Thin(Stream', Stream)
  <2>1. CASE BrokerPublish
    <3>1. Stream' = Stream /\ Stream \in Seq(ToBroker)
      BY <1>1, <2>1, DeliveryTypes DEF BrokerPublish, Stream
    <3> QED
      BY <3>1, ThinSame
  <2>2. CASE \E k : Takes(k)
    BY <1>1, <2>2, HeadTaken
  <2> QED
    BY <2>1, <2>2 DEF BrokerSubscribe, BrokerPingreq, BrokerAcked, BrokerRefuse, Answering
<1>3. \E p \in ToClient : p.msg \notin OutMsgs /\ (b2c' = b2c \/ b2c' = Append(b2c, p))
  <2>1. CASE BrokerSubscribe \/ BrokerPingreq \/ BrokerRefuse
    <3>1. PICK k \in {"SUBSCRIBE", "PINGREQ", "CONNECT"},
               a \in {"SUBACK", "PINGRESP", "REFUSED"} :
             Takes(k) /\ \E n : n \in {NULL, Head(c2b).msg} /\ Answer(a, n)
      BY <2>1 DEF BrokerSubscribe, BrokerPingreq, BrokerRefuse, Answering
    <3>2. Head(c2b).msg = NULL
      BY <3>1, TakesFacts, KindType
    <3>3. Packet(a, NULL) \in ToClient /\ Packet(a, NULL).msg \notin OutMsgs
      BY PacketType, DifferentPackets, MessageAssumption
    <3>4. b2c' = b2c \/ b2c' = Append(b2c, Packet(a, NULL))
      BY <3>1, <3>2 DEF Answer
    <3> QED
      BY <3>3, <3>4
  <2>2. CASE BrokerAcked /\ b2c' = b2c
    <3>1. Packet("SUBACK", NULL) \in ToClient /\ Packet("SUBACK", NULL).msg \notin OutMsgs
      BY PacketType, DifferentPackets, MessageAssumption
    <3> QED
      BY <2>2, <3>1
  <2>3. CASE BrokerAcked /\ Answering("PUBREC", "PUBREL")
    <3> DEFINE n == Head(c2b).msg
    <3>1. n \in InMsgs
      BY <2>3, TakesFacts, KindType DEF Answering
    <3>2. Packet("PUBREL", n) \in ToClient /\ Packet("PUBREL", n).msg \notin OutMsgs
      BY <3>1, PacketType, DifferentPackets, MessageAssumption
    <3>3. b2c' = b2c \/ b2c' = Append(b2c, Packet("PUBREL", n))
      BY <2>3 DEF Answering, Answer
    <3> QED
      BY <3>2, <3>3
  <2>4. CASE BrokerPublish
    <3>1. PICK n \in InMsgs : Answer("PUBLISH", n)
      BY <2>4 DEF BrokerPublish
    <3>2. Packet("PUBLISH", n) \in ToClient /\ Packet("PUBLISH", n).msg \notin OutMsgs
      BY <3>1, PacketType, DifferentPackets, MessageAssumption
    <3>3. b2c' = b2c \/ b2c' = Append(b2c, Packet("PUBLISH", n))
      BY <3>1 DEF Answer
    <3> QED
      BY <3>2, <3>3
  <2>5. BrokerAcked => b2c' = b2c \/ Answering("PUBREC", "PUBREL")
    BY DEF BrokerAcked
  <2> QED
    BY <2>1, <2>2, <2>3, <2>4, <2>5
<1> QED
  BY <1>1, <1>2, <1>3, PassiveDelivers

\* The message arrives, as MqttDelivery says.
LEMMA ArriveDelivers ==
    ASSUME IInv, DInv, NEW m \in OutMsgs, Arrives(m), m \in published,
           Once(setup, arrived, m), UNCHANGED <<setup, published, told>>
    PROVE  /\ Delivery!Next
           /\ arrived'[m] = arrived[m] + 1 /\ arrived[m] \in Nat /\ arrived'[m] > 0
           /\ \A n \in OutMsgs : n # m => arrived'[n] = arrived[n]
<1>1. arrived \in [OutMsgs -> Nat]
  BY DeliveryTypes
<1>2. arrived' = [arrived EXCEPT ![m] = @ + 1]
  BY DEF Arrives
<1>3. Delivery!Arrive(m)
  BY <1>2 DEF Delivery!Arrive, Delivery!Qos, Delivery!Kept, Once, Lasts
<1>4. /\ arrived'[m] = arrived[m] + 1 /\ arrived[m] \in Nat /\ arrived'[m] > 0
      /\ \A n \in OutMsgs : n # m => arrived'[n] = arrived[n]
  BY <1>1, <1>2
<1> QED
  BY <1>3, <1>4 DEF Delivery!Next

LEMMA ReceiveDelivers == ASSUME IInv, DInv, BrokerReceive PROVE Delivers
<1> DEFINE m == Head(c2b).msg
<1>1. UNCHANGED <<setup, published, told, out, outp>> /\ Takes("PUBLISH")
  BY DEF BrokerReceive, Answering, client, bounds
<1>2. /\ Thin(Stream', Stream) /\ m \in OutMsgs /\ Once(setup, arrived, m)
      /\ setup.qos[m] = 0 => No(Stream', "PUBLISH", m)
  <2>1. Head(c2b) = Packet("PUBLISH", m) /\ Thin(Stream', Stream)
    BY <1>1, HeadTaken
  <2>2. m \in OutMsgs
    BY <1>1, TakesFacts, KindType
  <2> QED
    BY <1>1, <2>1, <2>2, HeadTaken
<1>3. m \in published
  <2>1. Safe(Head(c2b))
    BY <1>1, TakesFacts
  <2> QED
    BY <1>2, <2>1 DEF Safe
<1>4. \/ Qos(m) = 0 /\ Arrives(m) /\ UNCHANGED <<b2c, bin>>
      \/ Answer("PUBACK", m) /\ Qos(m) = 1 /\ Arrives(m) /\ UNCHANGED bin
      \/ Answer("PUBREC", m) /\ Qos(m) = 2 /\ bin' = bin \cup {m} /\ UNCHANGED arrived
  BY DEF BrokerReceive, Answering
<1>5. setup.qos[m] = Qos(m) /\ arrived \in [OutMsgs -> Nat]
      /\ \A n \in bin : setup.qos[n] = 2 /\ (~setup.clean => arrived[n] = 0)
  BY <1>2, DeliveryTypes DEF DInv, Unpassed
<1> HIDE DEF m
<1>6. CASE Arrives(m) /\ Qos(m) \in {0, 1} /\ UNCHANGED bin
  <2>1. /\ Delivery!Next
        /\ arrived'[m] = arrived[m] + 1 /\ arrived[m] \in Nat /\ arrived'[m] > 0
        /\ \A n \in OutMsgs : n # m => arrived'[n] = arrived[n]
    BY <1>1, <1>2, <1>3, <1>6, ArriveDelivers
  <2>2. Onward
    BY <1>6, <2>1 DEF Onward, Came
  <2>3. \A n \in OutMsgs : arrived'[n] # arrived[n] => Arriving(n)
    BY <1>2, <1>3, <1>5, <1>6, <2>1 DEF Arriving, Lasts
  <2>4. \A n \in bin' : setup.qos[n] = 2 /\ (~setup.clean => arrived'[n] = 0)
    <3>1. \A n \in bin' : n # m /\ n \in OutMsgs
      BY <1>5, <1>6, DeliveryTypes
    <3> QED
      BY <1>5, <1>6, <2>1, <3>1
  <2> DEFINE p == Packet("PUBACK", m)
  <2>5. p \in ToClient /\ p.kind = "PUBACK" /\ p.msg = m
    BY <1>2, PacketType, DifferentPackets
  <2>6. b2c' = b2c \/ (b2c' = Append(b2c, p) /\ Qos(m) = 1)
    BY <1>4, <1>6 DEF Answer
  <2> HIDE DEF p
  <2>7. ProperAll(setup, arrived', bin', b2c')
    <3>1. CASE b2c' = b2c
      BY <2>2, <3>1, ProperOnward DEF ProperAll, DInv
    <3>2. CASE b2c' = Append(b2c, p) /\ Qos(m) = 1
      <4>1. Proper(setup, arrived', bin', p)
        BY <1>5, <2>1, <2>5, <3>2 DEF Proper
      <4> QED
        BY <2>2, <2>5, <3>2, <4>1, BackKeeps
    <3> QED
      BY <2>6, <3>1, <3>2
  <2>8. DInv'
    BY <1>1, <1>2, <2>2, <2>3, <2>4, <2>7, BrokerKeeps
  <2> QED
    BY <2>1, <2>8 DEF Delivers
<1>7. CASE Answer("PUBREC", m) /\ Qos(m) = 2 /\ bin' = bin \cup {m} /\ UNCHANGED arrived
  <2>1. Onward
    BY <1>7 DEF Onward, Came
  <2>2. \A n \in bin' : setup.qos[n] = 2 /\ (~setup.clean => arrived'[n] = 0)
    BY <1>2, <1>5, <1>7 DEF Once, Lasts
  <2> DEFINE p == Packet("PUBREC", m)
  <2>3. p \in ToClient /\ p.kind = "PUBREC" /\ p.msg = m
    BY <1>2, PacketType, DifferentPackets
  <2>4. b2c' = b2c \/ b2c' = Append(b2c, p)
    BY <1>7 DEF Answer
  <2> HIDE DEF p
  <2>5. Proper(setup, arrived', bin', p)
    BY <1>5, <1>7, <2>3 DEF Proper, Came
  <2>6. ProperAll(setup, arrived', bin', b2c')
    BY <2>1, <2>3, <2>4, <2>5, BackKeeps
  <2>7. DInv'
    BY <1>1, <1>2, <1>7, <2>1, <2>2, <2>6, BrokerKeeps
  <2> QED
    BY <1>1, <1>7, <2>7, Unseen DEF Delivers
<1> QED
  BY <1>4, <1>6, <1>7

LEMMA PubrelDelivers == ASSUME IInv, DInv, BrokerPubrel PROVE Delivers
<1> DEFINE m == Head(c2b).msg
<1>1. /\ UNCHANGED <<setup, published, told, out, outp>> /\ Takes("PUBREL")
      /\ Answer("PUBCOMP", m) /\ bin' = bin \ {m}
      /\ IF m \in bin THEN Arrives(m) ELSE UNCHANGED arrived
  BY DEF BrokerPubrel, Answering, client, bounds
<1>2. m \in OutMsgs /\ Head(c2b) = Packet("PUBREL", m)
  <2>1. Head(c2b) = Packet("PUBREL", m)
    BY <1>1, HeadTaken
  <2>2. m \in OutMsgs
    BY <1>1, TakesFacts, KindType
  <2> QED
    BY <2>1, <2>2
<1>3. /\ Thin(Stream', Stream) /\ Proper(setup, arrived, bin, Head(c2b))
      /\ No(Stream', "PUBLISH", m) /\ ~No(Stream, "PUBREL", m)
  BY <1>1, <1>2, HeadTaken
<1>4. setup.qos[m] = 2 /\ Came(setup, arrived, bin, m)
  BY <1>2, <1>3, DifferentPackets DEF Proper
<1>5. m \in published
  <2>1. Safe(Head(c2b))
    BY <1>1, TakesFacts
  <2> QED
    BY <1>2, <2>1 DEF Safe
<1>6. /\ arrived \in [OutMsgs -> Nat] /\ setup.clean \in BOOLEAN
      /\ \A n \in bin : n \in OutMsgs /\ setup.qos[n] = 2 /\ (~setup.clean => arrived[n] = 0)
  BY DeliveryTypes DEF DInv, Unpassed
<1> HIDE DEF m
<1>7. /\ [Delivery!Next]_(Delivery!vars)
      /\ \A n \in OutMsgs : n # m => arrived'[n] = arrived[n]
      /\ IF m \in bin THEN arrived'[m] > 0 ELSE arrived'[m] = arrived[m]
  <2>1. CASE m \in bin
    <3>1. Once(setup, arrived, m)
      BY <1>4, <1>6, <2>1 DEF Once, Lasts
    <3> QED
      BY <1>1, <1>2, <1>5, <2>1, <3>1, ArriveDelivers
  <2>2. CASE m \notin bin
    BY <1>1, <2>2, Unseen
  <2> QED
    BY <2>1, <2>2
<1>8. setup.clean \/ arrived'[m] > 0
  BY <1>4, <1>7 DEF Came
<1>9. Onward
  BY <1>1, <1>7 DEF Onward, Came
<1>10. \A k \in DOMAIN out : out[k].msg = m => out[k].state = "wait_for_pubcomp"
  BY <1>3 DEF DInv, Books, Book
<1>11. \A n \in OutMsgs : arrived'[n] # arrived[n] => Arriving(n)
  BY <1>3, <1>5, <1>7, <1>10 DEF Arriving
<1>12. \A n \in bin' : setup.qos[n] = 2 /\ (~setup.clean => arrived'[n] = 0)
  BY <1>1, <1>6, <1>7
<1> DEFINE p == Packet("PUBCOMP", m)
<1>13. p \in ToClient /\ p.kind = "PUBCOMP" /\ p.msg = m
  BY <1>2, PacketType, DifferentPackets
<1>14. b2c' = b2c \/ b2c' = Append(b2c, p)
  BY <1>1 DEF Answer
<1> HIDE DEF p
<1>15. Proper(setup, arrived', bin', p)
  BY <1>4, <1>8, <1>13 DEF Proper
<1>16. ProperAll(setup, arrived', bin', b2c')
  BY <1>9, <1>13, <1>14, <1>15, BackKeeps
<1>17. DInv'
  BY <1>1, <1>3, <1>9, <1>11, <1>12, <1>16, BrokerKeeps
<1> QED
  BY <1>7, <1>17 DEF Delivers

LEMMA BrokerConnectDelivers == ASSUME IInv, DInv, BrokerConnect PROVE Delivers
<1>1. UNCHANGED <<setup, published, told, out, outp, arrived>> /\ Takes("CONNECT")
  BY DEF BrokerConnect, client, bounds
<1>2. Thin(Stream', Stream)
  BY <1>1, HeadTaken
<1>3. /\ b2c \in Seq(ToClient) /\ ProperAll(setup, arrived, bin, b2c)
      /\ \A m \in bin : setup.qos[m] = 2 /\ (~setup.clean => arrived[m] = 0)
  BY DeliveryTypes DEF DInv, Unpassed
<1> DEFINE p == Packet("CONNACK", NULL)
<1>4. p \in ToClient /\ p.msg \notin OutMsgs
  BY PacketType, DifferentPackets, MessageAssumption
<1>5. CASE setup.clean /\ bin' = {} /\ Answer("CONNACK", NULL)
  <2>1. Onward
    BY <1>1, <1>5 DEF Onward, Came
  <2>2. Proper(setup, arrived', bin', p)
    BY <1>4 DEF Proper
  <2>3. b2c' = b2c \/ b2c' = Append(b2c, p)
    BY <1>5 DEF Answer
  <2> HIDE DEF p
  <2>4. ProperAll(setup, arrived', bin', b2c')
    BY <1>4, <2>1, <2>2, <2>3, BackKeeps
  <2>5. DInv'
    BY <1>1, <1>2, <1>5, <2>1, <2>4, BrokerKeeps
  <2> QED
    BY <1>1, <2>5, Unseen DEF Delivers
<1>6. CASE /\ UNCHANGED bin
           /\ \E f \in [1 .. Cardinality(Underway) -> Underway] :
                 b2c' = IF wire # "up" THEN b2c
                        ELSE Append(b2c, Packet("CONNACK", NULL))
                             \o [i \in DOMAIN f |-> Resent(f[i])]
  <2>1. PICK f \in [1 .. Cardinality(Underway) -> Underway] :
                 b2c' = IF wire # "up" THEN b2c
                        ELSE Append(b2c, p) \o [i \in DOMAIN f |-> Resent(f[i])]
    BY <1>6
  <2>2. Cardinality(Underway) \in Nat
    BY MessageAssumption, FS_Subset, FS_CardinalityType DEF Underway
  <2>3. \A m \in Underway : Resent(m) \in ToClient /\ Resent(m).msg \notin OutMsgs
    BY PacketType, DifferentPackets, MessageAssumption DEF Underway, Resent
  <2>4. \A i \in 1 .. Cardinality(Underway) : f[i] \in Underway
    OBVIOUS
  <2> DEFINE r == [i \in DOMAIN f |-> Resent(f[i])]
             h == Append(b2c, p)
  <2>5. r \in Seq(ToClient) /\ ProperAll(setup, arrived, bin, r)
    BY <2>2, <2>3, <2>4 DEF ProperAll, Proper
  <2>6. h \in Seq(ToClient) /\ ProperAll(setup, arrived, bin, h)
    <3> HIDE DEF p
    <3>1. Proper(setup, arrived, bin, p)
      BY <1>4 DEF Proper
    <3> QED
      BY <1>3, <1>4, <3>1, AppendFacts DEF ProperAll
  <2>7. b2c' = b2c \/ b2c' = h \o r
    BY <2>1
  <2> HIDE DEF r, h
  <2>8. ProperAll(setup, arrived, bin, h \o r)
    BY <2>5, <2>6, ConcatFacts DEF ProperAll
  <2>9. ProperAll(setup, arrived', bin', b2c')
    BY <1>1, <1>3, <1>6, <2>7, <2>8
  <2>10. Onward
    BY <1>1, <1>6 DEF Onward, Came
  <2>11. DInv'
    BY <1>1, <1>2, <1>3, <1>6, <2>9, <2>10, BrokerKeeps
  <2> QED
    BY <1>1, <2>11, Unseen DEF Delivers
<1> QED
  BY <1>5, <1>6 DEF BrokerConnect

LEMMA LoseDelivers == ASSUME IInv, DInv, Lose PROVE Delivers
<1>1. PICK n \in 0 .. Len(c2b), k \in 0 .. Len(b2c) :
          c2b' = SubSeq(c2b, 1, n) /\ b2c' = SubSeq(b2c, 1, k)
  BY DEF Lose, Prefix
<1>2. UNCHANGED <<setup, published, told, out, outp, arrived, bin>>
  BY DEF Lose, client, broker
<1>3. /\ c2b \in Seq(ToBroker) /\ outp \in Seq(ToBroker) /\ b2c \in Seq(ToClient)
      /\ ProperAll(setup, arrived, bin, b2c)
      /\ \A m \in bin : setup.qos[m] = 2 /\ (~setup.clean => arrived[m] = 0)
  BY DeliveryTypes DEF DInv, Unpassed
<1>4. Thin(Stream', Stream)
  BY <1>1, <1>2, <1>3, ThinPrefix DEF Stream
<1>5. ProperAll(setup, arrived', bin', b2c')
  <2>1. k \in Nat /\ k <= Len(b2c) /\ 1 \in Nat \ {0} /\ Len(b2c) \in Nat
    BY <1>3
  <2>2. \A i \in DOMAIN b2c' : 1 + i - 1 \in DOMAIN b2c /\ b2c'[i] = b2c[1 + i - 1]
    BY <1>1, <1>3, <2>1, SubSeqFacts
  <2>3. ASSUME NEW i \in DOMAIN b2c' PROVE Proper(setup, arrived', bin', b2c'[i])
    <3> DEFINE j == 1 + i - 1
    <3>1. j \in DOMAIN b2c /\ b2c'[i] = b2c[j]
      BY <2>2
    <3> HIDE DEF j
    <3> QED
      BY <1>2, <1>3, <3>1 DEF ProperAll
  <2> QED
    BY <2>3 DEF ProperAll
<1>6. Onward
  BY <1>2 DEF Onward
<1>7. DInv'
  BY <1>2, <1>3, <1>4, <1>5, <1>6, BrokerKeeps
<1> QED
  BY <1>2, <1>7, Unseen DEF Delivers

\* A new connection begins with empty queues; what waits for PUBCOMP goes on.
LEMMA ReconnectedDelivers == ASSUME IInv, DInv, Reconnected PROVE Delivers
<1>1. UNCHANGED <<setup, published, told, arrived, bin>>
  BY DEF Reconnected, bounds
<1>2. \A i \in DOMAIN out : out[i] \in OutMsg /\ out[i].msg \in OutMsgs
  <2>1. \A i \in DOMAIN out : out[i] \in OutMsg
    BY DeliveryTypes
  <2> QED
    BY <2>1 DEF OutMsg
<1>3. /\ DOMAIN out' = DOMAIN out
      /\ \A i \in DOMAIN out :
            out'[i] = [out[i] EXCEPT !.due = TRUE,
                                     !.state = IF i > MaxInflight THEN "invalid"
                                               ELSE IF Qos(out[i].msg) = 1
                                               THEN "wait_for_puback" ELSE @]
  BY DEF Reconnected, ReconnectReset
<1>4. ASSUME NEW i \in DOMAIN out
      PROVE  /\ out'[i].msg = out[i].msg
             /\ out'[i].state = IF i > MaxInflight THEN "invalid"
                                ELSE IF Qos(out[i].msg) = 1
                                THEN "wait_for_puback" ELSE out[i].state
  BY <1>2, <1>3 DEF OutMsg, OutStates
<1>5. SameBooks
  <2> SUFFICES ASSUME NEW i \in DOMAIN out
               PROVE  /\ out'[i].msg = out[i].msg
                      /\ out'[i].state = "wait_for_pubcomp"
                            <=> out[i].state = "wait_for_pubcomp"
    BY <1>3 DEF SameBooks
  <2>1. CASE out[i].state = "wait_for_pubcomp"
    <3>1. ~(i > MaxInflight)
      BY <2>1, DeliveryTypes DEF ListInv, Window
    <3>2. Qos(out[i].msg) = 2
      BY <1>2, <2>1, DeliveryTypes DEF DInv, Books, Book
    <3> QED
      BY <1>4, <2>1, <3>1, <3>2
  <2>2. CASE out[i].state # "wait_for_pubcomp"
    BY <1>4, <2>2
  <2> QED
    BY <2>1, <2>2
<1>6. /\ Books(setup, arrived, bin, out', Stream)
      /\ \A k \in DOMAIN out' : out'[k].msg \in OutMsgs /\ told[out'[k].msg] = 0
  BY <1>5, SameBooksKept
<1> DEFINE p == Packet("CONNECT", NULL)
<1>7. outp' = <<>> /\ b2c' = <<>> /\ c2b' = <<p>>
  BY DEF Reconnected, Kept
<1>8. p.msg \notin OutMsgs /\ p \in ToBroker
      /\ \A m : p # Packet("PUBLISH", m) /\ p # Packet("PUBREL", m)
  BY PacketType, DifferentPackets, MessageAssumption
<1> HIDE DEF p
<1>9. Stream' = <<p>>
  <2>1. <<p>> \in Seq(ToBroker)
    BY <1>8
  <2>2. <<p>> \o <<>> = <<p>>
    BY <2>1, ConcatEmptySeq
  <2> QED
    BY <1>7, <2>2 DEF Stream
<1>10. DOMAIN Stream' = {1} /\ Stream'[1] = p /\ DOMAIN outp' = {} /\ DOMAIN b2c' = {}
  BY <1>7, <1>9
<1>11. Sound(setup, arrived, bin, Stream')
  BY <1>8, <1>10 DEF Sound, ProperAll, Proper, Fresh, Single, Released
<1>12. \A m : No(Stream', "PUBREL", m)
  BY <1>8, <1>10 DEF No
<1>13. Books(setup, arrived, bin, out', Stream')
  BY <1>6, <1>12 DEF Books, Book
<1>14. ProperAll(setup, arrived, bin, b2c')
  BY <1>10 DEF ProperAll
<1>15. Untold(setup, told', out', published', outp')
  BY <1>1, <1>6, <1>10 DEF DInv, Untold
<1>16. DInv'
  BY <1>1, <1>11, <1>13, <1>14, <1>15 DEF DInv
<1> QED
  BY <1>1, <1>16, Unseen DEF Delivers

-----------------------------------------------------------------------------

LEMMA DeliversStep == ASSUME IInv, DInv, [Next]_vars PROVE Delivers
<1>1. CASE Reconnected
  BY <1>1, ReconnectedDelivers
<1>2. CASE (ClientConnect /\ ~Reconnected) \/ RetryElapse \/ KeepaliveElapse \/ UNCHANGED vars
  BY <1>2, SilentDelivers
<1>3. CASE \E m \in OutMsgs : Publish(m)
  BY <1>3, PublishDelivers
<1>4. CASE LoopRead
  BY <1>4, ConnackDelivers, SilentDelivers, IncomingDelivers, PubrecDelivers, AckedDelivers
     DEF LoopRead
<1>5. CASE LoopWrite
  BY <1>5, LoopWriteDelivers
<1>6. CASE Misc
  BY <1>6, MiscDelivers
<1>7. CASE Broker \/ BrokerRefuse \/ BrokerPublish
  BY <1>7, BrokerPassive, ReceiveDelivers, PubrelDelivers, BrokerConnectDelivers DEF Broker
<1>8. CASE Lose
  BY <1>8, LoseDelivers
<1> QED
  BY <1>1, <1>2, <1>3, <1>4, <1>5, <1>6, <1>7, <1>8 DEF Next, Application, Reconnect

LEMMA DeliversInit == Init => DInv /\ Delivery!Init
<1> SUFFICES ASSUME Init PROVE DInv /\ Delivery!Init
  OBVIOUS
<1>1. /\ out = <<>> /\ outp = <<>> /\ c2b = <<>> /\ b2c = <<>> /\ bin = {}
      /\ published = {} /\ told = [m \in OutMsgs |-> 0]
      /\ arrived = [m \in OutMsgs |-> 0] /\ setup \in Setups
  BY DEF Init
<1>2. Stream = <<>>
  BY <1>1 DEF Stream
<1>3. DOMAIN <<>> = {}
  OBVIOUS
<1>4. DInv
  BY <1>1, <1>2, <1>3 DEF DInv, Sound, ProperAll, Fresh, Single, Released, Books, Untold,
     Unpassed
<1>5. Delivery!Init
  BY <1>1 DEF Delivery!Init, Delivery!None
<1> QED
  BY <1>4, <1>5

\* For any messages, losses and limits the library keeps what MqttDelivery
\* promises: on_publish is called at most once for a message, after it has
\* arrived where an acknowledgement says so, and a QoS 0 message, or a QoS 2
\* message of a session that is kept, arrives at most once (_mosquitto_send_*,
\* _mosquitto_handle_*, _mosquitto_messages_reconnect_reset).
THEOREM KeepsPromises == Spec => DeliverySpec
<1>1. Init => DInv /\ Delivery!Init
  BY DeliversInit
<1>2. IInv /\ DInv /\ [Next]_vars => DInv' /\ [Delivery!Next]_(Delivery!vars)
  BY DeliversStep DEF Delivers
<1> QED
  BY Invariance, <1>1, <1>2, PTL DEF Spec, DeliverySpec, Delivery!Spec

=============================================================================
