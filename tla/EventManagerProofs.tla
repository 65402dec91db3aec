------------------------ MODULE EventManagerProofs ------------------------
(***************************************************************************)
(* For every set of processes and devices and every size of the tables:    *)
(* the state of the event manager is well typed, and however the manager   *)
(* and the processes die and start again, it implements EventBus.          *)
(***************************************************************************)
EXTENDS EventManager, FiniteSetTheorems, SequenceTheorems,
        WellFoundedInduction, TLAPS

-----------------------------------------------------------------------------
(* The invariant, in three parts: the types, with the bounds they rest on;  *)
(* who is connected where; and what a receiver may still get.               *)

TypeManager ==
    /\ up \in BOOLEAN /\ reg \in BOOLEAN
    /\ fds \in [Fds -> End \cup {FREE, DEAD}]
    /\ conn_fd \in [1 .. ConnSize -> 0 .. MaxFd]
    /\ queue \in [{"recv", "send"} -> Seq(End \cup {DEAD})]
    /\ conn \in 0 .. MaxFd
TypeDist == dist \in [Distributors -> {NULL} \cup [event : Event, at : 1 .. ConnSize]]
TypeDevices ==
    /\ event_fd \in [Slots -> Devices \cup {"uevent", "gone", NULL}]
    /\ ready \subseteq Slots /\ news \in Seq(Devices) /\ plugged \subseteq Devices
TypeClients ==
    /\ rx \in [Apps -> {"none", "open", "lost"}]
    /\ tx \in [Apps -> {"idle", "connected", "sent"}]
    /\ inbox \in [End -> Seq(Event \cup {YES})]
    /\ \A a \in Apps : inbox[Of(a, "recv")] \in Seq(Event)
    /\ got \in [Apps -> [Sources -> Seq(1 .. MaxEvents + MaxPlugs)]]
\* A device that is added gives one event more than the sources may send by
\* themselves: it is counted before it is plugged in and while it is news.
TypeCounts ==
    /\ deaths \in 0 .. MaxDeaths /\ restarts \in 0 .. MaxRestarts
    /\ plugs \in 0 .. MaxPlugs
    /\ posted \in [Sources -> 0 .. MaxEvents + MaxPlugs]
    /\ Len(news) + plugs <= MaxPlugs
    /\ posted["dev"] + Len(news) + plugs <= MaxEvents + MaxPlugs
    /\ \A a \in Apps : /\ tx[a] = "connected" => posted[a] < MaxEvents
                       /\ tx[a] = "sent" => posted[a] > 0

Types == TypeManager /\ TypeDist /\ TypeDevices /\ TypeClients /\ TypeCounts

\* Every connection is in one place, and its process knows of it.
Queued(e) == \E i \in DOMAIN queue[e.role] : queue[e.role][i] = e
OneFd == \A f, g \in Fds : fds[f] \in End /\ fds[f] = fds[g] => f = g
OneTurn ==
    \A r \in {"recv", "send"} : \A i \in DOMAIN queue[r] : queue[r][i] \in End =>
        /\ queue[r][i].role = r
        /\ \A j \in DOMAIN queue[r] : queue[r][j] = queue[r][i] => i = j
        /\ \A f \in Fds : fds[f] # queue[r][i]
Known ==
    \A a \in Apps :
        /\ Attached(Of(a, "recv")) => rx[a] = "open"
        /\ Attached(Of(a, "send")) => tx[a] # "idle"
        /\ tx[a] = "idle" \/ Queued(Of(a, "send")) => inbox[Of(a, "send")] = <<>>
\* As long as receivers may register, conn_fd holds open descriptors of
\* receivers, or of ones that are gone, and none twice; afterwards it holds
\* numbers that are used again, but never for a receiver.
Table ==
    IF reg
    THEN \A i \in 1 .. ConnSize : conn_fd[i] # 0 =>
            /\ fds[conn_fd[i]] # FREE
            /\ \A a \in Apps : fds[conn_fd[i]] # Of(a, "send")
            /\ \A j \in 1 .. ConnSize : conn_fd[j] = conn_fd[i] => i = j
    ELSE /\ queue["recv"] = <<>>
         /\ \A i \in 1 .. ConnSize, a \in Apps :
               conn_fd[i] # 0 => fds[conn_fd[i]] # Of(a, "recv")
Wiring == OneFd /\ OneTurn /\ Known /\ Table /\ (conn # 0 => dist["proto"] = NULL)

\* What a receiver has got of a source, or is about to read, is older than n.
Before(a, s, n) ==
    /\ \A k \in DOMAIN got[a][s] : got[a][s][k] < n
    /\ \A k \in DOMAIN inbox[Of(a, "recv")] :
          inbox[Of(a, "recv")][k].source = s => inbox[Of(a, "recv")][k].n < n
\* The distribution t has gone past the place of the receiver.
Passed(t, a) ==
    \E i \in 1 .. ConnSize :
        i < dist[t].at /\ conn_fd[i] # 0 /\ fds[conn_fd[i]] = Of(a, "recv")
InOrder ==
    \A a \in Apps : \A j \in DOMAIN inbox[Of(a, "recv")] :
        LET b == inbox[Of(a, "recv")]
        IN  /\ \A k \in DOMAIN got[a][b[j].source] : got[a][b[j].source][k] < b[j].n
            /\ \A i \in DOMAIN b : i < j /\ b[i].source = b[j].source => b[i].n < b[j].n
Sendable == \A a \in Apps, s \in Sources : Before(a, s, posted[s] + 1)
Unread ==
    \A s \in Apps : tx[s] = "sent" /\ Attached(Of(s, "send")) =>
        /\ \A a \in Apps : Before(a, s, posted[s])
        /\ dist["proto"] # NULL /\ dist["proto"].event.source = s
               => dist["proto"].event.n < posted[s]
Pending ==
    \A t \in Distributors : dist[t] # NULL =>
        /\ dist[t].event.n <= posted[dist[t].event.source]
        /\ dist[t].event.source = "dev" <=> t = "dev"
        /\ \A a \in Apps :
              reg /\ ~Passed(t, a) => Before(a, dist[t].event.source, dist[t].event.n)
Order == InOrder /\ Sendable /\ Unread /\ Pending

IInv == Types /\ Wiring /\ Order

-----------------------------------------------------------------------------
(* The names and the operators the model is built from.                     *)

LEMMA LeastNat ==
    ASSUME NEW T \in SUBSET Nat, T # {}
    PROVE  \E n \in T : \A k \in T : n <= k
<1> DEFINE R == OpToRel(<, Nat)
<1>1. IsWellFoundedOn(R, Nat)
  BY NatLessThanWellFounded
<1>2. \A k \in T, n \in T : ~(<<k, n>> \in R) => n <= k
  BY DEF OpToRel
<1> HIDE DEF R
<1>3. PICK n \in T : \A k \in T : ~(<<k, n>> \in R)
  BY <1>1, WFMin
<1>4. \A k \in T : n <= k
  BY <1>2, <1>3
<1> QED
  BY <1>4

LEMMA MinIn ==
    ASSUME NEW T \in SUBSET Nat, T # {}
    PROVE  Min(T) \in T
  BY LeastNat DEF Min

LEMMA Ends ==
    /\ FREE \notin End /\ DEAD \notin End /\ FREE # DEAD
    /\ \A a \in Apps : /\ Of(a, "recv") \in End /\ Of(a, "send") \in End
                       /\ Of(a, "recv") # Of(a, "send")
                       /\ Of(a, "recv").role = "recv" /\ Of(a, "send").role = "send"
                       /\ Of(a, "recv").app = a /\ Of(a, "send").app = a
    /\ \A e \in End : e.app \in Apps /\ (e = Of(e.app, "recv") \/ e = Of(e.app, "send"))
                      /\ e = Of(e.app, e.role)
  BY DEF End, Of, FREE, DEAD

LEMMA Names == "dev" \in Sources /\ Apps \subseteq Sources /\ "dev" \notin Apps
  BY NameAssumption DEF Sources

LEMMA Numbers ==
    /\ ConnSize \in Nat /\ ConnSize > 0 /\ EventSize \in Nat /\ EventSize > 0
    /\ MaxFd \in Nat /\ MaxFd > 0 /\ MaxEvents \in Nat /\ MaxDeaths \in Nat
    /\ MaxRestarts \in Nat /\ MaxPlugs \in Nat /\ MaxBuffer \in Nat
  BY SizeAssumption, BoundAssumption

LEMMA HeadTail ==
    ASSUME NEW T, NEW q \in Seq(T), q # <<>>
    PROVE  /\ Head(q) \in T /\ Tail(q) \in Seq(T) /\ Head(q) = q[1] /\ 1 \in DOMAIN q
           /\ Len(Tail(q)) = Len(q) - 1 /\ Len(q) > 0
           /\ DOMAIN Tail(q) = 1 .. Len(q) - 1 /\ DOMAIN q = 1 .. Len(q)
           /\ \A i \in DOMAIN Tail(q) : i + 1 \in DOMAIN q /\ Tail(q)[i] = q[i + 1]
<1>1. Head(q) \in T /\ Tail(q) \in Seq(T) /\ Len(Tail(q)) = Len(q) - 1
      /\ \A i \in 1 .. Len(Tail(q)) : Tail(q)[i] = q[i + 1]
  BY HeadTailProperties
<1>2. Len(q) \in Nat /\ Len(q) > 0 /\ DOMAIN q = 1 .. Len(q) /\ Head(q) = q[1]
  OBVIOUS
<1>3. DOMAIN Tail(q) = 1 .. Len(Tail(q))
  BY <1>1
<1> QED
  BY <1>1, <1>2, <1>3

LEMMA Appended ==
    ASSUME NEW T, NEW q \in Seq(T), NEW x \in T
    PROVE  /\ Append(q, x) \in Seq(T) /\ Len(Append(q, x)) = Len(q) + 1
           /\ DOMAIN q = 1 .. Len(q) /\ Len(q) \in Nat
           /\ DOMAIN Append(q, x) = (DOMAIN q) \cup {Len(q) + 1}
           /\ \A i \in DOMAIN q : Append(q, x)[i] = q[i]
           /\ Append(q, x)[Len(q) + 1] = x
  BY AppendProperties

LEMMA OpenedTyped ==
    ASSUME plugged \subseteq Devices, NEW q \in Found(plugged)
    PROVE  Opened(q) \in [Slots -> Devices \cup {"uevent", "gone", NULL}]
<1>1. Cardinality(plugged) \in Nat
  BY DeviceAssumption, FS_Subset, FS_CardinalityType
<1>2. q \in Seq(plugged)
  BY <1>1 DEF Found
<1>3. \A i \in Slots : i <= Len(q) => q[i] \in Devices
  BY <1>2 DEF Slots
<1> QED
  BY <1>3 DEF Opened

LEMMA TypesGive == Types => TypeOK
<1> SUFFICES ASSUME Types PROVE TypeOK
  OBVIOUS
<1>1. \A t \in Distributors :
          dist[t] # NULL => dist[t] \in [event : Event, at : 1 .. ConnSize]
  BY DEF Types, TypeDist
<1> QED
  BY <1>1 DEF Types, TypeOK, TypeManager, TypeDevices, TypeClients, TypeCounts

-----------------------------------------------------------------------------
(* The types.                                                               *)

LEMMA InitTypes == Init => Types
<1> SUFFICES ASSUME Init
             PROVE  Types
  OBVIOUS
<1> USE DEF Init
<1>1. TypeManager
  BY Numbers DEF TypeManager, NoFds, NoConnFd, NoQueue
<1>2. TypeDist
  BY DEF TypeDist, NoDist
<1>3. TypeDevices
  <2>1. plugged \subseteq Devices /\ \E q \in Found(plugged) : event_fd = Opened(q)
    OBVIOUS
  <2> QED
    BY <2>1, OpenedTyped DEF TypeDevices
<1>4. TypeClients
  <2>1. \A a \in Apps : inbox[Of(a, "recv")] = <<>>
    BY Ends
  <2>2. Nothing \in [Sources -> Seq(1 .. MaxEvents + MaxPlugs)]
    BY DEF Nothing
  <2>3. inbox \in [End -> Seq(Event \cup {YES})]
    OBVIOUS
  <2>4. \A a \in Apps : inbox[Of(a, "recv")] \in Seq(Event)
    <3>1. <<>> \in Seq(Event)
      OBVIOUS
    <3> QED
      BY <2>1, <3>1, Zenon
  <2> QED
    BY <2>2, <2>3, <2>4 DEF TypeClients
<1>5. TypeCounts
  BY Numbers, Names DEF TypeCounts
<1> QED
  BY <1>1, <1>2, <1>3, <1>4, <1>5 DEF Types

\* What is written to a connection whose end is e.
LEMMA TargetTyped ==
    ASSUME TypeManager, TypeDist, NEW t \in Distributors, dist[t] # NULL
    PROVE  /\ dist[t] \in [event : Event, at : 1 .. ConnSize]
           /\ conn_fd[dist[t].at] \in 0 .. MaxFd
           /\ Target(t) \in End \cup {FREE, DEAD}
           /\ Target(t) \in End => /\ conn_fd[dist[t].at] # 0
                                   /\ conn_fd[dist[t].at] \in Fds
                                   /\ fds[conn_fd[dist[t].at]] = Target(t)
<1>1. dist[t] \in [event : Event, at : 1 .. ConnSize]
  BY DEF TypeDist
<1>2. conn_fd[dist[t].at] \in 0 .. MaxFd
  BY <1>1 DEF TypeManager
<1>3. conn_fd[dist[t].at] # 0 => conn_fd[dist[t].at] \in Fds
  BY <1>2, Numbers DEF Fds
<1> QED
  BY <1>1, <1>2, <1>3, Ends DEF TypeManager, Target

LEMMA ManagerStep == Types /\ [Next]_vars => TypeManager'
<1> SUFFICES ASSUME Types, [Next]_vars
             PROVE  TypeManager'
  OBVIOUS
<1> USE DEF TypeManager
<1>0. TypeManager
  BY DEF Types
<1>1. CASE Die
  <2>1. NoFds \in [Fds -> End \cup {FREE, DEAD}]
    BY DEF NoFds
  <2>2. NoConnFd \in [1 .. ConnSize -> 0 .. MaxFd] /\ 0 \in 0 .. MaxFd
    BY Numbers DEF NoConnFd
  <2>3. NoQueue \in [{"recv", "send"} -> Seq(End \cup {DEAD})]
    BY DEF NoQueue
  <2> QED
    BY <1>1, <2>1, <2>2, <2>3 DEF Die
<1>2. ASSUME NEW a \in Apps, Register(a)
      PROVE  TypeManager'
  <2>1. Append(queue["recv"], Of(a, "recv")) \in Seq(End \cup {DEAD})
    BY <1>0, Ends, AppendProperties
  <2> QED
    BY <1>0, <1>2, <2>1 DEF Register, Connects
<1>3. ASSUME NEW a \in Apps, Restart(a)
      PROVE  TypeManager'
  <2>1. \A x \in End \cup {FREE, DEAD} : Mourn(x, a) \in End \cup {FREE, DEAD}
    BY DEF Mourn
  <2>2. \A x \in End \cup {DEAD} : Mourn(x, a) \in End \cup {DEAD}
    BY DEF Mourn
  <2>3. \A q \in Seq(End \cup {DEAD}) :
            [i \in DOMAIN q |-> Mourn(q[i], a)] \in Seq(End \cup {DEAD})
    BY <2>2
  <2> QED
    BY <1>0, <1>3, <2>1, <2>3 DEF Restart
<1>4. ASSUME NEW a \in Apps, SendConnect(a)
      PROVE  TypeManager'
  <2>1. Append(queue["send"], Sent(a)) \in Seq(End \cup {DEAD})
    BY <1>0, Ends, AppendProperties DEF Sent
  <2> QED
    BY <1>0, <1>4, <2>1 DEF SendConnect
<1>5. ASSUME NEW a \in Apps, Answered(a)
      PROVE  TypeManager'
  BY <1>0, <1>5 DEF Answered
<1>6. ASSUME NEW r \in {"recv", "send"}, NEW f \in Fds, Accepts(r, f)
      PROVE  /\ fds' \in [Fds -> End \cup {FREE, DEAD}]
             /\ Tail(queue[r]) \in Seq(End \cup {DEAD})
  BY <1>0, <1>6, HeadTail DEF Accepts
<1>7. CASE RegAccept
  <2>1. PICK f \in Fds : Accepts("recv", f) /\ Store(f)
    BY <1>7 DEF RegAccept
  <2>2. f \in 0 .. MaxFd
    BY Numbers DEF Fds
  <2>3. conn_fd' \in [1 .. ConnSize -> 0 .. MaxFd]
    BY <1>0, <2>1, <2>2 DEF Store
  <2> QED
    BY <1>0, <1>6, <1>7, <2>1, <2>3 DEF RegAccept
<1>8. CASE RegFull
  <2>1. Head(queue["recv"]) \in End \cup {DEAD}
    BY <1>0, <1>8, HeadTail DEF RegFull
  <2>2. fds' \in [Fds -> End \cup {FREE, DEAD}]
    BY <1>0, <1>8, <2>1 DEF RegFull
  <2>3. queue' \in [{"recv", "send"} -> Seq(End \cup {DEAD})]
    BY <1>0, <1>8 DEF RegFull
  <2> QED
    BY <1>0, <1>8, <2>2, <2>3 DEF RegFull
<1>9. CASE ProtoAccept
  <2>1. PICK f \in Fds : Accepts("send", f) /\ conn' = f
    BY <1>9 DEF ProtoAccept
  <2>2. conn' \in 0 .. MaxFd
    BY <2>1, Numbers DEF Fds
  <2> QED
    BY <1>0, <1>6, <1>9, <2>1, <2>2 DEF ProtoAccept
<1>10. CASE ProtoGone \/ \E a \in Apps : ProtoRead(a)
  BY <1>0, <1>10, Numbers DEF ProtoGone, ProtoRead, Feedback
<1>11. CASE Boot \/ Dev \/ \E t \in Distributors : Distribute(t)
  BY <1>0, <1>11 DEF Boot, Dev, DevSelect, DevKey, DevGone, DevAdded, DevMisc,
                     Handles, Distribute, manager
<1>12. ASSUME NEW a \in Apps, Receive(a) \/ SendEvent(a) \/ SendFails(a)
       PROVE  TypeManager'
  BY <1>0, <1>12 DEF Receive, SendEvent, SendFails, manager
<1>13. CASE UNCHANGED vars \/ \E d \in Devices : Plug(d) \/ Unplug(d)
  BY <1>0, <1>13 DEF vars, Plug, Unplug, manager
<1> QED
  BY <1>1, <1>2, <1>3, <1>4, <1>5, <1>7, <1>8, <1>9, <1>10, <1>11, <1>12, <1>13
     DEF Next, Manager, Proto, App, HandlerGet, Reconnect

LEMMA DevicesStep == Types /\ [Next]_vars => TypeDevices'
<1> SUFFICES ASSUME Types, [Next]_vars
             PROVE  TypeDevices'
  OBVIOUS
<1> USE DEF TypeDevices
<1>0. TypeDevices
  BY DEF Types
<1>1. CASE Die
  BY <1>0, <1>1 DEF Die
<1>2. CASE Boot
  BY <1>0, <1>2, OpenedTyped DEF Boot
<1>3. CASE DevSelect
  BY <1>0, <1>3 DEF DevSelect, Watched
<1>4. ASSUME NEW i \in Slots, DevKey(i) \/ DevGone(i) \/ DevAdded(i) \/ DevMisc(i)
      PROVE  TypeDevices'
  <2>1. news' \in Seq(Devices)
    BY <1>0, <1>4, HeadTail DEF DevKey, DevGone, DevAdded, DevMisc
  <2>2. event_fd' \in [Slots -> Devices \cup {"uevent", "gone", NULL}]
    BY <1>0, <1>4 DEF DevKey, DevGone, DevAdded, DevMisc, Openevent
  <2> QED
    BY <1>0, <1>4, <2>1, <2>2 DEF DevKey, DevGone, DevAdded, DevMisc, Handles
<1>5. ASSUME NEW d \in Devices, Plug(d) \/ Unplug(d)
      PROVE  TypeDevices'
  <2>1. Append(news, d) \in Seq(Devices)
    BY <1>0, AppendProperties
  <2> QED
    BY <1>0, <1>5, <2>1 DEF Plug, Unplug
<1>6. CASE RegAccept \/ RegFull \/ Proto \/ \E t \in Distributors : Distribute(t)
  BY <1>0, <1>6 DEF RegAccept, RegFull, Proto, ProtoAccept, ProtoGone, ProtoRead,
                    Distribute, devices
<1>7. ASSUME NEW a \in Apps, App(a)
      PROVE  TypeDevices'
  BY <1>0, <1>7 DEF App, HandlerGet, Reconnect, Register, Receive, Restart,
                    SendConnect, SendEvent, Answered, SendFails, devices
<1>8. CASE UNCHANGED vars
  BY <1>0, <1>8 DEF vars, devices
<1> QED
  BY <1>1, <1>2, <1>3, <1>4, <1>5, <1>6, <1>7, <1>8 DEF Next, Manager, Dev

\* The number of the event that is passed on.
LEMMA BeginTyped ==
    ASSUME TypeDist, NEW t \in Distributors, NEW s \in Sources, Begin(t, s),
           posted'[s] \in 1 .. MaxEvents + MaxPlugs
    PROVE  TypeDist'
<1>1. 1 \in 1 .. ConnSize
  BY Numbers
<1>2. [event |-> [source |-> s, n |-> posted'[s]], at |-> 1]
          \in [event : Event, at : 1 .. ConnSize]
  BY <1>1 DEF Event
<1> QED
  BY <1>2 DEF TypeDist, Begin

\* An event of the devices: one of the kinds that are bounded, or a device added.
LEMMA SharesTyped ==
    ASSUME TypeCounts, Shares, news \in Seq(Devices), Len(news') \in Nat,
           \/ posted["dev"] < MaxEvents /\ news' = news
           \/ Len(news) > 0 /\ Len(news') = Len(news) - 1
    PROVE  /\ posted'["dev"] \in 1 .. MaxEvents + MaxPlugs
           /\ posted' \in [Sources -> 0 .. MaxEvents + MaxPlugs]
           /\ posted'["dev"] + Len(news') + plugs <= MaxEvents + MaxPlugs
           /\ \A a \in Apps : posted'[a] = posted[a]
<1> DEFINE p == posted["dev"]
           w == Len(news)
<1>1. p \in Nat /\ w \in Nat /\ plugs \in Nat /\ w + plugs <= MaxPlugs
      /\ p + w + plugs <= MaxEvents + MaxPlugs
  BY Names, Numbers DEF TypeCounts
<1>2. posted' = [posted EXCEPT !["dev"] = p + 1]
  BY DEF Shares
<1>3. p + 1 \in 1 .. MaxEvents + MaxPlugs
      /\ p + 1 + Len(news') + plugs <= MaxEvents + MaxPlugs
  <2> HIDE DEF p, w
  <2>1. CASE p < MaxEvents /\ Len(news') = w
    BY <1>1, <2>1, Numbers
  <2>2. CASE w > 0 /\ Len(news') = w - 1
    BY <1>1, <2>2, Numbers
  <2> QED
    BY <2>1, <2>2 DEF p, w
<1> HIDE DEF p, w
<1>4. p + 1 \in 0 .. MaxEvents + MaxPlugs
  BY <1>3
<1> QED
  BY <1>2, <1>3, <1>4, Names DEF TypeCounts

\* The steps of the thread that reads the devices.
DevHandle(i) == DevKey(i) \/ DevGone(i) \/ DevAdded(i) \/ DevMisc(i)

LEMMA DevHandled ==
    ASSUME Types, NEW i \in Slots, DevHandle(i)
    PROVE  /\ UNCHANGED <<up, reg, fds, conn_fd, queue, conn, rx, tx, inbox, got,
                          deaths, restarts, plugs>>
           /\ dist["dev"] = NULL
           /\ \/ UNCHANGED <<dist, posted, news>>
              \/ /\ Shares
                 /\ \/ posted["dev"] < MaxEvents /\ news' = news
                    \/ Len(news) > 0 /\ Len(news') = Len(news) - 1 /\ Len(news') \in Nat
<1>1. news # <<>> => Len(news) > 0 /\ Len(Tail(news)) = Len(news) - 1
                     /\ Len(Tail(news)) \in Nat
  BY HeadTail DEF Types, TypeDevices
<1> QED
  BY <1>1 DEF DevHandle, DevKey, DevGone, DevAdded, DevMisc, Handles, bounds

LEMMA CountsStep == Types /\ [Next]_vars => TypeCounts'
<1> SUFFICES ASSUME Types, [Next]_vars
             PROVE  TypeCounts'
  OBVIOUS
<1>0. TypeCounts /\ news \in Seq(Devices)
  BY DEF Types, TypeDevices
<1>n. /\ deaths \in Nat /\ restarts \in Nat /\ plugs \in Nat /\ Len(news) \in Nat
      /\ posted["dev"] \in Nat
  BY <1>0, Numbers, Names DEF TypeCounts
<1>1. CASE Die
  <2>1. /\ deaths' \in 0 .. MaxDeaths /\ Len(news') = 0
        /\ UNCHANGED <<posted, tx, restarts, plugs>>
    BY <1>0, <1>1, <1>n, Numbers DEF Die, clients, TypeCounts
  <2>2. Len(news') + plugs <= MaxPlugs
        /\ posted["dev"] + Len(news') + plugs <= MaxEvents + MaxPlugs
    BY <1>0, <1>n, <2>1, Numbers DEF TypeCounts
  <2> QED
    BY <1>0, <2>1, <2>2 DEF TypeCounts
<1>2. ASSUME UNCHANGED <<deaths, restarts, plugs, posted, news, tx>>
      PROVE  TypeCounts'
  BY <1>0, <1>2 DEF TypeCounts
<1>3. ASSUME NEW a \in Apps, Restart(a)
      PROVE  TypeCounts'
  <2>1. UNCHANGED <<deaths, plugs, posted, news>> /\ restarts' \in 0 .. MaxRestarts
        /\ tx' = [tx EXCEPT ![a] = "idle"]
    BY <1>0, <1>3, <1>n, Numbers DEF Restart, devices, TypeCounts
  <2>2. \A b \in Apps : tx'[b] = tx[b] \/ tx'[b] = "idle"
    BY <2>1 DEF Types, TypeClients
  <2> QED
    BY <1>0, <2>1, <2>2 DEF TypeCounts
<1>4. ASSUME NEW a \in Apps, SendConnect(a) \/ Answered(a) \/ SendFails(a)
      PROVE  TypeCounts'
  <2>1. UNCHANGED <<deaths, restarts, plugs, posted, news>>
    BY <1>4 DEF SendConnect, Answered, SendFails, devices, bounds
  <2>2. \A b \in Apps : tx'[b] = tx[b] \/ tx'[b] = "idle"
                        \/ (tx'[b] = "connected" /\ posted[b] < MaxEvents)
    BY <1>4 DEF SendConnect, Answered, SendFails, SendDone, Types, TypeClients
  <2> QED
    BY <1>0, <2>1, <2>2 DEF TypeCounts
<1>5. ASSUME NEW a \in Apps, SendEvent(a)
      PROVE  TypeCounts'
  <2>1. /\ UNCHANGED <<deaths, restarts, plugs, news>>
        /\ posted' = [posted EXCEPT ![a] = @ + 1] /\ tx' = [tx EXCEPT ![a] = "sent"]
        /\ tx[a] = "connected"
    BY <1>5 DEF SendEvent, devices, bounds
  <2>2. posted[a] \in Nat /\ posted[a] < MaxEvents /\ a # "dev"
    BY <1>0, <2>1, Names DEF TypeCounts
  <2>3. posted[a] + 1 \in 0 .. MaxEvents + MaxPlugs /\ posted[a] + 1 > 0
    BY <2>2, Numbers
  <2>4. posted' \in [Sources -> 0 .. MaxEvents + MaxPlugs]
    BY <1>0, <2>1, <2>3 DEF TypeCounts
  <2>5. posted'["dev"] = posted["dev"] /\ posted'[a] = posted[a] + 1
        /\ \A b \in Apps : b # a => posted'[b] = posted[b]
    BY <1>0, <2>1, <2>2, Names DEF TypeCounts
  <2>6. \A b \in Apps : b # a => tx'[b] = tx[b]
    BY <2>1 DEF Types, TypeClients
  <2>7. tx'[a] = "sent"
    BY <2>1 DEF Types, TypeClients
  <2> QED
    BY <1>0, <2>1, <2>3, <2>4, <2>5, <2>6, <2>7 DEF TypeCounts
<1>6. ASSUME NEW i \in Slots, DevHandle(i)
      PROVE  TypeCounts'
  <2>1. CASE UNCHANGED <<posted, news>>
    BY <1>2, <1>6, <2>1, DevHandled
  <2>2. CASE Shares /\ posted["dev"] < MaxEvents /\ news' = news
    BY <1>0, <1>6, <1>n, <2>2, DevHandled, SharesTyped DEF TypeCounts
  <2>3. CASE /\ Shares /\ Len(news) > 0 /\ Len(news') = Len(news) - 1
             /\ Len(news') \in Nat
    <3>1. Len(news') + plugs <= MaxPlugs
      BY <1>0, <1>n, <2>3, Numbers DEF TypeCounts
    <3> QED
      BY <1>0, <1>6, <2>3, <3>1, DevHandled, SharesTyped DEF TypeCounts
  <2> QED
    BY <1>6, <2>1, <2>2, <2>3, DevHandled
<1>7. ASSUME NEW d \in Devices, Plug(d) \/ Unplug(d)
      PROVE  TypeCounts'
  <2>1. UNCHANGED <<deaths, restarts, posted, tx>> /\ plugs > 0 /\ plugs' = plugs - 1
    BY <1>7 DEF Plug, Unplug, clients
  <2>2. Len(news') = Len(news) \/ Len(news') = Len(news) + 1
    BY <1>0, <1>7, AppendProperties DEF Plug, Unplug
  <2>3. /\ plugs' \in 0 .. MaxPlugs /\ Len(news') + plugs' <= MaxPlugs
        /\ posted["dev"] + Len(news') + plugs' <= MaxEvents + MaxPlugs
    BY <1>0, <1>n, <2>1, <2>2, Numbers DEF TypeCounts
  <2> QED
    BY <1>0, <2>1, <2>3 DEF TypeCounts
<1>8. CASE Boot \/ DevSelect \/ RegAccept \/ RegFull \/ Proto
           \/ \E t \in Distributors : Distribute(t)
  BY <1>2, <1>8 DEF Boot, DevSelect, RegAccept, RegFull, Proto, ProtoAccept,
                    ProtoRead, ProtoGone, Distribute, devices, clients, bounds
<1>9. ASSUME NEW a \in Apps, Register(a) \/ Receive(a)
      PROVE  TypeCounts'
  BY <1>2, <1>9 DEF Register, Receive, devices, bounds
<1>10. CASE UNCHANGED vars
  BY <1>2, <1>10 DEF vars, devices, clients, bounds
<1> QED
  BY <1>1, <1>3, <1>4, <1>5, <1>6, <1>7, <1>8, <1>9, <1>10
     DEF Next, Manager, Dev, DevHandle, App, HandlerGet, Reconnect

LEMMA DistStep == Types /\ [Next]_vars => TypeDist'
<1> SUFFICES ASSUME Types, [Next]_vars
             PROVE  TypeDist'
  OBVIOUS
<1>0. TypeDist /\ TypeManager /\ TypeCounts /\ news \in Seq(Devices)
  BY DEF Types, TypeDevices
<1>1. CASE Die
  BY <1>1 DEF Die, NoDist, TypeDist
<1>2. ASSUME NEW t \in Distributors, Distribute(t)
      PROVE  TypeDist'
  <2>1. dist[t] \in [event : Event, at : 1 .. ConnSize]
    BY <1>0, <1>2, TargetTyped DEF Distribute
  <2>6. dist' = [dist EXCEPT ![t] = IF dist[t].at = ConnSize THEN NULL
                              ELSE [dist[t] EXCEPT !.at = dist[t].at + 1]]
    BY <1>2 DEF Distribute, Onward
  <2>2. dist[t].at # ConnSize => dist[t].at + 1 \in 1 .. ConnSize
    BY <2>1, Numbers
  <2>3. dist[t].at # ConnSize =>
            [dist[t] EXCEPT !.at = dist[t].at + 1] \in [event : Event, at : 1 .. ConnSize]
    BY <2>1, <2>2
  <2> DEFINE v == IF dist[t].at = ConnSize THEN NULL
                ELSE [dist[t] EXCEPT !.at = dist[t].at + 1]
  <2>4. v \in {NULL} \cup [event : Event, at : 1 .. ConnSize]
    BY <2>3
  <2>5. dist' = [dist EXCEPT ![t] = v]
    BY <2>6
  <2> HIDE DEF v
  <2> QED
    BY <1>0, <2>4, <2>5 DEF TypeDist
<1>3. ASSUME NEW a \in Apps, ProtoRead(a)
      PROVE  TypeDist'
  <2>1. Begin("proto", a) /\ posted'[a] = posted[a] /\ tx[a] = "sent"
    BY <1>3 DEF ProtoRead
  <2>2. posted[a] \in 1 .. MaxEvents + MaxPlugs
    BY <1>0, <2>1, Names, Numbers DEF TypeCounts
  <2> QED
    BY <1>0, <2>1, <2>2, BeginTyped, Names DEF Distributors
<1>4. ASSUME NEW i \in Slots, DevHandle(i)
      PROVE  TypeDist'
  <2>1. Len(news) \in Nat
    BY <1>0
  <2>2. ASSUME Shares, ~UNCHANGED <<dist, posted, news>>
        PROVE  posted'["dev"] \in 1 .. MaxEvents + MaxPlugs
    <3>1. CASE posted["dev"] < MaxEvents /\ news' = news
      BY <1>0, <2>1, <2>2, <3>1, SharesTyped
    <3>2. CASE Len(news) > 0 /\ Len(news') = Len(news) - 1 /\ Len(news') \in Nat
      BY <1>0, <2>2, <3>2, SharesTyped
    <3> QED
      BY <1>4, <2>2, <3>1, <3>2, DevHandled
  <2>3. Shares => Begin("dev", "dev")
    BY DEF Shares
  <2>4. CASE Shares /\ ~UNCHANGED <<dist, posted, news>>
    BY <1>0, <2>2, <2>3, <2>4, BeginTyped, Names DEF Distributors
  <2>5. CASE UNCHANGED <<dist, posted, news>>
    BY <1>0, <2>5 DEF TypeDist
  <2> QED
    BY <1>4, <2>4, <2>5, DevHandled
<1>5. ASSUME UNCHANGED dist
      PROVE  TypeDist'
  BY <1>0, <1>5 DEF TypeDist
<1>6. CASE Boot \/ DevSelect \/ RegAccept \/ RegFull \/ ProtoAccept \/ ProtoGone
  BY <1>5, <1>6 DEF Boot, DevSelect, RegAccept, RegFull, ProtoAccept, ProtoGone, manager
<1>7. ASSUME NEW a \in Apps, App(a)
      PROVE  TypeDist'
  BY <1>5, <1>7 DEF App, HandlerGet, Reconnect, Register, Receive, Restart,
                    SendConnect, SendEvent, Answered, SendFails, manager
<1>8. CASE UNCHANGED vars \/ \E d \in Devices : Plug(d) \/ Unplug(d)
  BY <1>5, <1>8 DEF vars, Plug, Unplug, manager
<1> QED
  BY <1>1, <1>2, <1>3, <1>4, <1>6, <1>7, <1>8 DEF Next, Manager, Proto, Dev, DevHandle

LEMMA ClientsStep == Types /\ [Next]_vars => TypeClients'
<1> SUFFICES ASSUME Types, [Next]_vars
             PROVE  TypeClients'
  OBVIOUS
<1> USE DEF TypeClients
<1>0. TypeClients /\ TypeManager /\ TypeDist
  BY DEF Types
<1>1. ASSUME UNCHANGED <<inbox, got>>,
             rx' \in [Apps -> {"none", "open", "lost"}],
             tx' \in [Apps -> {"idle", "connected", "sent"}]
      PROVE  TypeClients'
  BY <1>0, <1>1
<1>2. ASSUME NEW a \in Apps, Register(a) \/ SendConnect(a) \/ SendEvent(a)
      PROVE  TypeClients'
  BY <1>0, <1>1, <1>2 DEF Register, SendConnect, SendEvent
<1>3. ASSUME NEW a \in Apps, Answered(a) \/ SendFails(a)
      PROVE  TypeClients'
  <2>1. inbox' = [inbox EXCEPT ![Of(a, "send")] = <<>>] /\ UNCHANGED <<rx, got>>
        /\ tx' = [tx EXCEPT ![a] = "idle"]
    BY <1>3 DEF Answered, SendFails, SendDone, Sent
  <2>2. \A b \in Apps : inbox'[Of(b, "recv")] = inbox[Of(b, "recv")]
    BY <1>0, <2>1, Ends
  <2>3. inbox' \in [End -> Seq(Event \cup {YES})]
    <3>1. <<>> \in Seq(Event \cup {YES})
      OBVIOUS
    <3> QED
      BY <1>0, <2>1, <3>1
  <2> QED
    BY <1>0, <2>1, <2>2, <2>3
<1>4. ASSUME NEW a \in Apps, Receive(a)
      PROVE  TypeClients'
  <2> DEFINE b == inbox[Of(a, "recv")]
             m == Head(b)
  <2>1. m \in Event /\ Tail(b) \in Seq(Event) /\ b # <<>>
    BY <1>0, <1>4, HeadTail DEF Receive
  <2>2. Tail(b) \in Seq(Event \cup {YES})
    BY <1>0, <1>4, HeadTail, Ends DEF Receive
  <2>3. /\ inbox' = [inbox EXCEPT ![Of(a, "recv")] = Tail(b)]
        /\ got' = [got EXCEPT ![a] = [got[a] EXCEPT ![m.source] = Append(got[a][m.source], m.n)]]
        /\ UNCHANGED <<rx, tx>>
    BY <1>4 DEF Receive
  <2> HIDE DEF b, m
  <2>4. m.source \in Sources /\ m.n \in 1 .. MaxEvents + MaxPlugs
    BY <2>1 DEF Event
  <2>5. Append(got[a][m.source], m.n) \in Seq(1 .. MaxEvents + MaxPlugs)
    BY <1>0, <2>4, AppendProperties
  <2>6. got' \in [Apps -> [Sources -> Seq(1 .. MaxEvents + MaxPlugs)]]
    BY <1>0, <2>3, <2>4, <2>5
  <2>7. inbox' \in [End -> Seq(Event \cup {YES})]
    BY <1>0, <2>2, <2>3
  <2>8. \A c \in Apps : inbox'[Of(c, "recv")] \in Seq(Event)
    BY <1>0, <2>1, <2>3, Ends
  <2> QED
    BY <1>0, <2>3, <2>6, <2>7, <2>8
<1>5. ASSUME NEW a \in Apps, Restart(a)
      PROVE  TypeClients'
  <2>1. /\ inbox' = [e \in End |-> IF e.app = a THEN <<>> ELSE inbox[e]]
        /\ got' = [got EXCEPT ![a] = Nothing]
        /\ rx' = [rx EXCEPT ![a] = "none"] /\ tx' = [tx EXCEPT ![a] = "idle"]
    BY <1>5 DEF Restart
  <2>2. <<>> \in Seq(Event \cup {YES}) /\ <<>> \in Seq(Event)
    OBVIOUS
  <2>3. inbox' \in [End -> Seq(Event \cup {YES})]
    BY <1>0, <2>1, <2>2
  <2>4. \A b \in Apps : inbox'[Of(b, "recv")] \in Seq(Event)
    BY <1>0, <2>1, <2>2, Ends
  <2>5. Nothing \in [Sources -> Seq(1 .. MaxEvents + MaxPlugs)]
    BY DEF Nothing
  <2> QED
    BY <1>0, <2>1, <2>3, <2>4, <2>5
<1>6. ASSUME NEW t \in Distributors, Distribute(t)
      PROVE  TypeClients'
  <2>1. dist[t].event \in Event /\ Target(t) \in End \cup {FREE, DEAD}
    BY <1>0, <1>6, TargetTyped DEF Distribute
  <2>2. CASE UNCHANGED inbox
    BY <1>0, <1>6, <2>2 DEF Distribute
  <2>3. CASE /\ Target(t) \in End
             /\ inbox' = [inbox EXCEPT ![Target(t)] = Append(@, dist[t].event)]
    <3> DEFINE e == dist[t].event
               x == Target(t)
    <3>1. Append(inbox[x], e) \in Seq(Event \cup {YES})
      BY <1>0, <2>1, <2>3, AppendProperties
    <3>2. inbox[x] \in Seq(Event) => Append(inbox[x], e) \in Seq(Event)
      BY <2>1, AppendProperties
    <3> HIDE DEF e
    <3>3. inbox' = [inbox EXCEPT ![x] = Append(inbox[x], e)] /\ x \in End
      BY <2>3 DEF e
    <3> HIDE DEF x
    <3>4. inbox' \in [End -> Seq(Event \cup {YES})]
      BY <1>0, <3>1, <3>3
    <3>5. \A b \in Apps : inbox'[Of(b, "recv")] \in Seq(Event)
      BY <1>0, <3>2, <3>3, Ends
    <3> QED
      BY <1>0, <1>6, <3>4, <3>5 DEF Distribute
  <2> QED
    BY <1>6, <2>2, <2>3 DEF Distribute
<1>7. ASSUME NEW a \in Apps, ProtoRead(a)
      PROVE  TypeClients'
  <2>1. /\ inbox' = [inbox EXCEPT ![Of(a, "send")] = Append(inbox[Of(a, "send")], YES)]
        /\ UNCHANGED <<rx, tx, got>>
    BY <1>7 DEF ProtoRead, Feedback, Sent
  <2>2. Append(inbox[Of(a, "send")], YES) \in Seq(Event \cup {YES})
    BY <1>0, Ends, AppendProperties
  <2>3. inbox' \in [End -> Seq(Event \cup {YES})]
    BY <1>0, <2>1, <2>2
  <2>4. \A b \in Apps : inbox'[Of(b, "recv")] = inbox[Of(b, "recv")]
    BY <1>0, <2>1, Ends
  <2> QED
    BY <1>0, <2>1, <2>3, <2>4
<1>8. ASSUME NEW i \in Slots, DevHandle(i)
      PROVE  TypeClients'
  BY <1>0, <1>1, <1>8, DevHandled
<1>9. CASE Die \/ Boot \/ DevSelect \/ RegAccept \/ RegFull \/ ProtoAccept \/ ProtoGone
           \/ UNCHANGED vars \/ \E d \in Devices : Plug(d) \/ Unplug(d)
  BY <1>0, <1>1, <1>9 DEF Die, Boot, DevSelect, RegAccept, RegFull, ProtoAccept,
                          ProtoGone, Plug, Unplug, vars, clients
<1> QED
  BY <1>2, <1>3, <1>4, <1>5, <1>6, <1>7, <1>8, <1>9
     DEF Next, Manager, Proto, Dev, DevHandle, App, HandlerGet, Reconnect

LEMMA TypesStep == Types /\ [Next]_vars => Types'
  BY ManagerStep, DevicesStep, CountsStep, DistStep, ClientsStep DEF Types

\* The tables, the connections and the counts never leave their bounds, however
\* the manager and the processes die and start again and devices come and go
\* (event_manager.c, event_interface.c).
THEOREM TypeCorrect == Spec => []TypeOK
  BY InitTypes, TypesStep, TypesGive, PTL DEF Spec

-----------------------------------------------------------------------------
(* Who is connected where.  A connection is made by appending it to a queue *)
(* and from then on only moves, from the queue to a descriptor, or ends.    *)

Moves ==
    /\ OneFd' /\ OneTurn'
    /\ \A e \in End : (Attached(e)' => Attached(e)) /\ (Queued(e)' => Queued(e))

LEMMA EndsMove ==       \* connections end where they are
    ASSUME OneFd, OneTurn, TypeManager,
           DOMAIN fds' = Fds, \A f \in Fds : fds'[f] \in {fds[f], FREE, DEAD},
           \A r \in {"recv", "send"} :
               /\ DOMAIN queue'[r] = DOMAIN queue[r]
               /\ \A i \in DOMAIN queue[r] : queue'[r][i] \in {queue[r][i], DEAD}
    PROVE  Moves
<1>1. OneFd'
  BY Ends DEF OneFd
<1>2. OneTurn'
  BY Ends DEF OneTurn
<1>3. \A e \in End : e.role \in {"recv", "send"}
  BY DEF End
<1>4. \A e \in End : (Attached(e)' => Attached(e)) /\ (Queued(e)' => Queued(e))
  BY <1>3, Ends DEF Attached, Queued
<1> QED
  BY <1>1, <1>2, <1>4 DEF Moves

LEMMA AcceptMoves ==    \* the first in a queue gets a descriptor
    ASSUME OneFd, OneTurn, TypeManager, NEW r \in {"recv", "send"}, NEW f \in Fds,
           Accepts(r, f), Free \in SUBSET Nat,
           queue' = [queue EXCEPT ![r] = Tail(queue[r])]
    PROVE  /\ Moves
           /\ fds[f] = FREE /\ fds'[f] = queue[r][1] /\ 1 \in DOMAIN queue[r]
           /\ \A g \in Fds : g # f => fds'[g] = fds[g]
           /\ fds'[f] \in End \cup {DEAD}
           /\ fds'[f] \in End => fds'[f].role = r
<1> DEFINE q == queue[r]
<1>1. /\ q \in Seq(End \cup {DEAD}) /\ q # <<>> /\ queue'[r] = Tail(q)
      /\ \A s \in {"recv", "send"} : s # r => queue'[s] = queue[s]
  BY DEF TypeManager, Accepts
<1>2. /\ Head(q) = q[1] /\ Head(q) \in End \cup {DEAD} /\ 1 \in DOMAIN q
      /\ DOMAIN Tail(q) = 1 .. Len(q) - 1 /\ DOMAIN q = 1 .. Len(q) /\ Len(q) \in Nat
      /\ \A i \in DOMAIN Tail(q) : i + 1 \in DOMAIN q /\ Tail(q)[i] = q[i + 1]
  BY <1>1, HeadTail
<1>3. fds[f] = FREE
  <2>1. Min(Free) \in Free
    BY MinIn DEF Accepts
  <2> QED
    BY <2>1 DEF Accepts, Free
<1>4. /\ fds'[f] = q[1] /\ \A g \in Fds : g # f => fds'[g] = fds[g]
  BY <1>2 DEF Accepts, TypeManager
<1>5. \A i \in DOMAIN Tail(q) : i \in Nat /\ i + 1 # 1
  BY <1>2
<1>6. OneFd'
  BY <1>2, <1>4 DEF OneFd, OneTurn
<1>7. OneTurn'
  <2>1. ASSUME NEW s \in {"recv", "send"}, s # r, NEW i \in DOMAIN queue[s],
               queue[s][i] \in End
        PROVE  /\ queue[s][i].role = s
               /\ \A j \in DOMAIN queue[s] : queue[s][j] = queue[s][i] => i = j
               /\ \A g \in Fds : fds'[g] # queue[s][i]
    BY <1>2, <1>4, <2>1 DEF OneTurn
  <2>2. ASSUME NEW i \in DOMAIN Tail(q), Tail(q)[i] \in End
        PROVE  /\ Tail(q)[i].role = r
               /\ \A j \in DOMAIN Tail(q) : Tail(q)[j] = Tail(q)[i] => i = j
               /\ \A g \in Fds : fds'[g] # Tail(q)[i]
    <3>1. q[i + 1] \in End /\ i + 1 \in DOMAIN q /\ i + 1 # 1 /\ Tail(q)[i] = q[i + 1]
      BY <1>2, <1>5, <2>2
    <3>2. q[i + 1].role = r /\ \A g \in Fds : fds'[g] # q[i + 1]
      BY <1>2, <1>4, <3>1 DEF OneTurn
    <3>3. ASSUME NEW j \in DOMAIN Tail(q), Tail(q)[j] = Tail(q)[i]
          PROVE  i = j
      <4>1. j + 1 \in DOMAIN q /\ q[j + 1] = q[i + 1]
        BY <1>2, <3>1, <3>3
      <4>2. i + 1 = j + 1
        BY <3>1, <4>1 DEF OneTurn
      <4> QED
        BY <1>2, <4>2
    <3> QED
      BY <3>1, <3>2, <3>3
  <2>3. \A s \in {"recv", "send"} : s # r => queue'[s] = queue[s]
    BY <1>1
  <2>4. queue'[r] = Tail(q)
    BY <1>1
  <2> HIDE DEF q
  <2>5. ASSUME NEW s \in {"recv", "send"}, NEW i \in DOMAIN queue'[s],
               queue'[s][i] \in End
        PROVE  /\ queue'[s][i].role = s
               /\ \A j \in DOMAIN queue'[s] : queue'[s][j] = queue'[s][i] => i = j
               /\ \A g \in Fds : fds'[g] # queue'[s][i]
    <3>1. CASE s = r
      BY <2>2, <2>4, <2>5, <3>1
    <3>2. CASE s # r
      BY <2>1, <2>3, <2>5, <3>2
    <3> QED
      BY <3>1, <3>2
  <2> QED
    BY <2>5 DEF OneTurn
<1>8. ASSUME NEW e \in End
      PROVE  (Attached(e)' => Attached(e)) /\ (Queued(e)' => Queued(e))
  <2>1. Queued(e)' => Queued(e)
    BY <1>1, <1>2, Ends DEF Queued, End
  <2>2. (\E g \in Fds : fds'[g] = e) => Attached(e)
    <3>1. q[1] = e => e.role = r
      BY <1>2 DEF OneTurn
    <3> QED
      BY <1>2, <1>4, <3>1 DEF Attached
  <2> QED
    BY <2>1, <2>2 DEF Attached, Queued
<1>9. fds'[f] \in End => fds'[f].role = r
  BY <1>2, <1>4 DEF OneTurn
<1> QED
  BY <1>2, <1>3, <1>4, <1>6, <1>7, <1>8, <1>9 DEF Moves

LEMMA FullMoves ==      \* one receiver too many
    ASSUME OneFd, OneTurn, TypeManager, RegFull
    PROVE  Moves
<1> DEFINE q == queue["recv"]
           h == Head(q)
           m == Min(Free)
<1>1. /\ q \in Seq(End \cup {DEAD}) /\ q # <<>> /\ queue'["recv"] = <<>>
      /\ queue'["send"] = queue["send"]
  BY DEF TypeManager, RegFull
<1>2. h = q[1] /\ 1 \in DOMAIN q
  BY <1>1, HeadTail
<1>3. DOMAIN fds' = Fds /\ \A f \in Fds : fds'[f] \in {fds[f], FREE} \/ (f = m /\ fds'[f] = h)
  BY DEF RegFull
<1> HIDE DEF h, m
<1>4. h \in End => h.role = "recv" /\ \A f \in Fds : fds[f] # h
  BY <1>2 DEF OneTurn
<1>5. OneFd'
  BY <1>3, <1>4, Ends DEF OneFd
<1>6. ASSUME NEW i \in DOMAIN queue["send"], queue["send"][i] \in End
      PROVE  /\ queue["send"][i].role = "send"
             /\ \A j \in DOMAIN queue["send"] : queue["send"][j] = queue["send"][i] => i = j
             /\ \A f \in Fds : fds'[f] # queue["send"][i]
  BY <1>3, <1>4, <1>6, Ends DEF OneTurn
<1>7. OneTurn'
  BY <1>1, <1>6 DEF OneTurn
<1>8. ASSUME NEW e \in End
      PROVE  (Attached(e)' => Attached(e)) /\ (Queued(e)' => Queued(e))
  <2>1. Queued(e)' => Queued(e)
    BY <1>1 DEF Queued, End
  <2>2. (\E g \in Fds : fds'[g] = e) => Attached(e)
    BY <1>2, <1>3, <1>4, Ends DEF Attached
  <2> QED
    BY <2>1, <2>2 DEF Attached, Queued
<1> QED
  BY <1>5, <1>7, <1>8 DEF Moves

LEMMA JoinMoves ==      \* a new connection
    ASSUME OneFd, OneTurn, TypeManager, NEW e \in End, ~Attached(e), UNCHANGED fds,
           queue' = [queue EXCEPT ![e.role] = Append(queue[e.role], e)]
    PROVE  /\ OneFd' /\ OneTurn'
           /\ \A x \in End : (Attached(x)' => Attached(x) \/ x = e)
                             /\ (Queued(x)' => Queued(x) \/ x = e)
<1> DEFINE r == e.role
           q == queue[r]
<1>1. r \in {"recv", "send"}
  BY DEF End
<1>2. q \in Seq(End \cup {DEAD})
  BY <1>1 DEF TypeManager
<1>3. /\ queue'[r] = Append(q, e)
      /\ \A s \in {"recv", "send"} : s # r => queue'[s] = queue[s]
  BY <1>1 DEF TypeManager
<1>4. /\ DOMAIN Append(q, e) = (DOMAIN q) \cup {Len(q) + 1} /\ DOMAIN q = 1 .. Len(q)
      /\ \A i \in DOMAIN q : Append(q, e)[i] = q[i]
      /\ Append(q, e)[Len(q) + 1] = e /\ Len(q) \in Nat
  BY <1>2, Appended
<1>5. (\A i \in DOMAIN q : q[i] # e) /\ \A f \in Fds : fds[f] # e
  BY DEF Attached
<1>6. OneFd'
  BY DEF OneFd
<1>7. OneTurn'
  <2>1. ASSUME NEW i \in DOMAIN Append(q, e), Append(q, e)[i] \in End
        PROVE  /\ Append(q, e)[i].role = r
               /\ \A j \in DOMAIN Append(q, e) : Append(q, e)[j] = Append(q, e)[i] => i = j
               /\ \A f \in Fds : fds[f] # Append(q, e)[i]
    BY <1>1, <1>4, <1>5, <2>1 DEF OneTurn
  <2> HIDE DEF r, q
  <2> QED
    BY <1>1, <1>3, <2>1 DEF OneTurn
<1>8. ASSUME NEW x \in End
      PROVE  (Attached(x)' => Attached(x) \/ x = e) /\ (Queued(x)' => Queued(x) \/ x = e)
  <2>1. x.role \in {"recv", "send"}
    BY DEF End
  <2>2. Queued(x)' => Queued(x) \/ x = e
    BY <1>3, <1>4, <2>1 DEF Queued
  <2> QED
    BY <2>2 DEF Attached, Queued
<1> QED
  BY <1>6, <1>7, <1>8

LEMMA FreeNat == Free \in SUBSET Nat
  BY Numbers DEF Free, Fds

LEMMA StillKnown ==
    ASSUME Known, Moves, UNCHANGED <<rx, tx>>,
           \A a \in Apps : inbox'[Of(a, "send")] = inbox[Of(a, "send")]
    PROVE  Known'
<1>1. ASSUME NEW a \in Apps
      PROVE  /\ Attached(Of(a, "recv"))' => rx[a] = "open"
             /\ Attached(Of(a, "send"))' => tx[a] # "idle"
             /\ tx[a] = "idle" \/ Queued(Of(a, "send"))' => inbox[Of(a, "send")] = <<>>
  BY Ends DEF Known, Moves
<1> QED
  BY <1>1 DEF Known

\* The actions that leave the sockets alone.
LEMMA SameWiring ==
    ASSUME Types, Wiring, UNCHANGED <<reg, fds, conn_fd, queue, conn, rx, tx>>,
           dist'["proto"] \in {dist["proto"], NULL},
           \A a \in Apps : inbox'[Of(a, "send")] = inbox[Of(a, "send")]
    PROVE  Wiring'
<1>1. Moves
  BY DEF Moves, Wiring, OneFd, OneTurn, Attached, Queued
<1>2. Known'
  BY <1>1, StillKnown DEF Wiring
<1>3. Table'
  BY DEF Wiring, Table
<1> QED
  BY <1>1, <1>2, <1>3 DEF Wiring, Moves

LEMMA DieWiring ==
    ASSUME Types, Wiring, Die
    PROVE  Wiring'
<1>1. /\ \A f \in Fds : fds'[f] = FREE
      /\ \A r \in {"recv", "send"} : queue'[r] = <<>>
      /\ \A i \in 1 .. ConnSize : conn_fd'[i] = 0
      /\ conn' = 0 /\ UNCHANGED <<rx, tx, inbox>>
  BY DEF Die, NoFds, NoQueue, NoConnFd, clients
<1>2. OneFd' /\ OneTurn' /\ Table'
  BY <1>1, Ends DEF OneFd, OneTurn, Table
<1>3. \A e \in End : ~Attached(e)' /\ ~Queued(e)'
  <2>1. \A e \in End : e.role \in {"recv", "send"}
    BY DEF End
  <2> QED
    BY <1>1, <2>1, Ends DEF Attached, Queued
<1>4. Known'
  <2>1. \A a \in Apps : ~Attached(Of(a, "recv"))' /\ ~Attached(Of(a, "send"))'
                        /\ ~Queued(Of(a, "send"))'
    BY <1>3, Ends
  <2> QED
    BY <1>1, <2>1 DEF Known, Wiring
<1> QED
  BY <1>1, <1>2, <1>4 DEF Wiring

LEMMA RegisterWiring ==
    ASSUME Types, Wiring, NEW a \in Apps, Register(a), ~Attached(Of(a, "recv"))
    PROVE  Wiring'
<1> DEFINE e == Of(a, "recv")
<1>0. TypeManager /\ TypeClients /\ OneFd /\ OneTurn /\ Known /\ Table
  BY DEF Types, Wiring
<1>1. e \in End /\ e.role = "recv" /\ \A b \in Apps : Of(b, "recv") = e => b = a
  BY Ends
<1>2. UNCHANGED <<reg, fds, conn_fd, conn, dist, tx, inbox>>
  BY DEF Register
<1>3. CASE up /\ reg /\ Connects(a) /\ rx' = [rx EXCEPT ![a] = "open"]
  <2>1. queue' = [queue EXCEPT ![e.role] = Append(queue[e.role], e)]
    BY <1>1, <1>3 DEF Connects
  <2> HIDE DEF e
  <2>2. /\ OneFd' /\ OneTurn'
        /\ \A x \in End : (Attached(x)' => Attached(x) \/ x = e)
                          /\ (Queued(x)' => Queued(x) \/ x = e)
    BY <1>0, <1>1, <1>2, <2>1, JoinMoves DEF e
  <2>3. ASSUME NEW b \in Apps
        PROVE  /\ Attached(Of(b, "recv"))' => rx'[b] = "open"
               /\ Attached(Of(b, "send"))' => tx[b] # "idle"
               /\ tx[b] = "idle" \/ Queued(Of(b, "send"))' => inbox[Of(b, "send")] = <<>>
    <3>1. Of(b, "send") # e
      BY Ends DEF e
    <3>2. Attached(Of(b, "recv"))' => Attached(Of(b, "recv")) \/ b = a
      BY <1>1, <2>2, Ends
    <3>3. (Attached(Of(b, "send"))' => Attached(Of(b, "send")))
          /\ (Queued(Of(b, "send"))' => Queued(Of(b, "send")))
      BY <2>2, <3>1, Ends
    <3> QED
      BY <1>0, <1>3, <3>2, <3>3 DEF Known, TypeClients
  <2>4. Known'
    BY <1>2, <2>3 DEF Known
  <2>5. Table'
    BY <1>0, <1>2, <1>3 DEF Table
  <2> QED
    BY <1>2, <2>2, <2>4, <2>5 DEF Wiring
<1>4. CASE rx' = [rx EXCEPT ![a] = "lost"] /\ UNCHANGED queue
  <2>1. \A x : Attached(x)' = Attached(x) /\ Queued(x)' = Queued(x)
    BY <1>2, <1>4 DEF Attached, Queued
  <2>2. Known'
    BY <1>0, <1>2, <1>4, <2>1 DEF Known, TypeClients
  <2>3. OneFd' /\ OneTurn' /\ Table'
    BY <1>0, <1>2, <1>4 DEF OneFd, OneTurn, Table
  <2> QED
    BY <1>2, <2>2, <2>3 DEF Wiring
<1> QED
  BY <1>3, <1>4 DEF Register

LEMMA ConnectWiring ==
    ASSUME Types, Wiring, NEW a \in Apps, SendConnect(a)
    PROVE  Wiring'
<1> DEFINE e == Of(a, "send")
<1>0. TypeManager /\ TypeClients /\ OneFd /\ OneTurn /\ Known /\ Table
  BY DEF Types, Wiring
<1>1. e \in End /\ e.role = "send" /\ \A b \in Apps : Of(b, "send") = e => b = a
  BY Ends
<1>2. UNCHANGED <<reg, fds, conn_fd, conn, dist, rx, inbox>> /\ tx[a] = "idle"
      /\ tx' = [tx EXCEPT ![a] = "connected"]
  BY DEF SendConnect
<1>3. ~Attached(e) /\ inbox[e] = <<>>
  BY <1>0, <1>2 DEF Known
<1>4. queue' = [queue EXCEPT ![e.role] = Append(queue[e.role], e)]
  BY <1>1 DEF SendConnect, Sent
<1>5. queue'["recv"] = queue["recv"]
  BY <1>0, <1>1, <1>4 DEF TypeManager
<1> HIDE DEF e
<1>6. /\ OneFd' /\ OneTurn'
      /\ \A x \in End : (Attached(x)' => Attached(x) \/ x = e)
                        /\ (Queued(x)' => Queued(x) \/ x = e)
  BY <1>0, <1>1, <1>2, <1>3, <1>4, JoinMoves
<1>7. ASSUME NEW b \in Apps
      PROVE  /\ Attached(Of(b, "recv"))' => rx[b] = "open"
             /\ Attached(Of(b, "send"))' => tx'[b] # "idle"
             /\ tx'[b] = "idle" \/ Queued(Of(b, "send"))' => inbox[Of(b, "send")] = <<>>
  <2>1. Attached(Of(b, "recv"))' => Attached(Of(b, "recv"))
    BY <1>6, Ends DEF e
  <2>2. (Attached(Of(b, "send"))' => Attached(Of(b, "send")) \/ b = a)
        /\ (Queued(Of(b, "send"))' => Queued(Of(b, "send")) \/ b = a)
    BY <1>1, <1>6, Ends
  <2>3. CASE b = a
    BY <1>0, <1>2, <1>3, <2>1, <2>3 DEF Known, TypeClients, e
  <2>4. CASE b # a
    BY <1>0, <1>2, <2>1, <2>2, <2>4 DEF Known, TypeClients
  <2> QED
    BY <2>3, <2>4
<1>8. Known'
  BY <1>2, <1>7 DEF Known
<1>9. Table'
  BY <1>0, <1>2, <1>5 DEF Table
<1> QED
  BY <1>2, <1>6, <1>8, <1>9 DEF Wiring

LEMMA EventWiring ==
    ASSUME Types, Wiring, NEW a \in Apps, SendEvent(a)
    PROVE  Wiring'
<1>1. /\ UNCHANGED <<reg, fds, conn_fd, queue, conn, dist, rx, inbox>>
      /\ tx' = [tx EXCEPT ![a] = "sent"] /\ tx[a] = "connected"
  BY DEF SendEvent, manager
<1>2. \A x : Attached(x)' = Attached(x) /\ Queued(x)' = Queued(x)
  BY <1>1 DEF Attached, Queued
<1>3. \A b \in Apps : tx'[b] = "idle" <=> tx[b] = "idle"
  BY <1>1 DEF Types, TypeClients
<1>4. Known'
  BY <1>1, <1>2, <1>3 DEF Known, Wiring
<1> QED
  BY <1>1, <1>4 DEF Wiring, OneFd, OneTurn, Table

\* A descriptor that loses its process, or is closed for one that is not a
\* receiver, leaves the table as it must be.
LEMMA EndedTable ==
    ASSUME Types, Table, UNCHANGED <<reg, conn_fd>>,
           \A f \in Fds : \/ fds'[f] \in {fds[f], DEAD}
                          \/ fds'[f] = FREE /\ \E a \in Apps : fds[f] = Of(a, "send"),
           ~reg => queue'["recv"] = <<>>
    PROVE  Table'
<1>1. \A i \in 1 .. ConnSize : conn_fd[i] # 0 => conn_fd[i] \in Fds
  BY Numbers DEF Types, TypeManager, Fds
<1>2. CASE reg
  BY <1>1, <1>2, Ends DEF Table
<1>3. CASE ~reg
  BY <1>1, <1>3, Ends DEF Table
<1> QED
  BY <1>2, <1>3

LEMMA RestartWiring ==
    ASSUME Types, Wiring, NEW a \in Apps, Restart(a)
    PROVE  Wiring'
<1>0. TypeManager /\ TypeClients /\ OneFd /\ OneTurn /\ Known /\ Table
  BY DEF Types, Wiring
<1>1. /\ fds' = [f \in Fds |-> Mourn(fds[f], a)]
      /\ \A r \in {"recv", "send"} : queue'[r] = [i \in DOMAIN queue[r] |-> Mourn(queue[r][i], a)]
      /\ rx' = [rx EXCEPT ![a] = "none"] /\ tx' = [tx EXCEPT ![a] = "idle"]
      /\ inbox' = [e \in End |-> IF e.app = a THEN <<>> ELSE inbox[e]]
      /\ UNCHANGED <<reg, conn_fd, conn, dist>>
  BY <1>0 DEF Restart, TypeManager
<1>2. \A x : Mourn(x, a) \in {x, DEAD} /\ Mourn(x, a) \notin {Of(a, "recv"), Of(a, "send")}
  BY Ends DEF Mourn
<1>3. Moves
  BY <1>0, <1>1, <1>2, EndsMove
<1>4. ~Attached(Of(a, "recv"))' /\ ~Attached(Of(a, "send"))' /\ ~Queued(Of(a, "send"))'
  BY <1>1, <1>2, Ends DEF Attached, Queued
<1>5. ASSUME NEW b \in Apps, b # a
      PROVE  /\ Attached(Of(b, "recv"))' => rx'[b] = "open"
             /\ Attached(Of(b, "send"))' => tx'[b] # "idle"
             /\ tx'[b] = "idle" \/ Queued(Of(b, "send"))' => inbox'[Of(b, "send")] = <<>>
  <2>1. /\ rx'[b] = rx[b] /\ tx'[b] = tx[b]
        /\ inbox'[Of(b, "send")] = inbox[Of(b, "send")]
    BY <1>0, <1>1, <1>5, Ends DEF TypeClients
  <2>2. /\ Attached(Of(b, "recv"))' => Attached(Of(b, "recv"))
        /\ Attached(Of(b, "send"))' => Attached(Of(b, "send"))
        /\ Queued(Of(b, "send"))' => Queued(Of(b, "send"))
    BY <1>3, Ends DEF Moves
  <2> QED
    BY <1>0, <2>1, <2>2 DEF Known
<1>6. inbox'[Of(a, "send")] = <<>>
  BY <1>1, Ends
<1>7. Known'
  BY <1>4, <1>5, <1>6 DEF Known
<1>8. Table'
  <2>1. queue["recv"] = <<>> => queue'["recv"] = <<>>
    BY <1>1
  <2> QED
    BY <1>0, <1>1, <1>2, <2>1, EndedTable DEF Table
<1> QED
  BY <1>1, <1>3, <1>7, <1>8 DEF Wiring, Moves

LEMMA AnswerWiring ==
    ASSUME Types, Wiring, NEW a \in Apps, Answered(a) \/ SendFails(a)
    PROVE  Wiring'
<1> DEFINE e == Of(a, "send")
<1>0. TypeManager /\ TypeClients /\ OneFd /\ OneTurn /\ Known /\ Table
  BY DEF Types, Wiring
<1>1. /\ tx' = [tx EXCEPT ![a] = "idle"] /\ inbox' = [inbox EXCEPT ![e] = <<>>]
      /\ UNCHANGED <<reg, conn_fd, queue, conn, dist, rx>>
  BY DEF Answered, SendFails, SendDone, Sent, manager
<1>2. /\ DOMAIN fds' = Fds /\ \A f \in Fds : fds'[f] \in {fds[f], DEAD}
      /\ \A f \in Fds : fds'[f] # e
  <2>1. CASE Answered(a)
    BY <1>0, <2>1, Ends DEF Answered, Sent, TypeManager
  <2>2. CASE SendFails(a)
    BY <1>0, <2>2 DEF SendFails, Sent, TypeManager, manager, Attached
  <2> QED
    BY <2>1, <2>2
<1>3. Moves
  BY <1>0, <1>1, <1>2, EndsMove
<1>4. ~Queued(e)
  <2>1. CASE Answered(a)
    BY <1>0, <2>1 DEF Answered, Sent, Known
  <2>2. CASE SendFails(a)
    BY <2>2 DEF SendFails, Sent, Attached, Queued
  <2> QED
    BY <2>1, <2>2
<1>5. ~Attached(e)' /\ ~Queued(e)'
  BY <1>1, <1>2, <1>4 DEF Attached, Queued
<1>6. inbox'[e] = <<>>
  BY <1>0, <1>1, Ends DEF TypeClients
<1>7. ASSUME NEW b \in Apps
      PROVE  /\ Attached(Of(b, "recv"))' => rx[b] = "open"
             /\ Attached(Of(b, "send"))' => tx'[b] # "idle"
             /\ tx'[b] = "idle" \/ Queued(Of(b, "send"))' => inbox'[Of(b, "send")] = <<>>
  <2>1. /\ Attached(Of(b, "recv"))' => Attached(Of(b, "recv"))
        /\ Attached(Of(b, "send"))' => Attached(Of(b, "send"))
        /\ Queued(Of(b, "send"))' => Queued(Of(b, "send"))
    BY <1>3, Ends DEF Moves
  <2>2. CASE b = a
    BY <1>0, <1>5, <1>6, <2>1, <2>2 DEF Known
  <2>3. CASE b # a
    <3>1. tx'[b] = tx[b] /\ inbox'[Of(b, "send")] = inbox[Of(b, "send")]
      <4>1. Of(b, "send") # e /\ Of(b, "send") \in End
        BY <2>3, Ends
      <4> HIDE DEF e
      <4> QED
        BY <1>0, <1>1, <2>3, <4>1 DEF TypeClients
    <3> QED
      BY <1>0, <2>1, <3>1 DEF Known
  <2> QED
    BY <2>2, <2>3
<1>8. Known'
  BY <1>1, <1>7 DEF Known
<1>9. Table'
  BY <1>0, <1>1, <1>2, EndedTable DEF Table
<1> QED
  BY <1>1, <1>3, <1>8, <1>9 DEF Wiring, Moves

LEMMA AcceptWiring ==
    ASSUME Types, Wiring, RegAccept
    PROVE  Wiring'
<1>0. TypeManager /\ OneFd /\ OneTurn /\ Known /\ Table
  BY DEF Types, Wiring
<1>1. PICK f \in Fds : Accepts("recv", f) /\ Store(f)
  BY DEF RegAccept
<1>2. /\ reg /\ reg' /\ UNCHANGED <<conn, dist, rx, tx, inbox>>
      /\ queue' = [queue EXCEPT !["recv"] = Tail(queue["recv"])]
  BY DEF RegAccept, clients
<1>3. /\ Moves
      /\ fds[f] = FREE /\ \A g \in Fds : g # f => fds'[g] = fds[g]
      /\ fds'[f] \in End \cup {DEAD} /\ (fds'[f] \in End => fds'[f].role = "recv")
  BY <1>0, <1>1, <1>2, AcceptMoves, FreeNat
<1>4. PICK k \in 1 .. ConnSize : conn_fd[k] = 0 /\ conn_fd' = [conn_fd EXCEPT ![k] = f]
  <2>1. Vacant \in SUBSET Nat /\ Vacant # {}
    BY Numbers DEF Vacant, RegAccept
  <2>2. Min(Vacant) \in Vacant
    BY <2>1, MinIn
  <2> QED
    BY <1>1, <2>2 DEF Store, Vacant
<1>5. \A i \in 1 .. ConnSize : conn_fd[i] # 0 => conn_fd[i] \in Fds /\ conn_fd[i] # f
  BY <1>0, <1>2, <1>3, Numbers DEF TypeManager, Fds, Table
<1>6. f # 0
  BY Numbers DEF Fds
<1>7. fds'[f] # FREE /\ \A a \in Apps : fds'[f] # Of(a, "send")
  BY <1>3, Ends
<1>8. Table'
  <2>1. ASSUME NEW i \in 1 .. ConnSize, conn_fd'[i] # 0
        PROVE  /\ fds'[conn_fd'[i]] # FREE
               /\ \A a \in Apps : fds'[conn_fd'[i]] # Of(a, "send")
               /\ \A j \in 1 .. ConnSize : conn_fd'[j] = conn_fd'[i] => i = j
    <3>0. /\ conn_fd'[k] = f
          /\ \A j \in 1 .. ConnSize : j # k => conn_fd'[j] = conn_fd[j]
      BY <1>0, <1>4 DEF TypeManager
    <3>1. CASE i = k
      BY <1>5, <1>6, <1>7, <3>0, <3>1
    <3>2. CASE i # k
      <4>1. conn_fd'[i] = conn_fd[i] /\ conn_fd[i] \in Fds /\ conn_fd[i] # f
        BY <1>5, <2>1, <3>0, <3>2
      <4>2. fds'[conn_fd[i]] = fds[conn_fd[i]]
        BY <1>3, <4>1
      <4>3. \A j \in 1 .. ConnSize : conn_fd'[j] = conn_fd'[i] => i = j
        BY <1>0, <1>2, <2>1, <3>0, <4>1 DEF Table
      <4> QED
        BY <1>0, <1>2, <2>1, <4>1, <4>2, <4>3 DEF Table
    <3> QED
      BY <3>1, <3>2
  <2> QED
    BY <1>2, <2>1 DEF Table
<1>9. Known'
  BY <1>0, <1>2, <1>3, StillKnown
<1> QED
  BY <1>2, <1>3, <1>8, <1>9 DEF Wiring, Moves

LEMMA FullWiring ==
    ASSUME Types, Wiring, RegFull
    PROVE  Wiring'
<1>0. TypeManager /\ OneFd /\ OneTurn /\ Known
  BY DEF Types, Wiring
<1>1. Moves
  BY <1>0, FullMoves
<1>2. /\ ~reg' /\ UNCHANGED <<conn_fd, conn, dist, rx, tx, inbox>>
      /\ queue'["recv"] = <<>>
  BY <1>0 DEF RegFull, clients, TypeManager
<1>3. \A i \in 1 .. ConnSize : conn_fd[i] # 0 => fds'[conn_fd[i]] = FREE
  <2>1. \A i \in 1 .. ConnSize : conn_fd[i] # 0 => conn_fd[i] \in Fds
    BY <1>0, Numbers DEF TypeManager, Fds
  <2> QED
    BY <2>1 DEF RegFull
<1>4. Table'
  BY <1>2, <1>3, Ends DEF Table
<1>5. Known'
  BY <1>0, <1>1, <1>2, StillKnown
<1> QED
  BY <1>1, <1>2, <1>4, <1>5 DEF Wiring, Moves

LEMMA ProtoWiring ==
    ASSUME Types, Wiring, Proto
    PROVE  Wiring'
<1>0. TypeManager /\ TypeClients /\ OneFd /\ OneTurn /\ Known /\ Table
  BY DEF Types, Wiring
<1>1. CASE ProtoAccept
  <2>1. PICK f \in Fds : Accepts("send", f)
    BY <1>1 DEF ProtoAccept
  <2>2. /\ UNCHANGED <<reg, conn_fd, dist, rx, tx, inbox>> /\ dist["proto"] = NULL
        /\ queue' = [queue EXCEPT !["send"] = Tail(queue["send"])]
    BY <1>1 DEF ProtoAccept, clients
  <2>3. /\ Moves
        /\ fds[f] = FREE /\ \A g \in Fds : g # f => fds'[g] = fds[g]
        /\ fds'[f] \in End \cup {DEAD} /\ (fds'[f] \in End => fds'[f].role = "send")
    BY <1>0, <2>1, <2>2, AcceptMoves, FreeNat
  <2>4. \A i \in 1 .. ConnSize : conn_fd[i] # 0 => conn_fd[i] \in Fds
    BY <1>0, Numbers DEF TypeManager, Fds
  <2>5. \A a \in Apps : fds'[f] # Of(a, "recv")
    BY <2>3, Ends
  <2>6. CASE reg
    <3>1. \A i \in 1 .. ConnSize : conn_fd[i] # 0 => fds'[conn_fd[i]] = fds[conn_fd[i]]
      BY <1>0, <2>3, <2>4, <2>6 DEF Table
    <3> QED
      BY <1>0, <2>2, <2>3, <2>6, <3>1, StillKnown DEF Table, Wiring, Moves
  <2>7. CASE ~reg
    <3>1. \A i \in 1 .. ConnSize, a \in Apps : conn_fd[i] # 0 => fds'[conn_fd[i]] # Of(a, "recv")
      BY <1>0, <2>3, <2>4, <2>5, <2>7 DEF Table
    <3>2. queue'["recv"] = <<>>
      BY <1>0, <2>2, <2>7 DEF Table, TypeManager
    <3> QED
      BY <1>0, <2>2, <2>3, <2>7, <3>1, <3>2, StillKnown DEF Table, Wiring, Moves
  <2> QED
    BY <2>6, <2>7
<1>2. CASE ProtoGone
  <2>1. conn' = 0 /\ dist'["proto"] = dist["proto"]
        /\ UNCHANGED <<reg, fds, conn_fd, queue, rx, tx, inbox>>
    BY <1>2 DEF ProtoGone, clients
  <2>2. Moves /\ Table'
    BY <1>0, <2>1 DEF Moves, OneFd, OneTurn, Attached, Queued, Table
  <2> QED
    BY <1>0, <2>1, <2>2, StillKnown DEF Wiring, Moves
<1>3. ASSUME NEW a \in Apps, ProtoRead(a)
      PROVE  Wiring'
  <2> DEFINE e == Of(a, "send")
  <2>1. /\ conn # 0 /\ fds[conn] = e /\ tx[a] = "sent" /\ conn' = 0
        /\ inbox' = [inbox EXCEPT ![e] = Append(inbox[e], YES)]
        /\ fds' = [fds EXCEPT ![conn] = FREE]
        /\ UNCHANGED <<reg, conn_fd, queue, rx, tx>>
    BY <1>3 DEF ProtoRead, Feedback, Sent
  <2>2. conn \in Fds
    BY <1>0, <2>1, Numbers DEF TypeManager, Fds
  <2>3. /\ DOMAIN fds' = Fds /\ \A f \in Fds : fds'[f] \in {fds[f], FREE}
        /\ \A f \in Fds : fds'[f] = fds[f] \/ (fds'[f] = FREE /\ fds[f] = Of(a, "send"))
    <3>1. DOMAIN fds' = Fds /\ \A f \in Fds : fds'[f] = IF f = conn THEN FREE ELSE fds[f]
      BY <1>0, <2>1 DEF TypeManager
    <3>2. ASSUME NEW f \in Fds
          PROVE  fds'[f] = fds[f] \/ (fds'[f] = FREE /\ fds[f] = Of(a, "send"))
      <4>1. f = conn => fds[f] = Of(a, "send")
        BY <2>1, Zenon
      <4> QED
        BY <3>1, <4>1
    <3>3. \A f \in Fds : fds'[f] \in {fds[f], FREE}
      BY <3>1
    <3> QED
      BY <3>1, <3>2, <3>3
  <2>4. Moves
    BY <1>0, <2>1, <2>3, EndsMove
  <2>5. Table'
    BY <1>0, <2>1, <2>3, EndedTable DEF Table
  <2>6. ~Queued(e)'
    <3>1. \A i \in DOMAIN queue["send"] : queue["send"][i] # e
      BY <1>0, <2>1, <2>2, Ends DEF OneTurn
    <3> QED
      BY <2>1, <3>1, Ends DEF Queued
  <2>7. ASSUME NEW b \in Apps
        PROVE  /\ Attached(Of(b, "recv"))' => rx[b] = "open"
               /\ Attached(Of(b, "send"))' => tx[b] # "idle"
               /\ tx[b] = "idle" \/ Queued(Of(b, "send"))' => inbox'[Of(b, "send")] = <<>>
    <3>1. /\ Attached(Of(b, "recv"))' => Attached(Of(b, "recv"))
          /\ Attached(Of(b, "send"))' => Attached(Of(b, "send"))
          /\ Queued(Of(b, "send"))' => Queued(Of(b, "send"))
      BY <2>4, Ends DEF Moves
    <3>2. CASE b = a
      BY <1>0, <2>1, <2>6, <3>1, <3>2 DEF Known
    <3>3. CASE b # a
      <4>1. Of(b, "send") # e /\ Of(b, "send") \in End
        BY <3>3, Ends
      <4> HIDE DEF e
      <4>2. inbox'[Of(b, "send")] = inbox[Of(b, "send")]
        BY <1>0, <2>1, <4>1 DEF TypeClients
      <4> QED
        BY <1>0, <3>1, <4>2 DEF Known
    <3> QED
      BY <3>2, <3>3
  <2>8. Known'
    BY <2>1, <2>7 DEF Known
  <2> QED
    BY <2>1, <2>4, <2>5, <2>8 DEF Wiring, Moves
<1> QED
  BY <1>1, <1>2, <1>3 DEF Proto

LEMMA DistributeWiring ==
    ASSUME Types, Wiring, NEW t \in Distributors, Distribute(t)
    PROVE  Wiring'
<1>0. TypeManager /\ TypeClients /\ TypeDist /\ OneFd /\ OneTurn /\ Known /\ Table
  BY DEF Types, Wiring
<1>1. /\ UNCHANGED <<reg, fds, conn_fd, queue, conn, rx, tx>> /\ dist[t] # NULL
      /\ \/ UNCHANGED inbox
         \/ Target(t) \in End
            /\ inbox' = [inbox EXCEPT ![Target(t)] = Append(inbox[Target(t)], dist[t].event)]
  BY DEF Distribute
<1>2. Moves
  BY <1>0, <1>1 DEF Moves, OneFd, OneTurn, Attached, Queued
<1>3. ASSUME NEW a \in Apps
      PROVE  tx[a] = "idle" \/ Queued(Of(a, "send")) => inbox'[Of(a, "send")] = <<>>
  <2> DEFINE e == Of(a, "send")
  <2>1. CASE Target(t) = e
    <3>1. \E f \in Fds : fds[f] = e
      BY <1>0, <1>1, <2>1, TargetTyped, Ends
    <3>2. Attached(e) /\ \A i \in DOMAIN queue["send"] : queue["send"][i] # e
      BY <1>0, <3>1, Ends DEF OneTurn, Attached
    <3> QED
      BY <1>0, <3>2, Ends DEF Known, Queued
  <2>2. CASE Target(t) # e
    <3>1. e \in End
      BY Ends
    <3> HIDE DEF e
    <3>2. inbox'[e] = inbox[e]
      BY <1>0, <1>1, <2>2, <3>1 DEF TypeClients
    <3> QED
      BY <1>0, <3>2 DEF Known, e
  <2> QED
    BY <2>1, <2>2
<1>4. Known'
  <2>1. \A x : Attached(x)' = Attached(x) /\ Queued(x)' = Queued(x)
    BY <1>1 DEF Attached, Queued
  <2> QED
    BY <1>0, <1>1, <1>3, <2>1 DEF Known
<1>5. Table'
  BY <1>0, <1>1 DEF Table
<1>6. conn # 0 => dist'["proto"] = NULL
  <2>1. CASE t = "proto"
    BY <1>1, <2>1 DEF Wiring
  <2>2. CASE t = "dev"
    BY <1>0, <2>2 DEF Wiring, Distribute, Onward, TypeDist, Distributors
  <2> QED
    BY <2>1, <2>2 DEF Distributors
<1> QED
  BY <1>1, <1>2, <1>4, <1>5, <1>6 DEF Wiring, Moves

LEMMA WiringStep == Types /\ Wiring /\ [Next]_vars => Wiring'
<1> SUFFICES ASSUME Types, Wiring, [Next]_vars
             PROVE  Wiring'
  OBVIOUS
<1>0. Known /\ TypeClients /\ TypeDist
  BY DEF Wiring, Types
<1>1. ASSUME NEW a \in Apps, HandlerGet(a) \/ Reconnect(a)
      PROVE  Wiring'
  <2>1. Register(a) /\ ~Attached(Of(a, "recv"))
    BY <1>0, <1>1 DEF HandlerGet, Reconnect, Known
  <2> QED
    BY <2>1, RegisterWiring
<1>2. ASSUME NEW a \in Apps, Receive(a)
      PROVE  Wiring'
  <2>1. UNCHANGED <<reg, fds, conn_fd, queue, conn, rx, tx, dist>>
    BY <1>2 DEF Receive, manager
  <2>2. \A b \in Apps : inbox'[Of(b, "send")] = inbox[Of(b, "send")]
    BY <1>0, <1>2, Ends DEF Receive, TypeClients
  <2> QED
    BY <2>1, <2>2, SameWiring
<1>3. ASSUME NEW i \in Slots, DevHandle(i)
      PROVE  Wiring'
  <2>1. dist'["proto"] = dist["proto"]
    <3>1. CASE UNCHANGED dist
      BY <3>1
    <3>2. CASE Shares
      BY <1>0, <3>2 DEF Shares, Begin, TypeDist, Distributors
    <3> QED
      BY <1>3, <3>1, <3>2, DevHandled
  <2> QED
    BY <1>3, <2>1, DevHandled, SameWiring
<1>4. CASE Boot \/ DevSelect \/ UNCHANGED vars \/ \E d \in Devices : Plug(d) \/ Unplug(d)
  <2>1. UNCHANGED <<reg, fds, conn_fd, queue, conn, rx, tx, dist, inbox>>
    BY <1>4 DEF Boot, DevSelect, vars, Plug, Unplug, manager, clients
  <2> QED
    BY <2>1, SameWiring
<1> QED
  BY <1>1, <1>2, <1>3, <1>4, DieWiring, ConnectWiring, EventWiring, RestartWiring,
     AnswerWiring, AcceptWiring, FullWiring, ProtoWiring, DistributeWiring
     DEF Next, Manager, Dev, DevHandle, App

-----------------------------------------------------------------------------
(* What a receiver may still get.                                           *)

\* Nobody gets or sends an event, a distribution at most ends, and what it
\* has gone past stays behind it as long as receivers may register.
Silent ==
    /\ UNCHANGED <<posted, got>>
    /\ \A a \in Apps : inbox'[Of(a, "recv")] = inbox[Of(a, "recv")]
    /\ \A s \in Apps : tx'[s] = "sent" /\ Attached(Of(s, "send"))' =>
                            tx[s] = "sent" /\ Attached(Of(s, "send"))
    /\ \A t \in Distributors :
          \/ dist'[t] = NULL
          \/ /\ dist'[t] = dist[t] /\ (reg' => reg)
             /\ reg' => \A a \in Apps : Passed(t, a) => Passed(t, a)'

LEMMA SilentOrder ==
    ASSUME Types, Order, Silent
    PROVE  Order'
<1>1. \A s, n : \A a \in Apps : Before(a, s, n)' <=> Before(a, s, n)
  BY DEF Silent, Before
<1>2. InOrder'
  BY DEF Order, InOrder, Silent
<1>3. Sendable'
  BY <1>1 DEF Order, Sendable, Silent
<1>4. Unread'
  <2>1. dist'["proto"] = NULL \/ dist'["proto"] = dist["proto"]
    BY DEF Silent, Distributors
  <2> QED
    BY <1>1, <2>1 DEF Order, Unread, Silent
<1>5. Pending'
  <2> SUFFICES ASSUME NEW t \in Distributors, dist'[t] # NULL
               PROVE  /\ dist'[t].event.n <= posted'[dist'[t].event.source]
                      /\ dist'[t].event.source = "dev" <=> t = "dev"
                      /\ \A a \in Apps : reg' /\ ~Passed(t, a)' =>
                            Before(a, dist[t].event.source, dist[t].event.n)'
    BY Zenon DEF Pending
  <2>1. dist'[t] = dist[t] /\ (reg' => reg) /\ posted' = posted
        /\ (reg' => \A a \in Apps : Passed(t, a) => Passed(t, a)')
    BY DEF Silent
  <2>2. /\ dist[t].event.n <= posted[dist[t].event.source]
        /\ dist[t].event.source = "dev" <=> t = "dev"
        /\ \A a \in Apps : reg /\ ~Passed(t, a) => Before(a, dist[t].event.source, dist[t].event.n)
    BY <2>1 DEF Order, Pending
  <2> QED
    BY <1>1, <2>1, <2>2
<1> QED
  BY <1>2, <1>3, <1>4, <1>5 DEF Order

\* The silent actions.
LEMMA SilentSteps ==
    ASSUME Types, Wiring
    PROVE  /\ Die \/ Boot \/ RegAccept \/ RegFull \/ ProtoAccept \/ ProtoGone \/ DevSelect
                \/ UNCHANGED vars => Silent
           /\ \A a \in Apps : Register(a) \/ SendConnect(a) \/ Answered(a) \/ SendFails(a)
                => Silent
           /\ \A i \in Slots : DevHandle(i) => Silent \/ Shares
           /\ \A d \in Devices : Plug(d) \/ Unplug(d) => Silent
<1>0. TypeManager /\ TypeClients /\ TypeDist /\ OneFd /\ OneTurn /\ Table
  BY DEF Types, Wiring
<1>1. ASSUME UNCHANGED <<posted, got, inbox, tx, reg, fds, conn_fd, queue, dist>>
      PROVE  Silent
  BY <1>1 DEF Silent, Attached, Passed
<1>2. ASSUME Die
      PROVE  Silent
  <2>1. UNCHANGED <<posted, got, inbox, tx>> /\ \A t \in Distributors : dist'[t] = NULL
    BY <1>2 DEF Die, clients, NoDist
  <2>2. \A s \in Apps : ~Attached(Of(s, "send"))'
    BY <1>2, Ends DEF Die, Attached, NoFds, NoQueue
  <2> QED
    BY <2>1, <2>2 DEF Silent
<1>3. ASSUME UNCHANGED <<posted, got, inbox, tx, dist>>, reg' => reg, Moves,
             reg' => \A t \in Distributors, a \in Apps : Passed(t, a) => Passed(t, a)'
      PROVE  Silent
  BY <1>3, Ends DEF Silent, Moves
<1>4. \A i \in 1 .. ConnSize : conn_fd[i] # 0 => conn_fd[i] \in Fds
  BY <1>0, Numbers DEF TypeManager, Fds
<1>5. ASSUME RegAccept \/ ProtoAccept
      PROVE  Silent
  <2>1. /\ UNCHANGED <<posted, got, inbox, tx, dist, reg>>
        /\ \E r \in {"recv", "send"}, f \in Fds :
              Accepts(r, f) /\ queue' = [queue EXCEPT ![r] = Tail(queue[r])]
    BY <1>5 DEF RegAccept, ProtoAccept, clients
  <2>2. PICK r \in {"recv", "send"}, f \in Fds :
            Accepts(r, f) /\ queue' = [queue EXCEPT ![r] = Tail(queue[r])]
    BY <2>1
  <2>6. Moves /\ fds[f] = FREE /\ \A g \in Fds : g # f => fds'[g] = fds[g]
    BY <1>0, <2>2, AcceptMoves, FreeNat
  <2>3. \A i \in 1 .. ConnSize : conn_fd[i] # 0 => conn_fd'[i] = conn_fd[i]
    <3>1. CASE ProtoAccept
      BY <3>1 DEF ProtoAccept
    <3>2. CASE RegAccept
      <4>1. Vacant \in SUBSET Nat /\ Vacant # {}
        BY <3>2, Numbers DEF Vacant, RegAccept
      <4>2. Min(Vacant) \in Vacant
        BY <4>1, MinIn
      <4> QED
        BY <1>0, <3>2, <4>2 DEF RegAccept, Store, Vacant, TypeManager
    <3> QED
      BY <1>5, <3>1, <3>2
  <2>4. ASSUME NEW t \in Distributors, NEW a \in Apps, Passed(t, a)
        PROVE  Passed(t, a)'
    <3>1. PICK i \in 1 .. ConnSize :
              i < dist[t].at /\ conn_fd[i] # 0 /\ fds[conn_fd[i]] = Of(a, "recv")
      BY <2>4 DEF Passed
    <3>2. conn_fd[i] \in Fds /\ conn_fd[i] # f
      BY <1>4, <2>6, <3>1, Ends
    <3>3. conn_fd'[i] = conn_fd[i] /\ fds'[conn_fd[i]] = fds[conn_fd[i]]
      BY <2>6, <2>3, <3>1, <3>2
    <3> QED
      BY <2>1, <3>1, <3>3 DEF Passed
  <2> QED
    BY <1>3, <2>1, <2>6, <2>4
<1>6. ASSUME RegFull
      PROVE  Silent
  <2>1. UNCHANGED <<posted, got, inbox, tx, dist>> /\ ~reg'
    BY <1>6 DEF RegFull, clients
  <2> QED
    BY <1>0, <1>3, <1>6, <2>1, FullMoves
<1>7. ASSUME NEW a \in Apps, Register(a) \/ SendConnect(a)
      PROVE  Silent
  <2>1. UNCHANGED <<posted, got, inbox, dist, reg, fds, conn_fd>>
    BY <1>7 DEF Register, SendConnect
  <2>2. ASSUME NEW s \in Apps, tx'[s] = "sent", Attached(Of(s, "send"))'
        PROVE  tx[s] = "sent" /\ Attached(Of(s, "send"))
    <3>1. CASE Register(a)
      <4>1. tx' = tx /\ queue'["send"] = queue["send"]
        BY <1>0, <3>1 DEF Register, Connects, TypeManager
      <4> QED
        BY <2>1, <2>2, <4>1, Ends DEF Attached
    <3>2. CASE SendConnect(a)
      <4>1. s # a /\ tx'[s] = tx[s]
        BY <1>0, <2>2, <3>2 DEF SendConnect, TypeClients
      <4>2. queue'["send"] = Append(queue["send"], Of(a, "send"))
        BY <1>0, <3>2 DEF SendConnect, Sent, TypeManager
      <4>3. /\ DOMAIN queue'["send"] = (DOMAIN queue["send"]) \cup {Len(queue["send"]) + 1}
            /\ \A i \in DOMAIN queue["send"] : queue'["send"][i] = queue["send"][i]
            /\ queue'["send"][Len(queue["send"]) + 1] = Of(a, "send")
        <5>1. queue["send"] \in Seq(End \cup {DEAD}) /\ Of(a, "send") \in End \cup {DEAD}
          BY <1>0, Ends DEF TypeManager
        <5> QED
          BY <4>2, <5>1, Appended
      <4>4. Of(s, "send") # Of(a, "send") /\ Of(s, "send").role = "send"
        BY <4>1, Ends
      <4> QED
        BY <2>1, <2>2, <4>1, <4>3, <4>4 DEF Attached
    <3> QED
      BY <1>7, <3>1, <3>2
  <2> QED
    BY <2>1, <2>2 DEF Silent, Passed
<1>8. ASSUME NEW a \in Apps, Answered(a) \/ SendFails(a)
      PROVE  Silent
  <2>1. /\ UNCHANGED <<posted, got, dist, reg, conn_fd, queue>>
        /\ inbox' = [inbox EXCEPT ![Of(a, "send")] = <<>>]
        /\ tx' = [tx EXCEPT ![a] = "idle"]
    BY <1>8 DEF Answered, SendFails, SendDone, Sent, manager
  <2>2. \A f \in Fds : fds'[f] = fds[f] \/ (fds[f] = Of(a, "send") /\ fds'[f] = DEAD)
    BY <1>0, <1>8 DEF Answered, SendFails, Sent, TypeManager, manager
  <2>3. \A b \in Apps : inbox'[Of(b, "recv")] = inbox[Of(b, "recv")]
    BY <1>0, <2>1, Ends DEF TypeClients
  <2>4. \A s \in Apps : tx'[s] = "sent" /\ Attached(Of(s, "send"))' =>
                            tx[s] = "sent" /\ Attached(Of(s, "send"))
    <3>1. \A s \in Apps : Attached(Of(s, "send"))' => Attached(Of(s, "send"))
      BY <2>1, <2>2, Ends DEF Attached
    <3>2. \A s \in Apps : tx'[s] = "sent" => tx[s] = "sent"
      BY <1>0, <2>1 DEF TypeClients
    <3> QED
      BY <3>1, <3>2
  <2>5. \A t \in Distributors, b \in Apps : Passed(t, b) => Passed(t, b)'
    BY <1>4, <2>1, <2>2, Ends DEF Passed
  <2> QED
    BY <2>1, <2>3, <2>4, <2>5 DEF Silent
<1>9. ASSUME ProtoGone \/ Boot \/ DevSelect \/ UNCHANGED vars
      PROVE  Silent
  BY <1>1, <1>9 DEF ProtoGone, Boot, DevSelect, vars, manager, clients
<1>10. ASSUME NEW d \in Devices, Plug(d) \/ Unplug(d)
       PROVE  Silent
  BY <1>1, <1>10 DEF Plug, Unplug, manager, clients
<1>11. ASSUME NEW i \in Slots, DevHandle(i)
       PROVE  Silent \/ Shares
  BY <1>1, <1>11, DevHandled
<1> QED
  BY <1>2, <1>5, <1>6, <1>7, <1>8, <1>9, <1>10, <1>11

LEMMA EventNames ==
    ASSUME Types
    PROVE  /\ \A t \in Distributors : dist[t] # NULL =>
                 /\ dist[t].event \in Event /\ dist[t].at \in 1 .. ConnSize
                 /\ dist[t].event.source \in Sources /\ dist[t].event.n \in Nat
           /\ \A s \in Sources : posted[s] \in Nat
           /\ \A a \in Apps : \A k \in DOMAIN inbox[Of(a, "recv")] :
                 /\ inbox[Of(a, "recv")][k] \in Event
                 /\ inbox[Of(a, "recv")][k].source \in Sources
                 /\ inbox[Of(a, "recv")][k].n \in 1 .. MaxEvents + MaxPlugs
           /\ \A a \in Apps, s \in Sources : \A k \in DOMAIN got[a][s] :
                 got[a][s][k] \in 1 .. MaxEvents + MaxPlugs
<1>1. \A t \in Distributors : dist[t] # NULL => dist[t] \in [event : Event, at : 1 .. ConnSize]
  BY DEF Types, TypeDist
<1>2. \A e \in Event : e.source \in Sources /\ e.n \in 1 .. MaxEvents + MaxPlugs /\ e.n \in Nat
  BY DEF Event
<1>3. \A a \in Apps : inbox[Of(a, "recv")] \in Seq(Event)
  BY DEF Types, TypeClients
<1>4. \A a \in Apps, s \in Sources : got[a][s] \in Seq(1 .. MaxEvents + MaxPlugs)
  BY DEF Types, TypeClients
<1>5. \A s \in Sources : posted[s] \in Nat
  BY Numbers DEF Types, TypeCounts
<1>6. \A t \in Distributors : dist[t] # NULL =>
          dist[t].event \in Event /\ dist[t].at \in 1 .. ConnSize
  BY <1>1
<1>7. \A a \in Apps : \A k \in DOMAIN inbox[Of(a, "recv")] : inbox[Of(a, "recv")][k] \in Event
  BY <1>3
<1>8. \A a \in Apps, s \in Sources : \A k \in DOMAIN got[a][s] :
          got[a][s][k] \in 1 .. MaxEvents + MaxPlugs
  <2>1. ASSUME NEW T, NEW q \in Seq(T)
        PROVE  \A k \in DOMAIN q : q[k] \in T
    OBVIOUS
  <2> QED
    BY <1>4, <2>1, Zenon
<1> QED
  BY <1>2, <1>5, <1>6, <1>7, <1>8

LEMMA BeforeLater ==
    ASSUME Types, NEW a \in Apps, NEW s \in Sources, NEW n \in Int, NEW m \in Int,
           n <= m, Before(a, s, n)
    PROVE  Before(a, s, m)
<1>1. \A k \in DOMAIN got[a][s] : got[a][s][k] \in Int /\ got[a][s][k] < n
  BY EventNames, Numbers DEF Before
<1>2. \A k \in DOMAIN inbox[Of(a, "recv")] : inbox[Of(a, "recv")][k].n \in Int
  BY EventNames, Numbers
<1> QED
  BY <1>1, <1>2 DEF Before

\* The event that is written to the manager is the newest of its source.
LEMMA EventOrder ==
    ASSUME Types, Order, NEW a \in Apps, SendEvent(a)
    PROVE  Order'
<1>1. /\ UNCHANGED <<reg, fds, conn_fd, queue, dist, inbox, got>>
      /\ tx' = [tx EXCEPT ![a] = "sent"] /\ posted' = [posted EXCEPT ![a] = posted[a] + 1]
  BY DEF SendEvent, manager
<1>2. /\ posted'[a] = posted[a] + 1 /\ \A s \in Sources : s # a => posted'[s] = posted[s]
      /\ \A s \in Sources : posted[s] \in Nat /\ posted'[s] \in Nat /\ posted[s] <= posted'[s]
  BY <1>1, EventNames, Names DEF Types, TypeCounts
<1>3. \A s, n : \A b \in Apps : Before(b, s, n)' <=> Before(b, s, n)
  BY <1>1 DEF Before
<1>4. InOrder'
  BY <1>1 DEF Order, InOrder
<1>5. ASSUME NEW b \in Apps, NEW s \in Sources
      PROVE  Before(b, s, posted'[s] + 1)
  <2>1. Before(b, s, posted[s] + 1)
    BY DEF Order, Sendable
  <2> QED
    BY <1>2, <2>1, BeforeLater
<1>6. Sendable'
  BY <1>3, <1>5 DEF Sendable
<1>7. Unread'
  <2> SUFFICES ASSUME NEW s \in Apps, tx'[s] = "sent", Attached(Of(s, "send"))'
               PROVE  /\ \A b \in Apps : Before(b, s, posted'[s])
                      /\ dist["proto"] # NULL /\ dist["proto"].event.source = s
                             => dist["proto"].event.n < posted'[s]
    BY <1>1, <1>3 DEF Unread
  <2>1. CASE s = a
    <3>1. dist["proto"] # NULL /\ dist["proto"].event.source = s
             => dist["proto"].event.n <= posted[s] /\ dist["proto"].event.n \in Nat
      BY EventNames DEF Order, Pending, Distributors
    <3> QED
      BY <1>2, <2>1, <3>1, Names DEF Order, Sendable
  <2>2. CASE s # a
    <3>1. Attached(Of(s, "send")) /\ tx[s] = "sent" /\ posted'[s] = posted[s]
      BY <1>1, <1>2, <2>2, Names DEF Attached, Types, TypeClients
    <3> QED
      BY <3>1 DEF Order, Unread
  <2> QED
    BY <2>1, <2>2
<1>8. Pending'
  <2>1. \A t \in Distributors : dist[t] # NULL =>
            dist[t].event.n <= posted'[dist[t].event.source]
    BY <1>2, EventNames DEF Order, Pending
  <2>2. \A t \in Distributors, b \in Apps : Passed(t, b)' <=> Passed(t, b)
    BY <1>1 DEF Passed
  <2> QED
    BY <1>1, <1>3, <2>1, <2>2 DEF Order, Pending
<1> QED
  BY <1>4, <1>6, <1>7, <1>8 DEF Order

\* The event of the devices that is passed on is their newest.
LEMMA SharesOrder ==
    ASSUME Types, Order, Shares, dist["dev"] = NULL,
           UNCHANGED <<reg, fds, conn_fd, queue, tx, inbox, got>>
    PROVE  Order'
<1> DEFINE new == posted["dev"] + 1
<1>1. /\ posted' = [posted EXCEPT !["dev"] = new]
      /\ dist' = [dist EXCEPT !["dev"] = [event |-> [source |-> "dev", n |-> posted'["dev"]], at |-> 1]]
  BY DEF Shares, Begin
<1>2. /\ posted'["dev"] = new /\ \A s \in Sources : s # "dev" => posted'[s] = posted[s]
      /\ \A s \in Sources : posted[s] \in Nat /\ posted'[s] \in Nat /\ posted[s] <= posted'[s]
  BY <1>1, EventNames, Names DEF Types, TypeCounts
<1>3. dist'["dev"] = [event |-> [source |-> "dev", n |-> new], at |-> 1]
      /\ dist'["proto"] = dist["proto"]
  BY <1>1, <1>2 DEF Types, TypeDist, Distributors
<1> HIDE DEF new
<1>4. \A s, n : \A b \in Apps : Before(b, s, n)' <=> Before(b, s, n)
  BY DEF Before
<1>5. InOrder'
  BY DEF Order, InOrder
<1>6. ASSUME NEW b \in Apps, NEW s \in Sources
      PROVE  Before(b, s, posted'[s] + 1)
  <2>1. Before(b, s, posted[s] + 1)
    BY DEF Order, Sendable
  <2> QED
    BY <1>2, <2>1, BeforeLater
<1>7. Sendable'
  BY <1>4, <1>6 DEF Sendable
<1>8. Unread'
  <2>1. \A s \in Apps : posted'[s] = posted[s]
    BY <1>2, Names
  <2> QED
    BY <1>3, <1>4, <2>1 DEF Order, Unread, Attached
<1>9. Pending'
  <2>1. ASSUME dist["proto"] # NULL
        PROVE  dist["proto"].event.n <= posted'[dist["proto"].event.source]
    BY <1>2, <2>1, EventNames DEF Order, Pending, Distributors
  <2>2. \A b \in Apps : Passed("proto", b)' <=> Passed("proto", b)
    BY <1>3 DEF Passed
  <2>3. \A b \in Apps : Before(b, "dev", new)
    BY Names DEF Order, Sendable, new
  <2>4. new <= posted'["dev"]
    BY <1>2, Names
  <2>5. \A t \in Distributors : t = "dev" \/ t = "proto"
    BY DEF Distributors
  <2> SUFFICES ASSUME NEW t \in Distributors, dist'[t] # NULL
               PROVE  /\ dist'[t].event.n <= posted'[dist'[t].event.source]
                      /\ dist'[t].event.source = "dev" <=> t = "dev"
                      /\ \A b \in Apps : reg /\ ~Passed(t, b)' =>
                            Before(b, dist'[t].event.source, dist'[t].event.n)
    BY <1>4 DEF Pending
  <2>6. CASE t = "dev"
    BY <1>3, <2>3, <2>4, <2>6
  <2>7. CASE t = "proto"
    BY <1>3, <2>1, <2>2, <2>7 DEF Order, Pending, Distributors
  <2> QED
    BY <2>5, <2>6, <2>7
<1> QED
  BY <1>5, <1>7, <1>8, <1>9 DEF Order

\* The event that is read was not passed on yet: its sender has closed with it.
LEMMA ReadOrder ==
    ASSUME Types, Wiring, Order, NEW a \in Apps, ProtoRead(a)
    PROVE  Order'
<1> DEFINE e == Of(a, "send")
<1>1. /\ conn # 0 /\ fds[conn] = e /\ tx[a] = "sent"
      /\ inbox' = [inbox EXCEPT ![e] = Append(inbox[e], YES)]
      /\ fds' = [fds EXCEPT ![conn] = FREE]
      /\ UNCHANGED <<reg, conn_fd, queue, tx, posted, got>>
      /\ dist' = [dist EXCEPT !["proto"] = [event |-> [source |-> a, n |-> posted'[a]], at |-> 1]]
  BY DEF ProtoRead, Feedback, Sent, Begin
<1>2. conn \in Fds
  BY <1>1, Numbers DEF Types, TypeManager, Fds
<1>3. /\ dist'["proto"] = [event |-> [source |-> a, n |-> posted[a]], at |-> 1]
      /\ dist'["dev"] = dist["dev"]
  BY <1>1 DEF Types, TypeDist, Distributors
<1>4. \A f \in Fds : (f = conn => fds'[f] = FREE) /\ (f # conn => fds'[f] = fds[f])
  BY <1>1 DEF Types, TypeManager
<1>5. \A b \in Apps : inbox'[Of(b, "recv")] = inbox[Of(b, "recv")]
  BY <1>1, Ends DEF Types, TypeClients
<1>6. \A s, n : \A b \in Apps : Before(b, s, n)' <=> Before(b, s, n)
  BY <1>1, <1>5 DEF Before
<1>7. InOrder'
  <2>1. got' = got
    BY <1>1
  <2> QED
    BY <1>5, <2>1 DEF Order, InOrder
<1>8. Sendable'
  BY <1>1, <1>6 DEF Order, Sendable
<1>9. ASSUME NEW s \in Apps, Attached(Of(s, "send"))'
      PROVE  Attached(Of(s, "send")) /\ s # a
  <2>1. \A f \in Fds : fds'[f] = Of(s, "send") => fds[f] = Of(s, "send") /\ f # conn
    BY <1>4, Ends
  <2>2. ~Attached(e)'
    <3>1. \A f \in Fds : fds'[f] # e
      BY <1>1, <1>2, <1>4, Ends DEF Wiring, OneFd
    <3>2. \A i \in DOMAIN queue["send"] : queue["send"][i] # e
      BY <1>1, <1>2, Ends DEF Wiring, OneTurn
    <3> QED
      BY <1>1, <3>1, <3>2, Ends DEF Attached
  <2> QED
    BY <1>1, <1>9, <2>1, <2>2 DEF Attached
<1>10. Unread'
  <2>1. dist'["proto"].event.source = a
    BY <1>3
  <2> QED
    BY <1>1, <1>6, <1>9, <2>1 DEF Order, Unread
<1>11. Pending'
  <2> SUFFICES ASSUME NEW t \in Distributors, dist'[t] # NULL
               PROVE  /\ dist'[t].event.n <= posted[dist'[t].event.source]
                      /\ dist'[t].event.source = "dev" <=> t = "dev"
                      /\ \A b \in Apps : reg /\ ~Passed(t, b)' =>
                            Before(b, dist'[t].event.source, dist'[t].event.n)
    BY <1>1, <1>6 DEF Pending
  <2>1. CASE t = "dev"
    <3>1. \A b \in Apps : Passed("dev", b) => Passed("dev", b)'
      <4>1. \A i \in 1 .. ConnSize : conn_fd[i] # 0 => conn_fd[i] \in Fds
        BY Numbers DEF Types, TypeManager, Fds
      <4>2. \A b \in Apps : e # Of(b, "recv")
        BY Ends
      <4>3. \A f \in Fds, b \in Apps : fds[f] = Of(b, "recv") => fds'[f] = Of(b, "recv")
        BY <1>1, <1>4, <4>2
      <4> HIDE DEF e
      <4> QED
        BY <1>1, <1>3, <4>1, <4>3 DEF Passed
    <3> QED
      BY <1>3, <2>1, <3>1 DEF Order, Pending
  <2>2. CASE t = "proto"
    <3>1. dist'[t].event.source = a /\ dist'[t].event.n = posted[a]
      BY <1>3, <2>2
    <3>2. Attached(e)
      BY <1>1, <1>2 DEF Attached
    <3>3. \A b \in Apps : Before(b, a, posted[a])
      BY <1>1, <3>2 DEF Order, Unread
    <3>4. posted[a] <= posted[a]
      BY EventNames, Names
    <3> QED
      BY <2>2, <3>1, <3>3, <3>4, Names
  <2> QED
    BY <2>1, <2>2 DEF Distributors
<1> QED
  BY <1>7, <1>8, <1>10, <1>11 DEF Order

\* What is read is the oldest of its source that was not.
LEMMA ReceiveOrder ==
    ASSUME Types, Order, NEW a \in Apps, Receive(a)
    PROVE  /\ Order'
           /\ LET m == Head(inbox[Of(a, "recv")])
              IN  /\ m.source \in Sources /\ m.n \in 1 .. posted[m.source]
                  /\ \A k \in DOMAIN got[a][m.source] : got[a][m.source][k] < m.n
                  /\ got' = [got EXCEPT ![a][m.source] = Append(got[a][m.source], m.n)]
<1> DEFINE e == Of(a, "recv")
           q == inbox[e]
           m == Head(q)
           g == got[a][m.source]
<1>1. /\ q # <<>> /\ inbox' = [inbox EXCEPT ![e] = Tail(q)]
      /\ got' = [got EXCEPT ![a][m.source] = Append(g, m.n)]
      /\ UNCHANGED <<reg, fds, conn_fd, queue, tx, posted, dist>>
  BY DEF Receive, manager
<1>2. q \in Seq(Event) /\ inbox \in [End -> Seq(Event \cup {YES})] /\ e \in End
      /\ got \in [Apps -> [Sources -> Seq(1 .. MaxEvents + MaxPlugs)]]
  BY Ends DEF Types, TypeClients
<1>3. /\ m \in Event /\ m = q[1] /\ 1 \in DOMAIN q
      /\ Tail(q) \in Seq(Event) /\ DOMAIN Tail(q) = 1 .. Len(q) - 1 /\ DOMAIN q = 1 .. Len(q)
      /\ \A i \in DOMAIN Tail(q) : i + 1 \in DOMAIN q /\ Tail(q)[i] = q[i + 1]
  <2> HIDE DEF q
  <2> QED
    BY <1>1, <1>2, HeadTail
<1>4. m.source \in Sources /\ m.n \in 1 .. MaxEvents + MaxPlugs
  <2> HIDE DEF m
  <2> QED
    BY <1>3 DEF Event
<1>5. g \in Seq(1 .. MaxEvents + MaxPlugs)
  <2> HIDE DEF m
  <2> QED
    BY <1>2, <1>4
<1>6. /\ DOMAIN Append(g, m.n) = (DOMAIN g) \cup {Len(g) + 1} /\ DOMAIN g = 1 .. Len(g)
      /\ \A k \in DOMAIN g : Append(g, m.n)[k] = g[k]
      /\ Append(g, m.n)[Len(g) + 1] = m.n
  <2> HIDE DEF g, m
  <2> QED
    BY <1>4, <1>5, Appended
<1>7. /\ inbox'[e] = Tail(q) /\ got'[a][m.source] = Append(g, m.n)
      /\ \A b \in Apps : b # a => inbox'[Of(b, "recv")] = inbox[Of(b, "recv")] /\ got'[b] = got[b]
      /\ \A s \in Sources : s # m.source => got'[a][s] = got[a][s]
  <2>1. \A b \in Apps : b # a => Of(b, "recv") # e /\ Of(b, "recv") \in End
    BY Ends
  <2> HIDE DEF g, q, m, e
  <2> QED
    BY <1>1, <1>2, <1>4, <2>1
<1>8. Len(q) \in Nat /\ Len(g) \in Nat
  <2> HIDE DEF g, q
  <2> QED
    BY <1>2, <1>5
<1>9. /\ \A k \in DOMAIN g : g[k] < m.n
      /\ \A j \in DOMAIN q : /\ \A k \in DOMAIN got[a][q[j].source] : got[a][q[j].source][k] < q[j].n
                             /\ \A i \in DOMAIN q : i < j /\ q[i].source = q[j].source => q[i].n < q[j].n
  BY <1>3 DEF Order, InOrder
<1>10. m.n <= posted[m.source]
  <2>1. Before(a, m.source, posted[m.source] + 1)
    BY <1>4 DEF Order, Sendable
  <2>2. m.n < posted[m.source] + 1
    BY <1>3, <2>1 DEF Before
  <2> HIDE DEF m
  <2> QED
    BY <1>4, <2>2, EventNames
<1>11. ASSUME NEW b \in Apps, NEW s \in Sources, NEW n, Before(b, s, n)
       PROVE  Before(b, s, n)'
  <2>1. CASE b = a
    <3>1. \A k \in DOMAIN got[a][s] : got[a][s][k] < n
      BY <1>11, <2>1 DEF Before
    <3>2. \A k \in DOMAIN q : q[k].source = s => q[k].n < n
      BY <1>11, <2>1 DEF Before
    <3>3. \A k \in DOMAIN got'[a][s] : got'[a][s][k] < n
      <4>1. CASE s = m.source
        <5>1. g = got[a][s] /\ got'[a][s] = Append(g, m.n)
          BY <1>7, <4>1
        <5>2. m.n < n
          BY <1>3, <3>2, <4>1
        <5> HIDE DEF g, m
        <5> QED
          BY <1>6, <3>1, <5>1, <5>2
      <4>2. CASE s # m.source
        BY <1>7, <3>1, <4>2
      <4> QED
        BY <4>1, <4>2
    <3>4. \A k \in DOMAIN inbox'[e] : inbox'[e][k].source = s => inbox'[e][k].n < n
      <4> HIDE DEF q
      <4> QED
        BY <1>3, <1>7, <3>2
    <3> QED
      BY <2>1, <3>3, <3>4 DEF Before
  <2>2. CASE b # a
    BY <1>7, <1>11, <2>2 DEF Before
  <2> QED
    BY <2>1, <2>2
<1>18. \A s \in Sources, b \in Apps : \A n : Before(b, s, n) => Before(b, s, n)'
  BY <1>11
<1>12. InOrder'
  <2> SUFFICES ASSUME NEW b \in Apps, NEW j \in DOMAIN inbox'[Of(b, "recv")]
               PROVE  LET p == inbox'[Of(b, "recv")]
                      IN  /\ \A k \in DOMAIN got'[b][p[j].source] : got'[b][p[j].source][k] < p[j].n
                          /\ \A i \in DOMAIN p : i < j /\ p[i].source = p[j].source => p[i].n < p[j].n
    BY DEF InOrder
  <2>1. CASE b = a
    <3> DEFINE u == Tail(q)
    <3>1. j \in DOMAIN u /\ u[j] = q[j + 1] /\ j + 1 \in DOMAIN q /\ inbox'[e] = u
      BY <1>3, <1>7, <2>1
    <3>2. \A i \in DOMAIN u : u[i] = q[i + 1] /\ i + 1 \in DOMAIN q /\ i \in Int
      BY <1>3
    <3>3. q[j + 1].source \in Sources
      BY <3>1, EventNames
    <3>4. \A i \in DOMAIN u : i < j /\ u[i].source = u[j].source => u[i].n < u[j].n
      <4> HIDE DEF q, u
      <4> QED
        BY <1>9, <3>1, <3>2
    <3>5. \A k \in DOMAIN got'[a][u[j].source] : got'[a][u[j].source][k] < u[j].n
      <4>1. CASE u[j].source = m.source
        <5>1. m.n < u[j].n
          <6>1. 1 < j + 1 /\ 1 \in DOMAIN q
            BY <1>3, <3>1, <3>2
          <6> HIDE DEF q, u
          <6> QED
            BY <1>3, <1>9, <3>1, <4>1, <6>1
        <5>2. \A k \in DOMAIN g : g[k] < u[j].n
          <6>1. g = got[a][q[j + 1].source]
            BY <3>1, <4>1
          <6> HIDE DEF q, u, g
          <6> QED
            BY <1>9, <3>1, <6>1
        <5> HIDE DEF q, u, g, m
        <5> QED
          BY <1>6, <1>7, <4>1, <5>1, <5>2
      <4>2. CASE u[j].source # m.source
        <5> HIDE DEF q, u, m
        <5> QED
          BY <1>7, <1>9, <3>1, <3>3, <4>2
      <4> QED
        BY <4>1, <4>2
    <3> HIDE DEF u
    <3> QED
      BY <2>1, <3>1, <3>4, <3>5
  <2>2. CASE b # a
    BY <1>7, <2>2 DEF Order, InOrder
  <2> QED
    BY <2>1, <2>2
<1>13. Sendable'
  BY <1>1, <1>18 DEF Order, Sendable
<1>14. Unread'
  BY <1>1, <1>18, Names DEF Order, Unread, Attached
<1>15. Pending'
  <2>1. \A t \in Distributors, b \in Apps : Passed(t, b)' <=> Passed(t, b)
    BY <1>1 DEF Passed
  <2>2. \A t \in Distributors : dist[t] # NULL => dist[t].event.source \in Sources
    BY EventNames
  <2> QED
    BY <1>1, <1>18, <2>1, <2>2 DEF Order, Pending
<1>16. m.n \in 1 .. posted[m.source]
  <2> HIDE DEF m
  <2> QED
    BY <1>4, <1>10, EventNames
<1> HIDE DEF m
<1>17. Order'
  BY <1>12, <1>13, <1>14, <1>15 DEF Order
<1> QED
  BY <1>1, <1>4, <1>9, <1>16, <1>17 DEF m

\* A process that starts again has got nothing, and nothing waits for it.
LEMMA RestartOrder ==
    ASSUME Types, Wiring, Order, NEW a \in Apps, Restart(a)
    PROVE  Order'
<1>0. TypeManager /\ TypeClients /\ OneFd /\ OneTurn
  BY DEF Types, Wiring
<1>1. /\ UNCHANGED <<reg, conn_fd, dist, posted>>
      /\ tx' = [tx EXCEPT ![a] = "idle"]
      /\ fds' = [f \in Fds |-> Mourn(fds[f], a)]
      /\ queue' = [r \in DOMAIN queue |->
                      [i \in DOMAIN queue[r] |-> Mourn(queue[r][i], a)]]
      /\ inbox' = [x \in End |-> IF x.app = a THEN <<>> ELSE inbox[x]]
      /\ got' = [got EXCEPT ![a] = Nothing]
  BY DEF Restart
<1>2. /\ inbox'[Of(a, "recv")] = <<>> /\ \A s \in Sources : got'[a][s] = <<>>
      /\ \A b \in Apps : b # a => inbox'[Of(b, "recv")] = inbox[Of(b, "recv")] /\ got'[b] = got[b]
  BY <1>0, <1>1, Ends DEF TypeClients, Nothing
<1>3. \A s \in Sources, b \in Apps : \A n : Before(b, s, n) => Before(b, s, n)'
  <2>1. \A n : \A s \in Sources : Before(a, s, n)'
    BY <1>2 DEF Before
  <2>2. \A b \in Apps : b # a => \A s, n : Before(b, s, n) => Before(b, s, n)'
    BY <1>2 DEF Before
  <2> QED
    BY <2>1, <2>2
<1>4. InOrder'
  <2>1. \A b \in Apps : \A j \in DOMAIN inbox'[Of(b, "recv")] : b # a
    BY <1>2
  <2> QED
    BY <1>2, <2>1 DEF Order, InOrder
<1>5. Sendable'
  BY <1>1, <1>3 DEF Order, Sendable
<1>6. \A f \in Fds : fds'[f] = Mourn(fds[f], a)
  BY <1>1
<1>7. Moves
  <2>1. DOMAIN fds' = Fds /\ \A f \in Fds : fds'[f] \in {fds[f], FREE, DEAD}
    BY <1>1, <1>6 DEF Mourn
  <2>2. \A r \in {"recv", "send"} :
           /\ DOMAIN queue'[r] = DOMAIN queue[r]
           /\ \A i \in DOMAIN queue[r] : queue'[r][i] \in {queue[r][i], DEAD}
    BY <1>0, <1>1 DEF Mourn, TypeManager
  <2> QED
    BY <1>0, <2>1, <2>2, EndsMove
<1>8. Unread'
  <2>1. \A s \in Apps : tx'[s] = "sent" => tx[s] = "sent"
    BY <1>0, <1>1 DEF TypeClients
  <2>2. \A s \in Apps : Attached(Of(s, "send"))' => Attached(Of(s, "send"))
    BY <1>7, Ends DEF Moves
  <2> QED
    BY <1>1, <1>3, <2>1, <2>2, Names DEF Order, Unread
<1>9. Pending'
  <2>1. \A t \in Distributors, b \in Apps : b # a /\ Passed(t, b) => Passed(t, b)'
    <3>1. \A i \in 1 .. ConnSize : conn_fd[i] # 0 => conn_fd[i] \in Fds
      BY <1>0, Numbers DEF TypeManager, Fds
    <3>2. \A b \in Apps : b # a => Mourn(Of(b, "recv"), a) = Of(b, "recv")
      BY Ends DEF Mourn
    <3> QED
      BY <1>1, <1>6, <3>1, <3>2 DEF Passed
  <2>2. \A t \in Distributors : dist[t] # NULL => dist[t].event.source \in Sources
    BY EventNames
  <2>3. \A n : \A s \in Sources : Before(a, s, n)'
    BY <1>2 DEF Before
  <2> SUFFICES ASSUME NEW t \in Distributors, dist[t] # NULL, NEW b \in Apps, reg, ~Passed(t, b)'
               PROVE  Before(b, dist[t].event.source, dist[t].event.n)'
    BY <1>1 DEF Order, Pending
  <2> DEFINE s == dist[t].event.source
             n == dist[t].event.n
  <2>4. s \in Sources /\ dist' = dist
    BY <1>1, <2>2
  <2>5. CASE b = a
    <3>1. \A k : \A x \in Sources : Before(b, x, k)'
      BY <2>3, <2>5
    <3> QED
      BY <2>4, <3>1
  <2>6. CASE b # a
    <3>1. Before(b, s, n)
      BY <2>1, <2>6 DEF Order, Pending
    <3> QED
      BY <1>3, <2>4, <3>1
  <2> QED
    BY <2>5, <2>6
<1> QED
  BY <1>4, <1>5, <1>8, <1>9 DEF Order

\* A distribution writes to a receiver it has not gone past yet, because no
\* descriptor is twice in conn_fd and no connection has two descriptors.
LEMMA DistributeOrder ==
    ASSUME Types, Wiring, Order, NEW t \in Distributors, Distribute(t)
    PROVE  Order'
<1> DEFINE v == dist[t].event
           f0 == conn_fd[dist[t].at]
<1>0. TypeManager /\ TypeClients /\ TypeDist /\ OneFd /\ Table
  BY DEF Types, Wiring
<1>1. /\ UNCHANGED <<reg, fds, conn_fd, queue, tx, posted, got>> /\ dist[t] # NULL
      /\ dist' = [dist EXCEPT ![t] = IF dist[t].at = ConnSize THEN NULL
                                     ELSE [dist[t] EXCEPT !.at = dist[t].at + 1]]
      /\ \/ Target(t) \notin End /\ UNCHANGED inbox
         \/ Target(t) \in End /\ inbox' = [inbox EXCEPT ![Target(t)] = Append(inbox[Target(t)], v)]
  BY DEF Distribute, Onward
<1>2. /\ v \in Event /\ v.source \in Sources /\ v.n \in Nat /\ dist[t].at \in 1 .. ConnSize
      /\ v.n <= posted[v.source] /\ (v.source = "dev" <=> t = "dev")
      /\ \A b \in Apps : reg /\ ~Passed(t, b) => Before(b, v.source, v.n)
  BY <1>1, EventNames DEF Order, Pending
<1>3. /\ \A u \in Distributors : u # t => dist'[u] = dist[u]
      /\ dist'[t] # NULL => dist'[t].event = v /\ dist'[t].at = dist[t].at + 1
  <2>1. dist \in [Distributors -> {NULL} \cup [event : Event, at : 1 .. ConnSize]]
    BY <1>0 DEF TypeDist
  <2>2. dist[t] \in [event : Event, at : 1 .. ConnSize]
    BY <1>1, <2>1
  <2> QED
    BY <1>1, <2>1, <2>2
<1> DEFINE Hit(a) == Target(t) = Of(a, "recv")
<1>4. ASSUME NEW a \in Apps, Hit(a)
      PROVE  /\ reg /\ ~Passed(t, a) /\ Before(a, v.source, v.n)
             /\ f0 \in Fds /\ f0 # 0 /\ fds[f0] = Of(a, "recv")
  <2>1. f0 # 0 /\ f0 \in Fds /\ fds[f0] = Of(a, "recv")
    BY <1>0, <1>1, <1>4, TargetTyped, Ends
  <2>2. reg
    BY <1>0, <1>2, <2>1 DEF Table
  <2>3. ~Passed(t, a)
    <3>1. SUFFICES ASSUME NEW i \in 1 .. ConnSize, i < dist[t].at, conn_fd[i] # 0,
                          fds[conn_fd[i]] = Of(a, "recv")
                   PROVE  FALSE
      BY DEF Passed
    <3>2. conn_fd[i] \in Fds
      BY <1>0, <3>1, Numbers DEF TypeManager, Fds
    <3>3. conn_fd[i] = f0
      BY <1>0, <2>1, <3>1, <3>2, Ends DEF OneFd
    <3>4. i = dist[t].at
      BY <1>0, <1>2, <2>2, <3>1, <3>3 DEF Table
    <3> QED
      BY <1>2, <3>1, <3>4
  <2> QED
    BY <1>2, <2>1, <2>2, <2>3
<1>5. ASSUME NEW b \in Apps, ~Hit(b)
      PROVE  inbox'[Of(b, "recv")] = inbox[Of(b, "recv")]
  <2>1. Of(b, "recv") \in End
    BY Ends
  <2> QED
    BY <1>0, <1>1, <1>5, <2>1 DEF TypeClients
<1>6. ASSUME NEW a \in Apps, Hit(a)
      PROVE  LET q == inbox[Of(a, "recv")]
             IN  /\ inbox'[Of(a, "recv")] = Append(q, v) /\ q \in Seq(Event)
                 /\ DOMAIN Append(q, v) = (DOMAIN q) \cup {Len(q) + 1}
                 /\ DOMAIN q = 1 .. Len(q) /\ Len(q) \in Nat
                 /\ \A i \in DOMAIN q : Append(q, v)[i] = q[i]
                 /\ Append(q, v)[Len(q) + 1] = v
  <2> DEFINE e == Of(a, "recv")
             q == inbox[e]
  <2>1. e \in End /\ inbox \in [End -> Seq(Event \cup {YES})] /\ q \in Seq(Event)
    BY <1>0, Ends DEF TypeClients
  <2>2. inbox'[e] = Append(q, v)
    <3>1. Target(t) = e
      BY <1>6
    <3>2. inbox' = [inbox EXCEPT ![e] = Append(inbox[e], v)]
      BY <1>1, <2>1, <3>1
    <3> HIDE DEF e, v
    <3> QED
      BY <2>1, <3>2
  <2> HIDE DEF q, v
  <2>3. /\ DOMAIN Append(q, v) = (DOMAIN q) \cup {Len(q) + 1}
        /\ DOMAIN q = 1 .. Len(q) /\ Len(q) \in Nat
        /\ \A i \in DOMAIN q : Append(q, v)[i] = q[i]
        /\ Append(q, v)[Len(q) + 1] = v
    BY <1>2, <2>1, Appended
  <2> USE DEF q
  <2> QED
    BY <2>1, <2>2, <2>3
<1> HIDE DEF v, f0, Hit
\* Only the receiver that is written to has more to come, and of one source.
<1>7. \A b \in Apps, s \in Sources : \A n :
          Before(b, s, n) /\ (Hit(b) /\ s = v.source => v.n < n) => Before(b, s, n)'
  <2> SUFFICES ASSUME NEW b \in Apps, NEW s \in Sources, NEW n, Before(b, s, n),
                      Hit(b) /\ s = v.source => v.n < n
               PROVE  Before(b, s, n)'
    OBVIOUS
  <2>1. CASE ~Hit(b)
    BY <1>1, <1>5, <2>1 DEF Before
  <2>2. CASE Hit(b)
    <3> DEFINE q == inbox[Of(b, "recv")]
    <3>1. \A k \in DOMAIN q : q[k].source = s => q[k].n < n
      BY DEF Before
    <3>2. /\ inbox'[Of(b, "recv")] = Append(q, v)
          /\ DOMAIN Append(q, v) = (DOMAIN q) \cup {Len(q) + 1}
          /\ \A i \in DOMAIN q : Append(q, v)[i] = q[i]
          /\ Append(q, v)[Len(q) + 1] = v
      BY <1>6, <2>2
    <3> HIDE DEF q
    <3>3. \A k \in DOMAIN Append(q, v) : Append(q, v)[k].source = s => Append(q, v)[k].n < n
      BY <2>2, <3>1, <3>2
    <3> QED
      BY <1>1, <3>2, <3>3 DEF Before
  <2> QED
    BY <2>1, <2>2
<1>8. InOrder'
  <2> SUFFICES ASSUME NEW b \in Apps, NEW j \in DOMAIN inbox'[Of(b, "recv")]
               PROVE  LET p == inbox'[Of(b, "recv")]
                      IN  /\ \A k \in DOMAIN got[b][p[j].source] : got[b][p[j].source][k] < p[j].n
                          /\ \A i \in DOMAIN p : i < j /\ p[i].source = p[j].source => p[i].n < p[j].n
    BY <1>1 DEF InOrder
  <2>1. CASE ~Hit(b)
    BY <1>5, <2>1 DEF Order, InOrder
  <2>2. CASE Hit(b)
    <3> DEFINE q == inbox[Of(b, "recv")]
               p == Append(q, v)
    <3>1. /\ inbox'[Of(b, "recv")] = p
          /\ DOMAIN p = (DOMAIN q) \cup {Len(q) + 1} /\ DOMAIN q = 1 .. Len(q) /\ Len(q) \in Nat
          /\ \A i \in DOMAIN q : p[i] = q[i]
          /\ p[Len(q) + 1] = v
      BY <1>6, <2>2
    <3>2. Before(b, v.source, v.n)
      BY <1>4, <2>2
    <3>3. /\ \A k \in DOMAIN got[b][v.source] : got[b][v.source][k] < v.n
          /\ \A k \in DOMAIN q : q[k].source = v.source => q[k].n < v.n
      BY <3>2 DEF Before
    <3>4. \A i \in DOMAIN q : /\ \A k \in DOMAIN got[b][q[i].source] : got[b][q[i].source][k] < q[i].n
                              /\ \A k \in DOMAIN q : k < i /\ q[k].source = q[i].source => q[k].n < q[i].n
      BY DEF Order, InOrder
    <3> HIDE DEF q, p
    <3>5. CASE j \in DOMAIN q
      <4>1. p[j] = q[j] /\ \A i \in DOMAIN p : i < j => i \in DOMAIN q /\ p[i] = q[i]
        BY <3>1, <3>5
      <4> QED
        BY <3>1, <3>4, <3>5, <4>1
    <3>6. CASE j = Len(q) + 1
      <4>1. p[j] = v /\ \A i \in DOMAIN p : i < j => i \in DOMAIN q /\ p[i] = q[i]
        BY <3>1, <3>6
      <4> QED
        BY <3>1, <3>3, <4>1
    <3> QED
      BY <3>1, <3>5, <3>6
  <2> QED
    BY <2>1, <2>2
<1>9. Sendable'
  <2>1. v.n < posted[v.source] + 1
    BY <1>2, EventNames
  <2> QED
    BY <1>1, <1>7, <2>1 DEF Order, Sendable
<1>10. Unread'
  <2> SUFFICES ASSUME NEW s \in Apps, tx[s] = "sent", Attached(Of(s, "send"))
               PROVE  /\ \A b \in Apps : Before(b, s, posted[s])'
                      /\ dist'["proto"] # NULL /\ dist'["proto"].event.source = s
                             => dist'["proto"].event.n < posted[s]
    BY <1>1 DEF Unread, Attached
  <2>1. dist["proto"] # NULL /\ dist["proto"].event.source = s
            => dist["proto"].event.n < posted[s]
    BY DEF Order, Unread
  <2>2. dist'["proto"] # NULL => dist["proto"] # NULL /\ dist'["proto"].event = dist["proto"].event
    BY <1>1, <1>3 DEF Distributors, v
  <2>3. v.source = s => v.n < posted[s]
    BY <1>1, <1>2, <2>1, Names DEF Distributors, v
  <2>4. \A b \in Apps : Before(b, s, posted[s]) /\ s \in Sources
    BY Names DEF Order, Unread
  <2> QED
    BY <1>1, <1>7, <2>1, <2>2, <2>3, <2>4
<1>11. Pending'
  <2> SUFFICES ASSUME NEW u \in Distributors, dist'[u] # NULL
               PROVE  /\ dist'[u].event.n <= posted[dist'[u].event.source]
                      /\ dist'[u].event.source = "dev" <=> u = "dev"
                      /\ \A b \in Apps : reg /\ ~Passed(u, b)' =>
                            Before(b, dist[u].event.source, dist[u].event.n)'
    BY <1>1, <1>3 DEF Pending, v
  <2>1. dist[u] # NULL /\ dist'[u].event = dist[u].event
    BY <1>1, <1>3 DEF v
  <2> DEFINE w == dist[u].event
  <2>2. /\ w.n <= posted[w.source] /\ (w.source = "dev" <=> u = "dev") /\ w.source \in Sources
        /\ \A b \in Apps : reg /\ ~Passed(u, b) => Before(b, w.source, w.n)
    BY <2>1, EventNames DEF Order, Pending
  <2>3. ASSUME NEW b \in Apps, reg, ~Passed(u, b)'
        PROVE  Before(b, w.source, w.n) /\ (Hit(b) => w.source # v.source)
    <3>1. CASE u = t
      <4>1. dist'[t].at = dist[t].at + 1 /\ dist[t].at \in 1 .. ConnSize
        BY <1>2, <1>3, <3>1
      <4>2. ~Passed(t, b)
        BY <1>1, <2>3, <3>1, <4>1 DEF Passed
      <4>3. ~Hit(b)
        BY <1>1, <1>4, <2>3, <3>1, <4>1 DEF Passed, f0
      <4> QED
        BY <2>2, <2>3, <3>1, <4>2, <4>3
    <3>2. CASE u # t
      <4>1. dist'[u] = dist[u]
        BY <1>3, <3>2
      <4>2. ~Passed(u, b)
        BY <1>1, <2>3, <4>1 DEF Passed
      <4>3. w.source # v.source
        <5> HIDE DEF w
        <5>1. (u = "dev" /\ t = "proto") \/ (u = "proto" /\ t = "dev")
          BY <3>2 DEF Distributors
        <5> QED
          BY <1>2, <2>2, <5>1
      <4> QED
        BY <2>2, <2>3, <4>2, <4>3
    <3> QED
      BY <3>1, <3>2
  <2> QED
    BY <1>1, <1>7, <2>1, <2>2, <2>3
<1> QED
  BY <1>8, <1>9, <1>10, <1>11 DEF Order

LEMMA InitRest == Init => Wiring /\ Order
<1> SUFFICES ASSUME Init
             PROVE  Wiring /\ Order
  OBVIOUS
<1> USE DEF Init
<1>1. /\ \A f \in Fds : fds[f] = FREE
      /\ \A r \in {"recv", "send"} : queue[r] = <<>>
      /\ \A i \in 1 .. ConnSize : conn_fd[i] = 0
      /\ \A a \in Apps : /\ inbox[Of(a, "recv")] = <<>> /\ inbox[Of(a, "send")] = <<>>
                         /\ tx[a] = "idle" /\ \A s \in Sources : got[a][s] = <<>>
      /\ \A t \in Distributors : dist[t] = NULL
      /\ conn = 0 /\ reg /\ \A s \in Sources : posted[s] = 0
  BY Ends DEF NoFds, NoQueue, NoConnFd, NoDist, Nothing
<1>2. \A e \in End : ~Attached(e)
  BY <1>1, Ends DEF Attached, End
<1>3. Wiring
  BY <1>1, <1>2, Ends DEF Wiring, OneFd, OneTurn, Known, Table
<1>4. \A n : \A a \in Apps, s \in Sources : Before(a, s, n)
  BY <1>1 DEF Before
<1>5. InOrder /\ Sendable /\ Unread /\ Pending
  BY <1>1, <1>4 DEF InOrder, Sendable, Unread, Pending
<1> QED
  BY <1>3, <1>5 DEF Order

LEMMA OrderStep == IInv /\ [Next]_vars => Order'
<1> SUFFICES ASSUME Types, Wiring, Order, [Next]_vars
             PROVE  Order'
  BY DEF IInv
<1>1. CASE Silent
  BY <1>1, SilentOrder
<1>2. ASSUME NEW a \in Apps, Receive(a) \/ SendEvent(a) \/ Restart(a) \/ ProtoRead(a)
      PROVE  Order'
  BY <1>2, ReceiveOrder, EventOrder, RestartOrder, ReadOrder
<1>3. ASSUME NEW i \in Slots, DevHandle(i)
      PROVE  Order'
  <2>1. CASE Shares
    BY <1>3, <2>1, DevHandled, SharesOrder
  <2> QED
    BY <1>1, <1>3, <2>1, SilentSteps
<1>4. ASSUME NEW t \in Distributors, Distribute(t)
      PROVE  Order'
  BY <1>4, DistributeOrder
<1> QED
  BY <1>1, <1>2, <1>3, <1>4, SilentSteps
     DEF Next, Manager, Proto, Dev, DevHandle, App, HandlerGet, Reconnect

LEMMA Inductive == Spec => []IInv
<1>1. Init => IInv
  BY InitTypes, InitRest DEF IInv
<1>2. IInv /\ [Next]_vars => IInv'
  BY TypesStep, WiringStep, OrderStep DEF IInv
<1> QED
  BY <1>1, <1>2, PTL DEF Spec

-----------------------------------------------------------------------------
(* The refinement.                                                          *)

\* posted and got change as EventBus says, or not at all.
LEMMA BusStep == IInv /\ [Next]_vars => [Bus!Next]_(Bus!vars)
<1> SUFFICES ASSUME Types, Wiring, Order, [Next]_vars
             PROVE  Bus!Next \/ UNCHANGED <<posted, got>>
  BY DEF IInv, Bus!vars
<1>1. CASE Silent
  BY <1>1 DEF Silent
<1>2. ASSUME NEW a \in Apps, Receive(a)
      PROVE  Bus!Next
  <2> DEFINE m == Head(inbox[Of(a, "recv")])
             s == m.source
             n == m.n
  <2>1. /\ s \in Sources /\ n \in 1 .. posted[s]
        /\ \A k \in DOMAIN got[a][s] : got[a][s][k] < n
        /\ got' = [got EXCEPT ![a][s] = Append(got[a][s], n)]
    BY <1>2, ReceiveOrder
  <2>2. UNCHANGED posted
    BY <1>2 DEF Receive
  <2> HIDE DEF s, n
  <2>3. Bus!Get(a, s)
    BY <2>1, <2>2 DEF Bus!Get, Bus!Newer
  <2> QED
    BY <2>1, <2>3 DEF Bus!Next
<1>3. ASSUME NEW a \in Apps, SendEvent(a)
      PROVE  Bus!Next
  <2>1. Bus!Post(a)
    BY <1>3 DEF SendEvent, Bus!Post
  <2> QED
    BY <2>1, Names DEF Bus!Next
<1>4. ASSUME NEW a \in Apps, Restart(a)
      PROVE  Bus!Next
  <2>1. Bus!Restart(a)
    BY <1>4 DEF Restart, Bus!Restart, Nothing, Bus!Nothing
  <2> QED
    BY <2>1 DEF Bus!Next
<1>5. ASSUME NEW a \in Apps, ProtoRead(a)
      PROVE  UNCHANGED <<posted, got>>
  BY <1>5 DEF ProtoRead
<1>6. ASSUME NEW i \in Slots, DevHandle(i)
      PROVE  Bus!Next \/ UNCHANGED <<posted, got>>
  <2>1. CASE Shares
    <3>1. Bus!Post("dev")
      BY <1>6, <2>1, DevHandled DEF Shares, Bus!Post
    <3> QED
      BY <3>1, Names DEF Bus!Next
  <2> QED
    BY <1>1, <1>6, <2>1, SilentSteps
<1>7. ASSUME NEW t \in Distributors, Distribute(t)
      PROVE  UNCHANGED <<posted, got>>
  BY <1>7 DEF Distribute
<1> QED
  BY <1>1, <1>2, <1>3, <1>4, <1>5, <1>6, <1>7, SilentSteps
     DEF Next, Manager, Proto, Dev, DevHandle, App, HandlerGet, Reconnect

\* event_manager.c, event_interface.c: whatever dies and starts again, nobody
\* receives what was not sent, and nobody receives an event of a process or of
\* the devices twice or before an older one of the same sender.
THEOREM ImplementsBus == Spec => BusSpec
<1>1. Init => Bus!Init
  BY DEF Init, Bus!Init, Nothing, Bus!Nothing
<1> QED
  BY <1>1, Inductive, BusStep, PTL DEF Spec, BusSpec, Bus!Spec

=============================================================================
