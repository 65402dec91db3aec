------------------------ MODULE PlayerChannelProofs ------------------------
(***************************************************************************)
(* Theorems about PlayerChannel for any clients, any room of the socket    *)
(* and any number of deaths of the daemon.                                 *)
(*                                                                         *)
(* An answer carries no address.  It is the right one because between the  *)
(* send and the return of a request there is at most one message of a      *)
(* request anywhere, the one of the client that holds the mutex; and none  *)
(* is left behind when that client gives up, because a connection that is  *)
(* dead takes no request and has lost those it had taken.                  *)
(***************************************************************************)
EXTENDS PlayerChannel, TLAPS

\* The client in a request holds player_internal_mutex, on a handler that works.
CallInv ==
    /\ \A c \in Clients : call[c] # "idle" <=> mutex = c
    /\ ctl # "ready" => \A c \in Clients : call[c] = "idle"

Own(m) ==
    /\ mutex \in Clients /\ call[mutex] = "waiting"
    /\ m = [type |-> asked[mutex], from |-> mutex]

AnswerInv == \A i \in DOMAIN answers : i = 1 /\ Own(answers[i])

RequestInv ==
    /\ \A i \in DOMAIN cmds : cmds[i].type \in Requests => answers = <<>> /\ Own(cmds[i])
    /\ \A i, j \in DOMAIN cmds :
          cmds[i].type \in Requests /\ cmds[j].type \in Requests => i = j

\* A connection that is dead, or not in use yet, holds nothing for the daemon.
DeadInv == sync # "open" \/ ctl \in {"none", "half"} => cmds = <<>>

\* The report thread runs on a handler that is there, until it is joined.
ThreadInv ==
    /\ rec = "none" <=> ctl \in {"none", "half"}
    /\ rec = "gone" => ctl = "joining"
    /\ stop => ctl = "joining"

IInv == TypeOK /\ CallInv /\ AnswerInv /\ RequestInv /\ DeadInv /\ ThreadInv

-----------------------------------------------------------------------------
(* Sequences.                                                               *)

LEMMA QueueFacts ==
    ASSUME NEW S, NEW q \in Seq(S)
    PROVE  /\ Len(q) \in Nat /\ DOMAIN q = 1 .. Len(q) /\ \A i \in DOMAIN q : q[i] \in S
           /\ q # <<>> => /\ Tail(q) \in Seq(S) /\ Len(Tail(q)) = Len(q) - 1
                          /\ Head(q) = q[1] /\ Head(q) \in S /\ 1 \in DOMAIN q
                          /\ \A i \in DOMAIN Tail(q) :
                                i \in Nat /\ i + 1 \in DOMAIN q /\ Tail(q)[i] = q[i + 1]
  OBVIOUS

LEMMA AddFacts ==
    ASSUME NEW S, NEW q \in Seq(S), NEW x \in S
    PROVE  /\ Append(q, x) \in Seq(S) /\ Len(Append(q, x)) = Len(q) + 1
           /\ \A i \in DOMAIN Append(q, x) :
                 \/ i \in DOMAIN q /\ Append(q, x)[i] = q[i]
                 \/ i = Len(q) + 1 /\ Append(q, x)[i] = x
  OBVIOUS

-----------------------------------------------------------------------------
(* The types.                                                               *)

ConnType ==
    /\ sync \in {"closed", "open", "dead"} /\ async \in {"closed", "open", "dead"}
    /\ cmds \in Seq(Message) /\ Len(cmds) <= MaxBuffer
    /\ answers \in Seq(Message) /\ reports \in Seq({"snapshot"})
    /\ burst \in 0 .. MaxBurst

RestType ==
    /\ up \in BOOLEAN /\ deaths \in 0 .. MaxDeaths
    /\ mutex \in {"free"} \cup Clients
    /\ ctl \in {"none", "half", "ready", "joining"} /\ stop \in BOOLEAN
    /\ rec \in {"none", "select", "callback", "reconnect", "gone"}
    /\ call \in [Clients -> {"idle", "locked", "waiting"}]
    /\ asked \in [Clients -> Requests] /\ told \in [Clients -> {0, -1}]

LEMMA TypeSplit == TypeOK <=> ConnType /\ RestType
  BY DEF TypeOK, ConnType, RestType

LEMMA MessageType ==
    ASSUME NEW c \in Clients
    PROVE  /\ [type |-> "command", from |-> c] \in Message
           /\ \A t \in Requests : [type |-> t, from |-> c] \in Message
           /\ "command" \notin Requests
  BY DEF Message, Requests

LEMMA SendType ==
    ASSUME ConnType, NEW m \in Message, Room, Send(m)
    PROVE  cmds' \in Seq(Message) /\ Len(cmds') <= MaxBuffer
<1>1. /\ Append(cmds, m) \in Seq(Message) /\ Len(Append(cmds, m)) = Len(cmds) + 1
      /\ Len(cmds) \in Nat
  BY AddFacts, QueueFacts DEF ConnType
<1> QED
  BY <1>1, ConstantAssumption DEF ConnType, Send, Room

LEMMA ConnStep ==
    ASSUME ConnType, RestType, [Next]_vars
    PROVE  ConnType'
<1> USE ConstantAssumption
<1>1. <<>> \in Seq(Message) /\ Len(<<>>) = 0 /\ <<>> \in Seq({"snapshot"})
  OBVIOUS
<1>2. CASE Die
  BY <1>1, <1>2 DEF Die, Broken, ConnType
<1>3. CASE Serve
  <2>1. cmds' \in Seq(Message) /\ Len(cmds') <= MaxBuffer
    BY <1>3, QueueFacts DEF Serve, ConnType
  <2>2. answers' \in Seq(Message)
    BY <1>3, QueueFacts, AddFacts DEF Serve, ConnType
  <2> QED
    BY <1>3, <2>1, <2>2 DEF Serve, ConnType
<1>4. CASE Report
  <2>1. Append(reports, "snapshot") \in Seq({"snapshot"})
    BY AddFacts DEF ConnType
  <2> QED
    BY <1>4, <2>1 DEF Report, ConnType
<1>5. CASE GetSync \/ GetAsync \/ Free
  <2>1. 0 \in 0 .. MaxBurst
    OBVIOUS
  <2>2. CASE GetSync
    BY <1>1, <2>2 DEF GetSync, ConnType
  <2>3. CASE GetAsync
    BY <1>1, <2>1, <2>3 DEF GetAsync, ConnType
  <2>4. CASE Free
    BY <1>1, <2>1, <2>4 DEF Free, ConnType
  <2> QED
    BY <1>5, <2>2, <2>3, <2>4
<1>6. CASE Restart \/ Put \/ Callback
  BY <1>6 DEF Restart, Put, Callback, connVars, ConnType
<1>7. CASE SelectTimeout \/ Reconnect
  BY <1>7 DEF SelectTimeout, Reconnect, ConnType
<1>8. CASE Recv
  <2>1. reports' \in Seq({"snapshot"})
    <3>1. reports \in Seq({"snapshot"})
      BY DEF ConnType
    <3>2. reports # <<>> => Tail(reports) \in Seq({"snapshot"})
      BY <3>1, QueueFacts
    <3> QED
      BY <1>8, <3>1, <3>2 DEF Recv
  <2> QED
    BY <1>8, <2>1 DEF Recv, ConnType
<1>9. ASSUME NEW c \in Clients, Client(c) PROVE ConnType'
  <2>1. CASE Command(c)
    BY <2>1, SendType, MessageType DEF Command, ConnType
  <2>2. CASE SendRequest(c)
    <3>1. asked[c] \in Requests
      BY DEF RestType
    <3>2. [type |-> asked[c], from |-> c] \in Message
      BY <3>1, MessageType
    <3> QED
      BY <2>2, <3>2, SendType DEF SendRequest, ConnType
  <2>3. CASE Receive(c)
    <3>1. answers' \in Seq(Message)
      BY <2>3, QueueFacts DEF Receive, ConnType
    <3> QED
      BY <2>3, <3>1 DEF Receive, ConnType
  <2>4. CASE HangUp(c) \/ \E type \in Requests : Request(c, type)
    BY <2>4 DEF HangUp, Request, connVars, ConnType
  <2> QED
    BY <1>9, <2>1, <2>2, <2>3, <2>4 DEF Client
<1>10. CASE UNCHANGED vars
  BY <1>10 DEF vars, connVars, ConnType
<1> QED
  BY <1>2, <1>3, <1>4, <1>5, <1>6, <1>7, <1>8, <1>9, <1>10 DEF Next

LEMMA RestStep ==
    ASSUME RestType, [Next]_vars
    PROVE  RestType'
<1> USE ConstantAssumption
<1>1. CASE Die \/ Restart \/ Serve \/ Report
  <2>1. CASE Die
    <3>1. up' = FALSE /\ deaths' \in 0 .. MaxDeaths
      BY <2>1 DEF Die, RestType
    <3> QED
      BY <2>1, <3>1 DEF Die, ownerVars, clientVars, RestType
  <2>2. CASE Restart
    BY <2>2 DEF Restart, ownerVars, clientVars, RestType
  <2>3. CASE Serve \/ Report
    BY <2>3 DEF Serve, Report, daemonVars, ownerVars, clientVars, RestType
  <2> QED
    BY <1>1, <2>1, <2>2, <2>3
<1>2. CASE GetSync \/ GetAsync \/ Put \/ Free
  BY <1>2 DEF GetSync, GetAsync, Put, Free, daemonVars, clientVars, RestType
<1>3. CASE SelectTimeout \/ Recv \/ Callback \/ Reconnect
  BY <1>3 DEF SelectTimeout, Recv, Callback, Reconnect, daemonVars, ownerVars, clientVars,
              RestType
<1>4. ASSUME NEW c \in Clients, Client(c) PROVE RestType'
  <2>1. CASE Command(c) \/ SendRequest(c)
    BY <2>1 DEF Command, SendRequest, daemonVars, ownerVars, RestType
  <2>2. CASE Receive(c) \/ HangUp(c)
    BY <2>2 DEF Receive, HangUp, Return, daemonVars, ownerVars, RestType
  <2>3. ASSUME NEW type \in Requests, Request(c, type) PROVE RestType'
    BY <2>3 DEF Request, daemonVars, ownerVars, RestType
  <2> QED
    BY <1>4, <2>1, <2>2, <2>3 DEF Client
<1>5. CASE UNCHANGED vars
  BY <1>5 DEF vars, daemonVars, ownerVars, clientVars, RestType
<1> QED
  BY <1>1, <1>2, <1>3, <1>4, <1>5 DEF Next

-----------------------------------------------------------------------------
(* The report thread.                                                       *)

LEMMA ThreadStep ==
    ASSUME RestType, ThreadInv, [Next]_vars
    PROVE  ThreadInv'
<1>1. CASE Die \/ Restart \/ Serve \/ Report
  BY <1>1 DEF Die, Restart, Serve, Report, ownerVars, ThreadInv
<1>2. CASE GetSync \/ GetAsync \/ Put \/ Free
  BY <1>2 DEF GetSync, GetAsync, Put, Free, ThreadInv
<1>3. CASE SelectTimeout \/ Recv \/ Callback \/ Reconnect
  BY <1>3 DEF SelectTimeout, Recv, Callback, Reconnect, ownerVars, ThreadInv
<1>4. ASSUME NEW c \in Clients, Client(c) PROVE ThreadInv'
  BY <1>4 DEF Client, Command, SendRequest, Receive, HangUp, Request, ownerVars, ThreadInv
<1>5. CASE UNCHANGED vars
  BY <1>5 DEF vars, ownerVars, ThreadInv
<1> QED
  BY <1>1, <1>2, <1>3, <1>4, <1>5 DEF Next

-----------------------------------------------------------------------------
(* Requests and answers.                                                    *)

LEMMA CallStep ==
    ASSUME RestType, CallInv, [Next]_vars
    PROVE  CallInv'
<1>0. mutex # "free" <=> mutex \in Clients
  BY ClientAssumption DEF RestType
<1>1. CASE UNCHANGED <<mutex, call, ctl>>
  BY <1>1 DEF CallInv
<1>2. CASE Die \/ Restart \/ Serve \/ Report \/ SelectTimeout \/ Recv \/ Callback \/ Reconnect
  BY <1>1, <1>2 DEF Die, Restart, Serve, Report, SelectTimeout, Recv, Callback, Reconnect,
                    ownerVars, clientVars
<1>3. CASE GetSync \/ GetAsync \/ Put \/ Free
  BY <1>3 DEF GetSync, GetAsync, Put, Free, clientVars, CallInv
<1>4. ASSUME NEW c \in Clients, Client(c) PROVE CallInv'
  <2>1. CASE Command(c)
    BY <1>1, <2>1 DEF Command, ownerVars
  <2>2. CASE SendRequest(c)
    BY <2>2 DEF SendRequest, ownerVars, CallInv, RestType
  <2>3. CASE Receive(c) \/ HangUp(c)
    BY <1>0, <2>3, ClientAssumption DEF Receive, HangUp, Return, ownerVars, CallInv, RestType
  <2>4. ASSUME NEW type \in Requests, Request(c, type) PROVE CallInv'
    BY <2>4, <1>0, ClientAssumption DEF Request, ownerVars, CallInv, RestType
  <2> QED
    BY <1>4, <2>1, <2>2, <2>3, <2>4 DEF Client
<1>5. CASE UNCHANGED vars
  BY <1>1, <1>5 DEF vars, ownerVars, clientVars
<1> QED
  BY <1>1, <1>2, <1>3, <1>4, <1>5 DEF Next

LEMMA DeadStep ==
    ASSUME ConnType, CallInv, DeadInv, [Next]_vars
    PROVE  DeadInv'
<1>1. CASE Die \/ Restart \/ Report \/ GetSync \/ GetAsync \/ Free \/ Put
  BY <1>1 DEF Die, Restart, Report, GetSync, GetAsync, Free, Put, Broken, connVars, ownerVars,
              DeadInv, ConnType
<1>2. CASE Serve \/ SelectTimeout \/ Recv \/ Callback \/ Reconnect
  BY <1>2 DEF Serve, SelectTimeout, Recv, Callback, Reconnect, connVars, ownerVars, DeadInv
<1>4. ASSUME NEW c \in Clients, Client(c) PROVE DeadInv'
  <2>1. call[c] # "idle" => ctl = "ready"
    BY DEF CallInv
  <2> QED
    BY <1>4, <2>1 DEF Client, Command, SendRequest, Send, Receive, HangUp, Request, connVars,
                      ownerVars, DeadInv
<1>5. CASE UNCHANGED vars
  BY <1>5 DEF vars, connVars, ownerVars, DeadInv
<1> QED
  BY <1>1, <1>2, <1>4, <1>5 DEF Next

\* Nothing of a request is on the way.
Silent == answers = <<>> /\ \A i \in DOMAIN cmds : cmds[i].type \notin Requests

LEMMA NobodyWaits ==
    ASSUME TypeOK, CallInv, AnswerInv, RequestInv,
           \A c \in Clients : call[c] # "waiting"
    PROVE  Silent
<1>1. answers = <<>>
  <2>1. DOMAIN answers = {} /\ answers \in Seq(Message)
    BY DEF AnswerInv, Own, TypeOK
  <2> QED
    BY <2>1, QueueFacts
<1> QED
  BY <1>1 DEF RequestInv, Own, Silent

LEMMA SilentEnough ==
    ASSUME Silent'
    PROVE  AnswerInv' /\ RequestInv'
  BY DEF Silent, AnswerInv, RequestInv

LEMMA AnswerStep ==
    ASSUME IInv, [Next]_vars
    PROVE  AnswerInv' /\ RequestInv'
<1>0. /\ TypeOK /\ CallInv /\ AnswerInv /\ RequestInv /\ DeadInv
      /\ cmds \in Seq(Message) /\ answers \in Seq(Message)
  BY DEF IInv, TypeOK
<1>1. CASE UNCHANGED <<cmds, answers, mutex, call, asked>>
  BY <1>0, <1>1 DEF AnswerInv, RequestInv, Own
<1>2. CASE Restart \/ Report \/ Put \/ GetAsync \/ SelectTimeout \/ Recv \/ Callback \/ Reconnect
           \/ UNCHANGED vars
  BY <1>1, <1>2 DEF Restart, Report, Put, GetAsync, SelectTimeout, Recv, Callback, Reconnect,
                    connVars, clientVars, vars
<1>3. CASE Die
  BY <1>0, <1>3 DEF Die, clientVars, AnswerInv, RequestInv, Own
<1>4. CASE GetSync \/ Free
  <2>1. Silent'
    BY <1>4 DEF GetSync, Free, Silent
  <2> QED
    BY <2>1, SilentEnough
<1>5. CASE Serve
  <2>1. /\ Len(cmds) \in Nat /\ Head(cmds) = cmds[1] /\ 1 \in DOMAIN cmds
        /\ \A i \in DOMAIN cmds' : i \in Nat /\ i + 1 \in DOMAIN cmds /\ cmds'[i] = cmds[i + 1]
                                   /\ i + 1 # 1
    <3>1. \A i \in DOMAIN Tail(cmds) : i \in Nat /\ i + 1 # 1
      <4>1. Tail(cmds) \in Seq(Message)
        BY <1>0, <1>5, QueueFacts DEF Serve
      <4> QED
        BY <4>1, QueueFacts
    <3> QED
      BY <1>0, <1>5, <3>1, QueueFacts DEF Serve
  <2>2. UNCHANGED <<mutex, call, asked>>
    BY <1>5 DEF Serve, clientVars
  <2>3. CASE Head(cmds).type \in Requests
    <3>1. answers = <<>> /\ Own(cmds[1]) /\ answers' = Append(answers, cmds[1])
      BY <1>0, <1>5, <2>1, <2>3 DEF Serve, RequestInv
    <3>2. answers' = <<cmds[1]>>
      BY <3>1
    <3>3. AnswerInv'
      BY <2>2, <3>1, <3>2 DEF AnswerInv, Own
    <3>4. \A i \in DOMAIN cmds' : cmds'[i].type \notin Requests
      BY <1>0, <2>1, <2>3 DEF RequestInv
    <3> QED
      BY <3>3, <3>4 DEF RequestInv
  <2>4. CASE Head(cmds).type \notin Requests
    <3>1. answers' = answers
      BY <1>5, <2>4 DEF Serve
    <3>2. AnswerInv'
      BY <1>0, <2>2, <3>1 DEF AnswerInv, Own
    <3>3. \A i \in DOMAIN cmds' : cmds'[i].type \in Requests => answers' = <<>> /\ Own(cmds'[i])
      BY <1>0, <2>1, <3>1 DEF RequestInv
    <3>4. ASSUME NEW i \in DOMAIN cmds', NEW j \in DOMAIN cmds', cmds'[i].type \in Requests,
                 cmds'[j].type \in Requests
          PROVE  i = j
      <4>1. i + 1 = j + 1
        BY <1>0, <2>1, <3>4 DEF RequestInv
      <4> QED
        BY <2>1, <4>1
    <3> QED
      BY <2>2, <3>2, <3>3, <3>4 DEF RequestInv, Own
  <2> QED
    BY <2>3, <2>4
<1>6. ASSUME NEW c \in Clients, Command(c) PROVE AnswerInv' /\ RequestInv'
  <2> DEFINE m == [type |-> "command", from |-> c]
  <2>1. UNCHANGED <<answers, mutex, call, asked>>
    BY <1>6 DEF Command
  <2>2. \A i \in DOMAIN cmds' :
           \/ i \in DOMAIN cmds /\ cmds'[i] = cmds[i]
           \/ cmds'[i].type \notin Requests
    <3>1. m \in Message /\ m.type \notin Requests
      BY MessageType
    <3>2. cmds' = cmds \/ cmds' = Append(cmds, m)
      BY <1>6 DEF Command, Send
    <3> HIDE DEF m
    <3> QED
      BY <1>0, <3>1, <3>2, AddFacts
  <2> QED
    BY <1>0, <2>1, <2>2 DEF AnswerInv, RequestInv, Own
<1>7. ASSUME NEW c \in Clients, SendRequest(c) PROVE AnswerInv' /\ RequestInv'
  <2> DEFINE m == [type |-> asked[c], from |-> c]
  <2>1. mutex = c /\ mutex' = c /\ asked' = asked /\ call' = [call EXCEPT ![c] = "waiting"]
        /\ answers' = answers /\ call \in [Clients -> {"idle", "locked", "waiting"}]
    BY <1>0, <1>7 DEF SendRequest, CallInv, TypeOK
  <2>2. Silent
    <3>1. \A d \in Clients : call[d] # "waiting"
      BY <1>0, <1>7, <2>1 DEF SendRequest, CallInv
    <3> QED
      BY <1>0, <3>1, NobodyWaits
  <2>3. m = [type |-> asked'[mutex'], from |-> mutex'] /\ call'[mutex'] = "waiting"
    BY <2>1
  <2>4. \A i \in DOMAIN cmds' :
           \/ i \in DOMAIN cmds /\ cmds'[i] = cmds[i]
           \/ i = Len(cmds) + 1 /\ cmds'[i] = m
    <3>1. m \in Message
      BY <1>0, MessageType DEF TypeOK
    <3>2. cmds' = cmds \/ cmds' = Append(cmds, m)
      BY <1>7 DEF SendRequest, Send
    <3> HIDE DEF m
    <3> QED
      BY <1>0, <3>1, <3>2, AddFacts
  <2> HIDE DEF m
  <2> QED
    BY <2>1, <2>2, <2>3, <2>4 DEF Silent, AnswerInv, RequestInv, Own
<1>8. ASSUME NEW c \in Clients, Receive(c) \/ HangUp(c) PROVE AnswerInv' /\ RequestInv'
  <2>1. Silent'
    <3>1. CASE HangUp(c)
      BY <1>0, <3>1 DEF HangUp, connVars, DeadInv, Silent
    <3>2. CASE Receive(c)
      <4>1. Tail(answers) = <<>>
        <5>1. Len(answers) \in Nat /\ DOMAIN answers = 1 .. Len(answers)
          BY <1>0, QueueFacts
        <5>2. Len(answers) = 1
          <6>1. Len(answers) # 0
            BY <1>0, <3>2 DEF Receive
          <6>2. Len(answers) \in DOMAIN answers
            BY <5>1, <6>1
          <6> QED
            BY <1>0, <6>2 DEF AnswerInv
        <5>3. Tail(answers) \in Seq(Message) /\ Len(Tail(answers)) = 0
          BY <1>0, <3>2, <5>2, QueueFacts DEF Receive
        <5> QED
          BY <5>3, QueueFacts
      <4>2. answers # <<>> /\ answers' = Tail(answers) /\ cmds' = cmds
        BY <3>2 DEF Receive
      <4> QED
        BY <1>0, <4>1, <4>2 DEF RequestInv, Silent
    <3> QED
      BY <1>8, <3>1, <3>2
  <2> QED
    BY <2>1, SilentEnough
<1>9. ASSUME NEW c \in Clients, NEW type \in Requests, Request(c, type)
      PROVE  AnswerInv' /\ RequestInv'
  <2>1. \A d \in Clients : call[d] # "waiting"
    BY <1>0, <1>9, ClientAssumption DEF Request, CallInv
  <2>2. Silent
    BY <1>0, <2>1, NobodyWaits
  <2>3. Silent'
    BY <1>9, <2>2 DEF Request, connVars, Silent
  <2> QED
    BY <2>3, SilentEnough
<1> QED
  BY <1>2, <1>3, <1>4, <1>5, <1>6, <1>7, <1>8, <1>9 DEF Next, Client

-----------------------------------------------------------------------------
(* The theorems.  FairSpec, which the run checks, is Spec with fairness.    *)

LEMMA InitInv == Init => IInv
<1> SUFFICES ASSUME Init PROVE IInv
  OBVIOUS
<1>1. ConnType
  <2>1. <<>> \in Seq(Message) /\ Len(<<>>) = 0 /\ <<>> \in Seq({"snapshot"})
        /\ 0 \in 0 .. MaxBurst
    BY ConstantAssumption
  <2> QED
    BY <2>1, ConstantAssumption DEF Init, ConnType
<1>2. RestType
  <2>1. /\ [c \in Clients |-> "idle"] \in [Clients -> {"idle", "locked", "waiting"}]
        /\ [c \in Clients |-> "snapshot"] \in [Clients -> Requests]
        /\ [c \in Clients |-> 0] \in [Clients -> {0, -1}]
    BY DEF Requests
  <2>2. 0 \in 0 .. MaxDeaths
    BY ConstantAssumption
  <2> QED
    BY <2>1, <2>2 DEF Init, RestType
<1>3. CallInv /\ AnswerInv /\ RequestInv /\ DeadInv /\ ThreadInv
  BY ClientAssumption DEF Init, CallInv, AnswerInv, RequestInv, DeadInv, ThreadInv
<1> QED
  BY <1>1, <1>2, <1>3, TypeSplit DEF IInv

LEMMA StepInv == IInv /\ [Next]_vars => IInv'
<1> SUFFICES ASSUME IInv, [Next]_vars PROVE IInv'
  OBVIOUS
<1>1. ConnType /\ RestType
  BY TypeSplit DEF IInv
<1>2. ConnType' /\ RestType'
  BY <1>1, ConnStep, RestStep
<1>3. TypeOK'
  BY <1>2 DEF TypeOK, ConnType, RestType
<1>4. CallInv' /\ DeadInv' /\ ThreadInv'
  BY <1>1, CallStep, DeadStep, ThreadStep DEF IInv
<1> QED
  BY <1>3, <1>4, AnswerStep DEF IInv

LEMMA Invariance == Spec => []IInv
  BY InitInv, StepInv, PTL DEF Spec

\* Every variable keeps to its values, and fd_sync never holds more than its
\* room, whenever the daemon dies and is started again.
THEOREM TypeCorrect == Spec => []TypeOK
<1>1. IInv => TypeOK
  BY DEF IInv
<1> QED
  BY Invariance, <1>1, PTL

\* The report thread never reads, calls back or reconnects on a handler that has
\* been freed, nor before there is one, however the daemon dies and however long
\* the join takes (mozart_player_handler_put, recv_player_snapshot_async_func).
THEOREM ThreadOnHandler == Spec => []NoCallbackAfterFree
<1>1. IInv => NoCallbackAfterFree
  BY DEF IInv, TypeOK, ThreadInv, NoCallbackAfterFree
<1> QED
  BY Invariance, <1>1, PTL

\* For any number of threads: an answer read after a request is the one to that
\* request, although answers carry no address, also after a death of the daemon
\* has left a request without one (mozart_player_snapshot, recv_player_sync).
THEOREM AnswersMatch == Spec => AnswerIsOwn
<1>1. ASSUME IInv, [Next]_vars
      PROVE  [\A c \in Clients :
                 Receive(c) => Head(answers) = [type |-> asked[c], from |-> c]]_vars
  <2> SUFFICES ASSUME NEW c \in Clients, Receive(c)
               PROVE  Head(answers) = [type |-> asked[c], from |-> c]
    OBVIOUS
  <2>1. answers \in Seq(Message) /\ answers # <<>> /\ call[c] = "waiting"
    BY <1>1 DEF Receive, IInv, TypeOK
  <2>2. Head(answers) = answers[1] /\ 1 \in DOMAIN answers
    BY <2>1, QueueFacts
  <2>3. mutex = c
    BY <1>1, <2>1 DEF IInv, CallInv
  <2> QED
    BY <1>1, <2>2, <2>3 DEF IInv, AnswerInv, Own
<1> QED
  BY Invariance, <1>1, PTL DEF Spec, AnswerIsOwn

=============================================================================
