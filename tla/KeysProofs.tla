----------------------------- MODULE KeysProofs -----------------------------
(***************************************************************************)
(* Theorems about Keys for any buttons, any room of the socket, any number *)
(* of presses, threads and sessions.                                       *)
(*                                                                         *)
(* That a press is acted on once is a matter of the messages that say a    *)
(* button went down: the socket keeps them in the order of their presses,  *)
(* and one that is still to be processed, also one that is to be processed *)
(* again, is newer than every press acted on.                              *)
(***************************************************************************)
EXTENDS Keys, TLAPS

DownMsgs(q) == {i \in DOMAIN q : q[i].val = 0}

\* No press is acted on before the user has made it.
Made ==
    /\ \A i \in DOMAIN sock : sock[i].press <= presses
    /\ msg.press <= presses

\* The socket keeps the presses of a button in their order.
Queued ==
    \A i, j \in DownMsgs(sock) :
        i < j /\ sock[i].button = sock[j].button => sock[i].press < sock[j].press

\* A press of b, or the time taken of it, that all acted on are older than.
After(b, p) == \A i \in DOMAIN acted[b] : acted[b][i] < p

TimeAfter == \A b \in Buttons : press_time[b] # 0 => After(b, press_time[b])

QueueAfter ==
    \A i \in DownMsgs(sock) :
        /\ After(sock[i].button, sock[i].press)
        /\ press_time[sock[i].button] < sock[i].press

\* The last message, which is processed again when the next recv fails.
LastAfter ==
    msg.val = 0 =>
        /\ After(msg.button, msg.press) /\ press_time[msg.button] <= msg.press
        /\ \A i \in DownMsgs(sock) :
              sock[i].button = msg.button => msg.press < sock[i].press

\* A button that is down is down since a press of the user.
DownMade == \A b \in Buttons : down[b] <= presses

TimeMade == \A b \in Buttons : press_time[b] <= presses /\ After(b, presses + 1)

Order == Made /\ DownMade /\ TimeMade /\ Queued /\ TimeAfter /\ QueueAfter /\ LastAfter
IInv == TypeOK /\ Order /\ OnceEach

-----------------------------------------------------------------------------
(* The types, cut in the parts the steps change together.                   *)

UserType ==
    /\ down \in [Buttons -> 0 .. MaxPresses] /\ presses \in 0 .. MaxPresses
    /\ sock \in Seq(Message) /\ overrun \in BOOLEAN
PresserType ==
    /\ msg \in Message \cup {NONE}
    /\ key \in {"recv", "check", "dropped", "switch", "stopped", "scanning", "busy", "gone"}
    /\ press_time \in [Buttons -> 0 .. MaxPresses]
    /\ acted \in [Buttons -> Seq(1 .. MaxPresses)]
TimerType == [at : {"none", "start", "set", "test", "load", "store", "clear"}, cnt : Integer]
DebouncingType ==
    /\ KEY_ALL \in {0, 1} /\ time_cnt1 \in Integer /\ timer \in [Timers -> TimerType]
WaiterType ==
    [at : {"none", "start", "wait", "seen", "tone", "over"}, cancelled : BOOLEAN]
NetworkType ==
    /\ scan \in [Sessions -> {"none", "start", "capture", "over"}]
    /\ session \in 0 .. MaxSessions
    /\ flag \in {0, 1} /\ unsent \in BOOLEAN /\ wait_wifi_flag \in {0, 1}
    /\ waiter \in [Sessions -> WaiterType]

LEMMA TypeSplit == TypeOK <=> UserType /\ PresserType /\ DebouncingType /\ NetworkType
  BY DEF TypeOK, UserType, PresserType, DebouncingType, NetworkType, TimerType, WaiterType

LEMMA Bounds ==
    /\ Config \in Buttons
    /\ Tests \in Nat /\ Again \in Nat /\ MaxPresses \in Nat /\ MaxPresses > 0
    /\ MaxQueue \in Nat /\ MaxTimers \in Nat /\ MaxSessions \in Nat
    /\ IntMax \in Nat /\ Tests <= IntMax /\ Again <= IntMax
  BY ButtonAssumption, BoundAssumption

LEMMA MsgFacts ==
    ASSUME PresserType
    PROVE  /\ msg.button \in Buttons /\ msg.press \in 0 .. MaxPresses /\ msg.val \in {0, 1, 2}
           /\ msg.val \in {0, 1} => msg.press \in 1 .. MaxPresses
  BY Bounds DEF PresserType, Message, NONE

LEMMA QueueFacts ==
    ASSUME NEW q \in Seq(Message)
    PROVE  /\ Len(q) \in Nat /\ DOMAIN q = 1 .. Len(q)
           /\ \A i \in DOMAIN q : /\ q[i] \in Message /\ q[i].button \in Buttons
                                  /\ q[i].press \in 1 .. MaxPresses /\ q[i].val \in {0, 1}
           /\ \A i \in DownMsgs(q) : i \in DOMAIN q /\ q[i].val = 0
<1>1. \A i \in DOMAIN q : q[i] \in Message
  OBVIOUS
<1> QED
  BY <1>1 DEF Message, DownMsgs

LEMMA HeadFacts ==
    ASSUME NEW q \in Seq(Message), q # <<>>
    PROVE  /\ Head(q) \in Message /\ Tail(q) \in Seq(Message) /\ 1 \in DOMAIN q
           /\ Head(q) = q[1]
           /\ \A i \in DOMAIN Tail(q) : i + 1 \in DOMAIN q /\ Tail(q)[i] = q[i + 1]
  OBVIOUS

LEMMA AddFacts ==
    ASSUME NEW S, NEW q \in Seq(S), NEW x \in S
    PROVE  /\ Append(q, x) \in Seq(S)
           /\ \A i \in DOMAIN Append(q, x) :
                 \/ i \in DOMAIN q /\ Append(q, x)[i] = q[i]
                 \/ i = Len(q) + 1 /\ Append(q, x)[i] = x
  OBVIOUS

LEMMA DeliverType ==
    ASSUME UserType, NEW m \in Message, Deliver(m)
    PROVE  sock' \in Seq(Message) /\ overrun' \in BOOLEAN
<1>1. Append(sock, m) \in Seq(Message)
  BY AddFacts DEF UserType
<1> QED
  BY <1>1 DEF Deliver, UserType

LEMMA UserStep ==
    ASSUME UserType, PresserType, [Next]_vars
    PROVE  UserType'
<1> USE Bounds
<1>1. ASSUME NEW b \in Buttons, Press(b) PROVE UserType'
  <2>1. presses' \in 1 .. MaxPresses
    BY <1>1 DEF Press, UserType
  <2>2. [button |-> b, press |-> presses', val |-> 0] \in Message
    BY <2>1 DEF Message
  <2>3. sock' \in Seq(Message) /\ overrun' \in BOOLEAN
    BY <1>1, <2>2, DeliverType DEF Press
  <2> QED
    BY <1>1, <2>1, <2>3 DEF Press, UserType
<1>2. ASSUME NEW b \in Buttons, Release(b) PROVE UserType'
  <2>1. [button |-> b, press |-> down[b], val |-> 1] \in Message
    BY <1>2 DEF Release, UserType, Message
  <2>2. sock' \in Seq(Message) /\ overrun' \in BOOLEAN
    BY <1>2, <2>1, DeliverType DEF Release
  <2> QED
    BY <1>2, <2>2 DEF Release, UserType
<1>3. CASE Recv
  <2>1. sock' \in Seq(Message)
    BY <1>3, HeadFacts DEF Recv, UserType
  <2> QED
    BY <1>3, <2>1 DEF Recv, UserType
<1>4. CASE UNCHANGED user
  BY <1>4 DEF user, UserType
<1>5. CASE Check \/ Dropped \/ Switch \/ Busy \/ CreateSaoma \/ CreateWait
  BY <1>4, <1>5 DEF Check, Dropped, Switch, Busy, CreateSaoma, CreateWait
<1>6. ASSUME NEW i \in Timers, TimerStep(i) PROVE UNCHANGED user
  BY <1>6 DEF TimerStep, TimerStart, TimerSet, TimerTest, TimerLoad, TimerStore, TimerClear
<1>7. ASSUME NEW s \in Sessions, ScanStart(s) \/ Scanned(s) \/ ScanCrash(s) \/ WaiterStep(s)
      PROVE  UNCHANGED user
  BY <1>7 DEF ScanStart, Scanned, ScanCrash, WaiterStep, WaitStart, WaitSeen, WaitTone, Request, Cancel
<1> QED
  BY <1>1, <1>2, <1>3, <1>4, <1>5, <1>6, <1>7 DEF Next, KeyThread, vars

LEMMA PresserStep ==
    ASSUME UserType, PresserType, [Next]_vars
    PROVE  PresserType'
<1> USE Bounds
<1>1. CASE UNCHANGED presser
  BY <1>1 DEF presser, PresserType
<1>2. ASSUME NEW b \in Buttons, Press(b) \/ Release(b) PROVE UNCHANGED presser
  BY <1>2 DEF Press, Release
<1>3. CASE Recv
  <2>1. msg' \in Message \cup {NONE}
    BY <1>3, HeadFacts DEF Recv, UserType, PresserType
  <2> QED
    BY <1>3, <2>1 DEF Recv, PresserType
<1>4. CASE Switch
  <2> DEFINE b == msg.button
  <2>1. b \in Buttons /\ (msg.val = 0 => msg.press \in 1 .. MaxPresses)
    BY MsgFacts
  <2>2. press_time' \in [Buttons -> 0 .. MaxPresses]
    BY <1>4, <2>1 DEF Switch, Forget, PresserType
  <2>3. acted' \in [Buttons -> Seq(1 .. MaxPresses)]
    <3>1. press_time[b] # 0 => Append(acted[b], press_time[b]) \in Seq(1 .. MaxPresses)
      <4>1. acted[b] \in Seq(1 .. MaxPresses)
        BY <2>1 DEF PresserType
      <4>2. press_time[b] # 0 => press_time[b] \in 1 .. MaxPresses
        BY <2>1 DEF PresserType
      <4> QED
        BY <4>1, <4>2, AddFacts
    <3>2. acted' = acted \/ (/\ press_time[b] # 0
                             /\ acted' = [acted EXCEPT ![b] = Append(acted[b], press_time[b])])
      BY <1>4 DEF Switch
    <3> HIDE DEF b
    <3> QED
      BY <2>1, <3>1, <3>2 DEF PresserType
  <2> QED
    BY <1>4, <2>2, <2>3 DEF Switch, PresserType
<1>5. CASE Check \/ Dropped \/ Busy \/ CreateSaoma \/ CreateWait
  BY <1>5 DEF Check, Dropped, Busy, CreateSaoma, CreateWait, PresserType
<1>6. ASSUME NEW i \in Timers, TimerStep(i) PROVE UNCHANGED presser
  BY <1>6 DEF TimerStep, TimerStart, TimerSet, TimerTest, TimerLoad, TimerStore, TimerClear
<1>7. ASSUME NEW s \in Sessions, ScanStart(s) \/ Scanned(s) \/ WaiterStep(s)
      PROVE  UNCHANGED presser
  BY <1>7 DEF ScanStart, Scanned, WaiterStep, WaitStart, WaitSeen, WaitTone, Request, Cancel
<1>8. ASSUME NEW s \in Sessions, ScanCrash(s) PROVE PresserType'
  BY <1>8 DEF ScanCrash, PresserType
<1> QED
  BY <1>1, <1>2, <1>3, <1>4, <1>5, <1>6, <1>7, <1>8 DEF Next, KeyThread, vars

LEMMA DebouncingStep ==
    ASSUME DebouncingType, [Next]_vars
    PROVE  DebouncingType'
<1> USE Bounds
<1>1. CASE UNCHANGED debouncing
  BY <1>1 DEF debouncing, DebouncingType
<1>2. ASSUME NEW b \in Buttons, Press(b) \/ Release(b) PROVE UNCHANGED debouncing
  BY <1>2 DEF Press, Release
<1>3. ASSUME CreateTimer PROVE timer' \in [Timers -> TimerType]
  BY <1>3 DEF CreateTimer, DebouncingType, TimerType
<1>4. CASE Check
  BY <1>3, <1>4 DEF Check, DebouncingType
<1>5. CASE Recv \/ Dropped \/ Switch \/ Busy \/ CreateSaoma \/ CreateWait
  BY <1>1, <1>5 DEF Recv, Dropped, Switch, Busy, CreateSaoma, CreateWait, DebouncingType,
                    Integer
<1>6. ASSUME NEW i \in Timers, TimerStep(i) PROVE DebouncingType'
  <2>1. timer[i] \in TimerType
    BY DEF DebouncingType
  <2>2. timer' \in [Timers -> TimerType]
    BY <1>6, <2>1 DEF TimerStep, At, TimerStart, TimerSet, TimerTest, TimerLoad, TimerStore,
                      TimerClear, DebouncingType, TimerType, Integer
  <2>3. KEY_ALL' \in {0, 1}
    BY <1>6 DEF TimerStep, TimerStart, TimerSet, TimerTest, TimerLoad, TimerStore, TimerClear,
                DebouncingType
  <2>4. time_cnt1' \in Integer
    BY <1>6, <2>1 DEF TimerStep, TimerStart, TimerSet, TimerTest, TimerLoad, TimerStore,
                      TimerClear, DebouncingType, TimerType, Integer
  <2> QED
    BY <2>2, <2>3, <2>4 DEF DebouncingType
<1>7. ASSUME NEW s \in Sessions, ScanStart(s) \/ Scanned(s) \/ WaiterStep(s)
      PROVE  UNCHANGED debouncing
  BY <1>7 DEF ScanStart, Scanned, WaiterStep, WaitStart, WaitSeen, WaitTone, Request, Cancel
<1>8. ASSUME NEW s \in Sessions, ScanCrash(s) PROVE DebouncingType'
  <2>1. IdleTimer \in TimerType
    BY Bounds DEF IdleTimer, TimerType, Integer
  <2> QED
    BY <1>8, <2>1 DEF ScanCrash, DebouncingType
<1> QED
  BY <1>1, <1>2, <1>4, <1>5, <1>6, <1>7, <1>8 DEF Next, KeyThread, vars

LEMMA CancelledType ==
    ASSUME NetworkType
    PROVE  Cancelled \in [Sessions -> WaiterType]
<1>1. ASSUME NEW s \in Sessions
      PROVE  waiter[s] \in WaiterType /\ [waiter[s] EXCEPT !.cancelled = TRUE] \in WaiterType
  BY DEF NetworkType, WaiterType
<1> QED
  BY <1>1 DEF Cancelled

LEMMA NetworkStep ==
    ASSUME NetworkType, [Next]_vars
    PROVE  NetworkType'
<1> USE Bounds
<1>1. CASE UNCHANGED network
  BY <1>1 DEF network, NetworkType
<1>2. ASSUME NEW b \in Buttons, Press(b) \/ Release(b) PROVE UNCHANGED network
  BY <1>2 DEF Press, Release
<1>3. CASE Recv \/ Check \/ Dropped \/ Busy
  BY <1>1, <1>3 DEF Recv, Check, Dropped, Busy
<1>4. CASE Switch
  BY <1>4 DEF Switch, NetworkType
<1>5. CASE CreateSaoma
  BY <1>5 DEF CreateSaoma, NetworkType
<1>6. CASE CreateWait
  <2> DEFINE c == Cancelled
  <2>1. c \in [Sessions -> WaiterType]
    BY CancelledType
  <2>2. waiter' = [c EXCEPT ![session].at = "start"]
    BY <1>6 DEF CreateWait
  <2> HIDE DEF c
  <2>3. waiter' \in [Sessions -> WaiterType]
    BY <2>1, <2>2 DEF WaiterType
  <2> QED
    BY <1>6, <2>3 DEF CreateWait, NetworkType
<1>7. ASSUME NEW i \in Timers, TimerStep(i) PROVE UNCHANGED network
  BY <1>7 DEF TimerStep, TimerStart, TimerSet, TimerTest, TimerLoad, TimerStore, TimerClear
<1>8. ASSUME NEW s \in Sessions, ScanStart(s) \/ Scanned(s) PROVE NetworkType'
  BY <1>8 DEF ScanStart, Scanned, NetworkType
<1>9. ASSUME NEW s \in Sessions, WaiterStep(s) PROVE NetworkType'
  <2>1. waiter' \in [Sessions -> WaiterType]
    BY <1>9 DEF WaiterStep, WaiterAt, WaitStart, WaitSeen, WaitTone, Request, Cancel,
                NetworkType, WaiterType
  <2> QED
    BY <1>9, <2>1 DEF WaiterStep, WaitStart, WaitSeen, WaitTone, Request, Cancel, NetworkType
<1>10. ASSUME NEW s \in Sessions, ScanCrash(s) PROVE NetworkType'
  BY <1>10 DEF ScanCrash, NetworkType, WaiterType
<1> QED
  BY <1>1, <1>2, <1>3, <1>4, <1>5, <1>6, <1>7, <1>8, <1>9, <1>10 DEF Next, KeyThread, vars

-----------------------------------------------------------------------------
(* The order of the presses.                                                *)

ordered == <<presses, sock, msg, press_time, acted>>

\* What a message that says a button went down has to be for the order.
Fresh(m) ==
    m.val = 0 =>
        /\ After(m.button, m.press) /\ press_time[m.button] < m.press
        /\ \A i \in DownMsgs(sock) : sock[i].button = m.button => sock[i].press < m.press
        /\ msg.val = 0 /\ msg.button = m.button => msg.press < m.press

LEMMA DeliverFacts ==
    ASSUME UserType, NEW m \in Message, Deliver(m)
    PROVE  \A i \in DOMAIN sock' :
              \/ i \in DOMAIN sock /\ sock'[i] = sock[i]
              \/ i = Len(sock) + 1 /\ sock'[i] = m
<1>1. CASE sock' = Append(sock, m)
  BY <1>1, AddFacts DEF UserType
<1>2. CASE sock' = sock
  BY <1>2
<1> QED
  BY <1>1, <1>2 DEF Deliver

LEMMA DeliverOrder ==
    ASSUME TypeOK, Order, NEW m \in Message, Deliver(m), Fresh(m),
           presses' \in Nat, presses <= presses', m.press <= presses',
           DownMade', UNCHANGED <<msg, press_time, acted>>
    PROVE  Order'
<1> USE Bounds
<1>0. UserType /\ PresserType /\ sock \in Seq(Message) /\ sock' \in Seq(Message)
  BY TypeSplit, DeliverType DEF UserType
<1>1. presses \in Nat /\ presses' \in Nat
  BY <1>0 DEF UserType
<1>2. \A i \in DOMAIN sock' :
         \/ i \in DOMAIN sock /\ sock'[i] = sock[i]
         \/ i = Len(sock) + 1 /\ sock'[i] = m
  BY <1>0, DeliverFacts
<1>3. \A i \in DownMsgs(sock') :
         \/ i \in DownMsgs(sock) /\ sock'[i] = sock[i]
         \/ i = Len(sock) + 1 /\ sock'[i] = m /\ m.val = 0
  BY <1>2 DEF DownMsgs
<1>4. \A i \in DOMAIN sock : i \in 1 .. Len(sock) /\ sock[i].press \in Nat
  BY <1>0, QueueFacts
<1>5. msg.press \in Nat /\ Len(sock) \in Nat /\ m.press \in Nat
  BY <1>0, MsgFacts, QueueFacts DEF Message
<1>6. Made'
  BY <1>1, <1>2, <1>4, <1>5 DEF Order, Made
<1>7. Queued'
  <2> SUFFICES ASSUME NEW i \in DownMsgs(sock'), NEW j \in DownMsgs(sock'), i < j,
                      sock'[i].button = sock'[j].button
               PROVE  sock'[i].press < sock'[j].press
    BY DEF Queued
  <2>1. CASE j \in DownMsgs(sock) /\ sock'[j] = sock[j]
    <3>1. i # Len(sock) + 1
      BY <1>4, <1>5, <2>1 DEF DownMsgs
    <3> QED
      BY <1>3, <2>1, <3>1 DEF Order, Queued
  <2>2. CASE j = Len(sock) + 1 /\ sock'[j] = m /\ m.val = 0
    <3>1. i \in DownMsgs(sock) /\ sock'[i] = sock[i]
      <4>1. i < Len(sock) + 1
        BY <2>2
      <4>2. i # Len(sock) + 1
        BY <1>5, <4>1
      <4> QED
        BY <1>3, <4>2
    <3> QED
      BY <2>2, <3>1 DEF Fresh
  <2> QED
    BY <1>3, <2>1, <2>2
<1>8. TimeAfter'
  BY DEF Order, TimeAfter, After
<1>9. QueueAfter'
  <2> SUFFICES ASSUME NEW i \in DownMsgs(sock')
               PROVE  /\ After(sock'[i].button, sock'[i].press)
                      /\ press_time[sock'[i].button] < sock'[i].press
    BY DEF QueueAfter, After
  <2> QED
    BY <1>3 DEF Order, QueueAfter, Fresh
<1>10. LastAfter'
  <2> SUFFICES ASSUME msg.val = 0
               PROVE  \A i \in DownMsgs(sock') :
                         sock'[i].button = msg.button => msg.press < sock'[i].press
    BY DEF Order, LastAfter, After
  <2> QED
    BY <1>3 DEF Order, LastAfter, Fresh
<1>11. TimeMade'
  <2> SUFFICES ASSUME NEW b \in Buttons
               PROVE  press_time[b] <= presses' /\ \A i \in DOMAIN acted[b] : acted[b][i] < presses' + 1
    BY DEF TimeMade, After
  <2>1. press_time[b] \in Nat /\ \A i \in DOMAIN acted[b] : acted[b][i] \in Nat
    BY <1>0 DEF PresserType
  <2> QED
    BY <1>1, <2>1 DEF Order, TimeMade, After
<1> QED
  BY <1>6, <1>7, <1>8, <1>9, <1>10, <1>11 DEF Order

LEMMA PressOrder ==
    ASSUME TypeOK, Order, NEW b \in Buttons, Press(b)
    PROVE  Order'
<1> USE Bounds
<1> DEFINE m == [button |-> b, press |-> presses + 1, val |-> 0]
<1>0. UserType /\ PresserType /\ presses \in Nat /\ presses' = presses + 1
      /\ presses + 1 \in 1 .. MaxPresses
  BY TypeSplit DEF UserType, Press
<1>1. m \in Message /\ m.press = presses + 1 /\ m.val = 0 /\ m.button = b
  BY <1>0 DEF Message
<1>2. Fresh(m)
  <2>1. After(b, presses + 1) /\ press_time[b] <= presses /\ press_time[b] \in Nat
    BY <1>0 DEF Order, TimeMade, PresserType
  <2>2. \A i \in DownMsgs(sock) : sock[i].press \in Nat /\ sock[i].press <= presses
    BY <1>0, QueueFacts DEF Order, Made, UserType
  <2>3. msg.press \in Nat /\ msg.press <= presses
    BY <1>0, MsgFacts DEF Order, Made
  <2> HIDE DEF m
  <2> QED
    BY <1>0, <1>1, <2>1, <2>2, <2>3 DEF Fresh
<1>3. Deliver(m) /\ UNCHANGED <<msg, press_time, acted>>
  BY <1>0 DEF Press, presser
<1>4. DownMade'
  BY <1>0 DEF Press, Order, DownMade, UserType
<1> HIDE DEF m
<1> QED
  BY <1>0, <1>1, <1>2, <1>3, <1>4, DeliverOrder

LEMMA ReleaseOrder ==
    ASSUME TypeOK, Order, NEW b \in Buttons, Release(b)
    PROVE  Order'
<1> USE Bounds
<1> DEFINE m == [button |-> b, press |-> down[b], val |-> 1]
<1>0. UserType /\ presses \in Nat /\ presses' = presses /\ down[b] \in 1 .. MaxPresses
  BY TypeSplit DEF UserType, Release
<1>1. m \in Message /\ m.press = down[b] /\ m.val = 1
  BY <1>0 DEF Message
<1>2. Fresh(m)
  BY <1>1 DEF Fresh
<1>3. Deliver(m) /\ UNCHANGED <<msg, press_time, acted>>
  BY DEF Release, presser
<1>4. DownMade' /\ down[b] <= presses
  BY <1>0 DEF Release, Order, DownMade, UserType
<1> HIDE DEF m
<1> QED
  BY <1>0, <1>1, <1>2, <1>3, <1>4, DeliverOrder

LEMMA RecvOrder ==
    ASSUME TypeOK, Order, Recv
    PROVE  Order'
<1> USE Bounds
<1>0. UserType /\ PresserType /\ sock \in Seq(Message)
      /\ UNCHANGED <<down, presses, press_time, acted>>
  BY TypeSplit DEF UserType, Recv
<1>1. CASE UNCHANGED <<sock, msg>>
  BY <1>0, <1>1 DEF Order, Made, DownMade, Queued, TimeAfter, TimeMade, QueueAfter, LastAfter,
                    After, DownMsgs
<1>2. CASE sock # <<>> /\ msg' = Head(sock) /\ sock' = Tail(sock)
  <2>1. /\ msg' = sock[1] /\ 1 \in DOMAIN sock
        /\ \A i \in DOMAIN sock' : i + 1 \in DOMAIN sock /\ sock'[i] = sock[i + 1] /\ i > 0
    <3>1. \A i \in DOMAIN Tail(sock) : i > 0
      BY <1>0, <1>2, HeadFacts, QueueFacts
    <3> QED
      BY <1>0, <1>2, <3>1, HeadFacts
  <2>2. \A i \in DownMsgs(sock') : i + 1 \in DownMsgs(sock) /\ sock'[i] = sock[i + 1] /\ i \in Int
    <3>1. DOMAIN sock' = 1 .. Len(sock')
      BY <1>0, <1>2, HeadFacts, QueueFacts
    <3> QED
      BY <2>1, <3>1 DEF DownMsgs
  <2>3. msg'.val = 0 => 1 \in DownMsgs(sock)
    BY <2>1 DEF DownMsgs
  <2>4. Made' /\ DownMade'
    BY <1>0, <2>1 DEF Order, Made, DownMade
  <2>5. TimeMade' /\ TimeAfter'
    BY <1>0 DEF Order, TimeMade, TimeAfter, After
  <2>6. Queued'
    <3> SUFFICES ASSUME NEW i \in DownMsgs(sock'), NEW j \in DownMsgs(sock'), i < j,
                        sock'[i].button = sock'[j].button
                 PROVE  sock'[i].press < sock'[j].press
      BY DEF Queued
    <3>1. i + 1 < j + 1
      BY <2>2
    <3> QED
      BY <2>2, <3>1 DEF Order, Queued
  <2>7. QueueAfter'
    <3> SUFFICES ASSUME NEW i \in DownMsgs(sock')
                 PROVE  /\ After(sock'[i].button, sock'[i].press)
                        /\ press_time[sock'[i].button] < sock'[i].press
      BY <1>0 DEF QueueAfter, After
    <3> QED
      BY <2>2 DEF Order, QueueAfter
  <2>8. LastAfter'
    <3> SUFFICES ASSUME msg'.val = 0
                 PROVE  /\ After(msg'.button, msg'.press) /\ press_time[msg'.button] <= msg'.press
                        /\ \A i \in DownMsgs(sock') :
                              sock'[i].button = msg'.button => msg'.press < sock'[i].press
      BY <1>0 DEF LastAfter, After
    <3>1. After(sock[1].button, sock[1].press) /\ press_time[sock[1].button] < sock[1].press
      BY <2>3 DEF Order, QueueAfter
    <3>2. press_time[sock[1].button] \in Nat /\ sock[1].press \in Nat
      BY <1>0, <2>1, QueueFacts DEF PresserType
    <3>3. \A i \in DownMsgs(sock') : 1 < i + 1
      BY <2>1, <2>2 DEF DownMsgs
    <3> QED
      BY <2>1, <2>2, <2>3, <3>1, <3>2, <3>3 DEF Order, Queued
  <2> QED
    BY <2>4, <2>5, <2>6, <2>7, <2>8 DEF Order
<1> QED
  BY <1>1, <1>2 DEF Recv

LEMMA SwitchOrder ==
    ASSUME TypeOK, Order, OnceEach, Switch
    PROVE  Order' /\ OnceEach'
<1> USE Bounds
<1> DEFINE b == msg.button
<1>0. UserType /\ PresserType /\ UNCHANGED <<down, presses, sock, msg>>
  BY TypeSplit DEF Switch, user
<1>1. /\ b \in Buttons /\ press_time \in [Buttons -> Nat]
      /\ acted \in [Buttons -> Seq(1 .. MaxPresses)] /\ msg.press \in Nat /\ presses \in Nat
  BY <1>0, MsgFacts DEF PresserType, UserType
<1>2. Made' /\ DownMade' /\ Queued'
  BY <1>0 DEF Order, Made, DownMade, Queued, DownMsgs
<1>3. CASE UNCHANGED <<press_time, acted>>
  BY <1>0, <1>2, <1>3 DEF Order, TimeMade, TimeAfter, QueueAfter, LastAfter, After, DownMsgs,
                          OnceEach
<1>4. CASE msg.val = 0 /\ press_time' = [press_time EXCEPT ![b] = msg.press] /\ acted' = acted
  <2>1. \A c \in Buttons : press_time'[c] = IF c = b THEN msg.press ELSE press_time[c]
    BY <1>1, <1>4
  <2>2. /\ After(b, msg.press) /\ press_time[b] <= msg.press /\ msg.press <= presses
        /\ \A i \in DownMsgs(sock) : sock[i].button = b => msg.press < sock[i].press
    BY <1>4 DEF Order, Made, LastAfter
  <2>3. TimeMade' /\ TimeAfter'
    BY <1>0, <1>4, <2>1, <2>2 DEF Order, TimeMade, TimeAfter, After
  <2>4. QueueAfter'
    <3> SUFFICES ASSUME NEW i \in DownMsgs(sock)
                 PROVE  /\ After(sock[i].button, sock[i].press)
                        /\ press_time'[sock[i].button] < sock[i].press
      BY <1>0, <1>4 DEF QueueAfter, After, DownMsgs
    <3>1. sock[i].button \in Buttons
      BY <1>0, QueueFacts DEF UserType, DownMsgs
    <3> QED
      BY <2>1, <2>2, <3>1 DEF Order, QueueAfter
  <2>5. LastAfter'
    <3>1. press_time'[b] <= msg.press
      BY <1>1, <2>1
    <3> QED
      BY <1>0, <1>4, <2>2, <3>1 DEF LastAfter, After, DownMsgs
  <2>6. OnceEach'
    BY <1>4 DEF OnceEach
  <2> QED
    BY <1>2, <2>3, <2>4, <2>5, <2>6 DEF Order
<1>5. CASE /\ msg.val = 1 /\ press_time[b] # 0
           /\ press_time' = [press_time EXCEPT ![b] = 0]
           /\ acted' = [acted EXCEPT ![b] = Append(acted[b], press_time[b])]
  <2>1. /\ \A c \in Buttons : press_time'[c] = IF c = b THEN 0 ELSE press_time[c]
        /\ \A c \in Buttons : acted'[c] = IF c = b THEN Append(acted[b], press_time[b]) ELSE acted[c]
    BY <1>1, <1>5
  <2>2. /\ acted[b] \in Seq(1 .. MaxPresses) /\ press_time[b] \in 1 .. MaxPresses
        /\ After(b, press_time[b]) /\ press_time[b] <= presses
    BY <1>0, <1>1, <1>5 DEF PresserType, Order, TimeAfter, TimeMade
  <2>3. \A i \in DOMAIN acted'[b] :
           \/ i \in DOMAIN acted[b] /\ acted'[b][i] = acted[b][i]
           \/ i = Len(acted[b]) + 1 /\ acted'[b][i] = press_time[b]
    <3>1. acted'[b] = Append(acted[b], press_time[b])
      BY <1>1, <2>1
    <3> HIDE DEF b
    <3> QED
      BY <2>2, <3>1, AddFacts
  <2>4. \A c \in Buttons : acted[c] \in Seq(1 .. MaxPresses) /\ DOMAIN acted[c] = 1 .. Len(acted[c])
    BY <1>1
  <2>5. ASSUME NEW c \in Buttons, NEW p \in Nat, After(c, p), c = b => press_time[b] < p
        PROVE  After(c, p)'
    BY <2>1, <2>3, <2>5 DEF After
  <2>6. TimeMade' /\ TimeAfter'
    <3> SUFFICES ASSUME NEW c \in Buttons
                 PROVE  /\ press_time'[c] <= presses' /\ After(c, presses + 1)'
                        /\ press_time'[c] # 0 => After(c, press_time[c])' /\ press_time'[c] = press_time[c]
      BY <1>0 DEF TimeMade, TimeAfter, After
    <3>1. press_time'[c] <= presses' /\ (press_time'[c] # 0 => c # b /\ press_time'[c] = press_time[c])
      BY <1>0, <1>1, <2>1 DEF Order, TimeMade
    <3>2. After(c, presses + 1)'
      <4>1. presses + 1 \in Nat /\ (c = b => press_time[b] < presses + 1)
        BY <1>1, <2>2
      <4> QED
        BY <1>0, <2>5, <4>1 DEF Order, TimeMade
    <3>3. press_time'[c] # 0 => \A i \in DOMAIN acted'[c] : acted'[c][i] < press_time[c]
      BY <1>1, <2>1, <3>1 DEF Order, TimeAfter, After
    <3> QED
      BY <3>1, <3>2, <3>3 DEF After
  <2>7. QueueAfter'
    <3> SUFFICES ASSUME NEW i \in DownMsgs(sock)
                 PROVE  /\ \A k \in DOMAIN acted'[sock[i].button] :
                              acted'[sock[i].button][k] < sock[i].press
                        /\ press_time'[sock[i].button] < sock[i].press
      BY <1>0 DEF QueueAfter, After, DownMsgs
    <3>1. sock[i].button \in Buttons /\ sock[i].press \in Nat /\ sock[i].press > 0
      BY <1>0, QueueFacts DEF UserType, DownMsgs
    <3>2. /\ After(sock[i].button, sock[i].press)
          /\ press_time[sock[i].button] < sock[i].press
      BY DEF Order, QueueAfter
    <3> QED
      BY <2>1, <2>3, <3>1, <3>2 DEF After
  <2>8. LastAfter'
    BY <1>0, <1>5 DEF LastAfter
  <2>9. OnceEach'
    <3> SUFFICES ASSUME NEW c \in Buttons, NEW i \in DOMAIN acted'[c], NEW j \in DOMAIN acted'[c],
                        i < j
                 PROVE  acted'[c][i] < acted'[c][j]
      BY DEF OnceEach
    <3>1. CASE c # b
      BY <2>1, <3>1 DEF OnceEach
    <3>2. CASE c = b
      <4>1. CASE j \in DOMAIN acted[b] /\ acted'[b][j] = acted[b][j]
        <5>1. i # Len(acted[b]) + 1
          BY <1>1, <2>4, <4>1
        <5> QED
          BY <1>1, <2>3, <3>2, <4>1, <5>1 DEF OnceEach
      <4>2. CASE j = Len(acted[b]) + 1 /\ acted'[b][j] = press_time[b]
        <5>1. i < Len(acted[b]) + 1 /\ Len(acted[b]) \in Nat
          BY <2>2, <4>2
        <5>2. i # Len(acted[b]) + 1
          BY <5>1
        <5> QED
          BY <2>2, <2>3, <3>2, <4>2, <5>2 DEF After
      <4> QED
        BY <2>3, <3>2, <4>1, <4>2
    <3> QED
      BY <3>1, <3>2
  <2> QED
    BY <1>2, <2>6, <2>7, <2>8, <2>9 DEF Order
<1>6. \/ UNCHANGED <<press_time, acted>>
      \/ msg.val = 0 /\ press_time' = [press_time EXCEPT ![b] = msg.press] /\ acted' = acted
      \/ /\ msg.val = 1 /\ press_time[b] # 0
         /\ press_time' = [press_time EXCEPT ![b] = 0]
         /\ acted' = [acted EXCEPT ![b] = Append(acted[b], press_time[b])]
  BY DEF Switch, Forget
<1> HIDE DEF b
<1> QED
  BY <1>3, <1>4, <1>5, <1>6

LEMMA OrderStep ==
    ASSUME IInv, [Next]_vars
    PROVE  Order' /\ OnceEach'
<1>1. TypeOK /\ Order /\ OnceEach
  BY DEF IInv
<1>2. CASE UNCHANGED <<down, ordered>>
  BY <1>1, <1>2 DEF ordered, Order, Made, DownMade, Queued, TimeAfter, TimeMade, QueueAfter,
                    LastAfter, After, DownMsgs, OnceEach
<1>3. ASSUME NEW b \in Buttons, Press(b) \/ Release(b) PROVE Order' /\ OnceEach'
  <2>1. acted' = acted
    BY <1>3 DEF Press, Release, presser
  <2> QED
    BY <1>1, <1>3, <2>1, PressOrder, ReleaseOrder DEF OnceEach
<1>4. CASE Recv
  BY <1>1, <1>4, RecvOrder DEF Recv, OnceEach
<1>5. CASE Switch
  BY <1>1, <1>5, SwitchOrder
<1>6. CASE Check \/ Dropped \/ Busy \/ CreateSaoma \/ CreateWait
  BY <1>2, <1>6 DEF Check, Dropped, Busy, CreateSaoma, CreateWait, user, ordered
<1>7. ASSUME NEW i \in Timers, TimerStep(i) PROVE UNCHANGED <<down, ordered>>
  BY <1>7 DEF TimerStep, TimerStart, TimerSet, TimerTest, TimerLoad, TimerStore, TimerClear,
              user, presser, ordered
<1>8. ASSUME NEW s \in Sessions, ScanStart(s) \/ Scanned(s) \/ ScanCrash(s) \/ WaiterStep(s)
      PROVE  UNCHANGED <<down, ordered>>
  BY <1>8 DEF ScanStart, Scanned, ScanCrash, WaiterStep, WaitStart, WaitSeen, WaitTone, Request, Cancel,
              user, presser, ordered
<1>9. UNCHANGED vars => UNCHANGED <<down, ordered>>
  BY DEF vars, user, presser, ordered
<1> QED
  BY <1>2, <1>3, <1>4, <1>5, <1>6, <1>7, <1>8, <1>9 DEF Next, KeyThread

-----------------------------------------------------------------------------
(* The theorems.                                                            *)

LEMMA InitInv == Init => IInv
<1> SUFFICES ASSUME Init PROVE IInv
  OBVIOUS
<1> USE Bounds
<1>1. UserType /\ PresserType
  <2>1. 0 \in 0 .. MaxPresses
    OBVIOUS
  <2>2. [b \in Buttons |-> 0] \in [Buttons -> 0 .. MaxPresses]
    BY <2>1
  <2>3. <<>> \in Seq(Message) /\ [b \in Buttons |-> <<>>] \in [Buttons -> Seq(1 .. MaxPresses)]
    OBVIOUS
  <2> QED
    BY <2>1, <2>2, <2>3 DEF Init, UserType, PresserType
<1>2. DebouncingType
  BY DEF Init, DebouncingType, TimerType, IdleTimer, Integer
<1>3. NetworkType
  <2>1. [s \in Sessions |-> NoWaiter] \in [Sessions -> WaiterType]
    BY DEF WaiterType, NoWaiter
  <2>2. 0 \in 0 .. MaxSessions
    OBVIOUS
  <2> QED
    BY <2>1, <2>2 DEF Init, NetworkType
<1>4. Order /\ OnceEach
  BY DEF Init, Order, Made, DownMade, Queued, TimeAfter, TimeMade, QueueAfter, LastAfter, After,
         DownMsgs, OnceEach, NONE
<1> QED
  BY <1>1, <1>2, <1>3, <1>4, TypeSplit DEF IInv

LEMMA StepInv == IInv /\ [Next]_vars => IInv'
<1> SUFFICES ASSUME IInv, [Next]_vars PROVE IInv'
  OBVIOUS
<1>1. UserType /\ PresserType /\ DebouncingType /\ NetworkType
  BY TypeSplit DEF IInv
<1>2. UserType' /\ PresserType' /\ DebouncingType' /\ NetworkType'
  BY <1>1, UserStep, PresserStep, DebouncingStep, NetworkStep
<1>3. TypeOK'
  BY <1>2 DEF TypeOK, UserType, PresserType, DebouncingType, NetworkType, TimerType, WaiterType
<1> QED
  BY <1>3, OrderStep DEF IInv

LEMMA Invariance == Spec => []IInv
  BY InitInv, StepInv, PTL DEF Spec

\* Every variable keeps to its values for any number of buttons, presses,
\* debouncing threads and configurations: press_timeout may start a thread while
\* others count down, and time_cnt1 may go below zero (main.c:244-265).
THEOREM TypeCorrect == Spec => []TypeOK
<1>1. IInv => TypeOK
  BY DEF IInv
<1> QED
  BY Invariance, <1>1, PTL

\* Whatever the socket loses, and whichever message is processed a second time
\* because recv failed, no press of a button is acted on twice and none after a
\* later one (key_callback_func).
THEOREM OnceEachHolds == Spec => []OnceEach
<1>1. IInv => OnceEach
  BY DEF IInv
<1> QED
  BY Invariance, <1>1, PTL

=============================================================================
