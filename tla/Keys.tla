-------------------------------- MODULE Keys --------------------------------
(***************************************************************************)
(* src/main.c: the key thread, the threads that debounce for it, and the   *)
(* threads a long press of the configuration button starts, which scan a   *)
(* code with the camera and ask the network manager for the network in it. *)
(*                                                                         *)
(* A press time is the number of the press, and 0 stands for the code's 0; *)
(* how long a button was down is left to the user, who may press for short *)
(* or for long.  What an action does to the player and the recognition is  *)
(* in MusicPlayer and VoiceLogic.  Each access of a variable two threads   *)
(* share is a step.                                                        *)
(***************************************************************************)
EXTENDS Integers, Sequences, FiniteSets

CONSTANTS
    Buttons,        \* gpio numbers
    Config,         \* the button whose long press configures the network
    Tests,          \* time_cnt1 of a press (3)
    Again,          \* time_cnt1 of a press that was dropped (10)
    IntMax,         \* the greatest int (2^31 - 1)
    MaxQueue,       \* bound: messages the socket takes
    MaxPresses,     \* bound on the presses of the user
    MaxTimers,      \* bound on threads of press_timeout at a time
    MaxSessions     \* bound on network configurations

ASSUME ButtonAssumption == Config \in Buttons
ASSUME BoundAssumption ==
    /\ {Tests, Again, MaxQueue, MaxPresses, MaxTimers, MaxSessions} \subseteq Nat \ {0}
    /\ IntMax \in Nat /\ Tests <= IntMax /\ Again <= IntMax

VARIABLES
    down,           \* number of the press of each button that is down, or 0
    presses,        \* how often the user has pressed
    sock,           \* messages on the way to hotplug_sock
    overrun,        \* a message was lost: the next recv fails
    msg,            \* the last message received
    key,            \* where the key thread is
    press_time,     \* of each button, 0 when it is not pressed
    acted,          \* history: for each button the presses acted on
    KEY_ALL, time_cnt1,
    timer,          \* threads in timeout_func: place and value loaded
    scan,           \* where saoma_func is, by session
    session,        \* number of the last session
    flag,           \* saoma_info.flag
    unsent,         \* history: the code scanned has not been asked for
    wait_wifi_flag,
    waiter          \* where wait_wifi_func is, by session, and its cancellation

user == <<down, presses, sock, overrun>>
presser == <<msg, key, press_time, acted>>
debouncing == <<KEY_ALL, time_cnt1, timer>>
network == <<scan, session, flag, unsent, wait_wifi_flag, waiter>>
vars == <<user, presser, debouncing, network>>

Integer == -IntMax - 1 .. IntMax         \* an int of the machine
Timers == 1 .. MaxTimers
Sessions == 1 .. MaxSessions
Message == [button : Buttons, press : 1 .. MaxPresses, val : {0, 1}]
NONE == [button |-> Config, press |-> 0, val |-> 2]     \* of another module

TypeOK ==
    /\ down \in [Buttons -> 0 .. MaxPresses] /\ presses \in 0 .. MaxPresses
    /\ sock \in Seq(Message) /\ overrun \in BOOLEAN
    /\ msg \in Message \cup {NONE}
    /\ key \in {"recv", "check", "dropped", "switch", "stopped", "scanning", "busy", "gone"}
    /\ press_time \in [Buttons -> 0 .. MaxPresses]
    /\ acted \in [Buttons -> Seq(1 .. MaxPresses)]
    /\ KEY_ALL \in {0, 1} /\ time_cnt1 \in Integer
    /\ timer \in [Timers -> [at : {"none", "start", "set", "test", "load", "store", "clear"},
                             cnt : Integer]]
    /\ scan \in [Sessions -> {"none", "start", "capture", "over"}]
    /\ session \in 0 .. MaxSessions
    /\ flag \in {0, 1} /\ unsent \in BOOLEAN /\ wait_wifi_flag \in {0, 1}
    /\ waiter \in [Sessions -> [at : {"none", "start", "wait", "seen", "tone", "over"},
                                cancelled : BOOLEAN]]

IdleTimer == [at |-> "none", cnt |-> 0]
NoWaiter == [at |-> "none", cancelled |-> FALSE]

\* msg is not initialised: the stack of a new thread is zero, which is the
\* number of no module, so that processing it does nothing.
Init ==
    /\ down = [b \in Buttons |-> 0] /\ presses = 0 /\ sock = <<>> /\ overrun = FALSE
    /\ msg = NONE /\ key = "recv"
    /\ press_time = [b \in Buttons |-> 0] /\ acted = [b \in Buttons |-> <<>>]
    /\ KEY_ALL = 0 /\ time_cnt1 = 0 /\ timer = [i \in Timers |-> IdleTimer]
    /\ scan = [s \in Sessions |-> "none"] /\ session = 0 /\ flag = 0 /\ unsent = FALSE
    /\ wait_wifi_flag = 0 /\ waiter = [s \in Sessions |-> NoWaiter]

-----------------------------------------------------------------------------
(* The user and the kernel's socket.                                        *)

Deliver(m) ==
    IF Len(sock) < MaxQueue THEN sock' = Append(sock, m) /\ UNCHANGED overrun
    ELSE overrun' = TRUE /\ UNCHANGED sock

Press(b) ==
    /\ down[b] = 0 /\ presses < MaxPresses
    /\ presses' = presses + 1 /\ down' = [down EXCEPT ![b] = presses']
    /\ Deliver([button |-> b, press |-> presses', val |-> 0])
    /\ UNCHANGED <<presser, debouncing, network>>

Release(b) ==
    /\ down[b] # 0 /\ down' = [down EXCEPT ![b] = 0]
    /\ Deliver([button |-> b, press |-> down[b], val |-> 1])
    /\ UNCHANGED <<presses, presser, debouncing, network>>

-----------------------------------------------------------------------------
(* key_callback_func.  The result of recv is not looked at: when it fails,  *)
(* the last message is taken once more.                                     *)

Recv ==
    /\ key = "recv"
    /\ \/ overrun /\ overrun' = FALSE /\ UNCHANGED <<sock, msg>>
       \/ ~overrun /\ sock # <<>> /\ msg' = Head(sock) /\ sock' = Tail(sock)
          /\ UNCHANGED overrun
    /\ key' = "check"
    /\ UNCHANGED <<down, presses, press_time, acted, debouncing, network>>

\* press_timeout: the new thread is to set KEY_ALL.  Threads that are over are
\* used again, the first one first.
CreateTimer ==
    \E i \in Timers :
        /\ timer[i].at = "none" /\ \A j \in 1 .. i - 1 : timer[j].at # "none"
        /\ timer' = [timer EXCEPT ![i].at = "start"]

Check ==
    /\ key = "check"
    /\ \/ msg.val = 0 /\ KEY_ALL = 1 /\ key' = "dropped" /\ UNCHANGED timer
       \/ /\ msg.val = 0 /\ KEY_ALL = 0 /\ key' = "switch"
          /\ CreateTimer
       \/ msg.val # 0 /\ key' = "switch" /\ UNCHANGED timer
    /\ UNCHANGED <<user, msg, press_time, acted, KEY_ALL, time_cnt1, network>>

Dropped ==
    /\ key = "dropped" /\ time_cnt1' = Again /\ key' = "recv"
    /\ UNCHANGED <<user, msg, press_time, acted, KEY_ALL, timer, network>>

BugForget(b) == UNCHANGED press_time        \* the press time is kept
Forget(b) == press_time' = [press_time EXCEPT ![b] = 0]

Switch ==
    LET b == msg.button
    IN  /\ key = "switch"
        /\ \/ /\ msg.val = 0 /\ key' = "recv"
              /\ press_time' = [press_time EXCEPT ![b] = msg.press]
              /\ UNCHANGED <<acted, session>>
           \/ /\ msg.val = 1 /\ press_time[b] = 0 /\ key' = "recv"
              /\ UNCHANGED <<press_time, acted, session>>
           \/ /\ msg.val = 1 /\ press_time[b] # 0 /\ Forget(b)
              /\ acted' = [acted EXCEPT ![b] = Append(@, press_time[b])]
              /\ \/ key' = "busy" /\ UNCHANGED session        \* a short press
                 \/ /\ b = Config /\ key' = "stopped"       \* a long one: stopall
                    /\ session < MaxSessions /\ session' = session + 1
           \/ msg.val = 2 /\ key' = "recv" /\ UNCHANGED <<press_time, acted, session>>
        /\ UNCHANGED <<user, msg, debouncing, scan, flag, unsent, wait_wifi_flag, waiter>>

\* What a short press does, or a long one of another button: waits for the
\* player to pause and tones, which end by themselves, and an interruption,
\* which ends as BreakReturns in VoiceLogic says.
Busy ==
    /\ key = "busy" /\ key' = "recv"
    /\ UNCHANGED <<user, msg, press_time, acted, debouncing, network>>

-----------------------------------------------------------------------------
(* timeout_func: KEY_ALL is 1 until time_cnt1 has been counted down.        *)

At(i, from, to) == timer[i].at = from /\ timer' = [timer EXCEPT ![i].at = to]

TimerStart(i) ==
    /\ At(i, "start", "set") /\ time_cnt1' = Tests
    /\ UNCHANGED <<user, presser, KEY_ALL, network>>

TimerSet(i) ==
    /\ At(i, "set", "test") /\ KEY_ALL' = 1
    /\ UNCHANGED <<user, presser, time_cnt1, network>>

BugTimerTest(i) ==      \* returns at once, with the flag still set
    /\ IF time_cnt1 = 0 THEN At(i, "test", "none") ELSE At(i, "test", "load")
    /\ UNCHANGED <<user, presser, KEY_ALL, time_cnt1, network>>

TimerTest(i) ==
    /\ IF time_cnt1 = 0 THEN At(i, "test", "clear") ELSE At(i, "test", "load")
    /\ UNCHANGED <<user, presser, KEY_ALL, time_cnt1, network>>

TimerLoad(i) ==
    /\ timer[i].at = "load"
    /\ timer' = [timer EXCEPT ![i] = [at |-> "store", cnt |-> time_cnt1]]
    /\ UNCHANGED <<user, presser, KEY_ALL, time_cnt1, network>>

\* The decrement, which wraps round, and the sleep after it.
TimerStore(i) ==
    /\ timer[i].at = "store"
    /\ time_cnt1' = IF timer[i].cnt = -IntMax - 1 THEN IntMax ELSE timer[i].cnt - 1
    /\ timer' = [timer EXCEPT ![i] = [at |-> "test", cnt |-> 0]]
    /\ UNCHANGED <<user, presser, KEY_ALL, network>>

TimerClear(i) ==
    /\ At(i, "clear", "none") /\ KEY_ALL' = 0
    /\ UNCHANGED <<user, presser, time_cnt1, network>>

TimerStep(i) ==
    TimerStart(i) \/ TimerSet(i) \/ TimerTest(i) \/ TimerLoad(i) \/ TimerStore(i)
        \/ TimerClear(i)

-----------------------------------------------------------------------------
(* The end of a long press: create_saoma_func, then create_wait_wifi_func.  *)

CreateSaoma ==
    /\ key = "stopped" /\ key' = "scanning" /\ flag' = 0 /\ unsent' = FALSE
    /\ scan' = [scan EXCEPT ![session] = "start"]
    /\ UNCHANGED <<user, msg, press_time, acted, debouncing, session, wait_wifi_flag, waiter>>

Waiting == {s \in Sessions : waiter[s].at \notin {"none", "over"}}

\* wait_wifi_tid is the last one created; one that is over takes no notice.
Cancelled ==
    [s \in Sessions |->
        IF wait_wifi_flag = 1 /\ s = session - 1 /\ s \in Waiting
        THEN [waiter[s] EXCEPT !.cancelled = TRUE] ELSE waiter[s]]

BugCreateWait ==        \* the one that waits is to wait for this session as well
    /\ key = "scanning" /\ key' = "recv"
    /\ waiter' = IF wait_wifi_flag = 1 THEN Cancelled
                 ELSE [waiter EXCEPT ![session].at = "start"]
    /\ UNCHANGED <<user, msg, press_time, acted, debouncing, scan, flag, unsent, session,
                   wait_wifi_flag>>

CreateWait ==
    /\ key = "scanning" /\ key' = "recv"
    /\ waiter' = [Cancelled EXCEPT ![session].at = "start"]
    /\ UNCHANGED <<user, msg, press_time, acted, debouncing, scan, flag, unsent, session,
                   wait_wifi_flag>>

-----------------------------------------------------------------------------
(* saoma_func: the frames of the camera are scanned until one has a code.   *)

ScanStart(s) ==
    /\ scan[s] = "start"
    /\ \E to \in {"capture", "over"} : scan' = [scan EXCEPT ![s] = to]  \* gadi_pda_init
    /\ UNCHANGED <<user, presser, debouncing, session, flag, unsent, wait_wifi_flag, waiter>>

\* A frame with a code in it: rayshine_parse_wifi_info.
Scanned(s) ==
    /\ scan[s] = "capture" /\ scan' = [scan EXCEPT ![s] = "over"]
    /\ flag' = 1 /\ unsent' = (unsent \/ flag = 0)
    /\ UNCHANGED <<user, presser, debouncing, session, wait_wifi_flag, waiter>>

\* A code without '#' has no second part to copy: the program crashes, and
\* all its threads are gone.
ScanCrash(s) ==
    /\ scan[s] = "capture" /\ key' = "gone"
    /\ timer' = [i \in Timers |-> IdleTimer]
    /\ scan' = [t \in Sessions |-> "over"]
    /\ waiter' = [t \in Sessions |-> [at |-> "over", cancelled |-> FALSE]]
    /\ UNCHANGED <<user, msg, press_time, acted, KEY_ALL, time_cnt1, session, flag, unsent,
                   wait_wifi_flag>>

-----------------------------------------------------------------------------
(* wait_wifi_func.  A cancellation takes effect where the thread prints,    *)
(* sleeps or waits: at its start, in sleep, in the tone and in the request. *)

WaiterAt(s, from, to) == waiter[s].at = from /\ waiter' = [waiter EXCEPT ![s].at = to]

WaitStart(s) ==
    /\ WaiterAt(s, "start", "wait") /\ wait_wifi_flag' = 1
    /\ UNCHANGED <<user, presser, debouncing, scan, flag, unsent, session>>

WaitSeen(s) ==
    /\ flag = 1 /\ WaiterAt(s, "wait", "seen")
    /\ UNCHANGED <<user, presser, debouncing, scan, flag, unsent, session, wait_wifi_flag>>

WaitTone(s) ==
    /\ WaiterAt(s, "seen", "tone") /\ wait_wifi_flag' = 0
    /\ UNCHANGED <<user, presser, debouncing, scan, flag, unsent, session>>

Request(s) ==
    /\ WaiterAt(s, "tone", "over") /\ unsent' = FALSE
    /\ UNCHANGED <<user, presser, debouncing, scan, flag, session, wait_wifi_flag>>

Cancel(s) ==
    /\ waiter[s].cancelled
    /\ \E at \in {"start", "wait", "tone"} : WaiterAt(s, at, "over")
    /\ UNCHANGED <<user, presser, debouncing, scan, flag, unsent, session, wait_wifi_flag>>

WaiterStep(s) == WaitStart(s) \/ WaitSeen(s) \/ WaitTone(s) \/ Request(s) \/ Cancel(s)

-----------------------------------------------------------------------------
KeyThread == Recv \/ Check \/ Dropped \/ Switch \/ Busy \/ CreateSaoma \/ CreateWait

Next ==
    \/ \E b \in Buttons : Press(b) \/ Release(b)
    \/ KeyThread
    \/ \E i \in Timers : TimerStep(i)
    \/ \E s \in Sessions : ScanStart(s) \/ Scanned(s) \/ ScanCrash(s) \/ WaiterStep(s)

\* Every thread of the process is scheduled; nobody has to press a key or to
\* show the camera a code.
Fairness ==
    /\ WF_vars(KeyThread)
    /\ \A i \in Timers : WF_vars(TimerStep(i))
    /\ \A s \in Sessions : WF_vars(ScanStart(s)) /\ WF_vars(WaiterStep(s))

Spec == Init /\ [][Next]_vars /\ Fairness

-----------------------------------------------------------------------------
\* OnceEach: no press makes the program act twice, and presses of a button are
\* acted on in their order, also when messages are lost and the last one is
\* processed again (main.c:347), and when presses are dropped (main.c:350).
OnceEach ==
    \A b \in Buttons : \A i, j \in DOMAIN acted[b] : i < j => acted[b][i] < acted[b][j]

\* AloneComesBack: keys that are ignored after a press are taken again once
\* the user leaves them alone, whatever is dropped in between, unless a second
\* thread counts time_cnt1 down at the same time (main.c:244-256, 351-354).
Gone == key = "gone"
Alone == \A i, j \in Timers : timer[i].at # "none" /\ timer[j].at # "none" => i = j
AloneComesBack == KEY_ALL = 1 ~> KEY_ALL = 0 \/ ~Alone \/ Gone

\* ScannedIsSent: a network the camera has read is asked for, unless a new
\* configuration starts, also when one starts while another one waits
\* (main.c:269-312).
ScannedIsSent == unsent ~> ~unsent \/ Gone

-----------------------------------------------------------------------------
(* What a comment of the code says, and the code does not do.               *)

\* KeysComeBack (main.c:365): "short_press:pause    long_press: wifi_config";
\* for that the keys may not be ignored for ever when the user leaves them
\* alone.
KeysComeBack == KEY_ALL = 1 ~> KEY_ALL = 0 \/ Gone

=============================================================================
