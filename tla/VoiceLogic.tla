----------------------------- MODULE VoiceLogic -----------------------------
(***************************************************************************)
(* The voice recognition logic: the logic thread of src/vr/vr.c with the   *)
(* wake-word recorder (src/vr/aec.c), the speech recorder (src/vr/asr.c)   *)
(* and the reply callback (src/modules/ray_module_vr.c) that it runs; the  *)
(* callbacks of the dialogue service (src/ray_dds.c) on the service's own  *)
(* thread; the keys and the phone that interrupt a recording or wake the   *)
(* device; and the thread that starts and stops it all (src/ray_app.c).    *)
(*                                                                         *)
(* All of them share ai_vr_info.  Its union is modelled as the one integer *)
(* it overlays: aec.wakeup = true writes the same bytes as ASR_START,      *)
(* CONTENT_SUCCESS as ASR_SPEAK_END and CONTENT_FAIL as ASR_SUCCESS.       *)
(* Every section under ai_lock is short and never blocks, so it is one     *)
(* step; what the code writes outside the lock is a step of its own.       *)
(*                                                                         *)
(* pc is the logic thread: "none" before it exists, "outer" between rounds *)
(* with working off, "top" at the switch, "check" after it, "aec..." and   *)
(* "asr..." in the two recorders, "wait" for a result, "heard" when the    *)
(* wait is over, "reply" entering the callback, "speak", "idling",         *)
(* "telling" and "stopping" inside it, "decide" when it has returned,      *)
(* "exited" or "crashed".  Operators named Bug... are wrong variants used  *)
(* to test the properties.                                                 *)
(***************************************************************************)
EXTENDS Integers

CONSTANTS Breakers,  \* threads that may call ray_vr_asr_break: key 22, phone
          Uses,      \* what else happens: "key", "query", "restart"
          Fails,     \* what may fail: "open" (the microphone)
          MaxWait    \* CNT1000: polls of a second before a wait times out

ASSUME ConstantAssumption == /\ MaxWait \in Nat
                             /\ Uses \subseteq {"key", "query", "restart"}
                             /\ Fails \subseteq {"open"}

VARIABLES
    init, working,             \* vr_init_flag, vr_working_flag
    status, next,              \* vr_status, vr_next
    info,                      \* the pointer is set (it only has one value)
    from, state,               \* ai_vr_info.from and the union's first int
    stopAsr, breakAsr,         \* asr_stop_flag, asr_break_flag
    asrStopped, stopAec,       \* asr_stopped, aec_stop_flag
    asrMic,                    \* in_asr_pcm is open
    pc, via, cnt, res,         \* the logic thread: place, branch, cnt, result
    isText, answered,          \* is_txt_input, is_dui_response
    speech, text, dds,         \* what the service owes, and its thread
    ctl,                       \* the thread in startall or stopall
    brk                        \* each breaker

vrVars    == <<init, working, status, next>>
infoVars  == <<info, from, state>>
flagVars  == <<stopAsr, breakAsr, stopAec>>
micVars   == <<asrStopped, asrMic>>
logicVars == <<pc, via, cnt, res>>
ddsVars   == <<isText, answered, speech, text, dds>>
vars == <<vrVars, infoVars, flagVars, micVars, logicVars, ddsVars, ctl, brk>>

Woken          == "START"          \* the bytes of aec.wakeup = true
ContentSuccess == "SPEAK_END"
ContentFail    == "SUCCESS"
Done           == {"SUCCESS", "FAIL", "BREAK"}

Init ==
    /\ init = FALSE /\ working = FALSE /\ status = "IDLE" /\ next = "NULL"
    /\ info = FALSE /\ from = "AEC" /\ state = "IDLE"
    /\ stopAsr = FALSE /\ breakAsr = FALSE /\ stopAec = FALSE
    /\ asrStopped = FALSE /\ asrMic = FALSE
    /\ pc = "none" /\ via = "ASR" /\ cnt = 0 /\ res = "NULL"
    /\ isText = FALSE /\ answered = FALSE
    /\ speech = "idle" /\ text = FALSE /\ dds = "idle"
    /\ ctl = "off"
    /\ brk = [b \in Breakers |-> "idle"]

-----------------------------------------------------------------------------
(* ai_vr_info under ai_lock.                                                *)

\* callback_from_vr, called with what ai_vr_info holds.
Callback(f, s) ==
    /\ info' = (info \/ f # "CONTENT")
    /\ stopAec' = (stopAec \/ f = "AEC")
    /\ stopAsr' = (stopAsr \/ (f = "ASR" /\ s = "SPEAK_END"))
    /\ breakAsr' = (breakAsr \/ (f = "ASR" /\ s = "BREAK"))

Inform(f, s) == from' = f /\ state' = s /\ Callback(f, s)

Registered == ctl # "off"      \* ai_vr_callback is set
Alive == pc # "crashed"        \* of the whole process

-----------------------------------------------------------------------------
(* The logic thread.                                                        *)

Goto(place) == pc' = place /\ UNCHANGED <<via, cnt, res>>

Outer ==
    /\ pc = "outer"
    /\ \/ ~init /\ Goto("exited")
       \/ init /\ working /\ Goto("top")
    /\ UNCHANGED <<vrVars, infoVars, flagVars, micVars, ddsVars, ctl, brk>>

Top ==
    /\ pc = "top"
    /\ \/ ~working /\ Goto("outer") /\ UNCHANGED status
       \/ working /\ next = "AEC" /\ status' = "AEC" /\ Goto("aec_start")
       \/ working /\ next = "ASR" /\ status' = "ASR" /\ Goto("asr_start")
       \/ working /\ next = "NULL" /\ Goto("check") /\ UNCHANGED status
    /\ UNCHANGED <<init, working, next, infoVars, flagVars, micVars, ddsVars,
                   ctl, brk>>

\* aec_run clears the stop flag first, whoever set it.
AecStart ==
    /\ pc = "aec_start"
    /\ stopAec' = FALSE
    /\ \/ Goto("aec")
       \/ "open" \in Fails /\ Goto("check")
    /\ UNCHANGED <<vrVars, infoVars, stopAsr, breakAsr, micVars, ddsVars, ctl, brk>>

\* The wake word, reported from duilite_wakeup_feed inside the loop.
Wakeup ==
    /\ pc = "aec"
    /\ Inform("AEC", Woken)
    /\ UNCHANGED <<vrVars, micVars, logicVars, ddsVars, ctl, brk>>

AecEnd ==
    /\ pc = "aec" /\ stopAec
    /\ Goto("check")
    /\ UNCHANGED <<vrVars, infoVars, flagVars, micVars, ddsVars, ctl, brk>>

\* ray_asr_start clears the three flags first, whoever set them ...
AsrStart ==
    /\ \/ /\ pc = "asr_start" /\ Goto("asr_break")
          /\ stopAsr' = FALSE /\ UNCHANGED <<breakAsr, asrStopped>>
       \/ /\ pc = "asr_break" /\ Goto("asr_stopped")
          /\ breakAsr' = FALSE /\ UNCHANGED <<stopAsr, asrStopped>>
       \/ /\ pc = "asr_stopped" /\ Goto("asr_request")
          /\ asrStopped' = FALSE /\ UNCHANGED <<stopAsr, breakAsr>>
    /\ UNCHANGED <<vrVars, infoVars, stopAec, asrMic, ddsVars, ctl, brk>>

\* ... the service is told to listen ...
AsrRequest ==
    /\ pc = "asr_request" /\ Goto("asr_open")
    /\ speech' = "listening"
    /\ UNCHANGED <<vrVars, infoVars, flagVars, micVars, isText, answered, text, dds, ctl,
                   brk>>

\* ... and the microphone is opened.
AsrOpen ==
    /\ pc = "asr_open"
    /\ \/ asrMic' = TRUE /\ Goto("asr")
       \/ "open" \in Fails /\ asrMic' = FALSE /\ Goto("check")
    /\ UNCHANGED <<vrVars, infoVars, flagVars, asrStopped, ddsVars, ctl, brk>>

\* The end of speech, reported from duilite_vad_feed inside the loop.
VadEnd ==
    /\ pc = "asr"
    /\ Inform("ASR", "SPEAK_END")
    /\ UNCHANGED <<vrVars, micVars, logicVars, ddsVars, ctl, brk>>

BugAsrEnd ==         \* closes nothing
    /\ pc = "asr" /\ (stopAsr \/ breakAsr)
    /\ asrStopped' = TRUE
    /\ speech' = IF stopAsr /\ speech = "listening" THEN "asked" ELSE speech
    /\ Goto("check")
    /\ UNCHANGED <<vrVars, infoVars, flagVars, asrMic, isText, answered, text, dds,
                   ctl, brk>>

BugNotStopped ==     \* never says that it has stopped
    /\ pc = "asr" /\ (stopAsr \/ breakAsr)
    /\ asrMic' = (asrMic /\ ~stopAsr)
    /\ speech' = IF stopAsr /\ speech = "listening" THEN "asked" ELSE speech
    /\ Goto("check")
    /\ UNCHANGED <<vrVars, infoVars, flagVars, asrStopped, isText, answered, text, dds,
                   ctl, brk>>

\* Only a stop closes the microphone and tells the service the speech is over.
AsrEnd ==
    /\ pc = "asr" /\ (stopAsr \/ breakAsr)
    /\ asrStopped' = TRUE
    /\ asrMic' = (asrMic /\ ~stopAsr)
    /\ speech' = IF stopAsr /\ speech = "listening" THEN "asked" ELSE speech
    /\ Goto("check")
    /\ UNCHANGED <<vrVars, infoVars, flagVars, isText, answered, text, dds, ctl, brk>>

\* After the switch: stopped, no callback yet (a null pointer is read), a
\* result to wait for, a wake-up to reply to, or a content answer to ignore.
Check ==
    /\ pc = "check"
    /\ cnt' = 0
    /\ \/ ~working /\ status' = "IDLE" /\ pc' = "top" /\ UNCHANGED via
       \/ working /\ ~info /\ pc' = "crashed" /\ UNCHANGED <<status, via>>
       \/ working /\ info /\ from = "ASR" /\ pc' = "wait" /\ via' = "ASR" /\ UNCHANGED status
       \/ working /\ info /\ from = "AEC" /\ pc' = "reply" /\ via' = "AEC" /\ UNCHANGED status
       \/ working /\ info /\ from = "CONTENT" /\ pc' = "top" /\ UNCHANGED <<status, via>>
    /\ UNCHANGED <<init, working, next, infoVars, flagVars, micVars, res, ddsVars,
                   ctl, brk>>

BugWait ==           \* the last poll is repeated for ever
    /\ pc = "wait"
    /\ \/ state \in Done /\ Goto("heard")
       \/ state \notin Done /\ cnt < MaxWait /\ cnt' = cnt + 1 /\ UNCHANGED <<pc, via, res>>
    /\ UNCHANGED <<vrVars, infoVars, flagVars, micVars, ddsVars, ctl, brk>>

BugCount ==          \* counts on for as long as there is no result
    /\ pc = "wait"
    /\ IF state \in Done THEN Goto("heard") ELSE cnt' = cnt + 1 /\ UNCHANGED <<pc, via, res>>
    /\ UNCHANGED <<vrVars, infoVars, flagVars, micVars, ddsVars, ctl, brk>>

\* cnt++ < CNT1000: the poll that gives up counts too.
Wait ==
    /\ pc = "wait"
    /\ \/ state \in Done /\ Goto("heard")
       \/ /\ state \notin Done
          /\ cnt' = cnt + 1
          /\ pc' = IF cnt < MaxWait THEN "wait" ELSE "heard"
          /\ UNCHANGED <<via, res>>
    /\ UNCHANGED <<vrVars, infoVars, flagVars, micVars, ddsVars, ctl, brk>>

Heard ==
    /\ pc = "heard"
    /\ IF state = "BREAK" \/ cnt = MaxWait
       THEN next' = "AEC" /\ Goto("top")
       ELSE Goto("reply") /\ UNCHANGED next
    /\ UNCHANGED <<init, working, status, infoVars, flagVars, micVars, ddsVars, ctl, brk>>

Return(r) == pc' = "decide" /\ res' = r /\ UNCHANGED <<via, cnt>>

\* process_vr_callback looks at ai_vr_info again.  A result with an error
\* code the device has no answer for goes back to the wake word, like an
\* interruption; some codes are spoken of even so.
Reply ==
    /\ pc = "reply"
    /\ \/ from = "AEC" /\ Return(IF state = "IDLE" THEN "AEC" ELSE "ASR")
       \/ from = "ASR" /\ Return("AEC")
       \/ from = "ASR" /\ Goto("speak")
       \/ from = "CONTENT" /\ Return("NULL")
    /\ UNCHANGED <<vrVars, infoVars, flagVars, micVars, ddsVars, ctl, brk>>

\* The answer has been spoken; a dialogue that goes on records again.
SpeakOn ==
    /\ pc = "speak" /\ ~breakAsr
    /\ Return("ASR")
    /\ UNCHANGED <<vrVars, infoVars, flagVars, micVars, ddsVars, ctl, brk>>

\* A dialogue that ends toggles the music: mozart_play_pause, on the logic
\* thread itself, interrupts "the ASR" when the music is the active domain
\* and vr_status says VR_ASR.
CanBreak == status = "ASR" /\ init /\ working

SpeakQuit ==
    /\ pc = "speak"
    /\ \/ CanBreak /\ Goto("idling")
       \/ Return("AEC")
    /\ UNCHANGED <<vrVars, infoVars, flagVars, micVars, ddsVars, ctl, brk>>

QuitIdle ==
    /\ pc = "idling" /\ Goto("telling")
    /\ status' = "IDLE"
    /\ UNCHANGED <<init, working, next, infoVars, flagVars, micVars, ddsVars, ctl, brk>>

QuitTell ==
    /\ pc = "telling" /\ Goto("stopping")
    /\ Inform("ASR", "BREAK")
    /\ UNCHANGED <<vrVars, micVars, ddsVars, ctl, brk>>

Stopping ==
    /\ pc = "stopping" /\ asrStopped
    /\ Return("AEC")
    /\ UNCHANGED <<vrVars, infoVars, flagVars, micVars, ddsVars, ctl, brk>>

Decide ==
    /\ pc = "decide"
    /\ next' = IF via = "ASR" /\ breakAsr THEN "AEC" ELSE res
    /\ Goto("top")
    /\ UNCHANGED <<init, working, status, infoVars, flagVars, micVars, ddsVars, ctl, brk>>

Logic == \/ Outer \/ Top \/ AecStart \/ AecEnd
         \/ AsrStart \/ AsrRequest \/ AsrOpen \/ AsrEnd \/ Check
         \/ Wait \/ Heard \/ Reply \/ SpeakOn \/ SpeakQuit \/ QuitIdle \/ QuitTell
         \/ Stopping \/ Decide

-----------------------------------------------------------------------------
(* The keys and the phone.                                                  *)

\* aec_key_wakeup, in whatever state the logic is.
KeyWakeup ==
    /\ Alive /\ "key" \in Uses
    /\ IF Registered THEN Inform("AEC", Woken)
       ELSE from' = "AEC" /\ state' = Woken /\ UNCHANGED <<info, flagVars>>
    /\ UNCHANGED <<vrVars, micVars, logicVars, ddsVars, ctl, brk>>

\* The caller has read VR_ASR and is about to call ray_vr_asr_break.
Ask(b) ==
    /\ Alive /\ brk[b] = "idle" /\ status = "ASR"
    /\ brk' = [brk EXCEPT ![b] = "asking"]
    /\ UNCHANGED <<vrVars, infoVars, flagVars, micVars, logicVars, ddsVars, ctl>>

Break(b) ==
    /\ Alive /\ brk[b] = "asking"
    /\ brk' = [brk EXCEPT ![b] = IF init /\ working THEN "idling" ELSE "idle"]
    /\ UNCHANGED <<vrVars, infoVars, flagVars, micVars, logicVars, ddsVars, ctl>>

BreakIdle(b) ==
    /\ Alive /\ brk[b] = "idling"
    /\ brk' = [brk EXCEPT ![b] = "telling"] /\ status' = "IDLE"
    /\ UNCHANGED <<init, working, next, infoVars, flagVars, micVars, logicVars, ddsVars,
                   ctl>>

BreakTell(b) ==
    /\ Alive /\ brk[b] = "telling"
    /\ brk' = [brk EXCEPT ![b] = "waiting"] /\ Inform("ASR", "BREAK")
    /\ UNCHANGED <<vrVars, micVars, logicVars, ddsVars, ctl>>

BreakReturn(b) ==
    /\ Alive /\ brk[b] = "waiting" /\ asrStopped
    /\ brk' = [brk EXCEPT ![b] = "idle"]
    /\ UNCHANGED <<vrVars, infoVars, flagVars, micVars, logicVars, ddsVars, ctl>>

-----------------------------------------------------------------------------
(* The dialogue service: its thread runs dds_ev_ccb.                        *)

\* STATUS "understanding": the end of speech, ignored during a text query.
Understanding ==
    /\ Alive /\ dds = "idle" /\ speech \in {"listening", "asked"}
    /\ speech' = "understood"
    /\ IF isText THEN UNCHANGED <<infoVars, flagVars>>
       ELSE Inform("ASR", "SPEAK_END")
    /\ UNCHANGED <<vrVars, micVars, logicVars, isText, answered, text, dds, ctl, brk>>

\* DUI_RESPONSE: which request it answers does not matter, is_txt_input does.
\* ai_vr_info is written before the lock is taken ...
Respond ==
    /\ Alive /\ dds = "idle"
    /\ \/ speech = "understood" /\ speech' = "idle" /\ UNCHANGED text
       \/ text /\ text' = FALSE /\ UNCHANGED speech
    /\ IF isText
       THEN from' = "CONTENT" /\ state' = ContentSuccess
       ELSE from' = "ASR" /\ state' = "SUCCESS"
    /\ isText' = FALSE
    /\ dds' = "telling"
    /\ UNCHANGED <<vrVars, info, flagVars, micVars, logicVars, answered, ctl, brk>>

\* ... and the callback sees what it holds by then.
Tell ==
    /\ Alive /\ dds = "telling"
    /\ Callback(from, state)
    /\ answered' = TRUE
    /\ dds' = "idle"
    /\ UNCHANGED <<vrVars, from, state, micVars, logicVars, isText, speech, text,
                   ctl, brk>>

\* ERROR: a request fails; nobody but a text query is told.
ServiceError ==
    /\ Alive /\ dds = "idle"
    /\ \/ speech # "idle" /\ speech' = "idle" /\ UNCHANGED text
       \/ text /\ text' = FALSE /\ UNCHANGED speech
    /\ answered' = TRUE
    /\ UNCHANGED <<vrVars, infoVars, flagVars, micVars, logicVars, isText, dds, ctl, brk>>

-----------------------------------------------------------------------------
(* startall and stopall, which one thread calls at a time; a ray_vr_init    *)
(* that fails leaves everything as it was.                                  *)

VrInit ==
    /\ ctl = "off"
    /\ init' = TRUE /\ pc' = "outer" /\ ctl' = "ready"
    /\ UNCHANGED <<working, status, next, infoVars, flagVars, micVars, via, cnt, res,
                   ddsVars, brk>>

\* ray_vr_start sets the flag the logic thread polls before the next state.
VrStart ==
    /\ Alive /\ ctl = "ready"
    /\ working' = TRUE /\ ctl' = "started"
    /\ UNCHANGED <<init, status, next, infoVars, flagVars, micVars, logicVars, ddsVars,
                   brk>>

VrStartNext ==
    /\ Alive /\ ctl = "started"
    /\ next' = "AEC"
    /\ ctl' = IF "query" \in Uses THEN "query" ELSE "on"
    /\ UNCHANGED <<init, working, status, infoVars, flagVars, micVars, logicVars,
                   ddsVars, brk>>

\* ray_vr_content_get: the music query every startall makes.
Query ==
    /\ Alive /\ ctl = "query"
    /\ isText' = TRUE /\ text' = TRUE /\ ctl' = "querying"
    /\ UNCHANGED <<vrVars, infoVars, flagVars, micVars, logicVars, answered, speech,
                   dds, brk>>

QueryAnswered ==
    /\ Alive /\ ctl = "querying" /\ answered
    /\ answered' = FALSE /\ ctl' = "on"
    /\ UNCHANGED <<vrVars, infoVars, flagVars, micVars, logicVars, isText, speech, text,
                   dds, brk>>

\* Fifty polls without an answer; is_txt_input stays set.
QueryTimeout ==
    /\ Alive /\ ctl = "querying" /\ ~answered
    /\ Inform("CONTENT", ContentFail)
    /\ ctl' = "on"
    /\ UNCHANGED <<vrVars, micVars, logicVars, ddsVars, brk>>

\* ray_vr_uninit: ray_vr_stop, which clears the working flag ...
VrStop ==
    /\ Alive /\ ctl = "on" /\ "restart" \in Uses
    /\ working' = FALSE /\ ctl' = "stop_aec"
    /\ UNCHANGED <<init, status, next, infoVars, flagVars, micVars, logicVars, ddsVars, brk>>

\* ... and stops the two recorders; then init is cleared, before the join.
VrStopping ==
    /\ Alive
    /\ \/ /\ ctl = "stop_aec" /\ ctl' = "stop_asr"
          /\ stopAec' = TRUE /\ UNCHANGED <<stopAsr, init>>
       \/ /\ ctl = "stop_asr" /\ ctl' = "uninit"
          /\ stopAsr' = TRUE /\ UNCHANGED <<stopAec, init>>
       \/ /\ ctl = "uninit" /\ ctl' = "joining"
          /\ init' = FALSE /\ UNCHANGED <<stopAec, stopAsr>>
    /\ UNCHANGED <<working, status, next, infoVars, breakAsr, micVars, logicVars, ddsVars,
                   brk>>

\* The logic thread is gone; the service is stopped and its thread joined.
VrStopped ==
    /\ ctl = "joining" /\ pc = "exited" /\ dds = "idle"
    /\ pc' = "none" /\ speech' = "idle" /\ text' = FALSE /\ ctl' = "off"
    /\ UNCHANGED <<vrVars, infoVars, flagVars, micVars, via, cnt, res, isText, answered,
                   dds, brk>>

Control == \/ VrInit \/ VrStart \/ VrStartNext \/ Query \/ QueryAnswered
           \/ QueryTimeout \/ VrStopping \/ VrStopped

Next == \/ Logic \/ Wakeup \/ VadEnd \/ KeyWakeup
        \/ \E b \in Breakers : Ask(b) \/ Break(b) \/ BreakIdle(b) \/ BreakTell(b)
                              \/ BreakReturn(b)
        \/ Understanding \/ Respond \/ Tell \/ ServiceError
        \/ Control \/ VrStop

Spec == Init /\ [][Next]_vars

(* Every thread goes on; the user stops speaking at some point, which the   *)
(* detector reports; and a breaker, which polls asr_stopped every 10 ms     *)
(* while each reply takes seconds, does not miss it for ever.  Nothing is   *)
(* assumed of wake words, keys, or the service's answers.                   *)
FairSpec ==
    /\ Spec
    /\ WF_vars(Logic)
    /\ WF_vars(VadEnd)
    /\ WF_vars(Tell)
    /\ WF_vars(Control)
    /\ \A b \in Breakers : /\ WF_vars(Break(b) \/ BreakIdle(b) \/ BreakTell(b))
                           /\ SF_vars(BreakReturn(b))

-----------------------------------------------------------------------------
Recording == {"asr_start", "asr_break", "asr_stopped", "asr_request", "asr_open", "asr"}
Places == {"none", "outer", "top", "aec_start", "aec", "check", "wait", "heard", "reply",
           "speak", "idling", "telling", "stopping", "decide", "exited", "crashed"}
          \cup Recording

TypeOK ==
    /\ init \in BOOLEAN /\ working \in BOOLEAN
    /\ status \in {"IDLE", "AEC", "ASR"} /\ next \in {"NULL", "AEC", "ASR"}
    /\ info \in BOOLEAN /\ from \in {"AEC", "ASR", "CONTENT"}
    /\ state \in {"IDLE", "START", "SPEAK_END", "SUCCESS", "FAIL", "BREAK"}
    /\ stopAsr \in BOOLEAN /\ breakAsr \in BOOLEAN /\ stopAec \in BOOLEAN
    /\ asrStopped \in BOOLEAN /\ asrMic \in BOOLEAN
    /\ pc \in Places /\ via \in {"AEC", "ASR"} /\ cnt \in 0 .. MaxWait + 1
    /\ res \in {"NULL", "AEC", "ASR"}
    /\ isText \in BOOLEAN /\ answered \in BOOLEAN
    /\ speech \in {"idle", "listening", "asked", "understood"} /\ text \in BOOLEAN
    /\ dds \in {"idle", "telling"}
    /\ ctl \in {"off", "ready", "started", "query", "querying", "on", "stop_aec",
               "stop_asr", "uninit", "joining"}
    /\ brk \in [Breakers -> {"idle", "asking", "idling", "telling", "waiting"}]

(* mozart_play_pause, called by the reply on the logic thread, waits for    *)
(* asr_stopped, which only the logic thread sets: whatever answers, keys    *)
(* and restarts came before, the flag is then already set.                  *)
NoSelfWait == "open" \notin Fails => (pc = "stopping" => asrStopped)

(* Outside a recording the microphone of asr.c is closed, unless a break    *)
(* ended the last recording: asr_run then leaves it open.                   *)
MicHeld == asrMic /\ pc \notin Recording => breakAsr

(* A session always ends: the user stops speaking or is interrupted, and    *)
(* the wait for the service is bounded.                                     *)
SessionEnds == LET Session == Recording \cup {"wait"} IN pc \in Session ~> pc \notin Session

(* ray_vr_asr_break always returns to the key or the phone.                 *)
BreakReturns == \A b \in Breakers : brk[b] = "waiting" ~> brk[b] = "idle"

-----------------------------------------------------------------------------
(* What comments of the code say, and the code does not do.                 *)

(* ray_vr_start (vr.c:212): "start aec deault", the first thing the logic   *)
(* does; it must not read the callback's pointer before there is one.       *)
StartsWithAec == pc # "crashed"

(* ray_vr_asr_break (asr.c:217): "waiting for asr stopped"; when it returns *)
(* no recording is starting or running.                                     *)
BreakStopsAsr ==
    [][\A b \in Breakers : BreakReturn(b) => pc \notin Recording]_vars

(* vr_logic_func (vr.c:88): "get result timeout or break ... goto AEC"; a   *)
(* wait that ended with neither success nor failure is not replied to.      *)
TimeoutGoesToAec == [][pc = "heard" /\ state \notin {"SUCCESS", "FAIL"} => pc' # "reply"]_vars

(* vr_logic_func (vr.c:77): "asr callback #2 is asr result, then asr.state  *)
(* will become to ASR_SUCCESS": the answer to a speech says so.             *)
AnswerIsSuccess == [][speech = "understood" /\ Respond /\ ~text' /\ ~text => state' = "SUCCESS" /\ from' = "ASR"]_vars

(* process_vr_callback (ray_module_vr.c:365): "return-ed result will be     *)
(* ignored" for a content answer: once started the logic has a next state.  *)
ContentResultIgnored == ctl \in {"query", "querying", "on"} => next # "NULL"

(* ray_vr_uninit (vr.c:243): "wait vr machine logic pthread stop".          *)
StopEnds == ctl = "joining" ~> ctl = "off"
=============================================================================
