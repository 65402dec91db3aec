-------------------------- MODULE VoiceLogicProofs --------------------------
(***************************************************************************)
(* Theorems about VoiceLogic for any set of interrupting threads, any use  *)
(* of the key, the text query and restarts, and any timeout.               *)
(*                                                                         *)
(* NoSelfWait says that the reply, which waits for asr_stopped on the very *)
(* thread that sets it, finds it set.  The flag is false only before the   *)
(* first recording and during one.  NeverAsked is what the program looks   *)
(* like before the first recording: nothing in it can make a reply look    *)
(* like an answer to speech, because the service owes no speech, nobody    *)
(* has seen VR_ASR, and whatever text it owes is known to be text.         *)
(***************************************************************************)
EXTENDS VoiceLogic, TLAPS

NeverAsked ==
    /\ pc \notin {"speak", "idling", "telling", "stopping"}
    /\ status # "ASR" /\ from # "ASR"
    /\ speech = "idle"
    /\ text => isText
    /\ \A b \in Breakers : brk[b] \notin {"asking", "idling", "telling"}

\* Where asr_stopped may be false.
Stopped == "open" \notin Fails =>
               (~asrStopped => pc \in Recording \/ NeverAsked)

\* There is a logic thread exactly when startall has made one.
Threaded == ctl = "off" => pc = "none"

\* A thread that polls has polls left: the last one leaves the loop.
Counted == pc = "wait" => cnt <= MaxWait

IInv == TypeOK /\ Threaded /\ Counted /\ Stopped /\ MicHeld

-----------------------------------------------------------------------------
(* TypeOK, one group of variables at a time: a goal about all of them is    *)
(* too large for the provers.                                               *)
VrType == /\ init \in BOOLEAN /\ working \in BOOLEAN
          /\ status \in {"IDLE", "AEC", "ASR"} /\ next \in {"NULL", "AEC", "ASR"}

InfoType == /\ info \in BOOLEAN /\ from \in {"AEC", "ASR", "CONTENT"}
            /\ state \in {"IDLE", "START", "SPEAK_END", "SUCCESS", "FAIL", "BREAK"}

FlagType == /\ stopAsr \in BOOLEAN /\ breakAsr \in BOOLEAN /\ stopAec \in BOOLEAN
            /\ asrStopped \in BOOLEAN /\ asrMic \in BOOLEAN

LogicType == /\ pc \in Places /\ via \in {"AEC", "ASR"}
             /\ cnt \in 0 .. MaxWait + 1
             /\ res \in {"NULL", "AEC", "ASR"}

ServiceType == /\ isText \in BOOLEAN /\ answered \in BOOLEAN
               /\ speech \in {"idle", "listening", "asked", "understood"}
               /\ text \in BOOLEAN /\ dds \in {"idle", "telling"}

CallerType ==
    /\ ctl \in {"off", "ready", "started", "query", "querying", "on", "stop_aec",
               "stop_asr", "uninit", "joining"}
    /\ brk \in [Breakers -> {"idle", "asking", "idling", "telling", "waiting"}]

LEMMA TypeGroups == TypeOK <=> /\ VrType /\ InfoType /\ FlagType /\ LogicType
                              /\ ServiceType /\ CallerType
  BY DEF TypeOK, VrType, InfoType, FlagType, LogicType, ServiceType, CallerType

-----------------------------------------------------------------------------
(* The state the program starts in, before startall.                        *)
LEMMA Start == ASSUME Init PROVE IInv
<1> USE ConstantAssumption DEF Init
<1>1. TypeOK
  <2>1. brk \in [Breakers -> {"idle", "asking", "idling", "telling", "waiting"}]
    OBVIOUS
  <2>2. /\ init \in BOOLEAN /\ working \in BOOLEAN
        /\ status \in {"IDLE", "AEC", "ASR"} /\ next \in {"NULL", "AEC", "ASR"}
    OBVIOUS
  <2>3. /\ pc \in Places /\ via \in {"AEC", "ASR"} /\ cnt \in 0 .. MaxWait + 1
        /\ res \in {"NULL", "AEC", "ASR"}
    BY DEF Places, Recording
  <2>4. /\ info \in BOOLEAN /\ from \in {"AEC", "ASR", "CONTENT"}
        /\ state \in {"IDLE", "START", "SPEAK_END", "SUCCESS", "FAIL", "BREAK"}
        /\ stopAsr \in BOOLEAN /\ breakAsr \in BOOLEAN /\ stopAec \in BOOLEAN
    OBVIOUS
  <2>5. /\ asrStopped \in BOOLEAN /\ asrMic \in BOOLEAN
        /\ isText \in BOOLEAN /\ answered \in BOOLEAN
    OBVIOUS
  <2>6. /\ speech \in {"idle", "listening", "asked", "understood"} /\ text \in BOOLEAN
        /\ dds \in {"idle", "telling"}
        /\ ctl \in {"off", "ready", "started", "query", "querying", "on", "stop_aec",
                   "stop_asr", "uninit", "joining"}
    OBVIOUS
  <2> QED
    BY <2>1, <2>2, <2>3, <2>4, <2>5, <2>6 DEF TypeOK
<1>2. Threaded /\ Counted /\ Stopped /\ MicHeld
  BY DEF Threaded, Counted, Stopped, NeverAsked, MicHeld, Recording
<1> QED
  BY <1>1, <1>2 DEF IInv

(* The steps of the logic thread.                                           *)
LEMMA LogicStep == ASSUME IInv, Logic PROVE IInv'
<1> USE ConstantAssumption DEF IInv, TypeOK, VrType, InfoType, FlagType, LogicType,
       ServiceType, CallerType, Places, Recording, Threaded, Counted, Stopped, NeverAsked, MicHeld,
       vrVars, infoVars, flagVars, micVars, logicVars, ddsVars, Goto, Return
<1>1. CASE Outer    BY <1>1 DEF Outer
<1>2. CASE Top      BY <1>2 DEF Top
<1>3. CASE AecStart
  <2>1. TypeOK'
    <3>1. VrType'
      BY <1>3 DEF AecStart
    <3>2. InfoType'
      BY <1>3 DEF AecStart
    <3>3. FlagType'
      BY <1>3 DEF AecStart
    <3>4. LogicType'
      BY <1>3 DEF AecStart
    <3>5. ServiceType'
      BY <1>3 DEF AecStart
    <3>6. CallerType'
      BY <1>3 DEF AecStart
    <3> QED
      BY <3>1, <3>2, <3>3, <3>4, <3>5, <3>6
  <2>2. Threaded'
    BY <1>3 DEF AecStart
  <2>3. Stopped'
    BY <1>3 DEF AecStart
  <2>4. MicHeld'
    BY <1>3 DEF AecStart
  <2>5. Counted'
    BY <1>3 DEF AecStart
  <2> QED
    BY <2>1, <2>2, <2>3, <2>4, <2>5
<1>4. CASE AecEnd   BY <1>4 DEF AecEnd
<1>5. CASE AsrStart
  <2>1. TypeOK'
    <3>1. VrType'
      BY <1>5 DEF AsrStart
    <3>2. InfoType'
      BY <1>5 DEF AsrStart
    <3>3. FlagType'
      BY <1>5 DEF AsrStart
    <3>4. LogicType'
      BY <1>5 DEF AsrStart
    <3>5. ServiceType'
      BY <1>5 DEF AsrStart
    <3>6. CallerType'
      BY <1>5 DEF AsrStart
    <3> QED
      BY <3>1, <3>2, <3>3, <3>4, <3>5, <3>6
  <2>2. Threaded'
    BY <1>5 DEF AsrStart
  <2>3. Stopped'
    BY <1>5 DEF AsrStart
  <2>4. MicHeld'
    BY <1>5 DEF AsrStart
  <2>5. Counted'
    BY <1>5 DEF AsrStart
  <2> QED
    BY <2>1, <2>2, <2>3, <2>4, <2>5
<1>6. CASE AsrEnd   BY <1>6 DEF AsrEnd
<1>7. CASE Check    BY <1>7 DEF Check
<1>8. CASE Wait
  <2>1. TypeOK'
    <3>1. VrType'
      BY <1>8 DEF Wait
    <3>2. InfoType'
      BY <1>8 DEF Wait
    <3>3. FlagType'
      BY <1>8 DEF Wait
    <3>4. LogicType'
      BY <1>8 DEF Wait
    <3>5. ServiceType'
      BY <1>8 DEF Wait
    <3>6. CallerType'
      BY <1>8 DEF Wait
    <3> QED
      BY <3>1, <3>2, <3>3, <3>4, <3>5, <3>6
  <2>2. Threaded'
    BY <1>8 DEF Wait
  <2>3. Stopped'
    BY <1>8 DEF Wait
  <2>4. MicHeld'
    BY <1>8 DEF Wait
  <2>5. Counted'
    BY <1>8 DEF Wait
  <2> QED
    BY <2>1, <2>2, <2>3, <2>4, <2>5
<1>9. CASE Heard    BY <1>9 DEF Heard
<1>10. CASE Reply   BY <1>10 DEF Reply
<1>11. CASE SpeakOn BY <1>11 DEF SpeakOn
<1>12. CASE SpeakQuit BY <1>12 DEF SpeakQuit, CanBreak, Inform, Callback
<1>13. CASE Stopping BY <1>13 DEF Stopping
<1>14. CASE Decide  BY <1>14 DEF Decide
<1>15. CASE AsrRequest
  <2>1. TypeOK'
    <3>1. VrType'
      BY <1>15 DEF AsrRequest
    <3>2. InfoType'
      BY <1>15 DEF AsrRequest
    <3>3. FlagType'
      BY <1>15 DEF AsrRequest
    <3>4. LogicType'
      BY <1>15 DEF AsrRequest
    <3>5. ServiceType'
      BY <1>15 DEF AsrRequest
    <3>6. CallerType'
      BY <1>15 DEF AsrRequest
    <3> QED
      BY <3>1, <3>2, <3>3, <3>4, <3>5, <3>6
  <2>2. Threaded'
    BY <1>15 DEF AsrRequest
  <2>3. Stopped'
    BY <1>15 DEF AsrRequest
  <2>4. MicHeld'
    BY <1>15 DEF AsrRequest
  <2>5. Counted'
    BY <1>15 DEF AsrRequest
  <2> QED
    BY <2>1, <2>2, <2>3, <2>4, <2>5
<1>16. CASE AsrOpen
  <2>1. TypeOK'
    <3>1. VrType'
      BY <1>16 DEF AsrOpen
    <3>2. InfoType'
      BY <1>16 DEF AsrOpen
    <3>3. FlagType'
      BY <1>16 DEF AsrOpen
    <3>4. LogicType'
      BY <1>16 DEF AsrOpen
    <3>5. ServiceType'
      BY <1>16 DEF AsrOpen
    <3>6. CallerType'
      BY <1>16 DEF AsrOpen
    <3> QED
      BY <3>1, <3>2, <3>3, <3>4, <3>5, <3>6
  <2>2. Threaded'
    BY <1>16 DEF AsrOpen
  <2>3. Stopped'
    BY <1>16 DEF AsrOpen
  <2>4. MicHeld'
    BY <1>16 DEF AsrOpen
  <2>5. Counted'
    BY <1>16 DEF AsrOpen
  <2> QED
    BY <2>1, <2>2, <2>3, <2>4, <2>5
<1>17. CASE QuitIdle BY <1>17 DEF QuitIdle
<1>18. CASE QuitTell
  <2>1. TypeOK'
    <3>1. VrType'
      BY <1>18 DEF QuitTell, Inform, Callback
    <3>2. InfoType'
      BY <1>18 DEF QuitTell, Inform, Callback
    <3>3. FlagType'
      BY <1>18 DEF QuitTell, Inform, Callback
    <3>4. LogicType'
      BY <1>18 DEF QuitTell, Inform, Callback
    <3>5. ServiceType'
      BY <1>18 DEF QuitTell, Inform, Callback
    <3>6. CallerType'
      BY <1>18 DEF QuitTell, Inform, Callback
    <3> QED
      BY <3>1, <3>2, <3>3, <3>4, <3>5, <3>6
  <2>2. Threaded'
    BY <1>18 DEF QuitTell, Inform, Callback
  <2>3. Stopped'
    BY <1>18 DEF QuitTell, Inform, Callback
  <2>4. MicHeld'
    BY <1>18 DEF QuitTell, Inform, Callback
  <2>5. Counted'
    BY <1>18 DEF QuitTell, Inform, Callback
  <2> QED
    BY <2>1, <2>2, <2>3, <2>4, <2>5
<1> QED
  BY <1>1, <1>2, <1>3, <1>4, <1>5, <1>6, <1>7, <1>8, <1>9, <1>10, <1>11, <1>12, <1>13,
     <1>14, <1>15, <1>16, <1>17, <1>18 DEF Logic

(* The steps of the recognisers, the keys and the phone.                    *)
LEMMA CallerStep ==
    ASSUME IInv,
           Wakeup \/ VadEnd \/ KeyWakeup
           \/ (\E b \in Breakers : Ask(b) \/ Break(b) \/ BreakIdle(b) \/ BreakTell(b)
                                  \/ BreakReturn(b))
    PROVE  IInv'
<1> USE ConstantAssumption DEF IInv, TypeOK, VrType, InfoType, FlagType, LogicType,
       ServiceType, CallerType, Places, Recording, Threaded, Counted, Stopped, NeverAsked, MicHeld,
       vrVars, infoVars, flagVars, micVars, logicVars, ddsVars, Inform, Callback, Woken
<1>1. CASE Wakeup    BY <1>1 DEF Wakeup
<1>2. CASE VadEnd    BY <1>2 DEF VadEnd
<1>3. CASE KeyWakeup
  <2>1. TypeOK'
    <3>1. VrType'
      BY <1>3 DEF KeyWakeup
    <3>2. InfoType'
      BY <1>3 DEF KeyWakeup
    <3>3. FlagType'
      BY <1>3 DEF KeyWakeup
    <3>4. LogicType'
      BY <1>3 DEF KeyWakeup
    <3>5. ServiceType'
      BY <1>3 DEF KeyWakeup
    <3>6. CallerType'
      BY <1>3 DEF KeyWakeup
    <3> QED
      BY <3>1, <3>2, <3>3, <3>4, <3>5, <3>6
  <2>2. Threaded'
    BY <1>3 DEF KeyWakeup
  <2>3. Stopped'
    BY <1>3 DEF KeyWakeup
  <2>4. MicHeld'
    BY <1>3 DEF KeyWakeup
  <2>5. Counted'
    BY <1>3 DEF KeyWakeup
  <2> QED
    BY <2>1, <2>2, <2>3, <2>4, <2>5
<1>4. ASSUME NEW b \in Breakers, Ask(b) PROVE IInv'
  BY <1>4 DEF Ask
<1>5. ASSUME NEW b \in Breakers, Break(b) PROVE IInv'
  BY <1>5 DEF Break
<1>6. ASSUME NEW b \in Breakers, BreakReturn(b) PROVE IInv'
  BY <1>6 DEF BreakReturn
<1>7. ASSUME NEW b \in Breakers, BreakIdle(b) PROVE IInv'
  <2>1. TypeOK'
    <3>1. VrType'
      BY <1>7 DEF BreakIdle
    <3>2. InfoType'
      BY <1>7 DEF BreakIdle
    <3>3. FlagType'
      BY <1>7 DEF BreakIdle
    <3>4. LogicType'
      BY <1>7 DEF BreakIdle
    <3>5. ServiceType'
      BY <1>7 DEF BreakIdle
    <3>6. CallerType'
      BY <1>7 DEF BreakIdle
    <3> QED
      BY <3>1, <3>2, <3>3, <3>4, <3>5, <3>6
  <2>2. Threaded'
    BY <1>7 DEF BreakIdle
  <2>3. Stopped'
    BY <1>7 DEF BreakIdle
  <2>4. MicHeld'
    BY <1>7 DEF BreakIdle
  <2>5. Counted'
    BY <1>7 DEF BreakIdle
  <2> QED
    BY <2>1, <2>2, <2>3, <2>4, <2>5
<1>8. ASSUME NEW b \in Breakers, BreakTell(b) PROVE IInv'
  <2>1. TypeOK'
    <3>1. VrType'
      BY <1>8 DEF BreakTell
    <3>2. InfoType'
      BY <1>8 DEF BreakTell
    <3>3. FlagType'
      BY <1>8 DEF BreakTell
    <3>4. LogicType'
      BY <1>8 DEF BreakTell
    <3>5. ServiceType'
      BY <1>8 DEF BreakTell
    <3>6. CallerType'
      BY <1>8 DEF BreakTell
    <3> QED
      BY <3>1, <3>2, <3>3, <3>4, <3>5, <3>6
  <2>2. Threaded'
    BY <1>8 DEF BreakTell
  <2>3. Stopped'
    BY <1>8 DEF BreakTell
  <2>4. MicHeld'
    BY <1>8 DEF BreakTell
  <2>5. Counted'
    BY <1>8 DEF BreakTell
  <2> QED
    BY <2>1, <2>2, <2>3, <2>4, <2>5
<1> QED
  BY <1>1, <1>2, <1>3, <1>4, <1>5, <1>6, <1>7, <1>8

(* The steps of the service, startall and stopall.                          *)
LEMMA ServiceStep ==
    ASSUME IInv,
           Understanding \/ Respond \/ Tell \/ ServiceError \/ Control \/ VrStop
    PROVE  IInv'
<1> USE ConstantAssumption DEF IInv, TypeOK, VrType, InfoType, FlagType, LogicType,
       ServiceType, CallerType, Places, Recording, Threaded, Counted, Stopped, NeverAsked, MicHeld,
       vrVars, infoVars, flagVars, micVars, logicVars, ddsVars, Inform, Callback,
       ContentSuccess, ContentFail
<1>1. CASE Understanding
  <2>1. TypeOK'
    <3>1. VrType'
      BY <1>1 DEF Understanding
    <3>2. InfoType'
      BY <1>1 DEF Understanding
    <3>3. FlagType'
      BY <1>1 DEF Understanding
    <3>4. LogicType'
      BY <1>1 DEF Understanding
    <3>5. ServiceType'
      BY <1>1 DEF Understanding
    <3>6. CallerType'
      BY <1>1 DEF Understanding
    <3> QED
      BY <3>1, <3>2, <3>3, <3>4, <3>5, <3>6
  <2>2. Threaded'
    BY <1>1 DEF Understanding
  <2>3. Stopped'
    BY <1>1 DEF Understanding
  <2>4. MicHeld'
    BY <1>1 DEF Understanding
  <2>5. Counted'
    BY <1>1 DEF Understanding
  <2> QED
    BY <2>1, <2>2, <2>3, <2>4, <2>5
<1>2. CASE Respond
  <2>1. TypeOK'
    <3>1. VrType'
      BY <1>2 DEF Respond
    <3>2. InfoType'
      BY <1>2 DEF Respond
    <3>3. FlagType'
      BY <1>2 DEF Respond
    <3>4. LogicType'
      BY <1>2 DEF Respond
    <3>5. ServiceType'
      BY <1>2 DEF Respond
    <3>6. CallerType'
      BY <1>2 DEF Respond
    <3> QED
      BY <3>1, <3>2, <3>3, <3>4, <3>5, <3>6
  <2>2. Threaded'
    BY <1>2 DEF Respond
  <2>3. Stopped'
    BY <1>2 DEF Respond
  <2>4. MicHeld'
    BY <1>2 DEF Respond
  <2>5. Counted'
    BY <1>2 DEF Respond
  <2> QED
    BY <2>1, <2>2, <2>3, <2>4, <2>5
<1>3. CASE Tell          BY <1>3 DEF Tell
<1>4. CASE ServiceError
  <2>1. TypeOK'
    <3>1. VrType'
      BY <1>4 DEF ServiceError
    <3>2. InfoType'
      BY <1>4 DEF ServiceError
    <3>3. FlagType'
      BY <1>4 DEF ServiceError
    <3>4. LogicType'
      BY <1>4 DEF ServiceError
    <3>5. ServiceType'
      BY <1>4 DEF ServiceError
    <3>6. CallerType'
      BY <1>4 DEF ServiceError
    <3> QED
      BY <3>1, <3>2, <3>3, <3>4, <3>5, <3>6
  <2>2. Threaded'
    BY <1>4 DEF ServiceError
  <2>3. Stopped'
    BY <1>4 DEF ServiceError
  <2>4. MicHeld'
    BY <1>4 DEF ServiceError
  <2>5. Counted'
    BY <1>4 DEF ServiceError
  <2> QED
    BY <2>1, <2>2, <2>3, <2>4, <2>5
<1>5. CASE VrInit        BY <1>5 DEF VrInit
<1>6. CASE VrStart       BY <1>6 DEF VrStart
<1>7. CASE VrStartNext   BY <1>7 DEF VrStartNext
<1>8. CASE Query         BY <1>8 DEF Query
<1>9. CASE QueryAnswered
  <2>1. TypeOK'
    <3>1. VrType'
      BY <1>9 DEF QueryAnswered
    <3>2. InfoType'
      BY <1>9 DEF QueryAnswered
    <3>3. FlagType'
      BY <1>9 DEF QueryAnswered
    <3>4. LogicType'
      BY <1>9 DEF QueryAnswered
    <3>5. ServiceType'
      BY <1>9 DEF QueryAnswered
    <3>6. CallerType'
      BY <1>9 DEF QueryAnswered
    <3> QED
      BY <3>1, <3>2, <3>3, <3>4, <3>5, <3>6
  <2>2. Threaded'
    BY <1>9 DEF QueryAnswered
  <2>3. Stopped'
    BY <1>9 DEF QueryAnswered
  <2>4. MicHeld'
    BY <1>9 DEF QueryAnswered
  <2>5. Counted'
    BY <1>9 DEF QueryAnswered
  <2> QED
    BY <2>1, <2>2, <2>3, <2>4, <2>5
<1>10. CASE QueryTimeout BY <1>10 DEF QueryTimeout
<1>11. CASE VrStop
  <2>1. TypeOK'
    <3>1. VrType'
      BY <1>11 DEF VrStop
    <3>2. InfoType'
      BY <1>11 DEF VrStop
    <3>3. FlagType'
      BY <1>11 DEF VrStop
    <3>4. LogicType'
      BY <1>11 DEF VrStop
    <3>5. ServiceType'
      BY <1>11 DEF VrStop
    <3>6. CallerType'
      BY <1>11 DEF VrStop
    <3> QED
      BY <3>1, <3>2, <3>3, <3>4, <3>5, <3>6
  <2>2. Threaded'
    BY <1>11 DEF VrStop
  <2>3. Stopped'
    BY <1>11 DEF VrStop
  <2>4. MicHeld'
    BY <1>11 DEF VrStop
  <2>5. Counted'
    BY <1>11 DEF VrStop
  <2> QED
    BY <2>1, <2>2, <2>3, <2>4, <2>5
<1>12. CASE VrStopped
  <2>1. TypeOK'
    <3>1. VrType'
      BY <1>12 DEF VrStopped
    <3>2. InfoType'
      BY <1>12 DEF VrStopped
    <3>3. FlagType'
      BY <1>12 DEF VrStopped
    <3>4. LogicType'
      BY <1>12 DEF VrStopped
    <3>5. ServiceType'
      BY <1>12 DEF VrStopped
    <3>6. CallerType'
      BY <1>12 DEF VrStopped
    <3> QED
      BY <3>1, <3>2, <3>3, <3>4, <3>5, <3>6
  <2>2. Threaded'
    BY <1>12 DEF VrStopped
  <2>3. Stopped'
    BY <1>12 DEF VrStopped
  <2>4. MicHeld'
    BY <1>12 DEF VrStopped
  <2>5. Counted'
    BY <1>12 DEF VrStopped
  <2> QED
    BY <2>1, <2>2, <2>3, <2>4, <2>5
<1>13. CASE VrStopping
  <2>1. TypeOK'
    <3>1. VrType'
      BY <1>13 DEF VrStopping
    <3>2. InfoType'
      BY <1>13 DEF VrStopping
    <3>3. FlagType'
      BY <1>13 DEF VrStopping
    <3>4. LogicType'
      BY <1>13 DEF VrStopping
    <3>5. ServiceType'
      BY <1>13 DEF VrStopping
    <3>6. CallerType'
      BY <1>13 DEF VrStopping
    <3> QED
      BY <3>1, <3>2, <3>3, <3>4, <3>5, <3>6
  <2>2. Threaded'
    BY <1>13 DEF VrStopping
  <2>3. Stopped'
    BY <1>13 DEF VrStopping
  <2>4. MicHeld'
    BY <1>13 DEF VrStopping
  <2>5. Counted'
    BY <1>13 DEF VrStopping
  <2> QED
    BY <2>1, <2>2, <2>3, <2>4, <2>5
<1> QED
  BY <1>1, <1>2, <1>3, <1>4, <1>5, <1>6, <1>7, <1>8, <1>9, <1>10, <1>11, <1>12, <1>13
  DEF Control

(* A step in which nothing changes.                                         *)
LEMMA Stutter == ASSUME IInv, UNCHANGED vars PROVE IInv'
  BY DEF IInv, TypeOK, Places, Recording, Threaded, Counted, Stopped, NeverAsked, MicHeld, vars,
         vrVars, infoVars, flagVars, micVars, logicVars, ddsVars

-----------------------------------------------------------------------------
(* The invariant holds in every reachable state, whatever the threads, the  *)
(* service, the keys and the user do.                                       *)
THEOREM Inductive == Spec => []IInv
<1>1. IInv /\ [Next]_vars => IInv'
  BY LogicStep, CallerStep, ServiceStep, Stutter DEF Next
<1> QED
  BY Start, <1>1, PTL DEF Spec

(* Every variable keeps its type; the poll counter stops one above its      *)
(* limit (cnt++ < CNT1000).                                                 *)
THEOREM TypeCorrect == Spec => []TypeOK
<1>1. IInv => TypeOK
  BY DEF IInv
<1> QED
  BY Inductive, <1>1, PTL

(* As long as the microphone opens, the reply never waits on its own thread *)
(* for a recording to stop (mozart_play_pause in process_vr_asr_callback).  *)
THEOREM NoSelfWaiting == Spec => []NoSelfWait
<1>1. IInv => NoSelfWait
  BY DEF IInv, Stopped, NeverAsked, Recording, NoSelfWait
<1> QED
  BY Inductive, <1>1, PTL

(* Outside a recording in_asr_pcm is open only after a break.               *)
THEOREM MicrophoneHeld == Spec => []MicHeld
<1>1. IInv => MicHeld
  BY DEF IInv
<1> QED
  BY Inductive, <1>1, PTL
=============================================================================
