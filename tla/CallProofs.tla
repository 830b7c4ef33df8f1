----------------------------- MODULE CallProofs -----------------------------
(***************************************************************************)
(* The safety of a call, for every configuration, every bound and both     *)
(* dispositions of SIGCHLD: the invariants of module Call that the runs    *)
(* check on small bounds, and the step simulation of module PppSession.    *)
(*                                                                         *)
(* None of those invariants is inductive.  What they lean on is the order  *)
(* in which process_audio visits its parts (LoopOrder), what BinModem has  *)
(* queued when data mode begins (BmOrder), that V.8 has a result only if   *)
(* it was created (V8Order), that the audio sent in place of a UUID is too *)
(* early to bring the link up (GreetingOrder), and that the pid is known   *)
(* as long as pppd lives (PppOrder).                                       *)
(***************************************************************************)
EXTENDS Call, TLAPS

\* A call already told to hang up is never given another message, so the
\* counters have room for the step that is due.
LoopOrder ==
    /\ pc \in {"uuid", "audio", "engine"} => phase # "HANGUP"
    /\ Live => timeouts < MaxTimeouts
    /\ bm_nocarrier = NoCarrierFrames => phase = "HANGUP"
    /\ phase = "ANSWER_TONE" => tone > 0
    /\ pc = "engine" => bm = "null"

\* Between bm_poll and bm_step data mode means "connected"; what is queued
\* when data mode goes on is payload.
BmOrder ==
    /\ bm \in {"running", "agreed"} => phase # "DATA"
    /\ bm = "connected" /\ phase = "DATA" => "noise" \notin bmRx
    /\ pc = "bmstep" /\ phase = "DATA" => bm = "connected"
    /\ Live /\ bm = "null" => bm_nocarrier = 0

V8Order ==
    /\ Live /\ v8_done => v8
    /\ phase \in {"V8", "ANSWER_TONE"} => rx_guard = 0

\* Until the UUID loop is left, nothing has trained.
GreetingOrder ==
    /\ Live /\ ~greeted =>
         /\ pc \in {"uuid", "audio", "bmstep", "engine", "v8switch", "detect"}
         /\ phase # "DATA" /\ training.tx # "normal"
         /\ pc # "detect" => mode = "V22"
         /\ pc \in {"uuid", "audio"} => bm \in {"null", "running"}
         /\ pc \in {"uuid", "audio", "engine"} => training.tx = "opening"
    /\ pc = "uuid" => ~greeted /\ pppd = "none"

PppOrder ==
    /\ pppd = "none" <=> ~ppp_started
    /\ pppd = "alive" /\ pc # "done" => pppd_pid
    /\ pc = "kill" => pppd # "none"
    /\ pc \in {"kill", "done"} /\ (greeted \/ pc = "kill") =>
         bm = "null" /\ ~v8 /\ ~v34 /\ ~ppp_fd
    /\ pc = "reap" /\ phase = "DATA" /\ cfg.enable_ppp /\ ~cfg.echo_data => ppp_started

IInv ==
    /\ TypeOK
    /\ EngineOwnsLine /\ DataModeBytesOnly /\ NoCarrierClock
    /\ DataModeHasPppd /\ CleanExit
    /\ LoopOrder /\ BmOrder /\ V8Order /\ GreetingOrder /\ PppOrder
-----------------------------------------------------------------------------

\* A call begins.
LEMMA InitIInv == Init => IInv
<1> SUFFICES ASSUME Init PROVE IInv
  OBVIOUS
<1> USE CallAssumption DEF Init
<1>1. LoopTypes
  <2>1. phase \in {"ANSWER_TONE", "V8", "HANDSHAKE"}
    BY DEF InitEngine
  <2>2. greeted \in BOOLEAN
    OBVIOUS
  <2>3. timeouts \in 0..MaxTimeouts
    OBVIOUS
  <2> QED BY <2>1, <2>2, <2>3 DEF LoopTypes
<1>2. EngineTypes
  <2>1. bm \in {"running", "null"}
    BY DEF InitEngine
  <2>2. v8 \in BOOLEAN /\ v8_done \in BOOLEAN /\ v34 \in BOOLEAN
    BY Zenon DEF InitEngine
  <2>3. tone \in 0..ToneFrames
    BY DEF InitEngine
  <2>4. v8_ok \in 0..2 /\ rx_guard \in 0..GuardFrames /\ bm_nocarrier \in 0..NoCarrierFrames
    OBVIOUS
  <2>5. training \in Training
    BY DEF Training
  <2> QED BY <2>1, <2>2, <2>3, <2>4, <2>5 DEF EngineTypes, BmStatus
<1>3. PppTypes
  BY DEF PppTypes, Sources
<1>4. EngineOwnsLine /\ DataModeBytesOnly /\ NoCarrierClock
  BY DEF EngineOwnsLine, DataModeBytesOnly, NoCarrierClock, Live, InitEngine, Config
<1>5. DataModeHasPppd /\ CleanExit
  BY DEF DataModeHasPppd, CleanExit
<1>6. LoopOrder /\ BmOrder
  BY DEF LoopOrder, BmOrder, Live, InitEngine
<1>7. V8Order /\ GreetingOrder /\ PppOrder
  BY DEF V8Order, GreetingOrder, PppOrder, Live, InitEngine
<1> QED BY <1>1, <1>2, <1>3, <1>4, <1>5, <1>6, <1>7 DEF IInv, TypeOK

\* Reading a message: the counters have room, a message is taken only before
\* the hang-up.
LEMMA ReadStepKeeps == ASSUME IInv, ReadStep PROVE IInv'
<1> USE CallAssumption DEF IInv, TypeOK, Goto, engineVars, pppVars, lineVars
<1>1. CASE GreetingFails
  BY <1>1
  DEF GreetingFails,
      LoopTypes, EngineTypes, PppTypes, Training, BmStatus, Sources, Live,
      EngineOwnsLine, DataModeBytesOnly, NoCarrierClock, DataModeHasPppd, CleanExit,
      LoopOrder, BmOrder, V8Order, GreetingOrder, PppOrder
<1>2. CASE GreetingMessage
  <2> USE <1>2 DEF GreetingMessage
  <2>1. LoopTypes'
    BY DEF LoopTypes, LoopOrder, Live
  <2>2. PppTypes'
    BY DEF PppTypes, EngineTypes, Sources
  <2>3. EngineTypes'
    BY DEF EngineTypes, LoopOrder, BmOrder, Live, Training, BmStatus, Sources
  <2>4. (EngineOwnsLine /\ V8Order)'
    BY DEF EngineOwnsLine, V8Order, LoopOrder, Live
  <2>5. (DataModeBytesOnly /\ BmOrder)'
    BY DEF DataModeBytesOnly, BmOrder, NoCarrierClock, LoopOrder,
           EngineOwnsLine, BmStatus, Live, LoopTypes, EngineTypes
  <2>6. (NoCarrierClock /\ LoopOrder)'
    BY DEF NoCarrierClock, LoopOrder, BmOrder, EngineOwnsLine, Live, LoopTypes, EngineTypes
  <2>7. (DataModeHasPppd /\ GreetingOrder)'
    BY DEF DataModeHasPppd, GreetingOrder, PppOrder, BmOrder,
           EngineOwnsLine, LoopOrder, Live, Training, LoopTypes, EngineTypes
  <2>8. (CleanExit /\ PppOrder)'
    BY DEF CleanExit, PppOrder, GreetingOrder, Live, LoopTypes, PppTypes
  <2> QED BY <2>1, <2>2, <2>3, <2>4, <2>5, <2>6, <2>7, <2>8
<1>3. CASE ReadTimesOut
  BY <1>3
  DEF ReadTimesOut, InLoop,
      LoopTypes, EngineTypes, PppTypes, Training, BmStatus, Sources, Live,
      EngineOwnsLine, DataModeBytesOnly, NoCarrierClock, DataModeHasPppd, CleanExit,
      LoopOrder, BmOrder, V8Order, GreetingOrder, PppOrder
<1>4. CASE ReadMessage
  BY <1>4
  DEF ReadMessage, InLoop,
      LoopTypes, EngineTypes, PppTypes, Training, BmStatus, Sources, Live,
      EngineOwnsLine, DataModeBytesOnly, NoCarrierClock, DataModeHasPppd, CleanExit,
      LoopOrder, BmOrder, V8Order, GreetingOrder, PppOrder
<1>5. CASE LoopEnds
  BY <1>5
  DEF LoopEnds,
      LoopTypes, EngineTypes, PppTypes, Training, BmStatus, Sources, Live,
      EngineOwnsLine, DataModeBytesOnly, NoCarrierClock, DataModeHasPppd, CleanExit,
      LoopOrder, BmOrder, V8Order, GreetingOrder, PppOrder
<1> QED BY <1>1, <1>2, <1>3, <1>4, <1>5 DEF ReadStep

\* bm_poll: data mode is entered with everything older thrown away, and left
\* with the carrier count cleared.
LEMMA BmPollKeeps == ASSUME IInv, BmPoll PROVE IInv'
<1> USE CallAssumption DEF IInv, TypeOK, Goto, engineVars, pppVars, lineVars
<1>1. CASE NoBm
  BY <1>1
  DEF NoBm,
      LoopTypes, EngineTypes, PppTypes, Training, BmStatus, Sources, Live,
      EngineOwnsLine, DataModeBytesOnly, NoCarrierClock, DataModeHasPppd, CleanExit,
      LoopOrder, BmOrder, V8Order, GreetingOrder, PppOrder
<1>2. CASE BmPollHandsBack
  <2> USE <1>2 DEF BmPollHandsBack
  <2>1. LoopTypes'
    BY DEF LoopTypes, LoopOrder, Live
  <2>2. PppTypes'
    BY DEF PppTypes, EngineTypes, Sources
  <2>3. EngineTypes'
    BY DEF EngineTypes, LoopOrder, BmOrder, Live, Training, BmStatus, Sources
  <2>4. (EngineOwnsLine /\ V8Order)'
    BY DEF EngineOwnsLine, V8Order, LoopOrder, Live
  <2>5. (DataModeBytesOnly /\ BmOrder)'
    BY DEF DataModeBytesOnly, BmOrder, NoCarrierClock, LoopOrder,
           EngineOwnsLine, BmStatus, Live, LoopTypes, EngineTypes
  <2>6. (NoCarrierClock /\ LoopOrder)'
    BY DEF NoCarrierClock, LoopOrder, BmOrder, EngineOwnsLine, Live, LoopTypes, EngineTypes
  <2>7. (DataModeHasPppd /\ GreetingOrder)'
    BY DEF DataModeHasPppd, GreetingOrder, PppOrder, BmOrder,
           EngineOwnsLine, LoopOrder, Live, Training, LoopTypes, EngineTypes
  <2>8. (CleanExit /\ PppOrder)'
    BY DEF CleanExit, PppOrder, GreetingOrder, Live, LoopTypes, PppTypes
  <2> QED BY <2>1, <2>2, <2>3, <2>4, <2>5, <2>6, <2>7, <2>8
<1>3. CASE BmPollDown
  <2> USE <1>3 DEF BmPollDown
  <2>1. LoopTypes'
    BY DEF LoopTypes, LoopOrder, Live
  <2>2. PppTypes'
    BY DEF PppTypes, EngineTypes, Sources
  <2>3. EngineTypes'
    BY DEF EngineTypes, LoopOrder, BmOrder, Live, Training, BmStatus, Sources
  <2>4. (EngineOwnsLine /\ V8Order)'
    BY DEF EngineOwnsLine, V8Order, LoopOrder, Live
  <2>5. (DataModeBytesOnly /\ BmOrder)'
    BY DEF DataModeBytesOnly, BmOrder, NoCarrierClock, LoopOrder,
           EngineOwnsLine, BmStatus, Live, LoopTypes, EngineTypes
  <2>6. (NoCarrierClock /\ LoopOrder)'
    BY DEF NoCarrierClock, LoopOrder, BmOrder, EngineOwnsLine, Live, LoopTypes, EngineTypes
  <2>7. (DataModeHasPppd /\ GreetingOrder)'
    BY DEF DataModeHasPppd, GreetingOrder, PppOrder, BmOrder,
           EngineOwnsLine, LoopOrder, Live, Training, LoopTypes, EngineTypes
  <2>8. (CleanExit /\ PppOrder)'
    BY DEF CleanExit, PppOrder, GreetingOrder, Live, LoopTypes, PppTypes
  <2> QED BY <2>1, <2>2, <2>3, <2>4, <2>5, <2>6, <2>7, <2>8
<1>4. CASE BmPollConnected
  <2> USE <1>4 DEF BmPollConnected
  <2>1. LoopTypes'
    BY DEF LoopTypes, LoopOrder, Live
  <2>2. PppTypes'
    BY DEF PppTypes, EngineTypes, Sources
  <2>3. EngineTypes'
    <3>1. bm_nocarrier' \in 0..NoCarrierFrames
      BY DEF EngineTypes, LoopOrder
    <3> QED BY <3>1 DEF EngineTypes, Sources, BmStatus
  <2>4. (EngineOwnsLine /\ V8Order)'
    BY DEF EngineOwnsLine, V8Order, LoopOrder, Live
  <2>5. (DataModeBytesOnly /\ BmOrder)'
    BY DEF DataModeBytesOnly, BmOrder, NoCarrierClock, LoopOrder,
           EngineOwnsLine, BmStatus, Live, LoopTypes, EngineTypes
  <2>6. (NoCarrierClock /\ LoopOrder)'
    BY DEF NoCarrierClock, LoopOrder, BmOrder, EngineOwnsLine, Live, LoopTypes, EngineTypes
  <2>7. (DataModeHasPppd /\ GreetingOrder)'
    BY DEF DataModeHasPppd, GreetingOrder, PppOrder, BmOrder,
           EngineOwnsLine, LoopOrder, Live, Training, LoopTypes, EngineTypes
  <2>8. (CleanExit /\ PppOrder)'
    BY DEF CleanExit, PppOrder, GreetingOrder, Live, LoopTypes, PppTypes
  <2> QED BY <2>1, <2>2, <2>3, <2>4, <2>5, <2>6, <2>7, <2>8
<1> QED BY <1>1, <1>2, <1>3, <1>4 DEF BmPoll

\* The engines: what they decode is kept in data mode only, and data mode
\* behind a BinModem engine means it is connected.
LEMMA EngineStepKeeps == ASSUME IInv, EngineStep PROVE IInv'
<1> USE CallAssumption DEF IInv, TypeOK, Goto, engineVars, pppVars, lineVars
<1>1. CASE BmStep
  BY <1>1
  DEF BmStep, BmNext, BmHears, PutBits,
      LoopTypes, EngineTypes, PppTypes, Training, BmStatus, Sources, Live,
      EngineOwnsLine, DataModeBytesOnly, NoCarrierClock, DataModeHasPppd, CleanExit,
      LoopOrder, BmOrder, V8Order, GreetingOrder, PppOrder
<1>2. CASE V8Frame
  <2> USE <1>2 DEF V8Frame
  <2>1. LoopTypes'
    BY DEF LoopTypes, LoopOrder, Live
  <2>2. PppTypes'
    BY DEF PppTypes, EngineTypes, Sources
  <2>3. EngineTypes'
    <3>1. v8_ok' \in 0..2
      BY DEF EngineTypes
    <3> QED BY <3>1 DEF EngineTypes, Sources, BmStatus
  <2>4. (EngineOwnsLine /\ V8Order)'
    BY DEF EngineOwnsLine, V8Order, LoopOrder, Live
  <2>5. (DataModeBytesOnly /\ BmOrder)'
    BY DEF DataModeBytesOnly, BmOrder, NoCarrierClock, LoopOrder,
           EngineOwnsLine, BmStatus, Live, LoopTypes, EngineTypes
  <2>6. (NoCarrierClock /\ LoopOrder)'
    BY DEF NoCarrierClock, LoopOrder, BmOrder, EngineOwnsLine, Live, LoopTypes, EngineTypes
  <2>7. (DataModeHasPppd /\ GreetingOrder)'
    BY DEF DataModeHasPppd, GreetingOrder, PppOrder, BmOrder,
           EngineOwnsLine, LoopOrder, Live, Training, LoopTypes, EngineTypes
  <2>8. (CleanExit /\ PppOrder)'
    BY DEF CleanExit, PppOrder, GreetingOrder, Live, LoopTypes, PppTypes
  <2> QED BY <2>1, <2>2, <2>3, <2>4, <2>5, <2>6, <2>7, <2>8
<1>3. CASE ToneFrame
  BY <1>3
  DEF ToneFrame,
      LoopTypes, EngineTypes, PppTypes, Training, BmStatus, Sources, Live,
      EngineOwnsLine, DataModeBytesOnly, NoCarrierClock, DataModeHasPppd, CleanExit,
      LoopOrder, BmOrder, V8Order, GreetingOrder, PppOrder
<1>4. CASE GuardedFrame
  BY <1>4
  DEF GuardedFrame, ModemTurn, TxNext,
      LoopTypes, EngineTypes, PppTypes, Training, BmStatus, Sources, Live,
      EngineOwnsLine, DataModeBytesOnly, NoCarrierClock, DataModeHasPppd, CleanExit,
      LoopOrder, BmOrder, V8Order, GreetingOrder, PppOrder
<1>5. CASE V22Frame
  BY <1>5
  DEF V22Frame, V22Turn, ModemTurn, TxNext, PutBits,
      LoopTypes, EngineTypes, PppTypes, Training, BmStatus, Sources, Live,
      EngineOwnsLine, DataModeBytesOnly, NoCarrierClock, DataModeHasPppd, CleanExit,
      LoopOrder, BmOrder, V8Order, GreetingOrder, PppOrder
<1>6. CASE V22Retrain
  <2> USE <1>6 DEF V22Retrain, V22Turn, ModemTurn
  <2>1. LoopTypes'
    BY DEF LoopTypes, LoopOrder, Live
  <2>2. PppTypes'
    BY DEF PppTypes, EngineTypes, Sources
  <2>3. EngineTypes'
    BY DEF EngineTypes, LoopOrder, BmOrder, Live, Training, BmStatus, Sources
  <2>4. (EngineOwnsLine /\ V8Order)'
    BY DEF EngineOwnsLine, V8Order, LoopOrder, Live
  <2>5. (DataModeBytesOnly /\ BmOrder)'
    BY DEF DataModeBytesOnly, BmOrder, NoCarrierClock, LoopOrder,
           EngineOwnsLine, BmStatus, Live, LoopTypes, EngineTypes
  <2>6. (NoCarrierClock /\ LoopOrder)'
    BY DEF NoCarrierClock, LoopOrder, BmOrder, EngineOwnsLine, Live, LoopTypes, EngineTypes
  <2>7. (DataModeHasPppd /\ GreetingOrder)'
    BY DEF DataModeHasPppd, GreetingOrder, PppOrder, BmOrder,
           EngineOwnsLine, LoopOrder, Live, Training, LoopTypes, EngineTypes
  <2>8. (CleanExit /\ PppOrder)'
    BY DEF CleanExit, PppOrder, GreetingOrder, Live, LoopTypes, PppTypes
  <2> QED BY <2>1, <2>2, <2>3, <2>4, <2>5, <2>6, <2>7, <2>8
<1>7. CASE V34Frame
  <2> USE <1>7 DEF V34Frame, ModemTurn
  <2>1. LoopTypes'
    BY DEF LoopTypes, LoopOrder, Live
  <2>2. PppTypes'
    BY DEF PppTypes, EngineTypes, Sources
  <2>3. EngineTypes'
    BY DEF EngineTypes, LoopOrder, BmOrder, Live, Training, BmStatus, Sources
  <2>4. (EngineOwnsLine /\ V8Order)'
    BY DEF EngineOwnsLine, V8Order, LoopOrder, Live
  <2>5. (DataModeBytesOnly /\ BmOrder)'
    BY DEF DataModeBytesOnly, BmOrder, NoCarrierClock, LoopOrder,
           EngineOwnsLine, BmStatus, Live, LoopTypes, EngineTypes
  <2>6. (NoCarrierClock /\ LoopOrder)'
    BY DEF NoCarrierClock, LoopOrder, BmOrder, EngineOwnsLine, Live, LoopTypes, EngineTypes
  <2>7. (DataModeHasPppd /\ GreetingOrder)'
    BY DEF DataModeHasPppd, GreetingOrder, PppOrder, BmOrder,
           EngineOwnsLine, LoopOrder, Live, Training, LoopTypes, EngineTypes
  <2>8. (CleanExit /\ PppOrder)'
    BY DEF CleanExit, PppOrder, GreetingOrder, Live, LoopTypes, PppTypes
  <2> QED BY <2>1, <2>2, <2>3, <2>4, <2>5, <2>6, <2>7, <2>8
<1> QED BY <1>1, <1>2, <1>3, <1>4, <1>5, <1>6, <1>7 DEF EngineStep

\* The end of a message: only a call whose V.8 ran can have a V.8 outcome, so
\* no second engine starts under BinModem.
LEMMA FrameEndKeeps == ASSUME IInv, FrameEnd PROVE IInv'
<1> USE CallAssumption DEF IInv, TypeOK, Goto, engineVars, pppVars, lineVars
<1>1. CASE V8Switch
  <2> USE <1>1 DEF V8Switch, StartV22, StartV34, V34Unavailable, ForcedV34Unavailable
  <2>1. LoopTypes'
    BY DEF LoopTypes, LoopOrder, Live
  <2>2. PppTypes'
    BY DEF PppTypes, EngineTypes, Sources
  <2>3. EngineTypes'
    <3>1. v8_ok' \in 0..2
      BY DEF EngineTypes
    <3>2. rx_guard' \in 0..GuardFrames
      BY DEF EngineTypes
    <3>3. training' \in Training
      BY DEF EngineTypes, Training
    <3> QED BY <3>1, <3>2, <3>3 DEF EngineTypes, Sources, BmStatus
  <2>4. (EngineOwnsLine /\ V8Order)'
    BY DEF EngineOwnsLine, V8Order, LoopOrder, Live
  <2>5. (DataModeBytesOnly /\ BmOrder)'
    BY DEF DataModeBytesOnly, BmOrder, NoCarrierClock, LoopOrder,
           EngineOwnsLine, BmStatus, Live, LoopTypes, EngineTypes
  <2>6. (NoCarrierClock /\ LoopOrder)'
    BY DEF NoCarrierClock, LoopOrder, BmOrder, EngineOwnsLine, Live, LoopTypes, EngineTypes
  <2>7. (DataModeHasPppd /\ GreetingOrder)'
    BY DEF DataModeHasPppd, GreetingOrder, PppOrder, BmOrder,
           EngineOwnsLine, LoopOrder, Live, Training, LoopTypes, EngineTypes
  <2>8. (CleanExit /\ PppOrder)'
    BY DEF CleanExit, PppOrder, GreetingOrder, Live, LoopTypes, PppTypes
  <2> QED BY <2>1, <2>2, <2>3, <2>4, <2>5, <2>6, <2>7, <2>8
<1>2. CASE Detect
  <2> USE <1>2 DEF Detect
  <2>1. LoopTypes'
    BY DEF LoopTypes, LoopOrder, Live
  <2>2. PppTypes'
    BY DEF PppTypes, EngineTypes, Sources
  <2>3. EngineTypes'
    BY DEF EngineTypes, LoopOrder, BmOrder, Live, Training, BmStatus, Sources
  <2>4. (EngineOwnsLine /\ V8Order)'
    BY DEF EngineOwnsLine, V8Order, LoopOrder, Live
  <2>5. (DataModeBytesOnly /\ BmOrder)'
    BY DEF DataModeBytesOnly, BmOrder, NoCarrierClock, LoopOrder,
           EngineOwnsLine, BmStatus, Live, LoopTypes, EngineTypes
  <2>6. (NoCarrierClock /\ LoopOrder)'
    BY DEF NoCarrierClock, LoopOrder, BmOrder, EngineOwnsLine, Live, LoopTypes, EngineTypes
  <2>7. (DataModeHasPppd /\ GreetingOrder)'
    BY DEF DataModeHasPppd, GreetingOrder, PppOrder, BmOrder,
           EngineOwnsLine, LoopOrder, Live, Training, LoopTypes, EngineTypes
  <2>8. (CleanExit /\ PppOrder)'
    BY DEF CleanExit, PppOrder, GreetingOrder, Live, LoopTypes, PppTypes
  <2> QED BY <2>1, <2>2, <2>3, <2>4, <2>5, <2>6, <2>7, <2>8
<1>3. CASE Reply
  BY <1>3
  DEF Reply,
      LoopTypes, EngineTypes, PppTypes, Training, BmStatus, Sources, Live,
      EngineOwnsLine, DataModeBytesOnly, NoCarrierClock, DataModeHasPppd, CleanExit,
      LoopOrder, BmOrder, V8Order, GreetingOrder, PppOrder
<1> QED BY <1>1, <1>2, <1>3 DEF FrameEnd

\* Pumping pppd: it is started once, and known until it is reaped.
LEMMA PumpStepKeeps == ASSUME IInv, PumpStep PROVE IInv'
<1> USE CallAssumption DEF IInv, TypeOK, Goto, engineVars, pppVars, lineVars
<1>1. CASE PumpSkips
  BY <1>1
  DEF PumpSkips, Pumping, AfterPump,
      LoopTypes, EngineTypes, PppTypes, Training, BmStatus, Sources, Live,
      EngineOwnsLine, DataModeBytesOnly, NoCarrierClock, DataModeHasPppd, CleanExit,
      LoopOrder, BmOrder, V8Order, GreetingOrder, PppOrder
<1>2. CASE PumpCannotStartPppd
  BY <1>2
  DEF PumpCannotStartPppd, Pumping, AfterPump, PppdDue,
      LoopTypes, EngineTypes, PppTypes, Training, BmStatus, Sources, Live,
      EngineOwnsLine, DataModeBytesOnly, NoCarrierClock, DataModeHasPppd, CleanExit,
      LoopOrder, BmOrder, V8Order, GreetingOrder, PppOrder
<1>3. CASE Pump
  <2> USE <1>3 DEF Pump, Pumping, AfterPump, PppdDue
  <2>1. LoopTypes'
    BY DEF LoopTypes, LoopOrder, Live
  <2>2. PppTypes'
    BY DEF PppTypes, EngineTypes, Sources
  <2>3. EngineTypes'
    BY DEF EngineTypes, LoopOrder, BmOrder, Live, Training, BmStatus, Sources
  <2>4. (EngineOwnsLine /\ V8Order)'
    BY DEF EngineOwnsLine, V8Order, LoopOrder, Live
  <2>5. (DataModeBytesOnly /\ BmOrder)'
    BY DEF DataModeBytesOnly, BmOrder, NoCarrierClock, LoopOrder,
           EngineOwnsLine, BmStatus, Live, LoopTypes, EngineTypes
  <2>6. (NoCarrierClock /\ LoopOrder)'
    BY DEF NoCarrierClock, LoopOrder, BmOrder, EngineOwnsLine, Live, LoopTypes, EngineTypes
  <2>7. (DataModeHasPppd /\ GreetingOrder)'
    BY DEF DataModeHasPppd, GreetingOrder, PppOrder, BmOrder,
           EngineOwnsLine, LoopOrder, Live, Training, LoopTypes, EngineTypes
  <2>8. (CleanExit /\ PppOrder)'
    BY DEF CleanExit, PppOrder, GreetingOrder, Live, LoopTypes, PppTypes
  <2> QED BY <2>1, <2>2, <2>3, <2>4, <2>5, <2>6, <2>7, <2>8
<1>4. CASE Reap
  <2> USE <1>4 DEF Reap
  <2>1. LoopTypes'
    BY DEF LoopTypes, LoopOrder, Live
  <2>2. PppTypes'
    BY DEF PppTypes, EngineTypes, Sources
  <2>3. EngineTypes'
    BY DEF EngineTypes, LoopOrder, BmOrder, Live, Training, BmStatus, Sources
  <2>4. (EngineOwnsLine /\ V8Order)'
    BY DEF EngineOwnsLine, V8Order, LoopOrder, Live
  <2>5. (DataModeBytesOnly /\ BmOrder)'
    BY DEF DataModeBytesOnly, BmOrder, NoCarrierClock, LoopOrder,
           EngineOwnsLine, BmStatus, Live, LoopTypes, EngineTypes
  <2>6. (NoCarrierClock /\ LoopOrder)'
    BY DEF NoCarrierClock, LoopOrder, BmOrder, EngineOwnsLine, Live, LoopTypes, EngineTypes
  <2>7. (DataModeHasPppd /\ GreetingOrder)'
    BY DEF DataModeHasPppd, GreetingOrder, PppOrder, BmOrder,
           EngineOwnsLine, LoopOrder, Live, Training, LoopTypes, EngineTypes
  <2>8. (CleanExit /\ PppOrder)'
    BY DEF CleanExit, PppOrder, GreetingOrder, Live, LoopTypes, PppTypes
  <2> QED BY <2>1, <2>2, <2>3, <2>4, <2>5, <2>6, <2>7, <2>8
<1> QED BY <1>1, <1>2, <1>3, <1>4 DEF PumpStep

\* After "out:": everything is released.
LEMMA CleanupKeeps == ASSUME IInv, Cleanup PROVE IInv'
<1> USE CallAssumption DEF IInv, TypeOK, Goto, engineVars, pppVars, lineVars
<1>1. CASE Out
  <2> USE <1>1 DEF Out
  <2>1. LoopTypes'
    BY DEF LoopTypes, LoopOrder, Live
  <2>2. PppTypes'
    BY DEF PppTypes, EngineTypes, Sources
  <2>3. EngineTypes'
    BY DEF EngineTypes, LoopOrder, BmOrder, Live, Training, BmStatus, Sources
  <2>4. (EngineOwnsLine /\ V8Order)'
    BY DEF EngineOwnsLine, V8Order, LoopOrder, Live
  <2>5. (DataModeBytesOnly /\ BmOrder)'
    BY DEF DataModeBytesOnly, BmOrder, NoCarrierClock, LoopOrder,
           EngineOwnsLine, BmStatus, Live, LoopTypes, EngineTypes
  <2>6. (NoCarrierClock /\ LoopOrder)'
    BY DEF NoCarrierClock, LoopOrder, BmOrder, EngineOwnsLine, Live, LoopTypes, EngineTypes
  <2>7. (DataModeHasPppd /\ GreetingOrder)'
    BY DEF DataModeHasPppd, GreetingOrder, PppOrder, BmOrder,
           EngineOwnsLine, LoopOrder, Live, Training, LoopTypes, EngineTypes
  <2>8. (CleanExit /\ PppOrder)'
    BY DEF CleanExit, PppOrder, GreetingOrder, Live, LoopTypes, PppTypes
  <2> QED BY <2>1, <2>2, <2>3, <2>4, <2>5, <2>6, <2>7, <2>8
<1>2. CASE Kill
  <2> USE <1>2 DEF Kill
  <2>1. LoopTypes'
    BY DEF LoopTypes, LoopOrder, Live
  <2>2. PppTypes'
    BY DEF PppTypes, EngineTypes, Sources
  <2>3. EngineTypes'
    BY DEF EngineTypes, LoopOrder, BmOrder, Live, Training, BmStatus, Sources
  <2>4. (EngineOwnsLine /\ V8Order)'
    BY DEF EngineOwnsLine, V8Order, LoopOrder, Live
  <2>5. (DataModeBytesOnly /\ BmOrder)'
    BY DEF DataModeBytesOnly, BmOrder, NoCarrierClock, LoopOrder,
           EngineOwnsLine, BmStatus, Live, LoopTypes, EngineTypes
  <2>6. (NoCarrierClock /\ LoopOrder)'
    BY DEF NoCarrierClock, LoopOrder, BmOrder, EngineOwnsLine, Live, LoopTypes, EngineTypes
  <2>7. (DataModeHasPppd /\ GreetingOrder)'
    BY DEF DataModeHasPppd, GreetingOrder, PppOrder, BmOrder,
           EngineOwnsLine, LoopOrder, Live, Training, LoopTypes, EngineTypes
  <2>8. (CleanExit /\ PppOrder)'
    BY DEF CleanExit, PppOrder, GreetingOrder, Live, LoopTypes, PppTypes
  <2> QED BY <2>1, <2>2, <2>3, <2>4, <2>5, <2>6, <2>7, <2>8
<1> QED BY <1>1, <1>2 DEF Cleanup

\* What happens outside the call leaves its own state alone.
LEMMA EnvironmentKeeps == ASSUME IInv, Environment PROVE IInv'
<1> USE CallAssumption DEF IInv, TypeOK, Goto, engineVars, pppVars, lineVars
<1>1. CASE PppdExits
  BY <1>1
  DEF PppdExits,
      LoopTypes, EngineTypes, PppTypes, Training, BmStatus, Sources, Live,
      EngineOwnsLine, DataModeBytesOnly, NoCarrierClock, DataModeHasPppd, CleanExit,
      LoopOrder, BmOrder, V8Order, GreetingOrder, PppOrder
<1>2. CASE RelayCloses
  BY <1>2
  DEF RelayCloses,
      LoopTypes, EngineTypes, PppTypes, Training, BmStatus, Sources, Live,
      EngineOwnsLine, DataModeBytesOnly, NoCarrierClock, DataModeHasPppd, CleanExit,
      LoopOrder, BmOrder, V8Order, GreetingOrder, PppOrder
<1>3. CASE FarEndStops
  BY <1>3
  DEF FarEndStops,
      LoopTypes, EngineTypes, PppTypes, Training, BmStatus, Sources, Live,
      EngineOwnsLine, DataModeBytesOnly, NoCarrierClock, DataModeHasPppd, CleanExit,
      LoopOrder, BmOrder, V8Order, GreetingOrder, PppOrder
<1> QED BY <1>1, <1>2, <1>3 DEF Environment

\* Every step.
LEMMA IInvStep == ASSUME IInv, [Next]_vars PROVE IInv'
<1>1. CASE UNCHANGED vars
  BY <1>1 DEF vars, engineVars, pppVars, lineVars, IInv, TypeOK,
      LoopTypes, EngineTypes, PppTypes, Live,
      EngineOwnsLine, DataModeBytesOnly, NoCarrierClock, DataModeHasPppd, CleanExit,
      LoopOrder, BmOrder, V8Order, GreetingOrder, PppOrder
<1>2. CASE Next
  BY <1>1, <1>2, ReadStepKeeps, BmPollKeeps, EngineStepKeeps, FrameEndKeeps,
     PumpStepKeeps, CleanupKeeps, EnvironmentKeeps
  DEF Next, Thread, Finished
<1> QED BY <1>1, <1>2

-----------------------------------------------------------------------------

\* The inductive invariant of a call: who owns the line, what data mode needs, and
\* the order the steps of its loop, its modem and its greeting come in.
THEOREM Invariance == Spec => []IInv
BY InitIInv, IInvStep, PTL DEF Spec

\* Every counter of a call stays within the bound the code gives it: five read
\* timeouts, the samples of tone and squelch, half a second without carrier.
THEOREM TypeCorrect == Spec => []TypeOK
<1>1. IInv => TypeOK
  BY DEF IInv
<1> QED BY <1>1, Invariance, PTL

\* At any moment one engine owns the line, however the call was configured and
\* whichever engines could not be created.
THEOREM OneEngine == Spec => []EngineOwnsLine
<1>1. IInv => EngineOwnsLine
  BY DEF IInv
<1> QED BY <1>1, Invariance, PTL

\* What an engine made of a handshake never reaches pppd, and a retrain leaves
\* nothing of the old data in the deframer.
THEOREM BytesFromDataMode == Spec => []DataModeBytesOnly
<1>1. IInv => DataModeBytesOnly
  BY DEF IInv
<1> QED BY <1>1, Invariance, PTL

\* The half second without carrier is counted within one stay in data mode.
THEOREM CarrierCountIsFresh == Spec => []NoCarrierClock
<1>1. IInv => NoCarrierClock
  BY DEF IInv
<1> QED BY <1>1, Invariance, PTL

\* A PPP call in data mode has had its pppd started by the next read.
THEOREM PppdIsStarted == Spec => []DataModeHasPppd
<1>1. IInv => DataModeHasPppd
  BY DEF IInv
<1> QED BY <1>1, Invariance, PTL

\* A call that got past its UUID leaves no engine, descriptor or pppd behind.
THEOREM ExitIsClean == Spec => []CleanExit
<1>1. IInv => CleanExit
  BY DEF IInv
<1> QED BY <1>1, Invariance, PTL

\* A usable V.8 result is acted on in the message that brought it.  The state
\* before V8Switch does not matter, so TypeOK alone carries this one.
THEOREM V8IsActedOn == Spec => []V8OutcomeActedOn
<1>1. Init => V8OutcomeActedOn
  BY DEF Init, V8OutcomeActedOn
<1>2. ASSUME IInv, V8OutcomeActedOn, [Next]_vars PROVE V8OutcomeActedOn'
  <2> USE DEF V8OutcomeActedOn, Goto
  <2>1. CASE V8Switch
    BY <1>2, <2>1, CallAssumption
    DEF V8Switch, StartV22, StartV34, V34Unavailable, ForcedV34Unavailable,
        engineVars, IInv, TypeOK, LoopTypes, EngineTypes, Config
  <2>2. CASE pc' # "detect"
    BY <2>2
  <2>3. CASE UNCHANGED <<pc, cfg, phase, v8_done, v8_ok>>
    BY <1>2, <2>3
  <2>4. CASE ReadStep \/ BmPoll \/ EngineStep
    BY <2>2, <2>4
    DEF ReadStep, GreetingFails, GreetingMessage, ReadTimesOut, ReadMessage, LoopEnds,
        BmPoll, NoBm, BmPollHandsBack, BmPollDown, BmPollConnected,
        EngineStep, BmStep, V8Frame, ToneFrame, GuardedFrame, V22Frame, V22Retrain, V34Frame
  <2>5. CASE Detect \/ Reply \/ PumpStep \/ Cleanup
    BY <2>2, <2>5
    DEF Detect, Reply, PumpStep, PumpSkips, PumpCannotStartPppd, Pump, Pumping,
        AfterPump, Reap, Cleanup, Out, Kill
  <2>6. CASE Environment \/ UNCHANGED vars
    BY <2>3, <2>6
    DEF Environment, PppdExits, RelayCloses, FarEndStops, vars, engineVars
  <2> QED BY <1>2, <2>1, <2>4, <2>5, <2>6 DEF Next, Thread, FrameEnd, Finished
<1> QED BY <1>1, <1>2, Invariance, PTL DEF Spec

-----------------------------------------------------------------------------
(* The pid of pppd.                                                        *)

\* Where waitpid finds exited children, a pid is forgotten no later than its
\* process is reaped, and the SIGKILL goes to one that waitpid has just reported
\* as running: dead by now, perhaps, but a zombie nobody else can reap.
PidIsOurs ==
    ~cfg.sigchld_ignored =>
        /\ ~strayKill
        /\ pppd = "gone" => ~pppd_pid
        /\ pc = "kill" => pppd # "gone"

\* Only pump_ppp, the reaping, the end of the call and pppd itself touch the pid.
LEMMA PidElsewhere ==
    ASSUME ReadStep \/ BmPoll \/ EngineStep \/ FrameEnd \/ RelayCloses \/ FarEndStops
    PROVE  UNCHANGED <<cfg, pppd, pppd_pid, strayKill>> /\ (pc' = "kill" => pc = "kill")
<1> USE DEF pppVars, Goto
<1>1. CASE ReadStep
  BY <1>1 DEF ReadStep, GreetingFails, GreetingMessage, ReadTimesOut, ReadMessage, LoopEnds
<1>2. CASE BmPoll
  BY <1>2 DEF BmPoll, NoBm, BmPollHandsBack, BmPollDown, BmPollConnected
<1>3. CASE EngineStep
  BY <1>3 DEF EngineStep, BmStep, V8Frame, ToneFrame, GuardedFrame, V22Frame,
              V22Retrain, V34Frame
<1>4. CASE FrameEnd
  BY <1>4 DEF FrameEnd, V8Switch, Detect, Reply
<1>5. CASE RelayCloses \/ FarEndStops
  BY <1>5 DEF RelayCloses, FarEndStops
<1> QED BY <1>1, <1>2, <1>3, <1>4, <1>5

\* Every step keeps the pid to a process that is ours.
LEMMA PidStep == ASSUME IInv, PidIsOurs, [Next]_vars PROVE PidIsOurs'
<1> USE DEF PidIsOurs
<1>1. CASE ReadStep \/ BmPoll \/ EngineStep \/ FrameEnd \/ RelayCloses \/ FarEndStops
  BY <1>1, PidElsewhere
<1>2. CASE PumpStep
  BY <1>2 DEF PumpStep, PumpSkips, PumpCannotStartPppd, Pump, Reap, Goto, AfterPump, pppVars
<1>3. CASE Cleanup
  BY <1>3 DEF Cleanup, Out, Kill, Goto, IInv, TypeOK, PppTypes
<1>4. CASE PppdExits
  BY <1>4 DEF PppdExits
<1>5. CASE Finished \/ UNCHANGED vars
  BY <1>5 DEF Finished, vars, pppVars
<1> QED BY <1>1, <1>2, <1>3, <1>4, <1>5 DEF Next, Thread, Environment

\* In a process whose children wait to be reaped, no signal of a call goes to a
\* pid that has been given back.
THEOREM SignalsStayHome == Spec => []NoStraySignal
<1>1. Init => PidIsOurs
  BY DEF Init, PidIsOurs
<1>2. PidIsOurs => NoStraySignal
  BY DEF PidIsOurs, NoStraySignal
<1> QED BY <1>1, <1>2, PidStep, Invariance, PTL DEF Spec

-----------------------------------------------------------------------------
(* The call implements PppSession: every step is a step of it or none.     *)

\* A call starts with the link down and no pppd.
LEMMA SessionInit == Init => Session!SInit
<1> SUFFICES ASSUME Init PROVE Session!SInit
  OBVIOUS
<1>1. phase \in {"ANSWER_TONE", "V8", "HANDSHAKE"}
  BY DEF Init, InitEngine
<1> QED BY <1>1 DEF Init, Session!SInit, Link, Process

\* Once over, a call stays over, whatever the engine does with its last message;
\* pppd is started in data mode and dies before the call is left.
LEMMA SessionStep == ASSUME IInv, [Next]_vars PROVE [Session!SNext]_<<Link, Process>>
<1> USE DEF Session!SNext, Session!svars, Link, Process, Goto, engineVars, pppVars, lineVars
<1>1. CASE UNCHANGED vars
  BY <1>1 DEF vars
<1>2. CASE ReadStep
  <2>1. CASE GreetingFails
    BY <2>1 DEF GreetingFails, Session!Release, IInv, GreetingOrder
  <2>2. CASE GreetingMessage \/ ReadTimesOut \/ ReadMessage \/ LoopEnds
    BY <2>2 DEF GreetingMessage, ReadTimesOut, ReadMessage, LoopEnds, InLoop, Session!HangUp,
      IInv, TypeOK, LoopTypes
  <2> QED BY <1>2, <2>1, <2>2 DEF ReadStep
<1>3. CASE BmPoll
  BY <1>3 DEF BmPoll, NoBm, BmPollHandsBack, BmPollDown, BmPollConnected, Session!LinkUp,
    Session!LinkDown, Session!HangUp, IInv, LoopOrder, BmOrder, TypeOK, LoopTypes
<1>4. CASE EngineStep
  BY <1>4 DEF EngineStep, BmStep, V8Frame, ToneFrame, GuardedFrame, V22Frame, V22Retrain,
    V34Frame, V22Turn, ModemTurn, Session!LinkUp, Session!LinkDown,
    IInv, LoopOrder, TypeOK, LoopTypes
<1>5. CASE FrameEnd
  <2>1. CASE V8Switch
    BY <2>1 DEF V8Switch, StartV22, StartV34, V34Unavailable, ForcedV34Unavailable
  <2>2. CASE Detect \/ Reply
    BY <2>2 DEF Detect, Reply, Session!LinkUp, Session!HangUp, IInv, TypeOK, LoopTypes
  <2> QED BY <1>5, <2>1, <2>2 DEF FrameEnd
<1>6. CASE PumpStep
  <2>1. CASE PumpSkips \/ PumpCannotStartPppd
    BY <2>1 DEF PumpSkips, PumpCannotStartPppd, PppdDue, Pumping, AfterPump, Session!HangUp
  <2>2. CASE Pump
    BY <2>2 DEF Pump, PppdDue, Pumping, AfterPump, Session!StartPppd, IInv, PppOrder
  <2>3. CASE Reap
    BY <2>3 DEF Reap, Session!HangUp, IInv, TypeOK, LoopTypes
  <2> QED BY <1>6, <2>1, <2>2, <2>3 DEF PumpStep
<1>7. CASE Cleanup
  BY <1>7 DEF Cleanup, Out, Kill, Session!Release, IInv, PppOrder, TypeOK, PppTypes
<1>8. CASE Environment
  BY <1>8 DEF Environment, PppdExits, RelayCloses, FarEndStops, Session!PppdGoes
<1> QED BY <1>1, <1>2, <1>3, <1>4, <1>5, <1>6, <1>7, <1>8 DEF Next, Thread, Finished

\* The safety part of KeepsSession: a call is one of the abstract sessions.
THEOREM CallImplementsSession == Spec => Session!SSpec
BY SessionInit, SessionStep, Invariance, PTL DEF Spec, Session!SSpec, Session!svars

=============================================================================
