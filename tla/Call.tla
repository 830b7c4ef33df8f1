-------------------------------- MODULE Call --------------------------------
(***************************************************************************)
(* One dial-up call as src/src/call/sm_call.c runs it: sm_call_init picks  *)
(* the engine, sm_call_run reads AudioSocket messages one at a time,       *)
(* process_audio drives the engine that owns the line, pump_ppp moves      *)
(* bytes between the modem and pppd, and the code after "out:" releases    *)
(* everything.  The call is one thread; pc names the point it has reached. *)
(* pppd, the BinModem engine, V.8, V.34 and the far end are outside it and *)
(* act whenever they like.                                                 *)
(*                                                                         *)
(* Data is abstracted to where it came from: "link" is what an engine      *)
(* decoded in data mode, "noise" what it made of a handshake.  Time is     *)
(* counted in audio messages and read timeouts.                            *)
(***************************************************************************)
EXTENDS Naturals

CONSTANTS
    Configs,         \* the configurations sm_call_init may be given
    MaxTimeouts,     \* consecutive read timeouts that end the call (5)
    ToneFrames,      \* audio messages the answer sequence lasts
    GuardFrames,     \* audio messages of receiver squelch (500 ms)
    NoCarrierFrames  \* audio messages without carrier that end a call (500 ms)

\* sm_call_config_t, and with it the disposition of SIGCHLD the call's process
\* was started with: sm_daemon.c:195 leaves it ignored.
Config == [use_v8 : BOOLEAN, use_v34 : BOOLEAN, use_binmodem : BOOLEAN,
           tone : BOOLEAN, enable_ppp : BOOLEAN, echo_data : BOOLEAN,
           sigchld_ignored : BOOLEAN]

ASSUME CallAssumption ==
    /\ Configs \subseteq Config
    /\ MaxTimeouts \in Nat \ {0}
    /\ ToneFrames \in Nat \ {0}
    /\ GuardFrames \in Nat \ {0}
    /\ NoCarrierFrames \in Nat \ {0}

VARIABLES
    pc,            \* where sm_call_run has got to
    greeted,       \* the UUID loop has been left
    cfg, phase, mode,
    bm,            \* bm_status of the BinModem engine, "null" when c->bm is NULL
    bmRx,          \* what the engine's receiver has queued for bm_service
    bm_nocarrier,
    v8, v8_done, v8_ok,
    v34,           \* c->v34 # NULL
    tone,          \* silence_samples_left + tone_samples_left, in messages
    rx_guard,
    training,      \* how far the V.22bis transmitter and receiver have trained
    deframer,      \* where the bits and bytes in the deframer came from
    ppy_out,       \* where the bytes staged for pppd came from
    ppp_fd,        \* c->ppp_fd >= 0
    pppd_pid,      \* c->pppd_pid > 0
    ppp_started,
    pppd,          \* the process: "none", "alive", "zombie", "gone"
    ptyEof,        \* the relay end of the socket pair is closed
    timeouts,      \* timeout_count
    farEnd,        \* "up": may send; "silent": connected, sends no more;
                   \* "closed": the socket is at end of file
    strayKill      \* a signal went to a pid that is no longer our child

engineVars == <<bm, bmRx, bm_nocarrier, v8, v8_done, v8_ok, v34, tone,
                rx_guard, training>>
pppVars    == <<ppp_fd, pppd_pid, ppp_started, pppd, ptyEof, strayKill>>
lineVars   == <<timeouts, farEnd>>
vars == <<pc, greeted, cfg, phase, mode, engineVars, deframer, ppy_out,
          pppVars, lineVars>>

Sources  == {"link", "noise"}
BmStatus == {"running", "connected", "failed", "agreed", "retraining"}

\* The transmitter sends its opening until the receiver has heard enough
\* ("opening"), then segments of fixed length ("timed"), then data.  The
\* receiver acquires, commits to a rate, and reaches normal operation.
Training == [tx : {"opening", "timed", "normal"},
             rx : {"acquire", "committed", "normal"}]

LoopTypes ==
    /\ pc \in {"uuid", "read", "audio", "bmstep", "engine", "v8switch",
               "detect", "reply", "pump", "idlepump", "reap", "out", "kill", "done"}
    /\ greeted \in BOOLEAN
    /\ cfg \in Configs
    /\ phase \in {"ANSWER_TONE", "V8", "HANDSHAKE", "DATA", "HANGUP"}
    /\ mode \in {"V22", "V34"}
    /\ timeouts \in 0..MaxTimeouts
    /\ farEnd \in {"up", "silent", "closed"}

EngineTypes ==
    /\ bm \in BmStatus \cup {"null"}
    /\ bmRx \subseteq Sources
    /\ bm_nocarrier \in 0..NoCarrierFrames
    /\ v8 \in BOOLEAN /\ v8_done \in BOOLEAN /\ v8_ok \in 0..2
    /\ v34 \in BOOLEAN
    /\ tone \in 0..ToneFrames
    /\ rx_guard \in 0..GuardFrames
    /\ training \in Training

PppTypes ==
    /\ deframer \subseteq Sources
    /\ ppy_out \subseteq Sources
    /\ ppp_fd \in BOOLEAN /\ pppd_pid \in BOOLEAN /\ ppp_started \in BOOLEAN
    /\ pppd \in {"none", "alive", "zombie", "gone"}
    /\ ptyEof \in BOOLEAN
    /\ strayKill \in BOOLEAN

TypeOK == LoopTypes /\ EngineTypes /\ PppTypes

-----------------------------------------------------------------------------
(* sm_call_init.  bm_create and sm_v8_create may return NULL, and the code *)
(* then falls through to the next way of answering.                        *)

\* Mutant: no "if (c->bm) return" before the V.8 set-up.
InitEngine_BothEngines ==
    \/ cfg.use_binmodem /\ bm = "running" /\ v8 = cfg.use_v8 /\ phase = "V8" /\ tone = 0
    \/ cfg.use_v8 /\ bm = "null" /\ v8 = TRUE /\ phase = "V8" /\ tone = 0

InitEngine ==
    \/ /\ cfg.use_binmodem
       /\ bm = "running" /\ v8 = FALSE /\ phase = "V8" /\ tone = 0
    \/ /\ cfg.use_v8
       /\ bm = "null" /\ v8 = TRUE /\ phase = "V8" /\ tone = 0
    \/ /\ bm = "null" /\ v8 = FALSE
       /\ IF cfg.tone THEN phase = "ANSWER_TONE" /\ tone = ToneFrames
                      ELSE phase = "HANDSHAKE" /\ tone = 0

Init ==
    /\ cfg \in Configs
    /\ InitEngine
    /\ pc = "uuid" /\ greeted = FALSE
    /\ mode = "V22"
    /\ bmRx = {} /\ bm_nocarrier = 0
    /\ v8_done = FALSE /\ v8_ok = 0
    /\ v34 = FALSE
    /\ rx_guard = 0
    /\ training = [tx |-> "opening", rx |-> "acquire"]
    /\ deframer = {} /\ ppy_out = {}
    /\ ppp_fd = FALSE /\ pppd_pid = FALSE /\ ppp_started = FALSE
    /\ pppd = "none" /\ ptyEof = FALSE
    /\ timeouts = 0 /\ farEnd = "up"
    /\ strayKill = FALSE

Goto(next) == pc' = next

-----------------------------------------------------------------------------
(* Reading the AudioSocket: the UUID loop and the main loop.               *)

\* A close or five seconds of silence before the UUID: return -1 at once.
GreetingFails ==
    /\ pc = "uuid"
    /\ Goto("done")
    /\ UNCHANGED <<greeted, cfg, phase, mode, engineVars, deframer, ppy_out,
                   pppVars, lineVars>>

\* The UUID, audio instead of it (processed, not answered), or any other
\* message, which is ignored.
GreetingMessage ==
    /\ pc = "uuid" /\ farEnd = "up"
    /\ \/ Goto("read") /\ greeted' = TRUE
       \/ Goto("audio") /\ UNCHANGED greeted
       \/ UNCHANGED <<pc, greeted>>
    /\ UNCHANGED <<cfg, phase, mode, engineVars, deframer, ppy_out, pppVars, lineVars>>

\* Mutant: the loop does not look at the phase.
InLoop_AnyPhase == pc = "read"

InLoop == pc = "read" /\ phase # "HANGUP"

\* Mutant: an idle read pumps pppd and is not counted.
ReadTimesOut_NotCounted ==
    /\ InLoop /\ farEnd # "closed"
    /\ Goto("idlepump")
    /\ UNCHANGED <<greeted, cfg, phase, mode, engineVars, deframer, ppy_out,
                   pppVars, lineVars>>

ReadTimesOut ==
    /\ InLoop /\ farEnd # "closed"
    /\ timeouts' = timeouts + 1
    /\ Goto(IF timeouts' >= MaxTimeouts THEN "out" ELSE "idlepump")
    /\ UNCHANGED <<greeted, cfg, phase, mode, engineVars, deframer, ppy_out,
                   pppVars, farEnd>>

\* Audio is processed; DTMF and unknown kinds only reset the timeout count;
\* a hang-up or error frame ends the call.
ReadMessage ==
    /\ InLoop /\ farEnd = "up"
    /\ timeouts' = 0
    /\ \E next \in {"audio", "pump", "out"} : Goto(next)
    /\ UNCHANGED <<greeted, cfg, phase, mode, engineVars, deframer, ppy_out,
                   pppVars, farEnd>>

\* The while condition fails, or sm_ast_read returns -1.
LoopEnds ==
    /\ pc = "read"
    /\ phase = "HANGUP" \/ farEnd = "closed"
    /\ Goto("out")
    /\ UNCHANGED <<greeted, cfg, phase, mode, engineVars, deframer, ppy_out,
                   pppVars, lineVars>>

-----------------------------------------------------------------------------
(* process_audio.  bm_poll first, then the bits of the message before, then *)
(* the engine over this message.                                           *)

NoBm ==
    /\ pc = "audio" /\ bm = "null"
    /\ Goto("engine")
    /\ UNCHANGED <<greeted, cfg, phase, mode, engineVars, deframer, ppy_out,
                   pppVars, lineVars>>

\* BM_AGREED_V22 / BM_AGREED_OTHER: the built-in V.22bis engine takes over.
BmPollHandsBack ==
    /\ pc = "audio" /\ bm = "agreed"
    /\ mode' = "V22" /\ phase' = "HANDSHAKE"
    /\ training' = [training EXCEPT !.rx = "acquire"]
    /\ rx_guard' = GuardFrames
    /\ bm' = "null" /\ bmRx' = {}
    /\ Goto("engine")
    /\ UNCHANGED <<greeted, cfg, bm_nocarrier, v8, v8_done, v8_ok, v34, tone,
                   deframer, ppy_out, pppVars, lineVars>>

\* Mutant: the retrain does not reset the carrier count.
BmPollDown_KeepsCount ==
    /\ pc = "audio" /\ bm \in {"running", "failed", "retraining"}
    /\ LET retrain == bm = "retraining" /\ phase = "DATA" IN
       /\ phase' = IF bm = "failed" THEN "HANGUP"
                   ELSE IF retrain THEN "HANDSHAKE" ELSE phase
       /\ deframer' = IF retrain THEN {} ELSE deframer
    /\ Goto("bmstep")
    /\ UNCHANGED <<greeted, cfg, mode, bm, bmRx, bm_nocarrier, v8, v8_done, v8_ok, v34,
                   tone, rx_guard, training, ppy_out, pppVars, lineVars>>

\* BM_FAILED ends the call; BM_RETRAINING drops the partial async state.
BmPollDown ==
    /\ pc = "audio" /\ bm \in {"running", "failed", "retraining"}
    /\ LET retrain == bm = "retraining" /\ phase = "DATA" IN
       /\ phase' = IF bm = "failed" THEN "HANGUP"
                   ELSE IF retrain THEN "HANDSHAKE" ELSE phase
       /\ deframer' = IF retrain THEN {} ELSE deframer
       /\ bm_nocarrier' = IF retrain THEN 0 ELSE bm_nocarrier
    /\ Goto("bmstep")
    /\ UNCHANGED <<greeted, cfg, mode, bm, bmRx, v8, v8_done, v8_ok, v34, tone,
                   rx_guard, training, ppy_out, pppVars, lineVars>>

\* BM_CONNECTED: the first sight of it flushes what the receiver made of the
\* handshake; half a second without carrier ends the call.
BmPollConnected ==
    /\ pc = "audio" /\ bm = "connected"
    /\ LET enters == phase # "DATA" IN
       /\ bmRx' = IF enters THEN {} ELSE bmRx
       /\ deframer' = IF enters THEN {} ELSE deframer
    /\ \/ bm_nocarrier' = 0                    \* bm_carrier
       \/ bm_nocarrier' = bm_nocarrier + 1
    /\ phase' = IF bm_nocarrier' >= NoCarrierFrames THEN "HANGUP" ELSE "DATA"
    /\ Goto("bmstep")
    /\ UNCHANGED <<greeted, cfg, mode, bm, v8, v8_done, v8_ok, v34, tone,
                   rx_guard, training, ppy_out, pppVars, lineVars>>

\* Mutant: bits are taken in every phase.
PutBits_AnyPhase(bits) == deframer \cup bits

\* call_put_bit, V.22bis and BinModem: nothing gets past it outside data mode.
PutBits(bits) == IF phase = "DATA" THEN deframer \cup bits ELSE deframer

\* Where the engine may be after one more message, and what its receiver
\* then holds: payload while connected, noise while it trains.
BmNext(st) ==
    CASE st = "running"    -> {"running", "connected", "failed", "agreed"}
      [] st = "connected"  -> {"connected", "retraining", "failed"}
      [] st = "retraining" -> {"retraining", "connected", "failed"}
      [] OTHER             -> {st}

BmHears(st, next) ==
    {"link" : x \in {st, next} \cap {"connected"}}
      \cup {"noise" : x \in {st, next} \cap {"running", "retraining"}}

\* bm_service, then bm_step for every sample.
BmStep ==
    /\ pc = "bmstep"
    /\ deframer' = PutBits(bmRx)
    /\ bm' \in BmNext(bm)
    /\ bmRx' \in SUBSET BmHears(bm, bm')
    /\ Goto("v8switch")
    /\ UNCHANGED <<greeted, cfg, phase, mode, bm_nocarrier, v8, v8_done, v8_ok,
                   v34, tone, rx_guard, training, ppy_out, pppVars, lineVars>>

\* V.8 over the whole message; call_v8_result records what it settled on.
V8Frame ==
    /\ pc = "engine" /\ phase = "V8"
    /\ \/ UNCHANGED <<v8_done, v8_ok>>
       \/ /\ v8
          /\ v8_done' = TRUE
          /\ \/ v8_ok' = 0                     \* non-V.8 call, or V.8 failed
             \/ \E mods \in SUBSET {"V22", "V34"} :
                  v8_ok' = IF cfg.use_v34 /\ "V34" \in mods THEN 2
                           ELSE IF "V22" \in mods THEN 1 ELSE 0
    /\ Goto("v8switch")
    /\ UNCHANGED <<greeted, cfg, phase, mode, bm, bmRx, bm_nocarrier, v8, v34,
                   tone, rx_guard, training, deframer, ppy_out, pppVars, lineVars>>

\* The answer sequence; when it ends inside a message the modem gets the rest.
ToneFrame ==
    /\ pc = "engine" /\ phase = "ANSWER_TONE"
    /\ tone' = tone - 1
    /\ IF tone' = 0
       THEN phase' = "HANDSHAKE" /\ \E next \in {"engine", "v8switch"} : Goto(next)
       ELSE UNCHANGED phase /\ Goto("v8switch")
    /\ UNCHANGED <<greeted, cfg, mode, bm, bmRx, bm_nocarrier, v8, v8_done, v8_ok,
                   v34, rx_guard, training, deframer, ppy_out, pppVars, lineVars>>

ModemTurn == pc = "engine" /\ phase \notin {"V8", "ANSWER_TONE"}

\* What v22bis_tx may make of its training state: only the timed segments
\* (S1, TIMED_S11, S1111) run out by themselves.
TxNext(tx) == IF tx = "timed" THEN {"timed", "normal"} ELSE {tx}

\* Squelched: the transmitter runs, the restarted receiver hears silence.  When
\* the squelch ends inside a message the modem gets the rest of it.
GuardedFrame ==
    /\ ModemTurn /\ rx_guard > 0
    /\ rx_guard' = rx_guard - 1
    /\ \E tx \in TxNext(training.tx) : training' = [training EXCEPT !.tx = tx]
    /\ \E next \in IF rx_guard' = 0 THEN {"engine", "v8switch"} ELSE {"v8switch"} : Goto(next)
    /\ UNCHANGED <<greeted, cfg, phase, mode, bm, bmRx, bm_nocarrier, v8, v8_done,
                   v8_ok, v34, tone, deframer, ppy_out, pppVars, lineVars>>

V22Turn == ModemTurn /\ rx_guard = 0 /\ mode = "V22"

\* v22bis_tx, then a v22bis_rx that reports nothing the call acts on: what the
\* receiver hears may start the transmitter's timed segments; it may commit to
\* a rate, reach normal operation, or lose the carrier and start again.
\* Bits come out of it in normal operation only.
V22Frame ==
    /\ V22Turn
    /\ \E tx \in TxNext(training.tx) :
         \/ training' = [tx |-> tx, rx |-> training.rx]
         \/ training' = [tx |-> tx, rx |-> "acquire"]
         \/ /\ training.rx = "acquire"
            /\ \E t \in {tx, "timed"}, rx \in {"acquire", "committed"} :
                 training' = [tx |-> t, rx |-> rx]
         \/ training.rx = "committed" /\ training' = [tx |-> tx, rx |-> "normal"]
    /\ deframer' \in {deframer} \cup
                     (IF training.rx = "normal" THEN {PutBits({"link"})} ELSE {})
    /\ Goto("v8switch")
    /\ UNCHANGED <<greeted, cfg, phase, mode, bm, bmRx, bm_nocarrier, v8, v8_done,
                   v8_ok, v34, tone, rx_guard, ppy_out, pppVars, lineVars>>

\* The far end asks for a retrain: call_status(V22BIS_STATUS_RETRAIN_OCCURRED)
\* resets the deframer and leaves data mode before another bit is decoded.
V22Retrain ==
    /\ V22Turn /\ training.rx = "normal"
    /\ training' = [tx |-> "timed", rx |-> "acquire"]
    /\ deframer' = {} /\ phase' = "HANDSHAKE"
    /\ Goto("v8switch")
    /\ UNCHANGED <<greeted, cfg, mode, bm, bmRx, bm_nocarrier, v8, v8_done, v8_ok,
                   v34, tone, rx_guard, ppy_out, pppVars, lineVars>>

\* v34_tx and v34_rx.  The first payload bit is what enters data mode.
V34Frame ==
    /\ ModemTurn /\ rx_guard = 0 /\ mode = "V34"
    /\ \/ UNCHANGED <<phase, deframer>>
       \/ phase' = "DATA" /\ deframer' = deframer \cup {"link"}
    /\ Goto("v8switch")
    /\ UNCHANGED <<greeted, cfg, mode, engineVars, ppy_out, pppVars, lineVars>>

-----------------------------------------------------------------------------
(* The end of process_audio: the V.8 outcome and the data-mode test.       *)

StartV22 ==
    /\ mode' = "V22" /\ phase' = "HANDSHAKE"
    /\ training' = [training EXCEPT !.rx = "acquire"]
    /\ rx_guard' = GuardFrames
    /\ UNCHANGED <<v8_ok, v34>>

StartV34 ==
    /\ mode' = "V34" /\ phase' = "HANDSHAKE" /\ v34' = TRUE
    /\ UNCHANGED <<v8_ok, rx_guard, training>>

\* Mutant: only the warning is logged.
V34Unavailable_LogOnly == UNCHANGED <<mode, phase, v8_ok, v34, rx_guard, training>>

\* v34_init returned NULL after V.8 had agreed on V.34.
V34Unavailable ==
    /\ v8_ok' = 1
    /\ mode' = "V22" /\ phase' = "HANDSHAKE"
    /\ training' = [training EXCEPT !.rx = "acquire"]
    /\ rx_guard' = GuardFrames
    /\ UNCHANGED v34

\* v34_init returned NULL when V.34 was forced: nothing is changed.
ForcedV34Unavailable == UNCHANGED <<mode, phase, v8_ok, v34, rx_guard, training>>

V8Switch ==
    /\ pc = "v8switch"
    /\ IF phase = "V8" /\ v8_done
       THEN CASE v8_ok = 2                 -> StartV34 \/ V34Unavailable
              [] v8_ok = 0 /\ cfg.use_v34  -> StartV34 \/ ForcedV34Unavailable
              [] OTHER                     -> StartV22
       ELSE UNCHANGED <<mode, phase, v8_ok, v34, rx_guard, training>>
    /\ Goto("detect")
    /\ UNCHANGED <<greeted, cfg, bm, bmRx, bm_nocarrier, v8, v8_done, tone,
                   deframer, ppy_out, pppVars, lineVars>>

Detect ==
    /\ pc = "detect"
    /\ IF /\ mode = "V22" /\ phase = "HANDSHAKE" /\ bm = "null"
          /\ training = [tx |-> "normal", rx |-> "normal"]
       THEN phase' = "DATA" /\ deframer' = {}
       ELSE UNCHANGED <<phase, deframer>>
    /\ greeted' = TRUE
    /\ Goto(IF greeted THEN "reply" ELSE "read")
    /\ UNCHANGED <<cfg, mode, engineVars, ppy_out, pppVars, lineVars>>

\* sm_ast_write_audio; the call ends when it fails.
Reply ==
    /\ pc = "reply"
    /\ \E next \in {"pump", "out"} : Goto(next)
    /\ UNCHANGED <<greeted, cfg, phase, mode, engineVars, deframer, ppy_out,
                   pppVars, lineVars>>

-----------------------------------------------------------------------------
(* pump_ppp, start_pppd and the check for a dead pppd.                     *)

Pumping  == pc \in {"pump", "idlepump"}
AfterPump == Goto(IF pc = "pump" THEN "reap" ELSE "read")

\* start_pppd is due: data mode, no echo, never started before.
PppdDue == phase = "DATA" /\ ~cfg.echo_data /\ cfg.enable_ppp /\ ~ppp_started

PumpSkips ==
    /\ Pumping
    /\ phase # "DATA" /\ ~ppp_fd /\ ~cfg.echo_data
    /\ AfterPump
    /\ UNCHANGED <<greeted, cfg, phase, mode, engineVars, deframer, ppy_out,
                   pppVars, lineVars>>

PumpCannotStartPppd ==
    /\ Pumping /\ PppdDue
    /\ phase' = "HANGUP"
    /\ AfterPump
    /\ UNCHANGED <<greeted, cfg, mode, engineVars, deframer, ppy_out, pppVars, lineVars>>

\* Start pppd if it is due; in data mode take bytes from the deframer, echo
\* them or stage them and write what pppd takes; then read pppd, whose end of
\* file forgets the descriptor.
Pump ==
    /\ Pumping
    /\ phase = "DATA" \/ ppp_fd \/ cfg.echo_data
    /\ IF PppdDue
       THEN pppd' = "alive" /\ pppd_pid' = TRUE /\ ppp_started' = TRUE
       ELSE UNCHANGED <<pppd, pppd_pid, ppp_started>>
    /\ \E taken \in SUBSET deframer, left \in SUBSET deframer :
         /\ IF phase = "DATA" THEN taken \cup left = deframer
                              ELSE taken = {} /\ left = deframer
         /\ deframer' = left
         /\ IF cfg.echo_data /\ taken # {}
            THEN UNCHANGED <<ppy_out, ppp_fd>>
            ELSE /\ ppy_out' \in IF phase = "DATA" /\ (ppp_fd \/ PppdDue)
                                 THEN SUBSET (ppy_out \cup taken)
                                 ELSE {ppy_out \cup taken}
                 /\ ppp_fd' \in {ppp_fd \/ PppdDue} \cup
                                (IF ppp_fd /\ ptyEof THEN {FALSE} ELSE {})
    /\ AfterPump
    /\ UNCHANGED <<greeted, cfg, phase, mode, engineVars, ptyEof, strayKill, lineVars>>

\* Mutants: the pid of the reaped pppd is kept; the exit is only logged.
Reap_KeepsPid ==
    /\ pc = "reap"
    /\ IF ppp_started /\ pppd_pid /\ pppd = "zombie"
       THEN pppd' = "gone" /\ Goto("out")
       ELSE UNCHANGED pppd /\ Goto("read")
    /\ UNCHANGED <<greeted, cfg, phase, mode, engineVars, deframer, ppy_out, ppp_fd,
                   pppd_pid, ppp_started, ptyEof, strayKill, lineVars>>

Reap_LogOnly ==
    /\ pc = "reap"
    /\ IF ppp_started /\ pppd_pid /\ pppd = "zombie"
       THEN pppd_pid' = FALSE /\ pppd' = "gone"
       ELSE UNCHANGED <<pppd_pid, pppd>>
    /\ Goto("read")
    /\ UNCHANGED <<greeted, cfg, phase, mode, engineVars, deframer, ppy_out, ppp_fd,
                   ppp_started, ptyEof, strayKill, lineVars>>

\* waitpid(pppd_pid, WNOHANG) answers the pid only if it finds a zombie.
Reap ==
    /\ pc = "reap"
    /\ IF ppp_started /\ pppd_pid /\ pppd = "zombie"
       THEN pppd_pid' = FALSE /\ pppd' = "gone" /\ Goto("out")
       ELSE UNCHANGED <<pppd_pid, pppd>> /\ Goto("read")
    /\ UNCHANGED <<greeted, cfg, phase, mode, engineVars, deframer, ppy_out, ppp_fd,
                   ppp_started, ptyEof, strayKill, lineVars>>

-----------------------------------------------------------------------------
(* After "out:": release the engines, then stop_pppd.                      *)

\* Mutant: stop_pppd trusts SIGTERM and does not wait.
Out_SigtermOnly ==
    /\ pc = "out"
    /\ bm' = "null" /\ bmRx' = {} /\ v8' = FALSE /\ v34' = FALSE
    /\ ppp_fd' = FALSE /\ pppd_pid' = FALSE
    /\ strayKill' = (strayKill \/ (pppd_pid /\ pppd = "gone"))
    /\ Goto("done")
    /\ UNCHANGED <<greeted, cfg, phase, mode, bm_nocarrier, v8_done, v8_ok, tone,
                   rx_guard, training, deframer, ppy_out, ppp_started, pppd, ptyEof, lineVars>>

Out ==
    /\ pc = "out"
    /\ bm' = "null" /\ bmRx' = {} /\ v8' = FALSE /\ v34' = FALSE
    /\ ppp_fd' = FALSE
    /\ strayKill' = (strayKill \/ (pppd_pid /\ pppd = "gone"))  \* SIGTERM
    /\ LET running == pppd_pid /\ pppd = "alive" IN              \* waitpid = 0
       /\ pppd_pid' = running
       /\ pppd' = IF pppd_pid /\ pppd = "zombie" THEN "gone" ELSE pppd
       /\ Goto(IF running THEN "kill" ELSE "done")
    /\ UNCHANGED <<greeted, cfg, phase, mode, bm_nocarrier, v8_done, v8_ok, tone,
                   rx_guard, training, deframer, ppy_out, ppp_started, ptyEof, lineVars>>

\* 200 ms after SIGTERM: SIGKILL, then wait for the child to go.
Kill ==
    /\ pc = "kill"
    /\ strayKill' = (strayKill \/ pppd = "gone")
    /\ pppd' = "gone" /\ pppd_pid' = FALSE
    /\ Goto("done")
    /\ UNCHANGED <<greeted, cfg, phase, mode, engineVars, deframer, ppy_out, ppp_fd,
                   ppp_started, ptyEof, lineVars>>

-----------------------------------------------------------------------------
(* Outside the call: pppd and its relay (sm_pppd_shim_main), the far end.  *)

\* With SIGCHLD ignored the kernel keeps no zombie for waitpid to find.
PppdExits ==
    /\ pppd = "alive"
    /\ pppd' = IF cfg.sigchld_ignored THEN "gone" ELSE "zombie"
    /\ UNCHANGED <<pc, greeted, cfg, phase, mode, engineVars, deframer, ppy_out,
                   ppp_fd, pppd_pid, ppp_started, ptyEof, strayKill, lineVars>>

RelayCloses ==
    /\ pppd # "none" /\ ~ptyEof
    /\ ptyEof' = TRUE
    /\ UNCHANGED <<pc, greeted, cfg, phase, mode, engineVars, deframer, ppy_out,
                   ppp_fd, pppd_pid, ppp_started, pppd, strayKill, lineVars>>

FarEndStops ==
    /\ \/ farEnd = "up" /\ farEnd' = "silent"
       \/ farEnd # "closed" /\ farEnd' = "closed"
    /\ UNCHANGED <<pc, greeted, cfg, phase, mode, engineVars, deframer, ppy_out,
                   pppVars, timeouts>>

\* sm_call_run has returned and its process is about to exit.
Finished == pc = "done" /\ UNCHANGED vars

-----------------------------------------------------------------------------

ReadStep   == GreetingFails \/ GreetingMessage \/ ReadTimesOut \/ ReadMessage \/ LoopEnds
BmPoll     == NoBm \/ BmPollHandsBack \/ BmPollDown \/ BmPollConnected
EngineStep == BmStep \/ V8Frame \/ ToneFrame \/ GuardedFrame \/ V22Frame
                \/ V22Retrain \/ V34Frame
FrameEnd   == V8Switch \/ Detect \/ Reply
PumpStep   == PumpSkips \/ PumpCannotStartPppd \/ Pump \/ Reap
Cleanup    == Out \/ Kill

\* The call's thread: every wait in it has a timeout, so it always moves on.
Thread == ReadStep \/ BmPoll \/ EngineStep \/ FrameEnd \/ PumpStep \/ Cleanup

Environment == PppdExits \/ RelayCloses \/ FarEndStops

Next == Thread \/ Environment \/ Finished

Spec == Init /\ [][Next]_vars
FairSpec == Spec /\ WF_vars(Thread)

-----------------------------------------------------------------------------
(* What must hold.                                                         *)

Live == pc \notin {"out", "kill", "done"}

\* One engine owns the line.  While BinModem has it (c->bm, sm_call.c:682)
\* neither V.8 nor V.34 exists and the squelch is off; V.34 runs exactly when
\* the mode says so, and then rx_guard cannot feed V.22bis instead (line 746);
\* a call in the V.8 phase has something to run V.8 with.
EngineOwnsLine ==
    Live =>
        /\ bm # "null" => mode = "V22" /\ ~v8 /\ ~v34 /\ rx_guard = 0
        /\ v34 <=> mode = "V34"
        /\ mode = "V34" => rx_guard = 0 /\ phase \notin {"V8", "ANSWER_TONE"}
        /\ phase = "V8" => bm # "null" \/ v8

\* Nothing an engine made of a handshake reaches the byte path, and nothing
\* decoded before a retrain survives it: outside data mode the deframer is
\* empty (call_put_bit, call_status, and the order of poll, service and step
\* that the comment at sm_call.c:689 insists on).
DataModeBytesOnly ==
    /\ "noise" \notin deframer \cup ppy_out
    /\ phase \notin {"DATA", "HANGUP"} => deframer = {}

\* The half second without carrier that ends a BinModem call is half a second
\* of one stay in data mode: the count never survives a retrain (sm_call.c:618).
NoCarrierClock == bm_nocarrier > 0 => phase \in {"DATA", "HANGUP"}

\* Back at the top of the loop in data mode, a PPP call has had its pppd
\* started, whichever engine brought the link up (sm_call.c:381).
DataModeHasPppd ==
    pc = "read" /\ phase = "DATA" /\ cfg.enable_ppp /\ ~cfg.echo_data => ppp_started

\* Once V.8 has settled on a modulation the call offers, the message in which
\* it did ends with that modem, or the V.22bis fallback, running
\* (sm_call.c:789-899).
V8OutcomeActedOn ==
    pc = "detect" /\ v8_done /\ (v8_ok # 0 \/ ~cfg.use_v34) => phase # "V8"

\* A call that got past its UUID leaves nothing behind: no engine, no
\* descriptor, no pppd (sm_call.c:1113-1165).
CleanExit ==
    pc = "done" /\ greeted =>
        bm = "null" /\ ~v8 /\ ~v34 /\ ~ppp_fd /\ ~pppd_pid /\ pppd # "alive"

\* Where waitpid can find an exited child, stop_pppd signals a process that is
\* still the call's own: the pid is forgotten when waitpid has reaped it
\* (sm_call.c:1107).
NoStraySignal == ~cfg.sigchld_ignored => ~strayKill

\* The call ends once the far end has nothing more to say, however far it had
\* got: every wait has a timeout and idle reads are counted (sm_call.c:1052).
CallEnds == farEnd # "up" ~> pc = "done"

\* Where waitpid can find an exited child, pppd's death ends the call, whatever
\* the line and the relay do meanwhile (sm_call.c:1100).
PppdDeathNoticed ==
    ~cfg.sigchld_ignored /\ pppd \in {"zombie", "gone"} ~> pc = "done"

\* "If pppd died, the data path is gone: end the call." (sm_call.c:1100)
PppdDeathEndsCall == pppd \in {"zombie", "gone"} ~> pc = "done"

\* The promise to pppd, in terms of the call's state.
Link == IF pc = "done" THEN "released"
        ELSE IF pc \in {"out", "kill"} \/ phase = "HANGUP" THEN "over"
        ELSE IF phase = "DATA" THEN "up" ELSE "down"

Process == IF pppd \in {"zombie", "gone"} THEN "exited" ELSE pppd

Session == INSTANCE PppSession WITH link <- Link, pppd <- Process

\* The call keeps PppSession's promise: pppd is started once, with the link
\* up; a call that is over stays over (call_put_bit re-enters data mode from
\* any phase, line 122); and it is released, pppd gone (stop_pppd).
KeepsSession == Session!SFairSpec

=============================================================================
