------------------------------- MODULE V22bis -------------------------------
(***************************************************************************)
(* The training of two V.22bis modems, src/src/modem/v22bis: training_get  *)
(* and getbaud send one symbol per tick, process_half_baud hears the       *)
(* symbol the other end sent Delay ticks ago.  The ends are independent    *)
(* machines that only meet on the line, so every agreement between them    *)
(* rests on the symbol counts, which are the code's own.                   *)
(*                                                                         *)
(* A symbol is abstracted to the segment it belongs to.  The demodulator   *)
(* hears a segment at once, except where the code counts: the carrier, the *)
(* symbols of acquisition, unscrambled ones, S1 and the ones of 2400 b/s.  *)
(* S1 comes partly too early for the answerer, which spends its first 40   *)
(* symbols on acquisition: it may hear the rest of it or miss it.          *)
(* Nothing in the repository starts a retrain, so the S1 of a retrain does *)
(* not occur.                                                              *)
(***************************************************************************)
EXTENDS Naturals, Sequences

CONSTANTS
    Rates,     \* the bit rates either end may be configured for
    Delays,    \* symbols between the ends
    Starts,    \* symbols by which the caller starts late
    DipLength  \* symbols of silence the answerer hears once, in data mode

ASSUME V22bisAssumption ==
    /\ Rates \subseteq {1200, 2400}
    /\ Delays \subseteq Nat /\ Starts \subseteq Nat
    /\ DipLength \in Nat \ {0}

VARIABLES
    modem,   \* the v22bis_state_t of each end
    line,    \* what each end has sent that has not arrived
    late,    \* symbols until the caller starts
    dip      \* symbols left of the dip, and whether it is still to come

vars == <<modem, line, late, dip>>

Ends == {"caller", "answerer"}
Other(e) == IF e = "caller" THEN "answerer" ELSE "caller"

TxTraining == {"INITIAL_SILENCE", "INITIAL_TIMED_SILENCE", "U11", "U0011",
               "S11", "TIMED_S11", "S1111", "NORMAL"}
RxTraining == {"SYMBOL_ACQUISITION", "UNSCRAMBLED_ONES",
               "UNSCRAMBLED_ONES_SUSTAINING", "SCRAMBLED_ONES_AT_1200",
               "SCRAMBLED_ONES_AT_1200_SUSTAINING",
               "WAIT_FOR_SCRAMBLED_ONES_AT_2400", "NORMAL"}
Signals == {"silence", "U11", "S1", "S11", "S1111", "data1200", "data2400"}

ms_to_symbols(t) == (t * 600) \div 1000

Acquisition == 40   \* symbols of SYMBOL_ACQUISITION
S1Needed    == 23   \* alternations among 31 that are S1
S1Window    == 31
S1Lucky     == 15   \* with fewer of S1, scrambled ones never make up 23
OnesNeeded  == 9    \* symbols of 0xF that are 2400 b/s
CarrierLoss == 60   \* 800 samples

-----------------------------------------------------------------------------
\* v22bis_rx_restart: the receiver, and the rate both directions use.
RxRestart(m) ==
    [m EXCEPT !.rx = "SYMBOL_ACQUISITION", !.rxCount = 0, !.present = FALSE,
              !.down = 0, !.sixteen = FALSE, !.repeats = 0, !.heard = 0,
              !.since = 0, !.negotiated = 1200]

Restarted(e, rate) ==
    RxRestart([calling |-> e = "caller", bit_rate |-> rate, negotiated |-> 0,
               tx |-> IF e = "caller" THEN "INITIAL_SILENCE"
                                      ELSE "INITIAL_TIMED_SILENCE",
               txCount |-> 0, rx |-> "", rxCount |-> 0, present |-> FALSE,
               down |-> 0, sixteen |-> FALSE, repeats |-> 0, heard |-> 0,
               since |-> 0])

Init ==
    /\ \E rate \in [Ends -> Rates] :
          modem = [e \in Ends |-> Restarted(e, rate[e])]
    /\ \E d \in Delays : line = [e \in Ends |-> [i \in 1..d |-> "silence"]]
    /\ late \in Starts
    /\ dip = [left |-> 0, comes |-> TRUE]

-----------------------------------------------------------------------------
(* The transmitter.                                                        *)
SetTx(m, training) == [m EXCEPT !.tx = training, !.txCount = 0]

\* The segment the next symbol belongs to.
Signal(m) ==
    CASE m.tx \in {"INITIAL_SILENCE", "INITIAL_TIMED_SILENCE"} -> "silence"
      [] m.tx = "U11"                 -> "U11"
      [] m.tx = "U0011"               -> "S1"
      [] m.tx \in {"S11", "TIMED_S11"} -> "S11"
      [] m.tx = "S1111"               -> "S1111"
      [] m.tx = "NORMAL"              ->
            IF m.negotiated = 1200 THEN "data1200" ELSE "data2400"

\* A mutant: 20 ms of ones at 2400 b/s.
Duration_ShortS1111(m) ==
    CASE m.tx = "INITIAL_TIMED_SILENCE" -> ms_to_symbols(75)
      [] m.tx = "U0011"                 -> ms_to_symbols(100)
      [] m.tx = "TIMED_S11"             -> ms_to_symbols(756)
      [] m.tx = "S1111"                 -> ms_to_symbols(10)

\* How long a timed segment lasts, and what follows it.
Duration(m) ==
    CASE m.tx = "INITIAL_TIMED_SILENCE" -> ms_to_symbols(75)
      [] m.tx = "U0011"                 -> ms_to_symbols(100)
      [] m.tx = "TIMED_S11"             -> ms_to_symbols(756)
      [] m.tx = "S1111"                 -> ms_to_symbols(200)

Following(m) ==
    CASE m.tx = "INITIAL_TIMED_SILENCE" -> SetTx(m, "U11")
      [] m.tx = "U0011" /\ m.calling    -> SetTx(m, "S11")
      [] m.tx = "U0011" /\ ~m.calling   ->
            [m EXCEPT !.tx = "TIMED_S11",
                      !.txCount = ms_to_symbols(756 - (600 - 100))]
      [] m.tx = "TIMED_S11"             ->
            SetTx(m, IF m.negotiated = 2400 THEN "S1111" ELSE "NORMAL")
      [] m.tx = "S1111"                 -> SetTx(m, "NORMAL")

TxStep(m) ==
    IF m.tx \in {"INITIAL_SILENCE", "U11", "S11", "NORMAL"} THEN m
    ELSE LET n == [m EXCEPT !.txCount = @ + 1]
         IN IF n.txCount >= Duration(m) THEN Following(n) ELSE n

-----------------------------------------------------------------------------
(* The receiver: each operator is a state of process_half_baud and gives   *)
(* the modems that one symbol may lead to.                                 *)
SetRx(m, training) == [m EXCEPT !.rx = training, !.rxCount = 0, !.repeats = 0]

Acquire(m) ==
    IF m.rxCount + 1 < Acquisition THEN [m EXCEPT !.rxCount = @ + 1]
    ELSE [m EXCEPT !.rxCount = @ + 1, !.repeats = 0, !.negotiated = 1200,
                   !.rx = IF m.calling THEN "UNSCRAMBLED_ONES"
                                       ELSE "SCRAMBLED_ONES_AT_1200"]

\* The caller listens to unscrambled ones, and answers them when the last
\* 456 ms of the 611 were nothing else.
UnscrambledOnes(m, x) ==
    LET n == [m EXCEPT !.rxCount = @ + 1,
                       !.repeats = IF x = "U11" THEN @ + 1 ELSE 0]
        answered == IF n.repeats < ms_to_symbols(456) THEN n
                    ELSE SetTx(n, IF n.bit_rate = 2400 THEN "U0011" ELSE "S11")
    IN IF n.rxCount = ms_to_symbols(155 + 456)
       THEN SetRx(answered, "UNSCRAMBLED_ONES_SUSTAINING") ELSE n

Sustaining(m, x) ==
    IF x = "U11" THEN m
    ELSE SetRx(SetTx(m, "TIMED_S11"), "SCRAMBLED_ONES_AT_1200")

\* The window of raw_history: how much of S1 is in it, and how long ago.
Listen(m, x) ==
    IF x = "S1" THEN [m EXCEPT !.heard = @ + 1, !.since = 0]
    ELSE IF m.since >= S1Window - S1Needed THEN [m EXCEPT !.heard = 0]
    ELSE [m EXCEPT !.since = IF m.heard > 0 THEN @ + 1 ELSE 0]

\* S1 is certain with 23 alternations, possible while scrambled ones can make
\* up for the missing ones.  16 symbols are counted before it is heard again.
HearS1(m) ==
    LET n == [m EXCEPT !.heard = S1Needed - 15, !.rxCount = 0, !.repeats = 0]
    IN IF n.bit_rate # 2400 THEN n
       ELSE [IF n.calling THEN n ELSE SetTx(n, "U0011")
                EXCEPT !.negotiated = 2400]

\* A mutant: only the receiver commits, the transmitter goes on as it was.
CommitTo1200_RxOnly(m) ==
    [m EXCEPT !.rx = IF m.calling THEN "NORMAL"
                     ELSE "SCRAMBLED_ONES_AT_1200_SUSTAINING"]

\* No S1 within 400 ms.
CommitTo1200(m) ==
    [SetTx(m, "TIMED_S11") EXCEPT
        !.rx = IF m.calling THEN "NORMAL"
                            ELSE "SCRAMBLED_ONES_AT_1200_SUSTAINING"]

AwaitS1(m) ==
    LET quiet == IF m.rxCount >= ms_to_symbols(400) THEN CommitTo1200(m) ELSE m
    IN IF m.heard > S1Needed THEN {HearS1(m)}
       ELSE IF m.heard >= S1Lucky THEN {HearS1(m), quiet}
       ELSE {quiet}

Await2400(m) ==
    IF m.rxCount < ms_to_symbols(IF m.calling THEN 100 + 450 ELSE 450) THEN m
    ELSE [m EXCEPT !.sixteen = TRUE, !.repeats = 0,
                   !.rx = "WAIT_FOR_SCRAMBLED_ONES_AT_2400"]

\* A mutant: S1 is searched for, and its absence noted, at either rate.
ScrambledOnes_ForgetsS1(m, x) ==
    AwaitS1([Listen(m, x) EXCEPT !.rxCount = @ + 1])

ScrambledOnes(m, x) ==
    IF m.negotiated = 1200
    THEN AwaitS1([Listen(m, x) EXCEPT !.rxCount = @ + 1])
    ELSE {Await2400([m EXCEPT !.rxCount = @ + 1])}

ScrambledSustaining(m) ==
    IF m.rxCount + 1 > ms_to_symbols(270 + 765)
    THEN SetRx(m, "NORMAL") ELSE [m EXCEPT !.rxCount = @ + 1]

\* Nine symbols of ones; data at 2400 b/s may look like them.
Wait2400(m, x) ==
    LET counted == IF m.repeats + 1 >= OnesNeeded THEN SetRx(m, "NORMAL")
                   ELSE [m EXCEPT !.repeats = @ + 1]
        other == [m EXCEPT !.repeats = 0]
    IN CASE x = "S1111"    -> {counted}
         [] x = "data2400" -> {counted, other}
         [] OTHER          -> {other}

Decide(m, x) ==
    CASE m.rx = "SYMBOL_ACQUISITION"     -> {Acquire(m)}
      [] m.rx = "UNSCRAMBLED_ONES"       -> {UnscrambledOnes(m, x)}
      [] m.rx = "UNSCRAMBLED_ONES_SUSTAINING" -> {Sustaining(m, x)}
      [] m.rx = "SCRAMBLED_ONES_AT_1200" -> ScrambledOnes(m, x)
      [] m.rx = "SCRAMBLED_ONES_AT_1200_SUSTAINING" -> {ScrambledSustaining(m)}
      [] m.rx = "WAIT_FOR_SCRAMBLED_ONES_AT_2400" -> Wait2400(m, x)
      [] m.rx = "NORMAL"                 -> {m}

\* v22bis_rx: the carrier comes up with the first sound and is lost after
\* 100 ms without; between the two the receiver goes on deciding.
RxStep(m, x) ==
    IF ~m.present
    THEN {IF x = "silence" THEN m ELSE [m EXCEPT !.present = TRUE, !.down = 0]}
    ELSE IF x = "silence" /\ m.down + 1 >= CarrierLoss THEN {RxRestart(m)}
    ELSE Decide([m EXCEPT !.down = IF x = "silence" THEN @ + 1 ELSE 0], x)

-----------------------------------------------------------------------------
Trained(m) == m.tx = "NORMAL" /\ m.rx = "NORMAL"

\* What comes off the line at e this symbol.
Sent(e) == IF e = "caller" /\ late > 0 THEN "silence" ELSE Signal(modem[e])
Queue(e) == Append(line[e], Sent(e))
Arrives(e) ==
    IF dip.left > 0 /\ e = "answerer" THEN "silence" ELSE Head(Queue(Other(e)))

\* v22bis_tx and then v22bis_rx at both ends.
Step(e) ==
    IF e = "caller" /\ late > 0 THEN {modem[e]}
    ELSE RxStep(TxStep(modem[e]), Arrives(e))

Tick ==
    /\ \E c \in Step("caller"), a \in Step("answerer") :
          modem' = [caller |-> c, answerer |-> a]
    /\ line' = [e \in Ends |-> Tail(Queue(e))]
    /\ late' = IF late > 0 THEN late - 1 ELSE 0
    /\ dip' = [dip EXCEPT !.left = IF @ > 0 THEN @ - 1 ELSE 0]

\* The line goes silent towards the answerer.
Dip ==
    /\ dip.comes /\ \A e \in Ends : Trained(modem[e])
    /\ dip' = [left |-> DipLength, comes |-> FALSE]
    /\ UNCHANGED <<modem, line, late>>

Next == Tick \/ Dip

Spec == Init /\ [][Next]_vars

\* Samples keep coming.
FairSpec == Spec /\ WF_vars(Tick)

-----------------------------------------------------------------------------
TypeOK ==
    /\ \A e \in Ends :
          /\ modem[e].tx \in TxTraining /\ modem[e].rx \in RxTraining
          /\ modem[e].negotiated \in {1200, 2400}
          /\ modem[e].txCount \in 0..ms_to_symbols(756)
          /\ modem[e].rxCount \in 0..ms_to_symbols(270 + 765)
    /\ line \in [Ends -> Seq(Signals)]

\* An end works at 2400 only if both are configured for it: S1 is sent by an end
\* that may, and answered only by one that may (v22bis_rx.c, S1 heard).
Consent ==
    \A e \in Ends :
        modem[e].negotiated = 2400 => \A f \in Ends : modem[f].bit_rate = 2400

\* Once a receiver delivers bits of a trained far end, it decides with the
\* constellation the far end sends with: nothing else tells them the rate.  And
\* it is 2400 at either end only if both are configured for it.
RatesAgree ==
    /\ \A e \in Ends :
          modem[e].rx = "NORMAL" /\ Trained(modem[Other(e)])
              => (modem[e].sixteen <=> modem[Other(e)].negotiated = 2400)
    /\ Consent

\* No byte is sent to a receiver that is still training: when user data
\* arrives, process_half_baud is in normal operation.
DataFindsListener ==
    \A e \in Ends :
        Arrives(e) \in {"data1200", "data2400"} => modem[e].rx = "NORMAL"

\* Whatever the two rates, the delay and whether the answerer hears what is
\* left of S1, both ends come to normal operation in both directions.
BothTrain == <>[](\A e \in Ends : Trained(modem[e]))

=============================================================================
