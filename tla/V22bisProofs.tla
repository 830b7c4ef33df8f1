---------------------------- MODULE V22bisProofs ----------------------------
(***************************************************************************)
(* Theorems about V22bis, for any rates, any delays of the line and any    *)
(* late start: the counts of both sequencers stay within the segments they *)
(* time, and no end works at a rate that either is not configured for.     *)
(***************************************************************************)
EXTENDS V22bis, Integers, TLAPS

USE V22bisAssumption

-----------------------------------------------------------------------------
(* The inductive invariant: of one end, whose far end is configured for    *)
(* far, and of the line.                                                   *)

\* The fields of v22bis_state_t that the model has, and those the proofs read.
Fields == {"calling", "bit_rate", "negotiated", "tx", "txCount", "rx", "rxCount",
           "present", "down", "sixteen", "repeats", "heard", "since"}
Modem(m) ==
    /\ DOMAIN m = Fields
    /\ m.bit_rate \in Rates /\ m.negotiated \in {1200, 2400} /\ m.heard \in Nat
    /\ m.tx \in TxTraining /\ m.txCount \in Nat
    /\ m.rx \in RxTraining /\ m.rxCount \in Nat

\* The transmitter counts in the segments that are timed, and no further.
TxLimit(training) ==
    CASE training = "INITIAL_TIMED_SILENCE" -> 45
      [] training = "U0011"                 -> 60
      [] training = "TIMED_S11"             -> 453
      [] training = "S1111"                 -> 120
      [] OTHER                              -> 1
TxCounts(m) == m.txCount < TxLimit(m.tx)

\* The receiver counts to the end of its state; the count it leaves
\* acquisition and the search for S1 with goes on in the next.
RxLimit(training, rate) ==
    CASE training = "SYMBOL_ACQUISITION"     -> Acquisition
      [] training = "UNSCRAMBLED_ONES"       -> 366
      [] training = "SCRAMBLED_ONES_AT_1200" -> IF rate = 1200 THEN 240 ELSE 330
      [] OTHER                               -> 622
RxCounts(m) == m.rxCount < RxLimit(m.rx, m.negotiated)

\* Who sends S1 may, who has heard some has heard it from one that may, and
\* who works at 2400 has done both.
Agreed(m, far) ==
    /\ m.tx = "U0011" => m.bit_rate = 2400
    /\ m.heard > 0 => far = 2400
    /\ m.negotiated = 2400 => m.bit_rate = 2400 /\ far = 2400

\* All but the count of the receiver, which is judged after it has counted.
Near(m, far) == Modem(m) /\ TxCounts(m) /\ Agreed(m, far)
Sound(m, far) == Near(m, far) /\ RxCounts(m)

\* S1 is on the line only from an end that may send it.
Carried ==
    /\ line \in [Ends -> Seq(Signals)]
    /\ \A e \in Ends : \A i \in 1..Len(line[e]) :
          line[e][i] = "S1" => modem[e].bit_rate = 2400

IInv == Carried /\ \A e \in Ends : Sound(modem[e], modem[Other(e)].bit_rate)


-----------------------------------------------------------------------------
(* One end.                                                                *)

\* 600 symbols a second.
LEMMA Symbols ==
  /\ ms_to_symbols(75) = 45 /\ ms_to_symbols(100) = 60 /\ ms_to_symbols(200) = 120
  /\ ms_to_symbols(400) = 240 /\ ms_to_symbols(450) = 270 /\ ms_to_symbols(456) = 273
  /\ ms_to_symbols(756) = 453 /\ ms_to_symbols(756 - (600 - 100)) = 153
  /\ ms_to_symbols(155 + 456) = 366 /\ ms_to_symbols(100 + 450) = 330
  /\ ms_to_symbols(270 + 765) = 621
  BY SMT DEF ms_to_symbols

\* What the receiver has is not the transmitter's business.
SameRx(m, n) == /\ n.rx = m.rx /\ n.rxCount = m.rxCount /\ n.negotiated = m.negotiated
                /\ n.heard = m.heard /\ n.bit_rate = m.bit_rate /\ n.calling = m.calling
SameTx(m, n) == n.tx = m.tx /\ n.txCount = m.txCount /\ n.bit_rate = m.bit_rate
                /\ n.calling = m.calling

\* A segment begins at its first symbol.
LEMMA SetTxIs ==
  ASSUME NEW far, NEW m, Modem(m), Agreed(m, far), NEW training \in TxTraining,
         training = "U0011" => m.bit_rate = 2400
  PROVE  /\ Near(SetTx(m, training), far) /\ SameRx(m, SetTx(m, training))
         /\ SetTx(m, training).tx = training
<1> DEFINE n == SetTx(m, training)
<1>1. Modem(n) /\ SameRx(m, n) /\ n.tx = training /\ n.txCount = 0
  BY DEF SetTx, Modem, Fields, SameRx
<1> HIDE DEF n
<1>2. TxCounts(n)
  BY <1>1 DEF TxCounts, TxLimit
<1>3. Agreed(n, far)
  BY <1>1 DEF Agreed, SameRx
<1> QED BY <1>1, <1>2, <1>3 DEF Near, n

\* So does a state of the receiver.
LEMMA SetRxIs ==
  ASSUME NEW far, NEW m, Near(m, far), NEW training \in RxTraining
  PROVE  /\ Sound(SetRx(m, training), far) /\ SameTx(m, SetRx(m, training))
         /\ SetRx(m, training).negotiated = m.negotiated
<1> DEFINE n == SetRx(m, training)
<1>1. /\ Modem(n) /\ SameTx(m, n) /\ n.rx = training /\ n.rxCount = 0
      /\ n.negotiated = m.negotiated /\ n.heard = m.heard
  BY DEF SetRx, Modem, Fields, Near, SameTx
<1> HIDE DEF n
<1>2. TxCounts(n)
  BY <1>1 DEF TxCounts, SameTx, Near
<1>3. RxCounts(n)
  BY <1>1 DEF RxCounts, RxLimit, Acquisition
<1>4. Agreed(n, far)
  BY <1>1 DEF Agreed, SameTx, Near
<1> QED BY <1>1, <1>2, <1>3, <1>4 DEF Near, Sound, n

\* What follows a timed segment.
LEMMA FollowingIs ==
  ASSUME NEW far, NEW m, Modem(m), Agreed(m, far),
         m.tx \in {"INITIAL_TIMED_SILENCE", "U0011", "TIMED_S11", "S1111"}
  PROVE  Near(Following(m), far) /\ SameRx(m, Following(m))
<1> DEFINE f == Following(m)
<1>0. {"U11", "S11", "S1111", "NORMAL"} \subseteq TxTraining
  BY DEF TxTraining
<1>1. CASE m.tx = "INITIAL_TIMED_SILENCE"
  <2>1. f = SetTx(m, "U11")
    BY <1>1 DEF Following
  <2> QED BY <1>0, <2>1, SetTxIs
<1>2. CASE m.tx = "U0011" /\ m.calling
  <2>1. f = SetTx(m, "S11")
    BY <1>2 DEF Following
  <2> QED BY <1>0, <2>1, SetTxIs
<1>3. CASE m.tx = "U0011" /\ ~m.calling
  <2>1. f = [m EXCEPT !.tx = "TIMED_S11", !.txCount = ms_to_symbols(756 - (600 - 100))]
    BY <1>3 DEF Following
  <2>2. Modem(f) /\ SameRx(m, f) /\ f.tx = "TIMED_S11" /\ f.txCount = 153
    BY <2>1, Symbols DEF Modem, Fields, SameRx, TxTraining
  <2> HIDE DEF f
  <2>3. TxCounts(f)
    BY <2>2 DEF TxCounts, TxLimit
  <2>4. Agreed(f, far)
    BY <2>2 DEF Agreed, SameRx
  <2> QED BY <2>2, <2>3, <2>4 DEF Near, f
<1>4. CASE m.tx = "TIMED_S11"
  <2> DEFINE next == IF m.negotiated = 2400 THEN "S1111" ELSE "NORMAL"
  <2>1. f = SetTx(m, next)
    BY <1>4 DEF Following
  <2>2. next \in TxTraining /\ next # "U0011"
    BY <1>0
  <2> HIDE DEF next
  <2> QED BY <2>1, <2>2, SetTxIs
<1>5. CASE m.tx = "S1111"
  <2>1. f = SetTx(m, "NORMAL")
    BY <1>5 DEF Following
  <2> QED BY <1>0, <2>1, SetTxIs
<1> QED BY <1>1, <1>2, <1>3, <1>4, <1>5

\* The transmitter counts one symbol, or comes to the next segment.
LEMMA TxStepIs ==
  ASSUME NEW far, NEW m, Near(m, far)
  PROVE  Near(TxStep(m), far) /\ SameRx(m, TxStep(m))
<1> DEFINE n == [m EXCEPT !.txCount = @ + 1]
           limit == Duration(m)
<1>1. CASE m.tx \in {"INITIAL_SILENCE", "U11", "S11", "NORMAL"}
  BY <1>1 DEF TxStep, SameRx
<1>2. CASE m.tx \notin {"INITIAL_SILENCE", "U11", "S11", "NORMAL"}
  <2>1. m.tx \in {"INITIAL_TIMED_SILENCE", "U0011", "TIMED_S11", "S1111"}
    BY <1>2 DEF Near, Modem, TxTraining
  <2>2. limit = TxLimit(m.tx) /\ limit \in Nat
    BY <2>1, Symbols DEF Duration, TxLimit
  <2>3. Modem(n) /\ SameRx(m, n) /\ n.tx = m.tx /\ n.txCount = m.txCount + 1
    BY DEF Modem, Fields, Near, SameRx
  <2>4. TxStep(m) = IF n.txCount >= limit THEN Following(n) ELSE n
    BY <1>2 DEF TxStep
  <2>5. Agreed(n, far)
    BY <2>3 DEF Agreed, Near, SameRx
  <2> HIDE DEF n, limit
  <2>6. CASE n.txCount >= limit
    <3>1. Near(Following(n), far) /\ SameRx(n, Following(n))
      BY <2>1, <2>3, <2>5, FollowingIs
    <3>2. TxStep(m) = Following(n)
      BY <2>4, <2>6
    <3> QED BY <2>3, <3>1, <3>2 DEF SameRx
  <2>7. CASE ~(n.txCount >= limit)
    <3>1. TxCounts(n)
      BY <2>2, <2>3, <2>7 DEF TxCounts, Modem
    <3> QED BY <2>3, <2>4, <2>5, <2>7, <3>1 DEF Near
  <2> QED BY <2>6, <2>7
<1> QED BY <1>1, <1>2

-----------------------------------------------------------------------------
(* The receiver, state by state.                                           *)

\* What a symbol leaves of an end: what it is, and the invariant.
Kept(m, n, far) == Sound(n, far) /\ n.bit_rate = m.bit_rate

\* A carrier that is lost forgets what was heard, and the rate with it.
LEMMA RxRestartKeeps ==
  ASSUME NEW far, NEW m, Sound(m, far)
  PROVE  Kept(m, RxRestart(m), far)
<1> DEFINE n == RxRestart(m)
<1>1. /\ Modem(n) /\ SameTx(m, n) /\ n.rx = "SYMBOL_ACQUISITION" /\ n.rxCount = 0
      /\ n.heard = 0 /\ n.negotiated = 1200
  <2>1. Modem(m)
    BY DEF Sound, Near
  <2>2. DOMAIN n = Fields
    <3> DEFINE k == [m EXCEPT !.rx = "SYMBOL_ACQUISITION", !.rxCount = 0,
                              !.present = FALSE, !.down = 0, !.sixteen = FALSE]
    <3>1. n = [k EXCEPT !.repeats = 0, !.heard = 0, !.since = 0, !.negotiated = 1200]
      BY DEF RxRestart
    <3>2. DOMAIN k = Fields
      BY <2>1 DEF Modem
    <3> HIDE DEF k
    <3> QED BY <3>1, <3>2
  <2>3. /\ n.tx = m.tx /\ n.txCount = m.txCount /\ n.bit_rate = m.bit_rate
        /\ n.calling = m.calling
    BY <2>1 DEF RxRestart, Modem, Fields
  <2>4. n.rx = "SYMBOL_ACQUISITION" /\ n.rxCount = 0
    BY <2>1 DEF RxRestart, Modem, Fields
  <2>5. n.heard = 0 /\ n.negotiated = 1200
    BY <2>1 DEF RxRestart, Modem, Fields
  <2> HIDE DEF n
  <2> QED BY <2>1, <2>2, <2>3, <2>4, <2>5 DEF Modem, SameTx, RxTraining
<1> HIDE DEF n
<1>2. TxCounts(n)
  BY <1>1 DEF TxCounts, SameTx, Near, Sound
<1>3. RxCounts(n)
  BY <1>1 DEF RxCounts, RxLimit, Acquisition
<1>4. Agreed(n, far)
  BY <1>1 DEF Agreed, SameTx, Near, Sound
<1> QED BY <1>1, <1>2, <1>3, <1>4 DEF Kept, Near, Sound, SameTx, n

LEMMA AcquireKeeps ==
  ASSUME NEW far, NEW m, Sound(m, far), m.rx = "SYMBOL_ACQUISITION"
  PROVE  Kept(m, Acquire(m), far)
<1> DEFINE n == Acquire(m)
<1>1. m.rxCount < 40
  BY DEF Sound, RxCounts, RxLimit, Acquisition
<1>2. /\ Modem(n) /\ SameTx(m, n) /\ n.heard = m.heard /\ n.rxCount = m.rxCount + 1
      /\ \/ n.rx = m.rx /\ n.rxCount < 40 /\ n.negotiated = m.negotiated
         \/ /\ n.rx \in {"UNSCRAMBLED_ONES", "SCRAMBLED_ONES_AT_1200"}
            /\ n.rxCount = 40 /\ n.negotiated = 1200
  BY <1>1 DEF Acquire, Acquisition, Modem, Fields, Near, Sound, SameTx, RxTraining
<1> HIDE DEF n
<1>3. TxCounts(n)
  BY <1>2 DEF TxCounts, SameTx, Near, Sound
<1>4. RxCounts(n)
  BY <1>2 DEF RxCounts, RxLimit, Acquisition
<1>5. Agreed(n, far)
  BY <1>2 DEF Agreed, SameTx, Near, Sound
<1> QED BY <1>2, <1>3, <1>4, <1>5 DEF Kept, Near, Sound, SameTx, n

LEMMA UnscrambledOnesKeeps ==
  ASSUME NEW far, NEW m, Sound(m, far), m.rx = "UNSCRAMBLED_ONES", NEW x
  PROVE  Kept(m, UnscrambledOnes(m, x), far)
<1> DEFINE n == [m EXCEPT !.rxCount = @ + 1, !.repeats = IF x = "U11" THEN @ + 1 ELSE 0]
           reply == SetTx(n, IF n.bit_rate = 2400 THEN "U0011" ELSE "S11")
           answered == IF n.repeats < ms_to_symbols(456) THEN n ELSE reply
<1>1. m.rxCount < 366
  BY DEF Sound, RxCounts, RxLimit
<1>2. /\ Modem(n) /\ SameTx(m, n) /\ n.heard = m.heard /\ n.rxCount = m.rxCount + 1
      /\ n.rx = m.rx /\ n.negotiated = m.negotiated
  BY DEF Modem, Fields, Near, Sound, SameTx
<1>3. UnscrambledOnes(m, x) = IF n.rxCount = ms_to_symbols(155 + 456)
                              THEN SetRx(answered, "UNSCRAMBLED_ONES_SUSTAINING") ELSE n
  BY DEF UnscrambledOnes
<1> HIDE DEF n
<1>4. Near(n, far)
  <2>1. TxCounts(n)
    BY <1>2 DEF TxCounts, SameTx, Near, Sound
  <2>2. Agreed(n, far)
    BY <1>2 DEF Agreed, SameTx, Near, Sound
  <2> QED BY <1>2, <2>1, <2>2 DEF Near
<1>5. Near(answered, far) /\ answered.bit_rate = m.bit_rate
  <2> DEFINE next == IF n.bit_rate = 2400 THEN "U0011" ELSE "S11"
  <2>1. next \in TxTraining /\ (next = "U0011" => n.bit_rate = 2400)
    BY DEF TxTraining
  <2>2. reply = SetTx(n, next)
    OBVIOUS
  <2> HIDE DEF next, reply
  <2>3. Near(reply, far) /\ SameRx(n, reply)
    BY <1>4, <2>1, <2>2, SetTxIs DEF Near
  <2> QED BY <1>2, <1>4, <2>3 DEF SameRx, SameTx
<1> HIDE DEF answered
<1>6. CASE n.rxCount = ms_to_symbols(155 + 456)
  <2>1. "UNSCRAMBLED_ONES_SUSTAINING" \in RxTraining
    BY DEF RxTraining
  <2> QED BY <1>3, <1>5, <1>6, <2>1, SetRxIs DEF Kept, SameTx
<1>7. CASE n.rxCount # ms_to_symbols(155 + 456)
  <2>1. n.rxCount < 366
    BY <1>1, <1>2, <1>7, Symbols DEF Modem, Near, Sound
  <2>2. RxCounts(n)
    BY <1>2, <2>1 DEF RxCounts, RxLimit
  <2> QED BY <1>2, <1>3, <1>4, <1>7, <2>2 DEF Kept, Sound, SameTx
<1> QED BY <1>6, <1>7

LEMMA SustainingKeeps ==
  ASSUME NEW far, NEW m, Sound(m, far), NEW x
  PROVE  Kept(m, Sustaining(m, x), far)
<1> DEFINE n == SetTx(m, "TIMED_S11")
<1>1. CASE x = "U11"
  BY <1>1 DEF Sustaining, Kept
<1>2. CASE x # "U11"
  <2>1. Near(n, far) /\ SameRx(m, n)
    BY SetTxIs DEF TxTraining, Sound, Near
  <2>2. Sustaining(m, x) = SetRx(n, "SCRAMBLED_ONES_AT_1200")
    BY <1>2 DEF Sustaining
  <2>3. "SCRAMBLED_ONES_AT_1200" \in RxTraining
    BY DEF RxTraining
  <2> HIDE DEF n
  <2> QED BY <2>1, <2>2, <2>3, SetRxIs DEF Kept, SameRx, SameTx
<1> QED BY <1>1, <1>2

\* The search for S1 counts it, and the symbol.
LEMMA ListenIs ==
  ASSUME NEW far, NEW m, Near(m, far), NEW x, x = "S1" => far = 2400
  PROVE  LET n == [Listen(m, x) EXCEPT !.rxCount = @ + 1]
         IN /\ Near(n, far) /\ SameTx(m, n) /\ n.rx = m.rx
            /\ n.rxCount = m.rxCount + 1 /\ n.negotiated = m.negotiated
<1> DEFINE k == Listen(m, x)
           n == [k EXCEPT !.rxCount = @ + 1]
<1>1. Modem(m) /\ Agreed(m, far) /\ TxCounts(m)
  BY DEF Near
<1>2. /\ DOMAIN k = Fields /\ SameTx(m, k) /\ k.rx = m.rx /\ k.rxCount = m.rxCount
      /\ k.tx = m.tx /\ k.txCount = m.txCount /\ k.negotiated = m.negotiated
  BY <1>1 DEF Listen, Modem, Fields, SameTx
<1>3. k.heard \in Nat /\ (k.heard > 0 => far = 2400)
  BY <1>1 DEF Listen, Modem, Fields, Agreed
<1> HIDE DEF k
<1>4. /\ Modem(n) /\ SameTx(m, n) /\ n.rx = m.rx /\ n.rxCount = m.rxCount + 1
      /\ n.negotiated = m.negotiated /\ n.heard = k.heard
  BY <1>1, <1>2, <1>3 DEF Modem, Fields, SameTx
<1> HIDE DEF n
<1>5. TxCounts(n)
  BY <1>1, <1>4 DEF TxCounts, SameTx
<1>6. Agreed(n, far)
  BY <1>1, <1>3, <1>4 DEF Agreed, SameTx
<1> QED BY <1>4, <1>5, <1>6 DEF Near, n, k

\* S1 that is heard is answered, and taken up, by an end that may.
LEMMA HearS1Keeps ==
  ASSUME NEW far, NEW m, Near(m, far), m.rx = "SCRAMBLED_ONES_AT_1200", far = 2400
  PROVE  Kept(m, HearS1(m), far)
<1> DEFINE n == [m EXCEPT !.heard = S1Needed - 15, !.rxCount = 0, !.repeats = 0]
           sent == IF n.calling THEN n ELSE SetTx(n, "U0011")
           up == [sent EXCEPT !.negotiated = 2400]
<1>1. S1Needed - 15 = 8
  BY DEF S1Needed
<1>2. /\ Modem(n) /\ SameTx(m, n) /\ n.rx = m.rx /\ n.rxCount = 0
      /\ n.negotiated = m.negotiated
  BY <1>1 DEF Modem, Fields, Near, SameTx
<1>3. HearS1(m) = IF n.bit_rate # 2400 THEN n ELSE up
  BY DEF HearS1
<1> HIDE DEF n
<1>4. Near(n, far)
  <2>1. TxCounts(n)
    BY <1>2 DEF TxCounts, SameTx, Near
  <2>2. Agreed(n, far)
    BY <1>2 DEF Agreed, SameTx, Near
  <2> QED BY <1>2, <2>1, <2>2 DEF Near
<1>5. RxLimit("SCRAMBLED_ONES_AT_1200", 1200) > 0 /\ RxLimit("SCRAMBLED_ONES_AT_1200", 2400) > 0
  BY DEF RxLimit
<1>6. CASE n.bit_rate # 2400
  <2>1. RxCounts(n)
    BY <1>2, <1>5 DEF RxCounts, Modem
  <2> QED BY <1>2, <1>3, <1>4, <1>6, <2>1 DEF Kept, Sound, SameTx
<1>7. CASE n.bit_rate = 2400
  <2>1. Near(sent, far) /\ SameRx(n, sent)
    <3>1. Near(SetTx(n, "U0011"), far) /\ SameRx(n, SetTx(n, "U0011"))
      BY <1>4, <1>7, SetTxIs DEF Near, TxTraining
    <3> QED BY <1>4, <3>1 DEF SameRx
  <2> HIDE DEF sent
  <2>2. Modem(up) /\ SameTx(sent, up) /\ up.rx = sent.rx /\ up.rxCount = sent.rxCount
        /\ up.negotiated = 2400
    BY <2>1 DEF Modem, Fields, Near, SameTx
  <2> HIDE DEF up
  <2>3. TxCounts(up)
    BY <2>1, <2>2 DEF TxCounts, SameTx, Near
  <2>4. Agreed(up, far)
    BY <1>7, <2>1, <2>2 DEF Agreed, SameTx, SameRx, Near
  <2>5. RxCounts(up)
    BY <1>2, <1>5, <2>1, <2>2 DEF RxCounts, SameRx
  <2> QED BY <1>2, <1>3, <1>7, <2>1, <2>2, <2>3, <2>4, <2>5
          DEF Kept, Sound, Near, SameTx, SameRx
<1> QED BY <1>6, <1>7

\* No S1 in 400 ms: 1200, whatever the end may.
LEMMA CommitKeeps ==
  ASSUME NEW far, NEW m, Near(m, far), m.rxCount < 622
  PROVE  Kept(m, CommitTo1200(m), far)
<1> DEFINE k == SetTx(m, "TIMED_S11")
           training == IF m.calling THEN "NORMAL" ELSE "SCRAMBLED_ONES_AT_1200_SUSTAINING"
           n == [k EXCEPT !.rx = training]
<1>1. Near(k, far) /\ SameRx(m, k)
  BY SetTxIs DEF Near, TxTraining
<1>2. CommitTo1200(m) = n
  BY DEF CommitTo1200
<1>3. training \in RxTraining /\ RxLimit(training, m.negotiated) = 622
  BY DEF RxTraining, RxLimit
<1> HIDE DEF k, training
<1>4. Modem(n) /\ SameTx(k, n) /\ n.rx = training /\ n.rxCount = k.rxCount
      /\ n.negotiated = k.negotiated /\ n.heard = k.heard
  BY <1>1, <1>3 DEF Modem, Fields, Near, SameTx
<1> HIDE DEF n
<1>5. TxCounts(n)
  BY <1>1, <1>4 DEF TxCounts, SameTx, Near
<1>6. Agreed(n, far)
  BY <1>1, <1>4 DEF Agreed, SameTx, Near
<1>7. RxCounts(n)
  BY <1>1, <1>3, <1>4 DEF RxCounts, SameRx
<1> QED BY <1>1, <1>2, <1>4, <1>5, <1>6, <1>7 DEF Kept, Sound, Near, SameTx, SameRx

LEMMA AwaitS1Keeps ==
  ASSUME NEW far, NEW m, Near(m, far), m.rx = "SCRAMBLED_ONES_AT_1200",
         m.negotiated = 1200, m.rxCount <= 240, NEW n \in AwaitS1(m)
  PROVE  Kept(m, n, far)
<1> DEFINE quiet == IF m.rxCount >= ms_to_symbols(400) THEN CommitTo1200(m) ELSE m
<1>0. m.heard \in Nat /\ m.rxCount \in Nat
  BY DEF Near, Modem
<1>1. Kept(m, quiet, far)
  <2>1. CASE m.rxCount >= ms_to_symbols(400)
    BY <1>0, <2>1, CommitKeeps
  <2>2. CASE ~(m.rxCount >= ms_to_symbols(400))
    <3>1. m.rxCount < 240
      BY <1>0, <2>2, Symbols
    <3>2. RxCounts(m)
      BY <3>1 DEF RxCounts, RxLimit
    <3> QED BY <2>2, <3>2 DEF Kept, Sound
  <2> QED BY <2>1, <2>2
<1>2. m.heard >= S1Lucky => Kept(m, HearS1(m), far)
  <2>1. m.heard >= S1Lucky => far = 2400
    BY <1>0 DEF Near, Agreed, S1Lucky
  <2> QED BY <2>1, HearS1Keeps
<1>3. m.heard > S1Needed => m.heard >= S1Lucky
  BY <1>0 DEF S1Needed, S1Lucky
<1>4. n = quiet \/ (n = HearS1(m) /\ m.heard >= S1Lucky)
  BY <1>3 DEF AwaitS1
<1> QED BY <1>1, <1>2, <1>4

\* A receiver that goes to another state with the count it has.
LEMMA MovesOn ==
  ASSUME NEW far, NEW m, Near(m, far), NEW n, Modem(n), SameTx(m, n),
         n.heard = m.heard, n.negotiated = m.negotiated, RxCounts(n)
  PROVE  Kept(m, n, far)
<1>1. TxCounts(n)
  BY DEF TxCounts, SameTx, Near
<1>2. Agreed(n, far)
  BY DEF Agreed, SameTx, Near
<1> QED BY <1>1, <1>2 DEF Kept, Sound, Near, SameTx

LEMMA ScrambledOnesKeeps ==
  ASSUME NEW far, NEW m, Sound(m, far), m.rx = "SCRAMBLED_ONES_AT_1200",
         NEW x, x = "S1" => far = 2400, NEW n \in ScrambledOnes(m, x)
  PROVE  Kept(m, n, far)
<1>0. Near(m, far) /\ Modem(m) /\ m.rxCount \in Nat
  BY DEF Sound, Near, Modem
<1>1. CASE m.negotiated = 1200
  <2> DEFINE k == [Listen(m, x) EXCEPT !.rxCount = @ + 1]
  <2>1. n \in AwaitS1(k)
    BY <1>1 DEF ScrambledOnes
  <2>2. /\ Near(k, far) /\ SameTx(m, k) /\ k.rx = m.rx
        /\ k.rxCount = m.rxCount + 1 /\ k.negotiated = m.negotiated
    BY <1>0, ListenIs
  <2> HIDE DEF k
  <2>3. m.rxCount < 240
    BY <1>1 DEF Sound, RxCounts, RxLimit
  <2>4. k.rxCount <= 240
    BY <1>0, <2>2, <2>3
  <2>5. Kept(k, n, far)
    BY <1>1, <2>1, <2>2, <2>4, AwaitS1Keeps
  <2> QED BY <2>2, <2>5 DEF Kept, SameTx
<1>2. CASE m.negotiated # 1200
  <2> DEFINE k == [m EXCEPT !.rxCount = @ + 1]
             long == ms_to_symbols(IF m.calling THEN 100 + 450 ELSE 450)
             done == [k EXCEPT !.sixteen = TRUE, !.repeats = 0,
                               !.rx = "WAIT_FOR_SCRAMBLED_ONES_AT_2400"]
  <2>1. /\ Modem(k) /\ SameTx(m, k) /\ k.rx = m.rx /\ k.rxCount = m.rxCount + 1
        /\ k.heard = m.heard /\ k.negotiated = m.negotiated /\ k.calling = m.calling
    BY <1>0 DEF Modem, Fields, SameTx
  <2>2. long \in {330, 270}
    BY Symbols
  <2>3. n = IF k.rxCount < long THEN k ELSE done
    BY <1>2, <2>1 DEF ScrambledOnes, Await2400
  <2>4. m.rxCount < 330
    BY <1>2 DEF Sound, RxCounts, RxLimit
  <2> HIDE DEF k, long
  <2>5. CASE k.rxCount < long
    <3>1. k.rxCount < 330
      BY <1>0, <2>1, <2>2, <2>5
    <3>2. RxCounts(k)
      BY <1>2, <2>1, <3>1 DEF RxCounts, RxLimit
    <3> QED BY <1>0, <2>1, <2>3, <2>5, <3>2, MovesOn
  <2>6. CASE ~(k.rxCount < long)
    <3>1. /\ Modem(done) /\ SameTx(m, done) /\ done.heard = m.heard
          /\ done.rx = "WAIT_FOR_SCRAMBLED_ONES_AT_2400" /\ done.rxCount = k.rxCount
          /\ done.negotiated = m.negotiated
      BY <2>1 DEF Modem, Fields, SameTx, RxTraining
    <3> HIDE DEF done
    <3>2. RxCounts(done)
      BY <1>0, <2>1, <2>4, <3>1 DEF RxCounts, RxLimit
    <3> QED BY <1>0, <2>3, <2>6, <3>1, <3>2, MovesOn
  <2> QED BY <2>5, <2>6
<1> QED BY <1>1, <1>2

LEMMA ScrambledSustainingKeeps ==
  ASSUME NEW far, NEW m, Sound(m, far), m.rx = "SCRAMBLED_ONES_AT_1200_SUSTAINING"
  PROVE  Kept(m, ScrambledSustaining(m), far)
<1> DEFINE n == [m EXCEPT !.rxCount = @ + 1]
<1>1. Near(m, far) /\ Modem(m) /\ m.rxCount \in Nat
  BY DEF Sound, Near, Modem
<1>2. CASE m.rxCount + 1 > ms_to_symbols(270 + 765)
  <2>1. ScrambledSustaining(m) = SetRx(m, "NORMAL")
    BY <1>2 DEF ScrambledSustaining
  <2> QED BY <1>1, <2>1, SetRxIs DEF Kept, SameTx, RxTraining
<1>3. CASE ~(m.rxCount + 1 > ms_to_symbols(270 + 765))
  <2>1. ScrambledSustaining(m) = n
    BY <1>3 DEF ScrambledSustaining
  <2>2. /\ Modem(n) /\ SameTx(m, n) /\ n.rx = m.rx /\ n.rxCount = m.rxCount + 1
        /\ n.heard = m.heard /\ n.negotiated = m.negotiated
    BY <1>1 DEF Modem, Fields, SameTx
  <2>3. m.rxCount + 1 < 622
    BY <1>1, <1>3, Symbols
  <2> HIDE DEF n
  <2>4. RxCounts(n)
    BY <2>2, <2>3 DEF RxCounts, RxLimit
  <2> QED BY <1>1, <2>1, <2>2, <2>4, MovesOn
<1> QED BY <1>2, <1>3

LEMMA Wait2400Keeps ==
  ASSUME NEW far, NEW m, Sound(m, far), NEW x, NEW n \in Wait2400(m, x)
  PROVE  Kept(m, n, far)
<1>1. Near(m, far) /\ Modem(m) /\ RxCounts(m)
  BY DEF Sound, Near
<1>2. ASSUME NEW r
      PROVE  Kept(m, [m EXCEPT !.repeats = r], far)
  <2> DEFINE k == [m EXCEPT !.repeats = r]
  <2>1. /\ Modem(k) /\ SameTx(m, k) /\ k.rx = m.rx /\ k.rxCount = m.rxCount
        /\ k.heard = m.heard /\ k.negotiated = m.negotiated
    BY <1>1 DEF Modem, Fields, SameTx
  <2> HIDE DEF k
  <2>2. RxCounts(k)
    BY <1>1, <2>1 DEF RxCounts
  <2>3. Kept(m, k, far)
    BY <1>1, <2>1, <2>2, MovesOn
  <2> QED BY <2>3 DEF k
<1>3. Kept(m, SetRx(m, "NORMAL"), far)
  BY <1>1, SetRxIs DEF Kept, SameTx, RxTraining
<1>4. \/ n = SetRx(m, "NORMAL") \/ n = [m EXCEPT !.repeats = @ + 1]
      \/ n = [m EXCEPT !.repeats = 0]
  BY DEF Wait2400
<1> QED BY <1>2, <1>3, <1>4

\* A symbol that is heard.
LEMMA DecideKeeps ==
  ASSUME NEW far, NEW m, Sound(m, far), NEW x, x = "S1" => far = 2400,
         NEW n \in Decide(m, x)
  PROVE  Kept(m, n, far)
<1>1. m.rx \in RxTraining
  BY DEF Sound, Near, Modem
<1>2. CASE m.rx = "SYMBOL_ACQUISITION"
  BY <1>2, AcquireKeeps DEF Decide
<1>3. CASE m.rx = "UNSCRAMBLED_ONES"
  BY <1>3, UnscrambledOnesKeeps DEF Decide
<1>4. CASE m.rx = "UNSCRAMBLED_ONES_SUSTAINING"
  BY <1>4, SustainingKeeps DEF Decide
<1>5. CASE m.rx = "SCRAMBLED_ONES_AT_1200"
  <2>1. n \in ScrambledOnes(m, x)
    BY <1>5 DEF Decide
  <2> QED BY <1>5, <2>1, ScrambledOnesKeeps
<1>6. CASE m.rx = "SCRAMBLED_ONES_AT_1200_SUSTAINING"
  BY <1>6, ScrambledSustainingKeeps DEF Decide
<1>7. CASE m.rx = "WAIT_FOR_SCRAMBLED_ONES_AT_2400"
  <2>1. n \in Wait2400(m, x)
    BY <1>7 DEF Decide
  <2> QED BY <2>1, Wait2400Keeps
<1>8. CASE m.rx = "NORMAL"
  BY <1>8 DEF Decide, Kept
<1> QED BY <1>1, <1>2, <1>3, <1>4, <1>5, <1>6, <1>7, <1>8 DEF RxTraining

\* The carrier comes, goes, or stays.
LEMMA RxStepKeeps ==
  ASSUME NEW far, NEW m, Sound(m, far), NEW x, x = "S1" => far = 2400,
         NEW n \in RxStep(m, x)
  PROVE  Kept(m, n, far)
<1>0. Near(m, far) /\ Modem(m) /\ RxCounts(m)
  BY DEF Sound, Near
<1>1. ASSUME NEW k, Modem(k), SameTx(m, k), k.rx = m.rx, k.rxCount = m.rxCount,
             k.heard = m.heard, k.negotiated = m.negotiated
      PROVE  Kept(m, k, far)
  <2>1. RxCounts(k)
    BY <1>0, <1>1 DEF RxCounts
  <2> QED BY <1>0, <1>1, <2>1, MovesOn
<1>2. CASE ~m.present
  <2> DEFINE k == [m EXCEPT !.present = TRUE, !.down = 0]
  <2>1. n = m \/ n = k
    BY <1>2 DEF RxStep
  <2>2. /\ Modem(k) /\ SameTx(m, k) /\ k.rx = m.rx /\ k.rxCount = m.rxCount
        /\ k.heard = m.heard /\ k.negotiated = m.negotiated
    BY <1>0 DEF Modem, Fields, SameTx
  <2> HIDE DEF k
  <2> QED BY <1>1, <2>1, <2>2 DEF Kept
<1>3. CASE m.present /\ x = "silence" /\ m.down + 1 >= CarrierLoss
  <2>1. n = RxRestart(m)
    BY <1>3 DEF RxStep
  <2> QED BY <2>1, RxRestartKeeps
<1>4. CASE m.present /\ ~(x = "silence" /\ m.down + 1 >= CarrierLoss)
  <2> DEFINE k == [m EXCEPT !.down = IF x = "silence" THEN @ + 1 ELSE 0]
  <2>1. n \in Decide(k, x)
    BY <1>4 DEF RxStep
  <2>2. /\ Modem(k) /\ SameTx(m, k) /\ k.rx = m.rx /\ k.rxCount = m.rxCount
        /\ k.heard = m.heard /\ k.negotiated = m.negotiated
    BY <1>0 DEF Modem, Fields, SameTx
  <2> HIDE DEF k
  <2>3. Kept(m, k, far)
    BY <1>1, <2>2
  <2>4. Kept(k, n, far)
    BY <2>1, <2>3, DecideKeeps DEF Kept
  <2> QED BY <2>3, <2>4 DEF Kept
<1> QED BY <1>2, <1>3, <1>4

-----------------------------------------------------------------------------
(* Both ends and the line.                                                 *)

Far(e) == modem[Other(e)].bit_rate

LEMMA OtherIs == \A e \in Ends : Other(e) \in Ends /\ Other(e) # e /\ Other(Other(e)) = e
  BY DEF Ends, Other

\* What an end sends is a segment, and S1 only if it may.
LEMMA SentIs ==
  ASSUME IInv, NEW e \in Ends
  PROVE  Sent(e) \in Signals /\ (Sent(e) = "S1" => modem[e].bit_rate = 2400)
<1> DEFINE m == modem[e]
<1>1. Modem(m) /\ Agreed(m, Far(e))
  BY DEF IInv, Sound, Near, Far
<1> HIDE DEF m
<1>2. m.tx \in TxTraining
  BY <1>1 DEF Modem
<1>3. Signal(m) \in Signals
  BY <1>2 DEF Signal, Signals, TxTraining
<1>4. Signal(m) = "S1" => m.bit_rate = 2400
  <2>1. Signal(m) = "S1" => m.tx = "U0011"
    BY <1>2 DEF Signal, TxTraining
  <2> QED BY <1>1, <2>1 DEF Agreed
<1>5. "silence" \in Signals
  BY DEF Signals
<1> QED BY <1>3, <1>4, <1>5 DEF Sent, m

\* Nor does anything else travel.
LEMMA QueueIs ==
  ASSUME IInv, NEW e \in Ends
  PROVE  /\ Queue(e) \in Seq(Signals) /\ Len(Queue(e)) \in Nat \ {0}
         /\ \A i \in 1..Len(Queue(e)) : Queue(e)[i] = "S1" => modem[e].bit_rate = 2400
<1> DEFINE l == line[e]
           x == Sent(e)
<1>1. l \in Seq(Signals) /\ \A i \in 1..Len(l) : l[i] = "S1" => modem[e].bit_rate = 2400
  BY DEF IInv, Carried
<1>2. x \in Signals /\ (x = "S1" => modem[e].bit_rate = 2400)
  BY SentIs
<1>3. Queue(e) = Append(l, x)
  BY DEF Queue
<1> HIDE DEF l, x
<1> QED BY <1>1, <1>2, <1>3

LEMMA ArrivesIs ==
  ASSUME IInv, NEW e \in Ends
  PROVE  Arrives(e) = "S1" => Far(e) = 2400
<1> DEFINE q == Queue(Other(e))
<1>1. /\ q \in Seq(Signals) /\ Len(q) \in Nat \ {0}
      /\ \A i \in 1..Len(q) : q[i] = "S1" => Far(e) = 2400
  BY OtherIs, QueueIs DEF Far
<1> HIDE DEF q
<1>2. Head(q) = q[1] /\ 1 \in 1..Len(q)
  BY <1>1
<1>3. Arrives(e) = "S1" => Head(q) = "S1"
  BY DEF Arrives, q
<1> QED BY <1>1, <1>2, <1>3

\* A symbol at one end.
LEMMA StepKeeps ==
  ASSUME IInv, NEW e \in Ends, NEW n \in Step(e)
  PROVE  Kept(modem[e], n, Far(e))
<1> DEFINE m == modem[e]
           k == TxStep(m)
<1>1. Sound(m, Far(e))
  BY DEF IInv, Far
<1>2. Near(k, Far(e)) /\ SameRx(m, k)
  BY <1>1, TxStepIs DEF Sound
<1>3. n = m \/ n \in RxStep(k, Arrives(e))
  BY DEF Step
<1> HIDE DEF k, m
<1>4. Sound(k, Far(e))
  BY <1>1, <1>2 DEF Sound, RxCounts, SameRx
<1>5. ASSUME n \in RxStep(k, Arrives(e))
      PROVE  Kept(k, n, Far(e))
  BY <1>4, <1>5, ArrivesIs, RxStepKeeps
<1>6. Kept(m, n, Far(e))
  BY <1>1, <1>2, <1>3, <1>5 DEF Kept, SameRx
<1> QED BY <1>6 DEF m

LEMMA TickKeeps == IInv /\ Tick => IInv'
<1> SUFFICES ASSUME IInv, Tick
             PROVE  IInv'
  OBVIOUS
<1>1. PICK c \in Step("caller"), a \in Step("answerer") :
          modem' = [caller |-> c, answerer |-> a]
  BY DEF Tick
<1>2. \A e \in Ends : modem'[e] \in Step(e)
  BY <1>1 DEF Ends
<1>3. \A e \in Ends : Kept(modem[e], modem'[e], Far(e))
  BY <1>2, StepKeeps
<1>4. \A e \in Ends : modem'[e].bit_rate = modem[e].bit_rate
  BY <1>3 DEF Kept
<1>5. \A e \in Ends : Sound(modem'[e], modem'[Other(e)].bit_rate)
  BY <1>3, <1>4, OtherIs DEF Kept, Far
<1>6. line' = [e \in Ends |-> Tail(Queue(e))]
  BY DEF Tick
<1>7. ASSUME NEW e \in Ends
      PROVE  /\ line'[e] \in Seq(Signals)
             /\ \A i \in 1..Len(line'[e]) : line'[e][i] = "S1" => modem'[e].bit_rate = 2400
  <2> DEFINE q == Queue(e)
  <2>1. /\ q \in Seq(Signals) /\ Len(q) \in Nat \ {0}
        /\ \A i \in 1..Len(q) : q[i] = "S1" => modem'[e].bit_rate = 2400
    BY <1>4, QueueIs
  <2>2. line'[e] = Tail(q)
    BY <1>6
  <2> HIDE DEF q
  <2>3. /\ Tail(q) \in Seq(Signals) /\ Len(Tail(q)) = Len(q) - 1
        /\ \A i \in 1..Len(Tail(q)) : Tail(q)[i] = q[i + 1] /\ i + 1 \in 1..Len(q)
    BY <2>1
  <2> QED BY <2>1, <2>2, <2>3
<1>8. line' \in [Ends -> Seq(Signals)]
  BY <1>6, <1>7
<1> QED BY <1>5, <1>7, <1>8 DEF IInv, Carried

LEMMA DipKeeps == IInv /\ (Dip \/ UNCHANGED vars) => IInv'
  BY DEF IInv, Carried, Dip, vars

LEMMA InitSound == Init => IInv
<1> SUFFICES ASSUME Init
             PROVE  IInv
  OBVIOUS
<1>1. PICK rate \in [Ends -> Rates] : modem = [e \in Ends |-> Restarted(e, rate[e])]
  BY DEF Init
<1>2. ASSUME NEW e \in Ends, NEW far
      PROVE  Sound(modem[e], far)
  <2> DEFINE m == [calling |-> e = "caller", bit_rate |-> rate[e], negotiated |-> 0,
                   tx |-> IF e = "caller" THEN "INITIAL_SILENCE"
                                          ELSE "INITIAL_TIMED_SILENCE",
                   txCount |-> 0, rx |-> "", rxCount |-> 0, present |-> FALSE,
                   down |-> 0, sixteen |-> FALSE, repeats |-> 0, heard |-> 0, since |-> 0]
             n == RxRestart(m)
  <2>1. modem[e] = n
    <3>1. modem[e] = Restarted(e, rate[e])
      BY <1>1
    <3>2. Restarted(e, rate[e]) = n
      BY DEF Restarted
    <3> HIDE DEF n
    <3> QED BY <3>1, <3>2
  <2>2. /\ DOMAIN m = Fields /\ m.bit_rate = rate[e] /\ m.txCount = 0
        /\ m.tx \in {"INITIAL_SILENCE", "INITIAL_TIMED_SILENCE"}
    BY DEF Fields
  <2> HIDE DEF m
  <2>3. m.tx \in TxTraining /\ m.tx # "U0011" /\ TxLimit(m.tx) > 0
    BY <2>2 DEF TxTraining, TxLimit
  <2>4. DOMAIN n = Fields
    <3> DEFINE k == [m EXCEPT !.rx = "SYMBOL_ACQUISITION", !.rxCount = 0,
                              !.present = FALSE, !.down = 0, !.sixteen = FALSE]
    <3>1. n = [k EXCEPT !.repeats = 0, !.heard = 0, !.since = 0, !.negotiated = 1200]
      BY DEF RxRestart
    <3>2. DOMAIN k = Fields
      BY <2>2
    <3> HIDE DEF k
    <3> QED BY <3>1, <3>2
  <2>5. n.bit_rate = rate[e] /\ n.tx = m.tx /\ n.txCount = 0
    BY <2>2 DEF RxRestart, Fields
  <2>6. n.rx = "SYMBOL_ACQUISITION" /\ n.rxCount = 0 /\ n.heard = 0 /\ n.negotiated = 1200
    BY <2>2 DEF RxRestart, Fields
  <2> HIDE DEF n
  <2>7. Modem(n)
    BY <2>3, <2>4, <2>5, <2>6 DEF Modem, RxTraining
  <2>8. TxCounts(n) /\ RxCounts(n)
    BY <2>3, <2>5, <2>6 DEF TxCounts, RxCounts, RxLimit, Acquisition
  <2>9. Agreed(n, far)
    BY <2>3, <2>5, <2>6 DEF Agreed
  <2> QED BY <2>1, <2>7, <2>8, <2>9 DEF Sound, Near
<1>3. PICK d \in Delays : line = [e \in Ends |-> [i \in 1..d |-> "silence"]]
  BY DEF Init
<1>4. d \in Nat /\ "silence" \in Signals
  BY DEF V22bisAssumption, Signals
<1>5. [i \in 1..d |-> "silence"] \in Seq(Signals) /\ Len([i \in 1..d |-> "silence"]) = d
  BY <1>4
<1>6. Carried
  BY <1>3, <1>4, <1>5 DEF Carried
<1> QED BY <1>2, <1>6 DEF IInv

-----------------------------------------------------------------------------
(* What one symbol does to one end, field by field.                        *)

SameReceiver(m, n) ==
    /\ n.rx = m.rx /\ n.rxCount = m.rxCount /\ n.negotiated = m.negotiated
    /\ n.sixteen = m.sixteen /\ n.repeats = m.repeats /\ n.heard = m.heard
    /\ n.present = m.present /\ n.down = m.down
SameEnd(m, n) == n.calling = m.calling /\ n.bit_rate = m.bit_rate

Sends(m, training, count) == m.tx = training /\ m.txCount = count
Hears(m, training, count) == m.rx = training /\ m.rxCount = count

\* A segment that is over is followed by the next.
LEMMA FollowingDoes ==
  ASSUME NEW m, Modem(m)
  PROVE  LET n == Following(m) IN
         /\ m.tx = "INITIAL_TIMED_SILENCE" =>
               n.tx = "U11" /\ SameReceiver(m, n) /\ SameEnd(m, n)
         /\ m.tx = "U0011" /\ m.calling =>
               n.tx = "S11" /\ SameReceiver(m, n) /\ SameEnd(m, n)
         /\ m.tx = "U0011" /\ ~m.calling =>
               Sends(n, "TIMED_S11", 153) /\ SameReceiver(m, n) /\ SameEnd(m, n)
         /\ m.tx = "TIMED_S11" /\ m.negotiated = 2400 =>
               Sends(n, "S1111", 0) /\ SameReceiver(m, n) /\ SameEnd(m, n)
         /\ m.tx = "TIMED_S11" /\ m.negotiated # 2400 =>
               n.tx = "NORMAL" /\ SameReceiver(m, n) /\ SameEnd(m, n)
         /\ m.tx = "S1111" =>
               n.tx = "NORMAL" /\ SameReceiver(m, n) /\ SameEnd(m, n)
<1> DEFINE n == Following(m)
<1>1. ASSUME NEW training
      PROVE  LET k == SetTx(m, training)
             IN Sends(k, training, 0) /\ SameReceiver(m, k) /\ SameEnd(m, k)
  BY DEF SetTx, Modem, Fields, Sends, SameReceiver, SameEnd
<1>2. CASE m.tx = "INITIAL_TIMED_SILENCE"
  <2>1. n = SetTx(m, "U11")
    BY <1>2 DEF Following
  <2> QED BY <1>1, <1>2, <2>1 DEF Sends
<1>3. CASE m.tx = "U0011" /\ m.calling
  <2>1. n = SetTx(m, "S11")
    BY <1>3 DEF Following
  <2> QED BY <1>1, <1>3, <2>1 DEF Sends
<1>4. CASE m.tx = "U0011" /\ ~m.calling
  <2>1. n = [m EXCEPT !.tx = "TIMED_S11", !.txCount = ms_to_symbols(756 - (600 - 100))]
    BY <1>4 DEF Following
  <2> HIDE DEF n
  <2>2. Sends(n, "TIMED_S11", 153) /\ SameReceiver(m, n) /\ SameEnd(m, n)
    BY <2>1, Symbols DEF Modem, Fields, Sends, SameReceiver, SameEnd
  <2> QED BY <1>4, <2>2 DEF n
<1>5. CASE m.tx = "TIMED_S11" /\ m.negotiated = 2400
  <2>1. n = SetTx(m, "S1111")
    BY <1>5 DEF Following
  <2> QED BY <1>1, <1>5, <2>1
<1>6. CASE m.tx = "TIMED_S11" /\ m.negotiated # 2400
  <2>1. n = SetTx(m, "NORMAL")
    BY <1>6 DEF Following
  <2> QED BY <1>1, <1>6, <2>1 DEF Sends
<1>7. CASE m.tx = "S1111"
  <2>1. n = SetTx(m, "NORMAL")
    BY <1>7 DEF Following
  <2> QED BY <1>1, <1>7, <2>1 DEF Sends
<1> HIDE DEF n
<1> QED BY <1>2, <1>3, <1>4, <1>5, <1>6, <1>7 DEF n

\* The transmitter does not touch the receiver; it counts in the segments that
\* are timed, and goes to the next with the last symbol of one.
LEMMA TxStepDoes ==
  ASSUME NEW m, Modem(m)
  PROVE  LET n == TxStep(m) IN
         /\ SameReceiver(m, n) /\ SameEnd(m, n)
         /\ m.tx \in {"INITIAL_SILENCE", "U11", "S11", "NORMAL"} => n.tx = m.tx
         /\ /\ m.tx \in {"INITIAL_TIMED_SILENCE", "U0011", "TIMED_S11", "S1111"}
            /\ m.txCount + 1 < TxLimit(m.tx)
            => Sends(n, m.tx, m.txCount + 1)
         /\ m.txCount + 1 >= TxLimit(m.tx) =>
               /\ m.tx = "INITIAL_TIMED_SILENCE" => n.tx = "U11"
               /\ m.tx = "U0011" => IF m.calling THEN n.tx = "S11" ELSE Sends(n, "TIMED_S11", 153)
               /\ m.tx = "TIMED_S11" =>
                     IF m.negotiated = 2400 THEN Sends(n, "S1111", 0) ELSE n.tx = "NORMAL"
               /\ m.tx = "S1111" => n.tx = "NORMAL"
<1> DEFINE n == TxStep(m)
           k == [m EXCEPT !.txCount = @ + 1]
<1>1. CASE m.tx \in {"INITIAL_SILENCE", "U11", "S11", "NORMAL"}
  <2>1. n = m
    BY <1>1 DEF TxStep
  <2> HIDE DEF n
  <2> QED BY <1>1, <2>1 DEF SameReceiver, SameEnd, n
<1>2. CASE m.tx \in {"INITIAL_TIMED_SILENCE", "U0011", "TIMED_S11", "S1111"}
  <2>1. Modem(k) /\ k.tx = m.tx /\ k.txCount = m.txCount + 1 /\ SameReceiver(m, k) /\ SameEnd(m, k)
    BY DEF Modem, Fields, SameReceiver, SameEnd
  <2>2. Duration(m) = TxLimit(m.tx)
    BY <1>2, Symbols DEF Duration, TxLimit
  <2>3. n = IF k.txCount >= TxLimit(m.tx) THEN Following(k) ELSE k
    BY <1>2, <2>2 DEF TxStep
  <2>4. TxLimit(m.tx) \in Nat /\ m.txCount \in Nat
    BY DEF TxLimit, Modem
  <2> HIDE DEF n, k
  <2>5. CASE m.txCount + 1 < TxLimit(m.tx)
    <3>1. n = k
      BY <2>1, <2>3, <2>4, <2>5
    <3>2. /\ SameReceiver(m, n) /\ SameEnd(m, n) /\ Sends(n, m.tx, m.txCount + 1)
      BY <2>1, <3>1 DEF Sends
    <3>3. ~(m.txCount + 1 >= TxLimit(m.tx))
      BY <2>4, <2>5
    <3> QED BY <1>2, <2>5, <3>2, <3>3 DEF n
  <2>6. CASE ~(m.txCount + 1 < TxLimit(m.tx))
    <3>1. n = Following(k)
      BY <2>1, <2>3, <2>4, <2>6
    <3>2. k.negotiated = m.negotiated /\ k.calling = m.calling
      BY <2>1 DEF SameReceiver, SameEnd
    <3>3. SameReceiver(k, n) /\ SameEnd(k, n)
      BY <1>2, <2>1, <3>1, <3>2, FollowingDoes
    <3>4. SameReceiver(m, n) /\ SameEnd(m, n)
      BY <2>1, <3>3 DEF SameReceiver, SameEnd
    <3>5. /\ m.tx = "INITIAL_TIMED_SILENCE" => n.tx = "U11"
          /\ m.tx = "U0011" => IF m.calling THEN n.tx = "S11" ELSE Sends(n, "TIMED_S11", 153)
          /\ m.tx = "TIMED_S11" =>
                IF m.negotiated = 2400 THEN Sends(n, "S1111", 0) ELSE n.tx = "NORMAL"
          /\ m.tx = "S1111" => n.tx = "NORMAL"
      BY <2>1, <3>1, <3>2, FollowingDoes
    <3> QED BY <1>2, <2>6, <3>4, <3>5 DEF n
  <2> QED BY <2>5, <2>6
<1>3. m.tx \in TxTraining
  BY DEF Modem
<1> QED BY <1>1, <1>2, <1>3 DEF TxTraining

SameSender(m, n) == n.tx = m.tx /\ n.txCount = m.txCount
SameCarrier(m, n) == n.present = m.present /\ n.down = m.down

\* Forty symbols of acquisition.
LEMMA AcquireDoes ==
  ASSUME NEW m, Modem(m)
  PROVE  LET n == Acquire(m) IN
         /\ SameEnd(m, n) /\ SameSender(m, n) /\ SameCarrier(m, n)
         /\ n.sixteen = m.sixteen /\ n.heard = m.heard
         /\ m.rxCount + 1 < 40 =>
               Hears(n, m.rx, m.rxCount + 1) /\ n.negotiated = m.negotiated
         /\ m.rxCount + 1 >= 40 =>
               /\ Hears(n, IF m.calling THEN "UNSCRAMBLED_ONES" ELSE "SCRAMBLED_ONES_AT_1200",
                        m.rxCount + 1)
               /\ n.repeats = 0 /\ n.negotiated = 1200
<1> DEFINE n == Acquire(m)
<1>0. m.rxCount \in Nat
  BY DEF Modem
<1>1. CASE m.rxCount + 1 < 40
  <2>1. n = [m EXCEPT !.rxCount = @ + 1]
    BY <1>1 DEF Acquire, Acquisition
  <2> HIDE DEF n
  <2>2. SameEnd(m, n) /\ SameSender(m, n) /\ SameCarrier(m, n)
    BY <2>1 DEF Modem, Fields, SameEnd, SameSender, SameCarrier
  <2>3. /\ n.sixteen = m.sixteen /\ n.heard = m.heard /\ n.negotiated = m.negotiated
        /\ Hears(n, m.rx, m.rxCount + 1)
    BY <2>1 DEF Modem, Fields, Hears
  <2>4. ~(m.rxCount + 1 >= 40)
    BY <1>0, <1>1
  <2> QED BY <1>1, <2>2, <2>3, <2>4 DEF n
<1>2. CASE ~(m.rxCount + 1 < 40)
  <2> DEFINE next == IF m.calling THEN "UNSCRAMBLED_ONES" ELSE "SCRAMBLED_ONES_AT_1200"
  <2>1. n = [m EXCEPT !.rxCount = @ + 1, !.repeats = 0, !.negotiated = 1200, !.rx = next]
    BY <1>2 DEF Acquire, Acquisition
  <2> HIDE DEF n, next
  <2>2. SameEnd(m, n) /\ SameSender(m, n) /\ SameCarrier(m, n)
    BY <2>1 DEF Modem, Fields, SameEnd, SameSender, SameCarrier
  <2>3. /\ n.sixteen = m.sixteen /\ n.heard = m.heard /\ n.negotiated = 1200 /\ n.repeats = 0
        /\ Hears(n, next, m.rxCount + 1)
    BY <2>1 DEF Modem, Fields, Hears
  <2> QED BY <1>2, <2>2, <2>3 DEF n, next
<1> QED BY <1>1, <1>2

\* Unscrambled ones, to the last symbol of the time they are listened to.
LEMMA OnesDoes ==
  ASSUME NEW m, Modem(m), m.repeats \in Nat
  PROVE  LET n == UnscrambledOnes(m, "U11") IN
         /\ SameEnd(m, n) /\ SameCarrier(m, n)
         /\ n.sixteen = m.sixteen /\ n.heard = m.heard /\ n.negotiated = m.negotiated
         /\ m.rxCount + 1 # 366 =>
               SameSender(m, n) /\ Hears(n, m.rx, m.rxCount + 1) /\ n.repeats = m.repeats + 1
         /\ m.rxCount + 1 = 366 /\ m.repeats + 1 >= 273 =>
               /\ n.rx = "UNSCRAMBLED_ONES_SUSTAINING"
               /\ IF m.bit_rate = 2400 THEN Sends(n, "U0011", 0) ELSE n.tx = "S11"
<1> DEFINE k == [m EXCEPT !.rxCount = @ + 1, !.repeats = @ + 1]
           training == IF m.bit_rate = 2400 THEN "U0011" ELSE "S11"
           reply == SetTx(k, training)
           answered == IF k.repeats < 273 THEN k ELSE reply
           n == UnscrambledOnes(m, "U11")
<1>1. /\ DOMAIN k = Fields /\ SameEnd(m, k) /\ SameCarrier(m, k) /\ SameSender(m, k)
  BY DEF Modem, Fields, SameEnd, SameCarrier, SameSender
<1>2. /\ k.sixteen = m.sixteen /\ k.heard = m.heard /\ k.negotiated = m.negotiated
      /\ Hears(k, m.rx, m.rxCount + 1) /\ k.repeats = m.repeats + 1
  BY DEF Modem, Fields, Hears
<1>3. n = IF k.rxCount = 366 THEN SetRx(answered, "UNSCRAMBLED_ONES_SUSTAINING") ELSE k
  <2>1. k.bit_rate = m.bit_rate
    BY <1>1 DEF SameEnd
  <2> QED BY <2>1, Symbols DEF UnscrambledOnes
<1> HIDE DEF k, training
<1>4. /\ DOMAIN reply = Fields /\ SameEnd(k, reply) /\ SameCarrier(k, reply) /\ Sends(reply, training, 0)
      /\ reply.sixteen = k.sixteen /\ reply.heard = k.heard /\ reply.negotiated = k.negotiated
  BY <1>1 DEF SetTx, Fields, SameEnd, SameCarrier, Sends
<1> HIDE DEF reply
<1>5. /\ DOMAIN answered = Fields /\ SameEnd(m, answered) /\ SameCarrier(m, answered)
      /\ answered.sixteen = m.sixteen /\ answered.heard = m.heard
      /\ answered.negotiated = m.negotiated
      /\ m.repeats + 1 >= 273 => Sends(answered, training, 0)
  BY <1>1, <1>2, <1>4 DEF SameEnd, SameCarrier
<1> HIDE DEF answered, n
<1>6. CASE m.rxCount + 1 # 366
  <2>1. n = k
    BY <1>2, <1>3, <1>6 DEF Hears
  <2> QED BY <1>1, <1>2, <1>6, <2>1 DEF n
<1>7. CASE m.rxCount + 1 = 366
  <2>1. n = SetRx(answered, "UNSCRAMBLED_ONES_SUSTAINING")
    BY <1>2, <1>3, <1>7 DEF Hears
  <2>2. /\ SameEnd(answered, n) /\ SameCarrier(answered, n) /\ SameSender(answered, n)
        /\ n.sixteen = answered.sixteen /\ n.heard = answered.heard
        /\ n.negotiated = answered.negotiated /\ n.rx = "UNSCRAMBLED_ONES_SUSTAINING"
    BY <1>5, <2>1 DEF SetRx, Fields, SameEnd, SameCarrier, SameSender
  <2>3. /\ SameEnd(m, n) /\ SameCarrier(m, n)
        /\ n.sixteen = m.sixteen /\ n.heard = m.heard /\ n.negotiated = m.negotiated
    BY <1>5, <2>2 DEF SameEnd, SameCarrier
  <2>4. m.repeats + 1 >= 273 => IF m.bit_rate = 2400 THEN Sends(n, "U0011", 0) ELSE n.tx = "S11"
    BY <1>5, <2>2 DEF Sends, SameSender, training
  <2> QED BY <1>7, <2>2, <2>3, <2>4 DEF n
<1> QED BY <1>6, <1>7

\* The caller sustains S11 until it hears something else than unscrambled ones.
LEMMA SustainDoes ==
  ASSUME NEW m, Modem(m), NEW x
  PROVE  LET n == Sustaining(m, x) IN
         /\ x = "U11" => n = m
         /\ x # "U11" =>
               /\ SameEnd(m, n) /\ SameCarrier(m, n)
               /\ n.sixteen = m.sixteen /\ n.heard = m.heard /\ n.negotiated = m.negotiated
               /\ Sends(n, "TIMED_S11", 0) /\ Hears(n, "SCRAMBLED_ONES_AT_1200", 0)
<1> DEFINE k == SetTx(m, "TIMED_S11")
           n == SetRx(k, "SCRAMBLED_ONES_AT_1200")
<1>1. x = "U11" => Sustaining(m, x) = m
  BY DEF Sustaining
<1>2. x # "U11" => Sustaining(m, x) = n
  BY DEF Sustaining
<1>3. /\ DOMAIN k = Fields /\ SameEnd(m, k) /\ SameCarrier(m, k) /\ Sends(k, "TIMED_S11", 0)
      /\ k.sixteen = m.sixteen /\ k.heard = m.heard /\ k.negotiated = m.negotiated
  BY DEF SetTx, Modem, Fields, SameEnd, SameCarrier, Sends
<1> HIDE DEF k
<1>4. /\ SameEnd(k, n) /\ SameCarrier(k, n) /\ Sends(n, "TIMED_S11", 0)
      /\ n.sixteen = k.sixteen /\ n.heard = k.heard /\ n.negotiated = k.negotiated
      /\ Hears(n, "SCRAMBLED_ONES_AT_1200", 0)
  BY <1>3 DEF SetRx, Fields, SameEnd, SameCarrier, Sends, Hears
<1> HIDE DEF n
<1>5. SameEnd(m, n) /\ SameCarrier(m, n)
  BY <1>3, <1>4 DEF SameEnd, SameCarrier
<1> QED BY <1>1, <1>2, <1>3, <1>4, <1>5

\* The search for S1: it is heard, or not yet, or not within 400 ms.  k is the end
\* when it has listened to the symbol and counted it.
Listened(m, x, k) ==
    /\ DOMAIN k = Fields /\ SameEnd(m, k) /\ SameCarrier(m, k) /\ SameSender(m, k)
    /\ k.sixteen = m.sixteen /\ k.negotiated = m.negotiated
    /\ Hears(k, m.rx, m.rxCount + 1)
    /\ IF x = "S1" THEN k.heard = m.heard + 1 ELSE k.heard \in {0, m.heard}
Found(k, n) ==
    /\ SameEnd(k, n) /\ SameCarrier(k, n) /\ n.sixteen = k.sixteen
    /\ Hears(n, k.rx, 0)
    /\ IF k.bit_rate # 2400 THEN SameSender(k, n) /\ n.negotiated = k.negotiated
       ELSE /\ IF k.calling THEN SameSender(k, n) ELSE Sends(n, "U0011", 0)
            /\ n.negotiated = 2400
GaveUp(k, n) ==
    /\ SameEnd(k, n) /\ SameCarrier(k, n) /\ n.sixteen = k.sixteen /\ n.heard = k.heard
    /\ Sends(n, "TIMED_S11", 0) /\ n.negotiated = k.negotiated
    /\ Hears(n, IF k.calling THEN "NORMAL" ELSE "SCRAMBLED_ONES_AT_1200_SUSTAINING", k.rxCount)

LEMMA ListenedIs ==
  ASSUME NEW m, Modem(m), NEW x
  PROVE  Listened(m, x, [Listen(m, x) EXCEPT !.rxCount = @ + 1])
<1> DEFINE k == Listen(m, x)
           n == [k EXCEPT !.rxCount = @ + 1]
<1>1. DOMAIN k = Fields /\ k.calling = m.calling /\ k.bit_rate = m.bit_rate
  BY DEF Listen, Modem, Fields
<1>2. k.present = m.present /\ k.down = m.down /\ k.tx = m.tx /\ k.txCount = m.txCount
  BY DEF Listen, Modem, Fields
<1>3. /\ k.sixteen = m.sixteen /\ k.negotiated = m.negotiated /\ k.rx = m.rx
      /\ k.rxCount = m.rxCount
  BY DEF Listen, Modem, Fields
<1>4. IF x = "S1" THEN k.heard = m.heard + 1 ELSE k.heard \in {0, m.heard}
  BY DEF Listen, Modem, Fields
<1> HIDE DEF k
<1>5. DOMAIN n = Fields /\ n.calling = k.calling /\ n.bit_rate = k.bit_rate
  BY <1>1 DEF Fields
<1>6. n.present = k.present /\ n.down = k.down /\ n.tx = k.tx /\ n.txCount = k.txCount
  BY <1>1 DEF Fields
<1>7. /\ n.sixteen = k.sixteen /\ n.negotiated = k.negotiated /\ n.rx = k.rx
      /\ n.rxCount = k.rxCount + 1 /\ n.heard = k.heard
  BY <1>1 DEF Fields
<1> HIDE DEF n
<1> QED BY <1>1, <1>2, <1>3, <1>4, <1>5, <1>6, <1>7
        DEF Listened, SameEnd, SameCarrier, SameSender, Hears, n, k

LEMMA HearS1Does ==
  ASSUME NEW k, DOMAIN k = Fields
  PROVE  Found(k, HearS1(k))
<1> DEFINE n == [k EXCEPT !.heard = S1Needed - 15, !.rxCount = 0, !.repeats = 0]
           sent == IF n.calling THEN n ELSE SetTx(n, "U0011")
           up == [sent EXCEPT !.negotiated = 2400]
<1>1. /\ DOMAIN n = Fields /\ SameEnd(k, n) /\ SameCarrier(k, n) /\ SameSender(k, n)
      /\ n.sixteen = k.sixteen /\ n.negotiated = k.negotiated /\ Hears(n, k.rx, 0)
  BY DEF Fields, SameEnd, SameCarrier, SameSender, Hears
<1>2. HearS1(k) = IF n.bit_rate # 2400 THEN n ELSE up
  BY DEF HearS1
<1> HIDE DEF n
<1>3. /\ DOMAIN sent = Fields /\ SameEnd(n, sent) /\ SameCarrier(n, sent)
      /\ n.sixteen = sent.sixteen /\ Hears(n, sent.rx, sent.rxCount)
      /\ IF n.calling THEN SameSender(n, sent) ELSE Sends(sent, "U0011", 0)
  BY <1>1 DEF SetTx, Fields, SameEnd, SameCarrier, SameSender, Hears, Sends
<1> HIDE DEF sent
<1>4. /\ SameEnd(sent, up) /\ SameCarrier(sent, up) /\ SameSender(sent, up)
      /\ up.sixteen = sent.sixteen /\ Hears(up, sent.rx, sent.rxCount) /\ up.negotiated = 2400
  BY <1>3 DEF Fields, SameEnd, SameCarrier, SameSender, Hears
<1> HIDE DEF up
<1>5. CASE n.bit_rate # 2400
  BY <1>1, <1>2, <1>5 DEF Found, SameEnd
<1>6. CASE n.bit_rate = 2400
  <2>1. HearS1(k) = up /\ k.bit_rate = 2400 /\ n.calling = k.calling
    BY <1>1, <1>2, <1>6 DEF SameEnd
  <2>2. SameEnd(k, up) /\ SameCarrier(k, up) /\ up.sixteen = k.sixteen
    BY <1>1, <1>3, <1>4 DEF SameEnd, SameCarrier
  <2>3. Hears(up, k.rx, 0)
    BY <1>1, <1>3, <1>4 DEF Hears
  <2>4. IF k.calling THEN SameSender(k, up) ELSE Sends(up, "U0011", 0)
    BY <1>1, <1>3, <1>4, <2>1 DEF SameSender, Sends
  <2> QED BY <1>4, <2>1, <2>2, <2>3, <2>4 DEF Found
<1> QED BY <1>5, <1>6

LEMMA CommitDoes ==
  ASSUME NEW k, DOMAIN k = Fields
  PROVE  GaveUp(k, CommitTo1200(k))
<1> DEFINE s == SetTx(k, "TIMED_S11")
           training == IF k.calling THEN "NORMAL" ELSE "SCRAMBLED_ONES_AT_1200_SUSTAINING"
           n == [s EXCEPT !.rx = training]
<1>1. CommitTo1200(k) = n
  BY DEF CommitTo1200
<1>2. /\ DOMAIN s = Fields /\ SameEnd(k, s) /\ SameReceiver(k, s) /\ Sends(s, "TIMED_S11", 0)
  BY DEF SetTx, Fields, SameEnd, SameReceiver, Sends
<1> HIDE DEF s, training
<1>3. /\ SameEnd(s, n) /\ SameCarrier(s, n) /\ SameSender(s, n)
      /\ n.sixteen = s.sixteen /\ n.heard = s.heard /\ n.negotiated = s.negotiated
      /\ Hears(n, training, s.rxCount)
  BY <1>2 DEF Fields, SameEnd, SameCarrier, SameSender, Hears
<1> HIDE DEF n
<1> QED BY <1>1, <1>2, <1>3
        DEF GaveUp, SameEnd, SameCarrier, SameReceiver, SameSender, Sends, Hears, training

LEMMA SearchDoes ==
  ASSUME NEW m, Modem(m), m.negotiated = 1200, NEW x, NEW n \in ScrambledOnes(m, x)
  PROVE  \E k : /\ Listened(m, x, k)
                /\ \/ k.heard >= 15 /\ Found(k, n)
                   \/ k.heard <= 23 /\ k.rxCount < 240 /\ n = k
                   \/ k.heard <= 23 /\ k.rxCount >= 240 /\ GaveUp(k, n)
<1> DEFINE k == [Listen(m, x) EXCEPT !.rxCount = @ + 1]
<1>1. n \in AwaitS1(k)
  BY DEF ScrambledOnes
<1>2. Listened(m, x, k)
  BY ListenedIs
<1> HIDE DEF k
<1> DEFINE quiet == IF k.rxCount >= 240 THEN CommitTo1200(k) ELSE k
<1>3. k.heard \in Nat /\ k.rxCount \in Nat /\ DOMAIN k = Fields
  BY <1>2 DEF Listened, Hears, Modem
<1>4. \/ n = HearS1(k) /\ k.heard >= 15
      \/ n = quiet /\ k.heard <= 23
  <2>1. CASE k.heard > 23
    <3>1. n = HearS1(k)
      BY <1>1, <2>1 DEF AwaitS1, S1Needed
    <3> QED BY <1>3, <2>1, <3>1
  <2>2. CASE ~(k.heard > 23) /\ k.heard >= 15
    <3>1. n = HearS1(k) \/ n = quiet
      BY <1>1, <2>2, Symbols DEF AwaitS1, S1Needed, S1Lucky
    <3> HIDE DEF quiet
    <3> QED BY <1>3, <2>2, <3>1
  <2>3. CASE ~(k.heard > 23) /\ ~(k.heard >= 15)
    <3>1. n = quiet
      BY <1>1, <2>3, Symbols DEF AwaitS1, S1Needed, S1Lucky
    <3> HIDE DEF quiet
    <3> QED BY <1>3, <2>3, <3>1
  <2> QED BY <2>1, <2>2, <2>3
<1>5. CASE n = HearS1(k) /\ k.heard >= 15
  BY <1>2, <1>3, <1>5, HearS1Does
<1>6. CASE n = quiet /\ k.heard <= 23
  <2>1. CASE k.rxCount >= 240
    <3>1. n = CommitTo1200(k)
      BY <1>6, <2>1
    <3>2. GaveUp(k, n)
      BY <1>3, <3>1, CommitDoes
    <3> QED BY <1>2, <1>6, <2>1, <3>2
  <2>2. CASE ~(k.rxCount >= 240)
    <3>1. n = k /\ k.rxCount < 240
      BY <1>3, <1>6, <2>2
    <3> QED BY <1>2, <1>6, <3>1
  <2> QED BY <2>1, <2>2
<1> QED BY <1>4, <1>5, <1>6

\* At 2400: so many symbols, and the receiver decides with sixteen points.
Wait(m) == IF m.calling THEN 330 ELSE 270

LEMMA Await2400Does ==
  ASSUME NEW m, Modem(m), m.negotiated = 2400, NEW x, NEW n \in ScrambledOnes(m, x)
  PROVE  /\ SameEnd(m, n) /\ SameCarrier(m, n) /\ SameSender(m, n) /\ n.negotiated = 2400
         /\ m.rxCount + 1 < Wait(m) =>
               Hears(n, m.rx, m.rxCount + 1) /\ n.sixteen = m.sixteen
         /\ m.rxCount + 1 >= Wait(m) =>
               /\ Hears(n, "WAIT_FOR_SCRAMBLED_ONES_AT_2400", m.rxCount + 1)
               /\ n.sixteen /\ n.repeats = 0
<1> DEFINE k == [m EXCEPT !.rxCount = @ + 1]
           done == [k EXCEPT !.sixteen = TRUE, !.repeats = 0,
                             !.rx = "WAIT_FOR_SCRAMBLED_ONES_AT_2400"]
<1>1. /\ DOMAIN k = Fields /\ SameEnd(m, k) /\ SameCarrier(m, k) /\ SameSender(m, k)
      /\ k.negotiated = 2400 /\ Hears(k, m.rx, m.rxCount + 1) /\ k.sixteen = m.sixteen
  BY DEF Modem, Fields, SameEnd, SameCarrier, SameSender, Hears
<1>2. n = IF k.rxCount < Wait(m) THEN k ELSE done
  <2>1. n = Await2400(k)
    BY DEF ScrambledOnes
  <2>2. k.calling = m.calling
    BY <1>1 DEF SameEnd
  <2> HIDE DEF k
  <2> QED BY <2>1, <2>2, Symbols DEF Await2400, Wait
<1> HIDE DEF k
<1>3. /\ SameEnd(k, done) /\ SameCarrier(k, done) /\ SameSender(k, done)
      /\ done.negotiated = k.negotiated /\ done.sixteen /\ done.repeats = 0
      /\ Hears(done, "WAIT_FOR_SCRAMBLED_ONES_AT_2400", k.rxCount)
  BY <1>1 DEF Fields, SameEnd, SameCarrier, SameSender, Hears
<1>4. k.rxCount = m.rxCount + 1 /\ m.rxCount \in Nat /\ Wait(m) \in Nat
  BY <1>1 DEF Hears, Modem, Wait
<1> HIDE DEF done
<1>5. CASE k.rxCount < Wait(m)
  <2>1. n = k /\ ~(m.rxCount + 1 >= Wait(m))
    BY <1>2, <1>4, <1>5
  <2> QED BY <1>1, <2>1
<1>6. CASE ~(k.rxCount < Wait(m))
  <2>1. n = done /\ ~(m.rxCount + 1 < Wait(m))
    BY <1>2, <1>4, <1>6
  <2>2. SameEnd(m, done) /\ SameCarrier(m, done) /\ SameSender(m, done)
    BY <1>1, <1>3 DEF SameEnd, SameCarrier, SameSender
  <2>3. Hears(done, "WAIT_FOR_SCRAMBLED_ONES_AT_2400", m.rxCount + 1)
    BY <1>3, <1>4
  <2>4. done.negotiated = 2400 /\ done.sixteen /\ done.repeats = 0
    BY <1>1, <1>3
  <2>5. SameEnd(m, n) /\ SameCarrier(m, n) /\ SameSender(m, n) /\ n.negotiated = 2400
    BY <2>1, <2>2, <2>4
  <2>6. m.rxCount + 1 < Wait(m) => Hears(n, m.rx, m.rxCount + 1) /\ n.sixteen = m.sixteen
    BY <2>1
  <2>7. Hears(n, "WAIT_FOR_SCRAMBLED_ONES_AT_2400", m.rxCount + 1)
    BY <2>1, <2>3
  <2>8. n.sixteen
    BY <2>1, <2>4
  <2>9. n.repeats = 0
    BY <2>1, <2>4
  <2>10. m.rxCount + 1 >= Wait(m) => /\ Hears(n, "WAIT_FOR_SCRAMBLED_ONES_AT_2400", m.rxCount + 1)
               /\ n.sixteen /\ n.repeats = 0
    BY <2>7, <2>8, <2>9
  <2> QED BY <2>5, <2>6, <2>10
<1> QED BY <1>5, <1>6

\* At 1200 the answerer sustains for the time the caller's tests take.
LEMMA ScrambledSustainingDoes ==
  ASSUME NEW m, Modem(m)
  PROVE  LET n == ScrambledSustaining(m) IN
         /\ SameEnd(m, n) /\ SameCarrier(m, n) /\ SameSender(m, n)
         /\ n.negotiated = m.negotiated /\ n.sixteen = m.sixteen
         /\ m.rxCount + 1 <= 621 => Hears(n, m.rx, m.rxCount + 1)
         /\ m.rxCount + 1 > 621 => n.rx = "NORMAL"
<1> DEFINE n == ScrambledSustaining(m)
<1>0. m.rxCount \in Nat
  BY DEF Modem
<1>1. CASE m.rxCount + 1 > 621
  <2>1. n = SetRx(m, "NORMAL")
    BY <1>1, Symbols DEF ScrambledSustaining
  <2> HIDE DEF n
  <2>2. /\ SameEnd(m, n) /\ SameCarrier(m, n) /\ SameSender(m, n)
        /\ n.negotiated = m.negotiated /\ n.sixteen = m.sixteen /\ n.rx = "NORMAL"
    BY <2>1 DEF SetRx, Modem, Fields, SameEnd, SameCarrier, SameSender
  <2>3. ~(m.rxCount + 1 <= 621)
    BY <1>0, <1>1
  <2> QED BY <1>1, <2>2, <2>3 DEF n
<1>2. CASE ~(m.rxCount + 1 > 621)
  <2>0. ScrambledSustaining(m) = IF m.rxCount + 1 > 621 THEN SetRx(m, "NORMAL")
                                ELSE [m EXCEPT !.rxCount = @ + 1]
    BY Symbols DEF ScrambledSustaining
  <2>1. n = [m EXCEPT !.rxCount = @ + 1]
    BY <1>2, <2>0
  <2> HIDE DEF n
  <2>2. /\ SameEnd(m, n) /\ SameCarrier(m, n) /\ SameSender(m, n)
        /\ n.negotiated = m.negotiated /\ n.sixteen = m.sixteen
        /\ Hears(n, m.rx, m.rxCount + 1)
    BY <2>1 DEF Modem, Fields, SameEnd, SameCarrier, SameSender, Hears
  <2> QED BY <1>2, <2>2 DEF n
<1> QED BY <1>1, <1>2

\* Nine symbols of ones at 2400, uninterrupted.
LEMMA Wait2400Does ==
  ASSUME NEW m, Modem(m), m.repeats \in Nat, NEW x, x # "data2400", NEW n \in Wait2400(m, x)
  PROVE  /\ SameEnd(m, n) /\ SameCarrier(m, n) /\ SameSender(m, n)
         /\ n.negotiated = m.negotiated /\ n.sixteen = m.sixteen
         /\ x = "S1111" /\ m.repeats + 1 >= 9 => n.rx = "NORMAL"
         /\ x = "S1111" /\ m.repeats + 1 < 9 => n.rx = m.rx /\ n.repeats = m.repeats + 1
         /\ x # "S1111" => n.rx = m.rx /\ n.repeats = 0
<1>1. CASE x = "S1111" /\ m.repeats + 1 >= 9
  <2>1. n = SetRx(m, "NORMAL")
    BY <1>1 DEF Wait2400, OnesNeeded
  <2>2. ~(m.repeats + 1 < 9)
    BY <1>1
  <2>3. /\ SameEnd(m, n) /\ SameCarrier(m, n) /\ SameSender(m, n)
        /\ n.negotiated = m.negotiated /\ n.sixteen = m.sixteen /\ n.rx = "NORMAL"
    BY <2>1 DEF SetRx, Modem, Fields, SameEnd, SameCarrier, SameSender
  <2> QED BY <1>1, <2>2, <2>3
<1>2. CASE x = "S1111" /\ ~(m.repeats + 1 >= 9)
  <2>1. n = [m EXCEPT !.repeats = @ + 1]
    BY <1>2 DEF Wait2400, OnesNeeded
  <2>2. /\ SameEnd(m, n) /\ SameCarrier(m, n) /\ SameSender(m, n)
        /\ n.negotiated = m.negotiated /\ n.sixteen = m.sixteen
        /\ n.rx = m.rx /\ n.repeats = m.repeats + 1
    BY <2>1 DEF Modem, Fields, SameEnd, SameCarrier, SameSender
  <2> QED BY <1>2, <2>2
<1>3. CASE x # "S1111"
  <2>1. n = [m EXCEPT !.repeats = 0]
    BY <1>3 DEF Wait2400
  <2>2. /\ SameEnd(m, n) /\ SameCarrier(m, n) /\ SameSender(m, n)
        /\ n.negotiated = m.negotiated /\ n.sixteen = m.sixteen
        /\ n.rx = m.rx /\ n.repeats = 0
    BY <2>1 DEF Modem, Fields, SameEnd, SameCarrier, SameSender
  <2> QED BY <1>3, <2>2
<1> QED BY <1>1, <1>2, <1>3

SameDecoder(m, n) ==
    /\ n.rx = m.rx /\ n.rxCount = m.rxCount /\ n.negotiated = m.negotiated
    /\ n.sixteen = m.sixteen /\ n.repeats = m.repeats /\ n.heard = m.heard

\* The silence heard, and whether it is still too short for the carrier to be lost.
Down(m, x) == IF x = "silence" THEN m.down + 1 ELSE 0
Carries(m, x) == x # "silence" \/ m.down \in 0..58

\* v22bis_rx after v22bis_tx: nothing is heard of silence before the first sound,
\* the first sound is the carrier, and after it every symbol is decided.
LEMMA SymbolDoes ==
  ASSUME NEW m, Modem(m), NEW s, Modem(s), SameReceiver(m, s), SameEnd(m, s),
         NEW x, NEW n \in RxStep(s, x)
  PROVE  /\ ~m.present /\ x = "silence" => n = s
         /\ ~m.present /\ x # "silence" =>
               SameEnd(m, n) /\ SameSender(s, n) /\ SameDecoder(m, n) /\ n.present /\ n.down = 0
         /\ m.present /\ Carries(m, x) =>
               \E k : /\ Modem(k) /\ SameEnd(m, k) /\ SameSender(s, k) /\ SameDecoder(m, k)
                      /\ k.present /\ k.down = Down(m, x) /\ n \in Decide(k, x)
<1>0. (s.present <=> m.present) /\ s.down = m.down /\ SameDecoder(m, s)
  BY DEF SameReceiver, SameDecoder
<1>1. CASE ~m.present /\ x = "silence"
  BY <1>0, <1>1 DEF RxStep
<1>2. CASE ~m.present /\ x # "silence"
  <2>1. n = [s EXCEPT !.present = TRUE, !.down = 0]
    BY <1>0, <1>2 DEF RxStep
  <2>2. SameEnd(s, n) /\ SameSender(s, n)
    BY <2>1 DEF Modem, Fields, SameEnd, SameSender
  <2>3. SameDecoder(s, n)
    BY <2>1 DEF Modem, Fields, SameDecoder
  <2>4. n.present
    BY <2>1 DEF Modem, Fields
  <2>5. n.down = 0
    BY <2>1 DEF Modem, Fields
  <2>6. SameEnd(m, n) /\ SameDecoder(m, n)
    BY <1>0, <2>2, <2>3 DEF SameEnd, SameDecoder
  <2>7. SameEnd(m, n) /\ SameSender(s, n) /\ SameDecoder(m, n) /\ n.present /\ n.down = 0
    BY <2>2, <2>4, <2>5, <2>6
  <2> QED BY <1>2, <2>7
<1>3. CASE m.present /\ Carries(m, x)
  <2> DEFINE d == IF x = "silence" THEN m.down + 1 ELSE 0
             k == [s EXCEPT !.down = IF x = "silence" THEN @ + 1 ELSE 0]
  <2>1. n \in Decide(k, x)
    <3>1. s.present /\ ~(x = "silence" /\ s.down + 1 >= CarrierLoss)
      BY <1>0, <1>3 DEF CarrierLoss, Carries
    <3> QED BY <3>1 DEF RxStep
  <2>2. SameEnd(s, k) /\ SameSender(s, k)
    BY DEF Modem, Fields, SameEnd, SameSender
  <2>3. SameDecoder(s, k)
    BY DEF Modem, Fields, SameDecoder
  <2>4. k.down = d
    BY <1>0 DEF Modem, Fields
  <2>9. k.present = s.present
    BY DEF Modem, Fields
  <2>5. Modem(k)
    BY DEF Modem, Fields
  <2> HIDE DEF k
  <2>6. SameEnd(m, k) /\ SameDecoder(m, k)
    BY <1>0, <2>2, <2>3 DEF SameEnd, SameDecoder
  <2>7. k.present
    BY <1>0, <1>3, <2>9
  <2>8. \E y : /\ Modem(y) /\ SameEnd(m, y) /\ SameSender(s, y) /\ SameDecoder(m, y)
               /\ y.present /\ y.down = d /\ n \in Decide(y, x)
    BY <2>1, <2>2, <2>4, <2>5, <2>6, <2>7
  <2> QED BY <1>3, <2>8 DEF d, Down
<1>4. CASE m.present /\ ~Carries(m, x)
  BY <1>4
<1> QED BY <1>1, <1>2, <1>3, <1>4

\* What an end sends next, and what it is once it has heard a sound.
LEMMA SoundDoes ==
  ASSUME NEW far, NEW m, Sound(m, far), NEW x, x # "silence", m.present,
         NEW n \in RxStep(TxStep(m), x)
  PROVE  \E k : /\ Modem(k) /\ SameEnd(m, k) /\ SameSender(TxStep(m), k) /\ SameDecoder(m, k)
                /\ k.present /\ k.down = 0 /\ n \in Decide(k, x)
<1> DEFINE s == TxStep(m)
<1>1. Modem(m) /\ Modem(s)
  BY TxStepIs DEF Sound, Near
<1>2. SameReceiver(m, s) /\ SameEnd(m, s)
  BY <1>1, TxStepDoes
<1>3. n \in RxStep(s, x)
  OBVIOUS
<1> HIDE DEF s
<1>4. Carries(m, x)
  BY DEF Carries
<1>5. \E k : /\ Modem(k) /\ SameEnd(m, k) /\ SameSender(s, k) /\ SameDecoder(m, k)
             /\ k.present /\ k.down = Down(m, x) /\ n \in Decide(k, x)
  BY <1>1, <1>2, <1>3, <1>4, SymbolDoes
<1> QED BY <1>5 DEF s, Down

-----------------------------------------------------------------------------
(* The timetable of a training.  Both ends are clocked by the same symbols,*)
(* so all that happens in it is settled by the delay, by when the caller   *)
(* starts, and by when and how the answerer answers; everything else comes *)
(* a number of symbols after that.  p is such a timetable, t the number of *)
(* symbols there have been.                                                *)

Timetable(p) ==
    /\ p.delay \in Nat /\ p.start \in Nat
    /\ p.ring \in Nat       \* the caller hears the first of U11
    /\ p.ring >= p.start /\ p.ring >= 45 + p.delay
    /\ p.ring \in {p.start, 45 + p.delay}
    /\ p.call \in Nat /\ p.call = p.ring + 367      \* it sends its first symbol
    /\ p.hear \in Nat /\ p.hear = p.call + p.delay  \* the answerer hears it
    /\ p.answer \in Nat /\ p.answer >= p.hear + 42  \* the answerer ends U11
    /\ p.reply \in Nat /\ p.reply = p.answer + p.delay  \* the caller hears that
    /\ p.quick \in BOOLEAN   \* the caller may work at 2400
    /\ p.both \in BOOLEAN    \* S1 was answered: both do
    /\ p.both => p.quick

\* The segment that each end sends symbol t of.
AnswererSends(p, t) ==
    IF t < 45 THEN "silence"
    ELSE IF t < p.answer THEN "U11"
    ELSE IF ~p.both THEN IF t < p.answer + 453 THEN "S11" ELSE "data1200"
    ELSE IF t < p.answer + 60 THEN "S1"
    ELSE IF t < p.answer + 360 THEN "S11"
    ELSE IF t < p.answer + 480 THEN "S1111" ELSE "data2400"
CallerSends(p, t) ==
    IF t < p.call THEN "silence"
    ELSE IF t <= p.reply THEN IF p.quick /\ t < p.call + 60 THEN "S1" ELSE "S11"
    ELSE IF ~p.both THEN IF t < p.reply + 694 THEN "S11" ELSE "data1200"
    ELSE IF t < p.reply + 454 THEN "S11"
    ELSE IF t < p.reply + 574 THEN "S1111" ELSE "data2400"

\* The answerer until it answers, which is a choice, and from then on.
Called(m, p, t) ==
    /\ ~m.calling
    /\ IF t < 45 THEN Sends(m, "INITIAL_TIMED_SILENCE", t) ELSE m.tx = "U11"
    /\ IF t <= p.hear THEN ~m.present ELSE m.present
    /\ IF t <= p.hear THEN Hears(m, "SYMBOL_ACQUISITION", 0)
       ELSE IF t <= p.hear + 40 THEN Hears(m, "SYMBOL_ACQUISITION", t - p.hear - 1)
       ELSE m.rx = "SCRAMBLED_ONES_AT_1200"
    /\ ~m.sixteen /\ m.negotiated = 1200 /\ m.down = 0

AnswersAt1200(m, p, t) ==
    /\ ~m.calling /\ m.present /\ ~m.sixteen /\ m.negotiated = 1200
    /\ IF t < p.answer + 453 THEN Sends(m, "TIMED_S11", t - p.answer) ELSE m.tx = "NORMAL"
    /\ IF t < p.answer + 382
       THEN Hears(m, "SCRAMBLED_ONES_AT_1200_SUSTAINING", 240 + (t - p.answer))
       ELSE m.rx = "NORMAL"

AnswersAt2400(m, p, t) ==
    /\ ~m.calling /\ m.present /\ m.negotiated = 2400
    /\ IF t < p.answer + 60 THEN Sends(m, "U0011", t - p.answer)
       ELSE IF t < p.answer + 360 THEN Sends(m, "TIMED_S11", t - p.answer + 93)
       ELSE IF t < p.answer + 480 THEN Sends(m, "S1111", t - p.answer - 360)
       ELSE m.tx = "NORMAL"
    /\ IF t < p.answer + 270
       THEN Hears(m, "SCRAMBLED_ONES_AT_1200", t - p.answer) /\ ~m.sixteen
       ELSE m.sixteen
    /\ p.answer + 270 <= t /\ t < p.reply + p.delay + 463 =>
          /\ m.rx = "WAIT_FOR_SCRAMBLED_ONES_AT_2400"
          /\ m.repeats = IF t <= p.reply + p.delay + 454 THEN 0
                         ELSE t - (p.reply + p.delay + 454)
    /\ t >= p.reply + p.delay + 463 => m.rx = "NORMAL"

\* The caller until it hears the answer, and from then on.
Calls(m, p, t) ==
    /\ m.calling
    /\ IF t < p.call THEN m.tx = "INITIAL_SILENCE"
       ELSE IF p.quick /\ t < p.call + 60 THEN Sends(m, "U0011", t - p.call)
       ELSE m.tx = "S11"
    /\ IF t <= p.ring THEN ~m.present ELSE m.present
    /\ IF t <= p.ring THEN Hears(m, "SYMBOL_ACQUISITION", 0)
       ELSE IF t <= p.ring + 40 THEN Hears(m, "SYMBOL_ACQUISITION", t - p.ring - 1)
       ELSE IF t < p.call
       THEN Hears(m, "UNSCRAMBLED_ONES", t - p.ring - 1) /\ m.repeats = t - p.ring - 41
       ELSE m.rx = "UNSCRAMBLED_ONES_SUSTAINING"
    /\ ~m.sixteen /\ m.negotiated = 1200 /\ m.heard = 0 /\ m.down = 0

RepliesAt1200(m, p, t) ==
    /\ m.calling /\ m.present /\ ~m.sixteen /\ m.negotiated = 1200 /\ m.down = 0
    /\ IF t <= p.reply + 240 THEN Sends(m, "TIMED_S11", t - p.reply - 1)
       ELSE IF t < p.reply + 694 THEN Sends(m, "TIMED_S11", t - p.reply - 241)
       ELSE m.tx = "NORMAL"
    /\ IF t <= p.reply + 240
       THEN Hears(m, "SCRAMBLED_ONES_AT_1200", t - p.reply - 1) /\ m.heard = 0
       ELSE m.rx = "NORMAL"

\* At 2400: not heard yet, heard, ready for ones at 2400, and done.
Listens(m, p, t) ==
    /\ m.negotiated = 1200 /\ ~m.sixteen /\ t <= p.reply + 24
    /\ Hears(m, "SCRAMBLED_ONES_AT_1200", t - p.reply - 1) /\ m.heard = t - p.reply - 1
Awaits(m, p, t) ==
    /\ m.negotiated = 2400 /\ ~m.sixteen /\ m.rx = "SCRAMBLED_ONES_AT_1200"
    /\ m.rxCount >= t - p.reply - 25 /\ m.rxCount <= t - p.reply - 16 /\ m.rxCount < 330
Counts(m, p, t) ==
    /\ m.negotiated = 2400 /\ m.sixteen /\ m.rx = "WAIT_FOR_SCRAMBLED_ONES_AT_2400"
    /\ t >= p.reply + 346 /\ t < p.reply + 369
    /\ m.repeats = IF t <= p.reply + 360 THEN 0 ELSE t - (p.reply + 360)
Done(m, p, t) == m.negotiated = 2400 /\ m.sixteen /\ m.rx = "NORMAL" /\ t >= p.reply + 369
RepliesAt2400(m, p, t) ==
    /\ m.calling /\ m.present /\ m.down = 0
    /\ IF t < p.reply + 454 THEN Sends(m, "TIMED_S11", t - p.reply - 1)
       ELSE IF t < p.reply + 574 THEN Sends(m, "S1111", t - p.reply - 454)
       ELSE m.tx = "NORMAL"
    /\ Listens(m, p, t) \/ Awaits(m, p, t) \/ Counts(m, p, t) \/ Done(m, p, t)

Answers(m, p, t) == IF t < p.answer THEN Called(m, p, t)
                    ELSE IF p.both THEN AnswersAt2400(m, p, t) ELSE AnswersAt1200(m, p, t)
Replies(m, p, t) == IF t <= p.reply THEN Calls(m, p, t)
                    ELSE IF p.both THEN RepliesAt2400(m, p, t) ELSE RepliesAt1200(m, p, t)

-----------------------------------------------------------------------------
(* The answerer keeps to the timetable.                                    *)

\* The first symbol after U11.
Begins(m) ==
    /\ ~m.calling /\ m.present /\ ~m.sixteen /\ m.down = 0
    /\ \/ /\ m.negotiated = 2400
          /\ Sends(m, "U0011", 0) /\ Hears(m, "SCRAMBLED_ONES_AT_1200", 0)
       \/ /\ m.negotiated = 1200
          /\ Sends(m, "TIMED_S11", 0) /\ Hears(m, "SCRAMBLED_ONES_AT_1200_SUSTAINING", 240)

\* Called, it waits, and may answer only once it has acquired the carrier.
LEMMA CalledNext ==
  ASSUME NEW p, Timetable(p), NEW t \in Nat, NEW far, NEW m, Sound(m, far), Called(m, p, t),
         NEW x, t < p.hear => x = "silence", t >= p.hear => x # "silence",
         NEW n \in RxStep(TxStep(m), x)
  PROVE  Called(n, p, t + 1) \/ (t >= p.hear + 41 /\ Begins(n))
<1> DEFINE s == TxStep(m)
<1>0. p.hear \in Nat /\ p.hear >= 45
  BY DEF Timetable
<1>1. Modem(m) /\ Modem(s) /\ TxCounts(m) /\ RxCounts(m)
  BY TxStepIs DEF Sound, Near
<1>2. SameReceiver(m, s) /\ SameEnd(m, s)
  BY <1>1, TxStepDoes
<1>3. IF t + 1 < 45 THEN Sends(s, "INITIAL_TIMED_SILENCE", t + 1) ELSE s.tx = "U11"
  <2>1. CASE t < 45
    <3>1. m.tx = "INITIAL_TIMED_SILENCE" /\ m.txCount = t /\ TxLimit(m.tx) = 45
      BY <2>1 DEF Called, Sends, TxLimit
    <3>2. CASE t + 1 < 45
      BY <1>1, <3>1, <3>2, TxStepDoes
    <3>3. CASE ~(t + 1 < 45)
      <4>1. m.txCount + 1 >= TxLimit(m.tx)
        BY <3>1, <3>3
      <4> QED BY <1>1, <3>1, <3>3, <4>1, TxStepDoes
    <3> QED BY <3>2, <3>3
  <2>2. CASE ~(t < 45)
    <3>1. m.tx = "U11" /\ ~(t + 1 < 45)
      BY <2>2 DEF Called
    <3> QED BY <1>1, <3>1, TxStepDoes
  <2> QED BY <2>1, <2>2
<1>4. n \in RxStep(s, x)
  OBVIOUS
<1> HIDE DEF s
<1>5. CASE t <= p.hear
  <2>1. /\ ~m.calling /\ ~m.present /\ ~m.sixteen /\ m.negotiated = 1200 /\ m.down = 0
        /\ m.rx = "SYMBOL_ACQUISITION" /\ m.rxCount = 0
    BY <1>5 DEF Called, Hears
  <2>2. CASE t < p.hear
    <3>1. n = s
      BY <1>1, <1>2, <1>4, <2>1, <2>2, SymbolDoes
    <3>2. /\ ~n.calling /\ ~n.present /\ ~n.sixteen /\ n.negotiated = 1200 /\ n.down = 0
          /\ Hears(n, "SYMBOL_ACQUISITION", 0)
      BY <1>2, <2>1, <3>1 DEF SameReceiver, SameEnd, Hears
    <3>3. t + 1 <= p.hear
      BY <1>0, <2>2
    <3> QED BY <1>3, <3>1, <3>2, <3>3 DEF Called
  <2>3. CASE ~(t < p.hear)
    <3>1. t = p.hear /\ x # "silence"
      BY <1>0, <1>5, <2>3
    <3>2. SameEnd(m, n) /\ SameSender(s, n) /\ SameDecoder(m, n) /\ n.present /\ n.down = 0
      BY <1>1, <1>2, <1>4, <2>1, <3>1, SymbolDoes
    <3>3. /\ ~n.calling /\ ~n.sixteen /\ n.negotiated = 1200
          /\ Hears(n, "SYMBOL_ACQUISITION", 0)
      BY <2>1, <3>2 DEF SameDecoder, SameEnd, Hears
    <3>4. s.tx = "U11" /\ n.tx = "U11"
      BY <1>0, <1>3, <3>1, <3>2 DEF SameSender
    <3>5. ~(t + 1 < 45) /\ ~(t + 1 <= p.hear) /\ t + 1 <= p.hear + 40 /\ (t + 1) - p.hear - 1 = 0
      BY <1>0, <3>1
    <3>6. Hears(n, "SYMBOL_ACQUISITION", (t + 1) - p.hear - 1)
      BY <3>3, <3>5
    <3>7. Called(n, p, t + 1)
      BY <3>2, <3>3, <3>4, <3>5, <3>6 DEF Called
    <3> QED BY <3>7
  <2> QED BY <2>2, <2>3
<1>6. CASE t > p.hear
  <2>1. m.present /\ x # "silence" /\ ~m.calling /\ ~m.sixteen /\ m.negotiated = 1200
    BY <1>0, <1>6 DEF Called
  <2>2. PICK k : /\ Modem(k) /\ SameEnd(m, k) /\ SameSender(s, k) /\ SameDecoder(m, k)
                 /\ k.present /\ k.down = 0 /\ n \in Decide(k, x)
    BY <2>1, SoundDoes DEF s
  <2>3. k.tx = "U11" /\ ~k.calling /\ ~k.sixteen /\ k.negotiated = 1200
        /\ k.rx = m.rx /\ k.rxCount = m.rxCount
    BY <1>0, <1>3, <1>6, <2>1, <2>2 DEF SameSender, SameEnd, SameDecoder
  <2>4. ~(t + 1 < 45) /\ ~(t + 1 <= p.hear)
    BY <1>0, <1>6
  <2>5. CASE t <= p.hear + 40
    <3>1. k.rx = "SYMBOL_ACQUISITION" /\ k.rxCount = t - p.hear - 1
      BY <1>0, <1>6, <2>3, <2>5 DEF Called, Hears
    <3>2. n = Acquire(k)
      BY <2>2, <3>1 DEF Decide
    <3>3. SameEnd(k, n) /\ SameSender(k, n) /\ SameCarrier(k, n) /\ n.sixteen = k.sixteen
      BY <2>2, <3>2, AcquireDoes
    <3>4. ~n.calling /\ n.present /\ n.down = 0 /\ n.tx = "U11"
      BY <2>2, <2>3, <3>3 DEF SameEnd, SameSender, SameCarrier
    <3>5. ~n.sixteen
      BY <2>3, <3>3
    <3>6. CASE t < p.hear + 40
      <4>1. k.rxCount + 1 < 40 /\ k.rxCount + 1 = (t + 1) - p.hear - 1
        BY <1>0, <3>1, <3>6
      <4>2. Hears(n, "SYMBOL_ACQUISITION", (t + 1) - p.hear - 1) /\ n.negotiated = 1200
        BY <2>2, <2>3, <3>1, <3>2, <4>1, AcquireDoes
      <4>3. t + 1 <= p.hear + 40
        BY <1>0, <3>6
      <4> QED BY <2>4, <3>4, <3>5, <4>2, <4>3 DEF Called
    <3>7. CASE ~(t < p.hear + 40)
      <4>1. k.rxCount + 1 >= 40 /\ ~(t + 1 <= p.hear + 40)
        BY <1>0, <2>5, <3>1, <3>7
      <4>2. n.rx = "SCRAMBLED_ONES_AT_1200" /\ n.negotiated = 1200
        BY <2>2, <2>3, <3>2, <4>1, AcquireDoes DEF Hears
      <4> QED BY <2>4, <3>4, <3>5, <4>1, <4>2 DEF Called
    <3> QED BY <3>6, <3>7
  <2>6. CASE ~(t <= p.hear + 40)
    <3>1. k.rx = "SCRAMBLED_ONES_AT_1200" /\ ~(t + 1 <= p.hear + 40) /\ t >= p.hear + 41
      BY <1>0, <1>6, <2>3, <2>6 DEF Called
    <3>2. n \in ScrambledOnes(k, x)
      BY <2>2, <3>1 DEF Decide
    <3>3. PICK c : /\ Listened(k, x, c)
                   /\ \/ c.heard >= 15 /\ Found(c, n)
                      \/ c.heard <= 23 /\ c.rxCount < 240 /\ n = c
                      \/ c.heard <= 23 /\ c.rxCount >= 240 /\ GaveUp(c, n)
      BY <2>2, <2>3, <3>2, SearchDoes
    <3>4. /\ ~c.calling /\ c.present /\ c.down = 0 /\ c.tx = "U11" /\ c.negotiated = 1200
          /\ c.rx = "SCRAMBLED_ONES_AT_1200" /\ c.rxCount = m.rxCount + 1
      BY <2>2, <2>3, <3>1, <3>3 DEF Listened, SameEnd, SameCarrier, SameSender, Hears
    <3>5. ~c.sixteen
      BY <2>3, <3>3 DEF Listened
    <3>6. CASE Found(c, n)
      <4>1. ~n.calling /\ n.present /\ n.down = 0 /\ Hears(n, "SCRAMBLED_ONES_AT_1200", 0)
        BY <3>4, <3>6 DEF Found, SameEnd, SameCarrier
      <4>2. ~n.sixteen
        BY <3>5, <3>6 DEF Found
      <4>3. \/ n.tx = "U11" /\ n.negotiated = 1200
            \/ Sends(n, "U0011", 0) /\ n.negotiated = 2400
        BY <3>4, <3>6 DEF Found, SameSender
      <4>4. CASE n.tx = "U11" /\ n.negotiated = 1200
        <5>1. n.rx = "SCRAMBLED_ONES_AT_1200"
          BY <4>1 DEF Hears
        <5> QED BY <2>4, <3>1, <4>1, <4>2, <4>4, <5>1 DEF Called
      <4>5. CASE Sends(n, "U0011", 0) /\ n.negotiated = 2400
        <5>1. Begins(n)
          BY <4>1, <4>2, <4>5 DEF Begins
        <5> QED BY <3>1, <5>1
      <4> QED BY <4>3, <4>4, <4>5
    <3>7. CASE n = c
      <4>1. ~n.calling /\ n.present /\ n.down = 0 /\ n.tx = "U11" /\ n.negotiated = 1200
            /\ n.rx = "SCRAMBLED_ONES_AT_1200"
        BY <3>4, <3>7
      <4>2. ~n.sixteen
        BY <3>5, <3>7
      <4> QED BY <2>4, <3>1, <4>1, <4>2 DEF Called
    <3>8. CASE c.rxCount >= 240 /\ GaveUp(c, n)
      <4>1. m.rxCount \in Nat /\ m.rxCount < 240
        BY <1>1, <2>1, <2>3, <3>1 DEF Modem, RxCounts, RxLimit
      <4>2. c.rxCount = 240
        BY <3>4, <3>8, <4>1
      <4>3. ~n.calling /\ n.present /\ n.down = 0 /\ Sends(n, "TIMED_S11", 0)
            /\ n.negotiated = 1200 /\ Hears(n, "SCRAMBLED_ONES_AT_1200_SUSTAINING", 240)
        BY <3>4, <3>8, <4>2 DEF GaveUp, SameEnd, SameCarrier
      <4>4. ~n.sixteen
        BY <3>5, <3>8 DEF GaveUp
      <4>5. Begins(n)
        BY <4>3, <4>4 DEF Begins
      <4> QED BY <3>1, <4>5
    <3> QED BY <3>3, <3>6, <3>7, <3>8
  <2> QED BY <2>5, <2>6
<1> QED BY <1>0, <1>5, <1>6

\* Its first symbol after U11 is the one the timetable has.
LEMMA BeginsIs ==
  ASSUME NEW p, Timetable(p), NEW t \in Nat, t = p.answer, NEW m, Begins(m),
         p.both <=> m.negotiated = 2400
  PROVE  IF p.both THEN AnswersAt2400(m, p, t) ELSE AnswersAt1200(m, p, t)
<1>1. /\ p.answer \in Nat /\ p.reply \in Nat /\ p.delay \in Nat /\ p.reply = p.answer + p.delay
  BY DEF Timetable
<1>2. ~m.calling /\ m.present
  BY DEF Begins
<1>3. ~m.sixteen
  BY DEF Begins
<1>4. /\ t < p.answer + 60 /\ t < p.answer + 270 /\ ~(p.answer + 270 <= t)
      /\ ~(t >= p.reply + p.delay + 463)
      /\ t < p.answer + 453 /\ t < p.answer + 382 /\ t - p.answer = 0 /\ 240 + (t - p.answer) = 240
  BY <1>1
<1>5. CASE p.both
  <2>1. /\ m.negotiated = 2400
        /\ Sends(m, "U0011", 0) /\ Hears(m, "SCRAMBLED_ONES_AT_1200", 0)
    BY <1>5 DEF Begins
  <2>2. Sends(m, "U0011", t - p.answer) /\ Hears(m, "SCRAMBLED_ONES_AT_1200", t - p.answer)
    BY <1>4, <2>1
  <2>3. AnswersAt2400(m, p, t)
    BY <1>2, <1>3, <1>4, <2>1, <2>2 DEF AnswersAt2400
  <2> QED BY <1>5, <2>3
<1>6. CASE ~p.both
  <2>1. /\ m.negotiated = 1200
        /\ Sends(m, "TIMED_S11", 0) /\ Hears(m, "SCRAMBLED_ONES_AT_1200_SUSTAINING", 240)
    BY <1>6 DEF Begins
  <2>2. /\ Sends(m, "TIMED_S11", t - p.answer)
        /\ Hears(m, "SCRAMBLED_ONES_AT_1200_SUSTAINING", 240 + (t - p.answer))
    BY <1>4, <2>1
  <2>3. AnswersAt1200(m, p, t)
    BY <1>2, <1>3, <1>4, <2>1, <2>2 DEF AnswersAt1200
  <2> QED BY <1>6, <2>3
<1> QED BY <1>5, <1>6

\* A receiver in normal operation stays there while it has a carrier, and it keeps
\* that through a silence of less than 60 symbols.
Heard(m, x) == x # "silence" \/ (m.rx = "NORMAL" /\ m.down \in 0..58)

LEMMA NormalDoes ==
  ASSUME NEW far, NEW m, Sound(m, far), m.present, m.rx = "NORMAL", NEW x, Heard(m, x),
         NEW n \in RxStep(TxStep(m), x)
  PROVE  /\ SameEnd(m, n) /\ SameSender(TxStep(m), n) /\ n.rx = "NORMAL"
         /\ n.negotiated = m.negotiated /\ n.sixteen = m.sixteen
         /\ n.present /\ n.down = Down(m, x)
<1> DEFINE s == TxStep(m)
<1>1. Modem(m) /\ Modem(s)
  BY TxStepIs DEF Sound, Near
<1>2. SameReceiver(m, s) /\ SameEnd(m, s)
  BY <1>1, TxStepDoes
<1>3. n \in RxStep(s, x)
  OBVIOUS
<1> HIDE DEF s
<1>4. PICK k : /\ Modem(k) /\ SameEnd(m, k) /\ SameSender(s, k) /\ SameDecoder(m, k)
               /\ k.present /\ k.down = Down(m, x) /\ n \in Decide(k, x)
  <2>1. Carries(m, x)
    BY DEF Heard, Carries
  <2> QED BY <1>1, <1>2, <1>3, <2>1, SymbolDoes
<1>5. n = k
  BY <1>4 DEF Decide, SameDecoder
<1>6. n.negotiated = m.negotiated /\ n.sixteen = m.sixteen /\ n.rx = "NORMAL"
  BY <1>4, <1>5 DEF SameDecoder
<1> QED BY <1>4, <1>5, <1>6 DEF s

\* Any other receiver decides on a sound.
LEMMA SoundIs ==
  ASSUME NEW far, NEW m, Sound(m, far), m.present, NEW x, x # "silence",
         NEW n \in RxStep(TxStep(m), x)
  PROVE  \E k : /\ Modem(k) /\ SameEnd(m, k) /\ SameSender(TxStep(m), k) /\ SameDecoder(m, k)
                /\ k.present /\ k.down = Down(m, x) /\ n \in Decide(k, x)
BY SoundDoes DEF Down

\* At 1200, unscrambled S1 or silence notwithstanding.
LEMMA AnswersAt1200Next ==
  ASSUME NEW p, Timetable(p), NEW t \in Nat, t >= p.answer, NEW far, NEW m, Sound(m, far),
         AnswersAt1200(m, p, t), NEW x, Heard(m, x), NEW n \in RxStep(TxStep(m), x)
  PROVE  AnswersAt1200(n, p, t + 1) /\ n.down = Down(m, x)
<1> DEFINE s == TxStep(m)
<1>0. p.answer \in Nat
  BY DEF Timetable
<1>1. Modem(m)
  BY DEF Sound, Near
<1>2. m.present /\ ~m.calling /\ m.negotiated = 1200
  BY DEF AnswersAt1200
<1>3. ~m.sixteen
  BY DEF AnswersAt1200
<1>4. IF t + 1 < p.answer + 453 THEN Sends(s, "TIMED_S11", (t + 1) - p.answer) ELSE s.tx = "NORMAL"
  <2>1. CASE t < p.answer + 453
    <3>1. m.tx = "TIMED_S11" /\ m.txCount = t - p.answer /\ TxLimit(m.tx) = 453
      BY <2>1 DEF AnswersAt1200, Sends, TxLimit
    <3>2. CASE t + 1 < p.answer + 453
      <4>1. m.txCount + 1 < TxLimit(m.tx) /\ m.txCount + 1 = (t + 1) - p.answer
        BY <1>0, <3>1, <3>2
      <4>2. Sends(s, "TIMED_S11", m.txCount + 1)
        BY <1>1, <3>1, <4>1, TxStepDoes
      <4> QED BY <3>2, <4>1, <4>2
    <3>3. CASE ~(t + 1 < p.answer + 453)
      <4>1. m.txCount + 1 >= TxLimit(m.tx)
        BY <1>0, <3>1, <3>3
      <4>2. s.tx = "NORMAL"
        BY <1>1, <1>2, <3>1, <4>1, TxStepDoes
      <4> QED BY <3>3, <4>2
    <3> QED BY <3>2, <3>3
  <2>2. CASE ~(t < p.answer + 453)
    <3>1. m.tx = "NORMAL" /\ ~(t + 1 < p.answer + 453)
      BY <1>0, <2>2 DEF AnswersAt1200
    <3>2. s.tx = "NORMAL"
      BY <1>1, <3>1, TxStepDoes
    <3> QED BY <3>1, <3>2
  <2> QED BY <2>1, <2>2
<1> HIDE DEF s
<1>5. ASSUME SameEnd(m, n), SameSender(s, n), n.present, n.negotiated = 1200,
             n.sixteen = m.sixteen,
             IF t + 1 < p.answer + 382
             THEN Hears(n, "SCRAMBLED_ONES_AT_1200_SUSTAINING", 240 + ((t + 1) - p.answer))
             ELSE n.rx = "NORMAL"
      PROVE  AnswersAt1200(n, p, t + 1)
  <2>1. ~n.calling /\ n.present /\ n.negotiated = 1200
    BY <1>2, <1>5 DEF SameEnd
  <2>2. ~n.sixteen
    BY <1>3, <1>5
  <2>3. IF t + 1 < p.answer + 453 THEN Sends(n, "TIMED_S11", (t + 1) - p.answer) ELSE n.tx = "NORMAL"
    BY <1>4, <1>5 DEF SameSender, Sends
  <2> QED BY <1>5, <2>1, <2>2, <2>3 DEF AnswersAt1200
<1>6. CASE t < p.answer + 382
  <2>1. /\ m.rx = "SCRAMBLED_ONES_AT_1200_SUSTAINING" /\ m.rxCount = 240 + (t - p.answer)
    BY <1>6 DEF AnswersAt1200, Hears
  <2>2. x # "silence"
    BY <2>1 DEF Heard
  <2>3. PICK k : /\ Modem(k) /\ SameEnd(m, k) /\ SameSender(s, k) /\ SameDecoder(m, k)
                 /\ k.present /\ k.down = Down(m, x) /\ n \in Decide(k, x)
    BY <1>2, <2>2, SoundIs DEF s
  <2>4. k.rx = m.rx /\ k.rxCount = m.rxCount /\ k.negotiated = 1200 /\ k.sixteen = m.sixteen
    BY <1>2, <2>3 DEF SameDecoder
  <2>5. n = ScrambledSustaining(k)
    BY <2>1, <2>3, <2>4 DEF Decide
  <2>6. /\ SameEnd(k, n) /\ SameCarrier(k, n) /\ SameSender(k, n)
        /\ n.negotiated = k.negotiated /\ n.sixteen = k.sixteen
        /\ k.rxCount + 1 <= 621 => Hears(n, k.rx, k.rxCount + 1)
        /\ k.rxCount + 1 > 621 => n.rx = "NORMAL"
    BY <2>3, <2>5, ScrambledSustainingDoes
  <2>7. /\ SameEnd(m, n) /\ SameSender(s, n) /\ n.present /\ n.down = Down(m, x)
    BY <2>3, <2>6 DEF SameEnd, SameSender, SameCarrier
  <2>8. n.negotiated = 1200 /\ n.sixteen = m.sixteen
    BY <2>4, <2>6
  <2>9. IF t + 1 < p.answer + 382
        THEN Hears(n, "SCRAMBLED_ONES_AT_1200_SUSTAINING", 240 + ((t + 1) - p.answer))
        ELSE n.rx = "NORMAL"
    <3>1. CASE t + 1 < p.answer + 382
      <4>1. k.rxCount + 1 <= 621 /\ k.rxCount + 1 = 240 + ((t + 1) - p.answer)
        BY <1>0, <2>1, <2>4, <3>1
      <4>2. Hears(n, k.rx, k.rxCount + 1)
        BY <2>6, <4>1
      <4> QED BY <2>1, <2>4, <3>1, <4>1, <4>2
    <3>2. CASE ~(t + 1 < p.answer + 382)
      <4>1. k.rxCount + 1 > 621
        BY <1>0, <2>1, <2>4, <3>2
      <4> QED BY <2>6, <3>2, <4>1
    <3> QED BY <3>1, <3>2
  <2> QED BY <1>5, <2>7, <2>8, <2>9
<1>7. CASE ~(t < p.answer + 382)
  <2>1. m.rx = "NORMAL" /\ ~(t + 1 < p.answer + 382)
    BY <1>0, <1>7 DEF AnswersAt1200
  <2>2. /\ SameEnd(m, n) /\ SameSender(s, n) /\ n.rx = "NORMAL"
        /\ n.negotiated = m.negotiated /\ n.sixteen = m.sixteen
        /\ n.present /\ n.down = Down(m, x)
    BY <1>2, <2>1, NormalDoes DEF s
  <2>3. n.negotiated = 1200
    BY <1>2, <2>2
  <2> QED BY <1>5, <2>1, <2>2, <2>3
<1> QED BY <1>6, <1>7

\* What the answerer sends after S1 was heard.
SendsAt2400(m, p, t) ==
    IF t < p.answer + 60 THEN Sends(m, "U0011", t - p.answer)
    ELSE IF t < p.answer + 360 THEN Sends(m, "TIMED_S11", t - p.answer + 93)
    ELSE IF t < p.answer + 480 THEN Sends(m, "S1111", t - p.answer - 360)
    ELSE m.tx = "NORMAL"

LEMMA SendsAt2400Next ==
  ASSUME NEW p, Timetable(p), NEW t \in Nat, t >= p.answer, NEW m, Modem(m), ~m.calling,
         m.negotiated = 2400, SendsAt2400(m, p, t)
  PROVE  SendsAt2400(TxStep(m), p, t + 1)
<1> DEFINE s == TxStep(m)
<1>0. p.answer \in Nat
  BY DEF Timetable
<1>1. CASE t < p.answer + 60
  <2>1. m.tx = "U0011" /\ m.txCount = t - p.answer /\ TxLimit(m.tx) = 60
    BY <1>1 DEF SendsAt2400, Sends, TxLimit
  <2>2. CASE t + 1 < p.answer + 60
    <3>1. m.txCount + 1 < TxLimit(m.tx) /\ m.txCount + 1 = (t + 1) - p.answer
      BY <1>0, <2>1, <2>2
    <3>2. Sends(s, "U0011", m.txCount + 1)
      BY <2>1, <3>1, TxStepDoes
    <3> QED BY <2>2, <3>1, <3>2 DEF SendsAt2400
  <2>3. CASE ~(t + 1 < p.answer + 60)
    <3>1. m.txCount + 1 >= TxLimit(m.tx)
      BY <1>0, <2>1, <2>3
    <3>2. Sends(s, "TIMED_S11", 153)
      BY <2>1, <3>1, TxStepDoes
    <3>3. t + 1 < p.answer + 360 /\ ((t + 1) - p.answer) + 93 = 153
      BY <1>0, <1>1, <2>3
    <3> QED BY <2>3, <3>2, <3>3 DEF SendsAt2400
  <2> QED BY <2>2, <2>3
<1>2. CASE ~(t < p.answer + 60) /\ t < p.answer + 360
  <2>0. ~(t + 1 < p.answer + 60)
    BY <1>0, <1>2
  <2>1. m.tx = "TIMED_S11" /\ m.txCount = (t - p.answer) + 93 /\ TxLimit(m.tx) = 453
    BY <1>2 DEF SendsAt2400, Sends, TxLimit
  <2>2. CASE t + 1 < p.answer + 360
    <3>1. m.txCount + 1 < TxLimit(m.tx) /\ m.txCount + 1 = ((t + 1) - p.answer) + 93
      BY <1>0, <2>1, <2>2
    <3>2. Sends(s, "TIMED_S11", m.txCount + 1)
      BY <2>1, <3>1, TxStepDoes
    <3> QED BY <2>0, <2>2, <3>1, <3>2 DEF SendsAt2400
  <2>3. CASE ~(t + 1 < p.answer + 360)
    <3>1. m.txCount + 1 >= TxLimit(m.tx)
      BY <1>0, <2>1, <2>3
    <3>2. Sends(s, "S1111", 0)
      BY <2>1, <3>1, TxStepDoes
    <3>3. t + 1 < p.answer + 480 /\ (t + 1) - p.answer - 360 = 0
      BY <1>0, <1>2, <2>3
    <3> QED BY <2>0, <2>3, <3>2, <3>3 DEF SendsAt2400
  <2> QED BY <2>2, <2>3
<1>3. CASE ~(t < p.answer + 360) /\ t < p.answer + 480
  <2>0. ~(t < p.answer + 60) /\ ~(t + 1 < p.answer + 60) /\ ~(t + 1 < p.answer + 360)
    BY <1>0, <1>3
  <2>1. m.tx = "S1111" /\ m.txCount = t - p.answer - 360 /\ TxLimit(m.tx) = 120
    BY <1>3, <2>0 DEF SendsAt2400, Sends, TxLimit
  <2>2. CASE t + 1 < p.answer + 480
    <3>1. m.txCount + 1 < TxLimit(m.tx) /\ m.txCount + 1 = (t + 1) - p.answer - 360
      BY <1>0, <2>1, <2>2
    <3>2. Sends(s, "S1111", m.txCount + 1)
      BY <2>1, <3>1, TxStepDoes
    <3> QED BY <2>0, <2>2, <3>1, <3>2 DEF SendsAt2400
  <2>3. CASE ~(t + 1 < p.answer + 480)
    <3>1. m.txCount + 1 >= TxLimit(m.tx)
      BY <1>0, <2>1, <2>3
    <3>2. s.tx = "NORMAL"
      BY <2>1, <3>1, TxStepDoes
    <3> QED BY <2>0, <2>3, <3>2 DEF SendsAt2400
  <2> QED BY <2>2, <2>3
<1>4. CASE ~(t < p.answer + 480)
  <2>0. /\ ~(t < p.answer + 60) /\ ~(t < p.answer + 360) /\ ~(t + 1 < p.answer + 60)
        /\ ~(t + 1 < p.answer + 360) /\ ~(t + 1 < p.answer + 480)
    BY <1>0, <1>4
  <2>1. m.tx = "NORMAL"
    BY <1>4, <2>0 DEF SendsAt2400
  <2>2. s.tx = "NORMAL"
    BY <2>1, TxStepDoes
  <2> QED BY <2>0, <2>2 DEF SendsAt2400
<1>5. t < p.answer + 60 \/ ~(t < p.answer + 60)
  OBVIOUS
<1> QED BY <1>0, <1>1, <1>2, <1>3, <1>4

\* At 2400 it is ready before the caller sends ones at 2400, hears nine of them
\* and no data before.
LEMMA AnswersAt2400Next ==
  ASSUME NEW p, Timetable(p), NEW t \in Nat, t >= p.answer, NEW far, NEW m, Sound(m, far),
         AnswersAt2400(m, p, t), NEW x, Heard(m, x),
         t < p.reply + p.delay + 454 => x # "S1111" /\ x # "data2400",
         t >= p.reply + p.delay + 454 /\ t < p.reply + p.delay + 463 => x = "S1111",
         NEW n \in RxStep(TxStep(m), x)
  PROVE  AnswersAt2400(n, p, t + 1) /\ n.down = Down(m, x)
<1> DEFINE s == TxStep(m)
           f == p.reply + p.delay
<1>0. p.answer \in Nat /\ f \in Nat /\ f >= p.answer
  BY DEF Timetable
<1>1. Modem(m)
  BY DEF Sound, Near
<1>2. m.present /\ ~m.calling /\ m.negotiated = 2400
  BY DEF AnswersAt2400
<1>3. SendsAt2400(m, p, t)
  BY DEF AnswersAt2400, SendsAt2400
<1>4. SendsAt2400(s, p, t + 1)
  BY <1>1, <1>2, <1>3, SendsAt2400Next
<1> HIDE DEF s, f
<1>5. ASSUME SameEnd(m, n), SameSender(s, n)
      PROVE  ~n.calling /\ SendsAt2400(n, p, t + 1)
  BY <1>2, <1>4, <1>5 DEF SendsAt2400, SameEnd, SameSender, Sends
<1>6. CASE t < p.answer + 270
  <2>1. m.rx = "SCRAMBLED_ONES_AT_1200" /\ m.rxCount = t - p.answer
    BY <1>6 DEF AnswersAt2400, Hears
  <2>2. ~m.sixteen
    BY <1>6 DEF AnswersAt2400
  <2>3. x # "silence"
    BY <2>1 DEF Heard
  <2>4. PICK k : /\ Modem(k) /\ SameEnd(m, k) /\ SameSender(s, k) /\ SameDecoder(m, k)
                 /\ k.present /\ k.down = Down(m, x) /\ n \in Decide(k, x)
    BY <1>2, <2>3, SoundIs DEF s
  <2>5. k.rx = m.rx /\ k.rxCount = m.rxCount /\ k.negotiated = 2400 /\ k.sixteen = m.sixteen
    BY <1>2, <2>4 DEF SameDecoder
  <2>6. ~k.calling
    BY <1>2, <2>4 DEF SameEnd
  <2>7. n \in ScrambledOnes(k, x)
    BY <2>1, <2>4, <2>5 DEF Decide
  <2>8. /\ SameEnd(k, n) /\ SameCarrier(k, n) /\ SameSender(k, n) /\ n.negotiated = 2400
        /\ k.rxCount + 1 < 270 => Hears(n, k.rx, k.rxCount + 1) /\ n.sixteen = k.sixteen
        /\ k.rxCount + 1 >= 270 =>
              /\ Hears(n, "WAIT_FOR_SCRAMBLED_ONES_AT_2400", k.rxCount + 1)
              /\ n.sixteen = TRUE /\ n.repeats = 0
    BY <2>4, <2>5, <2>6, <2>7, Await2400Does DEF Wait
  <2>9. /\ SameEnd(m, n) /\ SameSender(s, n) /\ n.present /\ n.down = Down(m, x)
    BY <2>4, <2>8 DEF SameEnd, SameSender, SameCarrier
  <2>10. ~(t + 1 >= f + 463)
    BY <1>0, <1>6
  <2>11. CASE t + 1 < p.answer + 270
    <3>1. k.rxCount + 1 < 270 /\ k.rxCount + 1 = (t + 1) - p.answer /\ ~(p.answer + 270 <= t + 1)
      BY <1>0, <2>1, <2>5, <2>11
    <3>2. Hears(n, "SCRAMBLED_ONES_AT_1200", (t + 1) - p.answer)
      BY <2>1, <2>5, <2>8, <3>1
    <3>3. ~n.sixteen
      BY <2>2, <2>5, <2>8, <3>1
    <3>4. AnswersAt2400(n, p, t + 1)
      BY <1>5, <2>8, <2>9, <2>10, <2>11, <3>1, <3>2, <3>3 DEF AnswersAt2400, SendsAt2400, f
    <3> QED BY <2>9, <3>4
  <2>12. CASE ~(t + 1 < p.answer + 270)
    <3>1. k.rxCount + 1 >= 270 /\ t + 1 <= f + 454
      BY <1>0, <1>6, <2>1, <2>5, <2>12
    <3>2. n.rx = "WAIT_FOR_SCRAMBLED_ONES_AT_2400" /\ n.repeats = 0
      BY <2>8, <3>1 DEF Hears
    <3>3. n.sixteen
      BY <2>8, <3>1
    <3>4. AnswersAt2400(n, p, t + 1)
      BY <1>5, <2>8, <2>9, <2>10, <2>12, <3>1, <3>2, <3>3 DEF AnswersAt2400, SendsAt2400, f
    <3> QED BY <2>9, <3>4
  <2> QED BY <2>11, <2>12
<1>7. CASE p.answer + 270 <= t /\ t < f + 463
  <2>1. m.rx = "WAIT_FOR_SCRAMBLED_ONES_AT_2400"
    BY <1>7 DEF AnswersAt2400, f
  <2>2. m.repeats = IF t <= f + 454 THEN 0 ELSE t - (f + 454)
    BY <1>7 DEF AnswersAt2400, f
  <2>3. m.sixteen
    BY <1>0, <1>7 DEF AnswersAt2400
  <2>4. x # "silence" /\ x # "data2400"
    BY <1>0, <1>7, <2>1 DEF Heard, f
  <2>5. PICK k : /\ Modem(k) /\ SameEnd(m, k) /\ SameSender(s, k) /\ SameDecoder(m, k)
                 /\ k.present /\ k.down = Down(m, x) /\ n \in Decide(k, x)
    BY <1>2, <2>4, SoundIs DEF s
  <2>6. k.rx = m.rx /\ k.repeats = m.repeats /\ k.negotiated = 2400 /\ k.sixteen = m.sixteen
    BY <1>2, <2>5 DEF SameDecoder
  <2>7. n \in Wait2400(k, x)
    BY <2>1, <2>5, <2>6 DEF Decide
  <2>8. k.repeats \in Nat
    BY <1>0, <2>2, <2>6
  <2>9. /\ SameEnd(k, n) /\ SameCarrier(k, n) /\ SameSender(k, n)
        /\ n.negotiated = k.negotiated /\ n.sixteen = k.sixteen
        /\ x = "S1111" /\ k.repeats + 1 >= 9 => n.rx = "NORMAL"
        /\ x = "S1111" /\ k.repeats + 1 < 9 => n.rx = k.rx /\ n.repeats = k.repeats + 1
        /\ x # "S1111" => n.rx = k.rx /\ n.repeats = 0
    BY <2>4, <2>5, <2>7, <2>8, Wait2400Does
  <2>10. /\ SameEnd(m, n) /\ SameSender(s, n) /\ n.present /\ n.down = Down(m, x)
    BY <2>5, <2>9 DEF SameEnd, SameSender, SameCarrier
  <2>11. n.sixteen
    BY <2>3, <2>6, <2>9
  <2>12. n.negotiated = 2400
    BY <2>6, <2>9
  <2>13. p.answer + 270 <= t + 1 /\ ~(t + 1 < p.answer + 270)
    BY <1>0, <1>7
  <2>14. CASE t < f + 454
    <3>1. t + 1 <= f + 454 /\ ~(t + 1 >= f + 463) /\ x # "S1111"
      BY <1>0, <2>14 DEF f
    <3>2. n.rx = "WAIT_FOR_SCRAMBLED_ONES_AT_2400" /\ n.repeats = 0
      BY <2>1, <2>6, <2>9, <3>1
    <3>3. AnswersAt2400(n, p, t + 1)
      BY <1>5, <2>10, <2>11, <2>12, <2>13, <3>1, <3>2 DEF AnswersAt2400, SendsAt2400, f
    <3> QED BY <2>10, <3>3
  <2>15. CASE ~(t < f + 454) /\ t + 1 < f + 463
    <3>1. /\ ~(t + 1 <= f + 454) /\ ~(t + 1 >= f + 463)
          /\ k.repeats + 1 = (t + 1) - (f + 454) /\ k.repeats + 1 < 9
      BY <1>0, <2>2, <2>6, <2>15
    <3>2. x = "S1111"
      BY <1>0, <1>7, <2>15 DEF f
    <3>3. n.rx = "WAIT_FOR_SCRAMBLED_ONES_AT_2400" /\ n.repeats = (t + 1) - (f + 454)
      BY <2>1, <2>6, <2>9, <3>1, <3>2
    <3>4. AnswersAt2400(n, p, t + 1)
      BY <1>5, <2>10, <2>11, <2>12, <2>13, <3>1, <3>3 DEF AnswersAt2400, SendsAt2400, f
    <3> QED BY <2>10, <3>4
  <2>16. CASE ~(t + 1 < f + 463)
    <3>1. ~(t < f + 454) /\ ~(t <= f + 454) /\ k.repeats + 1 >= 9
      BY <1>0, <1>7, <2>2, <2>6, <2>16
    <3>2. x = "S1111"
      BY <1>0, <1>7, <3>1 DEF f
    <3>3. n.rx = "NORMAL"
      BY <2>9, <3>1, <3>2
    <3>4. AnswersAt2400(n, p, t + 1)
      BY <1>5, <2>10, <2>11, <2>12, <2>13, <2>16, <3>3 DEF AnswersAt2400, SendsAt2400, f
    <3> QED BY <2>10, <3>4
  <2> QED BY <2>14, <2>15, <2>16
<1>8. CASE t >= f + 463
  <2>1. m.rx = "NORMAL"
    BY <1>8 DEF AnswersAt2400, f
  <2>2. m.sixteen
    BY <1>0, <1>8 DEF AnswersAt2400
  <2>3. /\ SameEnd(m, n) /\ SameSender(s, n) /\ n.rx = "NORMAL"
        /\ n.negotiated = m.negotiated /\ n.sixteen = m.sixteen
        /\ n.present /\ n.down = Down(m, x)
    BY <1>2, <2>1, NormalDoes DEF s
  <2>4. n.sixteen
    BY <2>2, <2>3
  <2>5. t + 1 >= f + 463 /\ ~(t + 1 < f + 463) /\ ~(t + 1 < p.answer + 270)
    BY <1>0, <1>8
  <2>6. n.negotiated = 2400
    BY <1>2, <2>3
  <2>7. AnswersAt2400(n, p, t + 1)
    BY <1>5, <2>3, <2>4, <2>5, <2>6 DEF AnswersAt2400, SendsAt2400, f
  <2> QED BY <2>3, <2>7
<1> QED BY <1>0, <1>6, <1>7, <1>8

-----------------------------------------------------------------------------
(* The caller keeps to the timetable.                                      *)

\* Until it starts it does nothing.
LEMMA CallsIdle ==
  ASSUME NEW p, Timetable(p), NEW t \in Nat, t < p.start, NEW m, Calls(m, p, t)
  PROVE  Calls(m, p, t + 1)
<1>1. /\ p.start \in Nat /\ p.ring \in Nat /\ p.ring >= p.start /\ p.call = p.ring + 367
  BY DEF Timetable
<1>2. t < p.call /\ t + 1 < p.call /\ t <= p.ring /\ t + 1 <= p.ring
  BY <1>1
<1> QED BY <1>2 DEF Calls

\* What it sends while it calls.
CallerTx(m, p, t) ==
    IF t < p.call THEN m.tx = "INITIAL_SILENCE"
    ELSE IF p.quick /\ t < p.call + 60 THEN Sends(m, "U0011", t - p.call)
    ELSE m.tx = "S11"

LEMMA CallerTxNext ==
  ASSUME NEW p, Timetable(p), NEW t \in Nat, NEW m, Modem(m), m.calling, CallerTx(m, p, t)
  PROVE  /\ t < p.call => TxStep(m).tx = "INITIAL_SILENCE"
         /\ t >= p.call => CallerTx(TxStep(m), p, t + 1)
<1> DEFINE s == TxStep(m)
<1>0. p.call \in Nat
  BY DEF Timetable
<1>1. CASE t < p.call
  <2>1. m.tx = "INITIAL_SILENCE"
    BY <1>1 DEF CallerTx
  <2>2. s.tx = "INITIAL_SILENCE"
    BY <2>1, TxStepDoes
  <2>3. ~(t >= p.call)
    BY <1>0, <1>1
  <2> QED BY <2>2, <2>3
<1>2. CASE ~(t < p.call) /\ p.quick /\ t < p.call + 60
  <2>0. ~(t + 1 < p.call)
    BY <1>0, <1>2
  <2>1. m.tx = "U0011" /\ m.txCount = t - p.call /\ TxLimit(m.tx) = 60
    BY <1>2 DEF CallerTx, Sends, TxLimit
  <2>2. CASE t + 1 < p.call + 60
    <3>1. m.txCount + 1 < TxLimit(m.tx) /\ m.txCount + 1 = (t + 1) - p.call
      BY <1>0, <2>1, <2>2
    <3>2. Sends(s, "U0011", m.txCount + 1)
      BY <2>1, <3>1, TxStepDoes
    <3>3. CallerTx(s, p, t + 1)
      BY <1>2, <2>0, <2>2, <3>1, <3>2 DEF CallerTx
    <3> QED BY <1>2, <3>3
  <2>3. CASE ~(t + 1 < p.call + 60)
    <3>1. m.txCount + 1 >= TxLimit(m.tx)
      BY <1>0, <2>1, <2>3
    <3>2. s.tx = "S11"
      BY <2>1, <3>1, TxStepDoes
    <3>3. CallerTx(s, p, t + 1)
      BY <2>0, <2>3, <3>2 DEF CallerTx
    <3> QED BY <1>2, <3>3
  <2> QED BY <2>2, <2>3
<1>3. CASE ~(t < p.call) /\ ~(p.quick /\ t < p.call + 60)
  <2>1. m.tx = "S11"
    BY <1>3 DEF CallerTx
  <2>2. s.tx = "S11"
    BY <2>1, TxStepDoes
  <2>3. ~(t + 1 < p.call) /\ ~(p.quick /\ t + 1 < p.call + 60)
    BY <1>0, <1>3
  <2>4. CallerTx(s, p, t + 1)
    BY <2>2, <2>3 DEF CallerTx
  <2> QED BY <1>3, <2>4
<1> QED BY <1>1, <1>2, <1>3

\* It hears nothing, then unscrambled ones, and answers them.
LEMMA CallsNext ==
  ASSUME NEW p, Timetable(p), NEW t \in Nat, NEW far, NEW m, Sound(m, far), Calls(m, p, t),
         p.quick <=> m.bit_rate = 2400,
         NEW x, t < p.ring => x = "silence", t >= p.ring => x = "U11",
         NEW n \in RxStep(TxStep(m), x)
  PROVE  Calls(n, p, t + 1)
<1> DEFINE s == TxStep(m)
<1>0. p.ring \in Nat /\ p.call \in Nat /\ p.call = p.ring + 367
  BY DEF Timetable
<1>1. Modem(m) /\ Modem(s)
  BY TxStepIs DEF Sound, Near
<1>2. SameReceiver(m, s) /\ SameEnd(m, s)
  BY <1>1, TxStepDoes
<1>3. m.calling /\ m.negotiated = 1200 /\ m.down = 0 /\ m.heard = 0
  BY DEF Calls
<1>4. ~m.sixteen
  BY DEF Calls
<1>5. /\ t < p.call => s.tx = "INITIAL_SILENCE"
      /\ t >= p.call => CallerTx(s, p, t + 1)
  <2>1. CallerTx(m, p, t)
    BY DEF Calls, CallerTx
  <2> QED BY <1>1, <1>3, <2>1, CallerTxNext
<1>6. n \in RxStep(s, x)
  OBVIOUS
<1> HIDE DEF s
<1>7. ASSUME SameEnd(m, n), n.down = 0, n.heard = 0, n.negotiated = 1200, n.sixteen = m.sixteen,
             CallerTx(n, p, t + 1),
             IF t + 1 <= p.ring THEN ~n.present ELSE n.present,
             IF t + 1 <= p.ring THEN Hears(n, "SYMBOL_ACQUISITION", 0)
             ELSE IF t + 1 <= p.ring + 40 THEN Hears(n, "SYMBOL_ACQUISITION", (t + 1) - p.ring - 1)
             ELSE IF t + 1 < p.call
             THEN Hears(n, "UNSCRAMBLED_ONES", (t + 1) - p.ring - 1) /\ n.repeats = (t + 1) - p.ring - 41
             ELSE n.rx = "UNSCRAMBLED_ONES_SUSTAINING"
      PROVE  Calls(n, p, t + 1)
  <2>1. n.calling
    BY <1>3, <1>7 DEF SameEnd
  <2>2. ~n.sixteen
    BY <1>4, <1>7
  <2>3. IF t + 1 < p.call THEN n.tx = "INITIAL_SILENCE"
        ELSE IF p.quick /\ t + 1 < p.call + 60 THEN Sends(n, "U0011", (t + 1) - p.call)
        ELSE n.tx = "S11"
    BY <1>7 DEF CallerTx
  <2> QED BY <1>7, <2>1, <2>2, <2>3 DEF Calls
<1>8. ASSUME t + 1 < p.call, SameSender(s, n)
      PROVE  CallerTx(n, p, t + 1)
  <2>1. t < p.call
    BY <1>0, <1>8
  <2> QED BY <1>5, <1>8, <2>1 DEF CallerTx, SameSender
<1>9. CASE t <= p.ring
  <2>1. /\ ~m.present /\ m.rx = "SYMBOL_ACQUISITION" /\ m.rxCount = 0
    BY <1>9 DEF Calls, Hears
  <2>2. t + 1 < p.call
    BY <1>0, <1>9
  <2>3. CASE t < p.ring
    <3>1. n = s /\ t + 1 <= p.ring
      BY <1>0, <1>1, <1>2, <1>6, <2>1, <2>3, SymbolDoes
    <3>2. SameEnd(m, n) /\ SameSender(s, n)
      BY <1>2, <3>1 DEF SameSender
    <3>3. n.down = 0 /\ n.heard = 0 /\ n.negotiated = 1200 /\ n.sixteen = m.sixteen
          /\ Hears(n, "SYMBOL_ACQUISITION", 0)
      BY <1>2, <1>3, <2>1, <3>1 DEF SameReceiver, Hears
    <3>4. ~n.present
      BY <1>2, <2>1, <3>1 DEF SameReceiver
    <3> QED BY <1>7, <1>8, <2>2, <3>1, <3>2, <3>3, <3>4
  <2>4. CASE ~(t < p.ring)
    <3>1. t = p.ring /\ x # "silence"
      BY <1>0, <1>9, <2>4
    <3>2. SameEnd(m, n) /\ SameSender(s, n) /\ SameDecoder(m, n) /\ n.present /\ n.down = 0
      BY <1>1, <1>2, <1>6, <2>1, <3>1, SymbolDoes
    <3>3. n.heard = 0 /\ n.negotiated = 1200 /\ n.sixteen = m.sixteen
          /\ Hears(n, "SYMBOL_ACQUISITION", 0)
      BY <1>3, <2>1, <3>2 DEF SameDecoder, Hears
    <3>4. ~(t + 1 <= p.ring) /\ t + 1 <= p.ring + 40 /\ (t + 1) - p.ring - 1 = 0
      BY <1>0, <3>1
    <3>5. Hears(n, "SYMBOL_ACQUISITION", (t + 1) - p.ring - 1)
      BY <3>3, <3>4
    <3>6. CallerTx(n, p, t + 1)
      BY <1>8, <2>2, <3>2
    <3> QED BY <1>7, <3>2, <3>3, <3>4, <3>5, <3>6
  <2> QED BY <2>3, <2>4
<1>10. CASE ~(t <= p.ring)
  <2>1. m.present /\ x = "U11" /\ x # "silence"
    BY <1>0, <1>10 DEF Calls
  <2>2. PICK k : /\ Modem(k) /\ SameEnd(m, k) /\ SameSender(s, k) /\ SameDecoder(m, k)
                 /\ k.present /\ k.down = 0 /\ n \in Decide(k, x)
    BY <2>1, SoundDoes DEF s
  <2>3. /\ k.heard = 0 /\ k.negotiated = 1200 /\ k.sixteen = m.sixteen
        /\ k.rx = m.rx /\ k.rxCount = m.rxCount /\ k.repeats = m.repeats
    BY <1>3, <2>2 DEF SameDecoder
  <2>4. k.calling /\ k.bit_rate = m.bit_rate
    BY <1>3, <2>2 DEF SameEnd
  <2>5. ~(t + 1 <= p.ring)
    BY <1>0, <1>10
  <2>6. ASSUME SameEnd(k, n), SameCarrier(k, n)
        PROVE  SameEnd(m, n) /\ n.present /\ n.down = 0
    BY <2>2, <2>6 DEF SameEnd, SameCarrier
  <2>7. CASE t <= p.ring + 40
    <3>1. k.rx = "SYMBOL_ACQUISITION" /\ k.rxCount = t - p.ring - 1
      BY <1>10, <2>3, <2>7 DEF Calls, Hears
    <3>2. n = Acquire(k)
      BY <2>2, <3>1 DEF Decide
    <3>3. /\ SameEnd(k, n) /\ SameSender(k, n) /\ SameCarrier(k, n)
          /\ n.sixteen = k.sixteen /\ n.heard = k.heard
      BY <2>2, <3>2, AcquireDoes
    <3>4. t + 1 < p.call
      BY <1>0, <2>7
    <3>5. CallerTx(n, p, t + 1)
      BY <1>8, <2>2, <3>3, <3>4 DEF SameSender
    <3>6. n.heard = 0 /\ n.sixteen = m.sixteen
      BY <2>3, <3>3
    <3>7. CASE t < p.ring + 40
      <4>1. k.rxCount + 1 < 40 /\ k.rxCount + 1 = (t + 1) - p.ring - 1 /\ t + 1 <= p.ring + 40
        BY <1>0, <3>1, <3>7
      <4>2. Hears(n, "SYMBOL_ACQUISITION", (t + 1) - p.ring - 1) /\ n.negotiated = 1200
        BY <2>2, <2>3, <3>1, <3>2, <4>1, AcquireDoes
      <4> QED BY <1>7, <2>5, <2>6, <3>3, <3>5, <3>6, <4>1, <4>2
    <3>8. CASE ~(t < p.ring + 40)
      <4>1. /\ k.rxCount + 1 >= 40 /\ ~(t + 1 <= p.ring + 40)
            /\ k.rxCount + 1 = (t + 1) - p.ring - 1 /\ (t + 1) - p.ring - 41 = 0
        BY <1>0, <2>7, <3>1, <3>8
      <4>2. /\ Hears(n, "UNSCRAMBLED_ONES", k.rxCount + 1)
            /\ n.repeats = 0 /\ n.negotiated = 1200
        BY <2>2, <2>4, <3>2, <4>1, AcquireDoes
      <4>3. Hears(n, "UNSCRAMBLED_ONES", (t + 1) - p.ring - 1) /\ n.repeats = (t + 1) - p.ring - 41
        BY <4>1, <4>2
      <4> QED BY <1>7, <2>5, <2>6, <3>3, <3>4, <3>5, <3>6, <4>1, <4>2, <4>3
    <3> QED BY <3>7, <3>8
  <2>8. CASE ~(t <= p.ring + 40) /\ t < p.call
    <3>1. /\ k.rx = "UNSCRAMBLED_ONES" /\ k.rxCount = t - p.ring - 1 /\ k.repeats = t - p.ring - 41
      BY <1>10, <2>3, <2>8 DEF Calls, Hears
    <3>2. n = UnscrambledOnes(k, "U11")
      BY <2>1, <2>2, <3>1 DEF Decide
    <3>3. k.repeats \in Nat /\ ~(t + 1 <= p.ring + 40)
      BY <1>0, <2>8, <3>1
    <3>4. /\ SameEnd(k, n) /\ SameCarrier(k, n)
          /\ n.sixteen = k.sixteen /\ n.heard = k.heard /\ n.negotiated = k.negotiated
          /\ k.rxCount + 1 # 366 =>
                SameSender(k, n) /\ Hears(n, k.rx, k.rxCount + 1) /\ n.repeats = k.repeats + 1
          /\ k.rxCount + 1 = 366 /\ k.repeats + 1 >= 273 =>
                /\ n.rx = "UNSCRAMBLED_ONES_SUSTAINING"
                /\ IF k.bit_rate = 2400 THEN Sends(n, "U0011", 0) ELSE n.tx = "S11"
      BY <2>2, <3>2, <3>3, OnesDoes
    <3>5. n.heard = 0 /\ n.sixteen = m.sixteen /\ n.negotiated = 1200
      BY <2>3, <3>4
    <3>6. CASE t + 1 < p.call
      <4>1. /\ k.rxCount + 1 # 366 /\ k.rxCount + 1 = (t + 1) - p.ring - 1
            /\ k.repeats + 1 = (t + 1) - p.ring - 41
        BY <1>0, <3>1, <3>6
      <4>2. Hears(n, "UNSCRAMBLED_ONES", (t + 1) - p.ring - 1) /\ n.repeats = (t + 1) - p.ring - 41
        BY <3>1, <3>4, <4>1
      <4>3. CallerTx(n, p, t + 1)
        BY <1>8, <2>2, <3>4, <3>6, <4>1 DEF SameSender
      <4> QED BY <1>7, <2>5, <2>6, <3>3, <3>4, <3>5, <3>6, <4>2, <4>3
    <3>7. CASE ~(t + 1 < p.call)
      <4>1. /\ k.rxCount + 1 = 366 /\ k.repeats + 1 >= 273 /\ (t + 1) - p.call = 0
            /\ t + 1 < p.call + 60
        BY <1>0, <2>8, <3>1, <3>7
      <4>2. /\ n.rx = "UNSCRAMBLED_ONES_SUSTAINING"
            /\ IF m.bit_rate = 2400 THEN Sends(n, "U0011", 0) ELSE n.tx = "S11"
        BY <2>4, <3>4, <4>1
      <4>3. CASE m.bit_rate = 2400
        <5>1. Sends(n, "U0011", (t + 1) - p.call) /\ p.quick
          BY <4>1, <4>2, <4>3
        <5>2. CallerTx(n, p, t + 1)
          BY <3>7, <4>1, <5>1 DEF CallerTx
        <5> QED BY <1>7, <2>5, <2>6, <3>3, <3>4, <3>5, <3>7, <4>2, <5>2
      <4>4. CASE m.bit_rate # 2400
        <5>1. CallerTx(n, p, t + 1)
          BY <3>7, <4>2, <4>4 DEF CallerTx
        <5> QED BY <1>7, <2>5, <2>6, <3>3, <3>4, <3>5, <3>7, <4>2, <5>1
      <4> QED BY <4>3, <4>4
    <3> QED BY <3>6, <3>7
  <2>9. CASE ~(t < p.call)
    <3>0. t >= p.call /\ ~(t <= p.ring + 40) /\ ~(t + 1 <= p.ring + 40) /\ ~(t + 1 < p.call)
      BY <1>0, <2>9
    <3>1. k.rx = "UNSCRAMBLED_ONES_SUSTAINING"
      BY <1>10, <2>3, <2>9, <3>0 DEF Calls
    <3>2. n = Sustaining(k, x)
      BY <2>2, <3>1 DEF Decide
    <3>3. n = k
      BY <2>1, <2>2, <3>2, SustainDoes
    <3>4. CallerTx(n, p, t + 1)
      BY <1>5, <2>2, <3>0, <3>3 DEF CallerTx, SameSender, Sends
    <3>5. /\ SameEnd(m, n) /\ n.present /\ n.down = 0 /\ n.heard = 0 /\ n.sixteen = m.sixteen
          /\ n.negotiated = 1200 /\ n.rx = "UNSCRAMBLED_ONES_SUSTAINING"
      BY <2>2, <2>3, <3>1, <3>3
    <3> QED BY <1>7, <2>5, <3>0, <3>4, <3>5
  <2> QED BY <2>7, <2>8, <2>9
<1> QED BY <1>9, <1>10

\* The answer is anything but unscrambled ones.
LEMMA CallsAnswered ==
  ASSUME NEW p, Timetable(p), NEW t \in Nat, t = p.reply, NEW far, NEW m, Sound(m, far),
         Calls(m, p, t), NEW x, x # "silence", x # "U11", NEW n \in RxStep(TxStep(m), x)
  PROVE  IF p.both THEN RepliesAt2400(n, p, t + 1) ELSE RepliesAt1200(n, p, t + 1)
<1>0. /\ p.ring \in Nat /\ p.call \in Nat /\ p.reply \in Nat
      /\ p.call = p.ring + 367 /\ p.reply >= p.call
  BY DEF Timetable
<1>1. ~(t <= p.ring) /\ ~(t <= p.ring + 40) /\ ~(t < p.call)
  BY <1>0
<1>2. m.present /\ m.rx = "UNSCRAMBLED_ONES_SUSTAINING"
  BY <1>1 DEF Calls
<1>3. m.calling /\ m.negotiated = 1200 /\ m.heard = 0
  BY DEF Calls
<1>4. ~m.sixteen
  BY DEF Calls
<1>5. PICK k : /\ Modem(k) /\ SameEnd(m, k) /\ SameSender(TxStep(m), k) /\ SameDecoder(m, k)
               /\ k.present /\ k.down = 0 /\ n \in Decide(k, x)
  BY <1>2, SoundDoes
<1>6. n = Sustaining(k, x)
  BY <1>2, <1>5 DEF Decide, SameDecoder
<1>7. /\ SameEnd(k, n) /\ SameCarrier(k, n)
      /\ n.sixteen = k.sixteen /\ n.heard = k.heard /\ n.negotiated = k.negotiated
      /\ Sends(n, "TIMED_S11", 0) /\ Hears(n, "SCRAMBLED_ONES_AT_1200", 0)
  BY <1>5, <1>6, SustainDoes
<1>8. n.calling /\ n.present /\ n.down = 0
  BY <1>3, <1>5, <1>7 DEF SameEnd, SameCarrier
<1>9. n.heard = 0 /\ n.negotiated = 1200
  BY <1>3, <1>5, <1>7 DEF SameDecoder
<1>10. ~n.sixteen
  BY <1>4, <1>5, <1>7 DEF SameDecoder
<1>11. /\ t + 1 <= p.reply + 240 /\ t + 1 < p.reply + 454 /\ t + 1 <= p.reply + 24
       /\ (t + 1) - p.reply - 1 = 0
  BY <1>0
<1>12. /\ Sends(n, "TIMED_S11", (t + 1) - p.reply - 1)
       /\ Hears(n, "SCRAMBLED_ONES_AT_1200", (t + 1) - p.reply - 1)
       /\ n.heard = (t + 1) - p.reply - 1
  BY <1>7, <1>9, <1>11
<1>13. RepliesAt1200(n, p, t + 1)
  BY <1>8, <1>9, <1>10, <1>11, <1>12 DEF RepliesAt1200
<1>14. Listens(n, p, t + 1)
  BY <1>9, <1>10, <1>11, <1>12 DEF Listens
<1>15. RepliesAt2400(n, p, t + 1)
  BY <1>8, <1>11, <1>12, <1>14 DEF RepliesAt2400
<1> QED BY <1>13, <1>15

\* At 1200 it hears no S1, and stops listening for it after 400 ms.
LEMMA RepliesAt1200Next ==
  ASSUME NEW p, Timetable(p), NEW t \in Nat, t > p.reply, NEW far, NEW m, Sound(m, far),
         RepliesAt1200(m, p, t), NEW x, x # "silence", x # "S1", NEW n \in RxStep(TxStep(m), x)
  PROVE  RepliesAt1200(n, p, t + 1)
<1> DEFINE s == TxStep(m)
<1>0. p.reply \in Nat
  BY DEF Timetable
<1>1. Modem(m)
  BY DEF Sound, Near
<1>2. m.calling /\ m.present /\ m.negotiated = 1200
  BY DEF RepliesAt1200
<1>3. ~m.sixteen
  BY DEF RepliesAt1200
<1>4. CASE t <= p.reply + 240
  <2>1. m.tx = "TIMED_S11" /\ m.txCount = t - p.reply - 1 /\ TxLimit(m.tx) = 453
    BY <1>4 DEF RepliesAt1200, Sends, TxLimit
  <2>2. m.rx = "SCRAMBLED_ONES_AT_1200" /\ m.rxCount = t - p.reply - 1 /\ m.heard = 0
    BY <1>4 DEF RepliesAt1200, Hears
  <2>3. Sends(s, "TIMED_S11", (t + 1) - p.reply - 1)
    <3>1. m.txCount + 1 < TxLimit(m.tx) /\ m.txCount + 1 = (t + 1) - p.reply - 1
      BY <1>0, <1>4, <2>1
    <3>2. Sends(s, "TIMED_S11", m.txCount + 1)
      BY <1>1, <2>1, <3>1, TxStepDoes
    <3> QED BY <3>1, <3>2
  <2> HIDE DEF s
  <2>4. PICK k : /\ Modem(k) /\ SameEnd(m, k) /\ SameSender(s, k) /\ SameDecoder(m, k)
                 /\ k.present /\ k.down = 0 /\ n \in Decide(k, x)
    BY <1>2, SoundDoes DEF s
  <2>5. /\ k.rx = m.rx /\ k.rxCount = m.rxCount /\ k.negotiated = 1200 /\ k.heard = 0
        /\ k.sixteen = m.sixteen
    BY <1>2, <2>2, <2>4 DEF SameDecoder
  <2>6. n \in ScrambledOnes(k, x)
    BY <2>2, <2>4, <2>5 DEF Decide
  <2>7. PICK c : /\ Listened(k, x, c)
                 /\ \/ c.heard >= 15 /\ Found(c, n)
                    \/ c.heard <= 23 /\ c.rxCount < 240 /\ n = c
                    \/ c.heard <= 23 /\ c.rxCount >= 240 /\ GaveUp(c, n)
    BY <2>4, <2>5, <2>6, SearchDoes
  <2>8. /\ c.calling /\ c.present /\ c.down = 0 /\ c.negotiated = 1200
        /\ c.rx = "SCRAMBLED_ONES_AT_1200" /\ c.rxCount = (t + 1) - p.reply - 1
        /\ Sends(c, "TIMED_S11", (t + 1) - p.reply - 1)
    <3>1. c.rxCount = k.rxCount + 1 /\ c.rx = k.rx /\ c.negotiated = k.negotiated
      BY <2>7 DEF Listened, Hears
    <3>2. c.rxCount = (t + 1) - p.reply - 1
      BY <1>0, <2>2, <2>5, <3>1
    <3>3. c.calling /\ c.present /\ c.down = 0
      BY <1>2, <2>4, <2>7 DEF Listened, SameEnd, SameCarrier
    <3>4. Sends(c, "TIMED_S11", (t + 1) - p.reply - 1)
      BY <2>3, <2>4, <2>7 DEF Listened, SameSender, Sends
    <3> QED BY <2>2, <2>5, <3>1, <3>2, <3>3, <3>4
  <2>9. c.heard = 0
    BY <2>5, <2>7 DEF Listened
  <2>10. ~c.sixteen
    BY <1>3, <2>5, <2>7 DEF Listened
  <2>11. CASE c.rxCount < 240 /\ n = c
    <3>1. t + 1 <= p.reply + 240
      BY <1>0, <2>8, <2>11
    <3>2. /\ n.calling /\ n.present /\ n.down = 0 /\ n.negotiated = 1200 /\ n.heard = 0
          /\ Hears(n, "SCRAMBLED_ONES_AT_1200", (t + 1) - p.reply - 1)
          /\ Sends(n, "TIMED_S11", (t + 1) - p.reply - 1)
      BY <2>8, <2>9, <2>11 DEF Hears
    <3>3. ~n.sixteen
      BY <2>10, <2>11
    <3> QED BY <3>1, <3>2, <3>3 DEF RepliesAt1200
  <2>12. CASE c.rxCount >= 240 /\ GaveUp(c, n)
    <3>1. ~(t + 1 <= p.reply + 240) /\ t + 1 < p.reply + 694 /\ (t + 1) - p.reply - 241 = 0
      BY <1>0, <1>4, <2>8, <2>12
    <3>2. /\ n.calling /\ n.present /\ n.down = 0 /\ n.negotiated = 1200 /\ n.rx = "NORMAL"
          /\ Sends(n, "TIMED_S11", 0)
      BY <2>8, <2>12 DEF GaveUp, SameEnd, SameCarrier, Hears
    <3>3. ~n.sixteen
      BY <2>10, <2>12 DEF GaveUp
    <3>4. Sends(n, "TIMED_S11", (t + 1) - p.reply - 241)
      BY <3>1, <3>2
    <3> QED BY <3>1, <3>2, <3>3, <3>4 DEF RepliesAt1200
  <2> QED BY <2>7, <2>9, <2>11, <2>12
<1>5. CASE ~(t <= p.reply + 240)
  <2>1. m.rx = "NORMAL" /\ ~(t + 1 <= p.reply + 240)
    BY <1>0, <1>5 DEF RepliesAt1200
  <2>2. IF t + 1 < p.reply + 694 THEN Sends(s, "TIMED_S11", (t + 1) - p.reply - 241)
        ELSE s.tx = "NORMAL"
    <3>1. CASE t < p.reply + 694
      <4>1. m.tx = "TIMED_S11" /\ m.txCount = t - p.reply - 241 /\ TxLimit(m.tx) = 453
        BY <1>5, <3>1 DEF RepliesAt1200, Sends, TxLimit
      <4>2. CASE t + 1 < p.reply + 694
        <5>1. m.txCount + 1 < TxLimit(m.tx) /\ m.txCount + 1 = (t + 1) - p.reply - 241
          BY <1>0, <4>1, <4>2
        <5>2. Sends(s, "TIMED_S11", m.txCount + 1)
          BY <1>1, <4>1, <5>1, TxStepDoes
        <5> QED BY <4>2, <5>1, <5>2
      <4>3. CASE ~(t + 1 < p.reply + 694)
        <5>1. m.txCount + 1 >= TxLimit(m.tx)
          BY <1>0, <4>1, <4>3
        <5>2. s.tx = "NORMAL"
          BY <1>1, <1>2, <4>1, <5>1, TxStepDoes
        <5> QED BY <4>3, <5>2
      <4> QED BY <4>2, <4>3
    <3>2. CASE ~(t < p.reply + 694)
      <4>1. m.tx = "NORMAL" /\ ~(t + 1 < p.reply + 694)
        BY <1>0, <1>5, <3>2 DEF RepliesAt1200
      <4>2. s.tx = "NORMAL"
        BY <1>1, <4>1, TxStepDoes
      <4> QED BY <4>1, <4>2
    <3> QED BY <3>1, <3>2
  <2> HIDE DEF s
  <2>3. /\ SameEnd(m, n) /\ SameSender(s, n) /\ n.rx = "NORMAL"
        /\ n.negotiated = m.negotiated /\ n.sixteen = m.sixteen
        /\ n.present /\ n.down = Down(m, x)
    BY <1>2, <2>1, NormalDoes DEF s, Heard
  <2>4. n.calling /\ n.present /\ n.down = 0 /\ n.negotiated = 1200
    BY <1>2, <2>3 DEF SameEnd, Down
  <2>5. ~n.sixteen
    BY <1>3, <2>3
  <2>6. IF t + 1 < p.reply + 694 THEN Sends(n, "TIMED_S11", (t + 1) - p.reply - 241)
        ELSE n.tx = "NORMAL"
    BY <2>2, <2>3 DEF SameSender, Sends
  <2> QED BY <2>1, <2>3, <2>4, <2>5, <2>6 DEF RepliesAt1200
<1> QED BY <1>4, <1>5

\* What it sends after S1 was answered: the ones at 2400 wait for its receiver,
\* which has heard S1 long before.
RepliesTx2400(m, p, t) ==
    IF t < p.reply + 454 THEN Sends(m, "TIMED_S11", t - p.reply - 1)
    ELSE IF t < p.reply + 574 THEN Sends(m, "S1111", t - p.reply - 454)
    ELSE m.tx = "NORMAL"

LEMMA RepliesTx2400Next ==
  ASSUME NEW p, Timetable(p), NEW t \in Nat, t > p.reply, NEW m, Modem(m),
         t > p.reply + 24 => m.negotiated = 2400, RepliesTx2400(m, p, t)
  PROVE  RepliesTx2400(TxStep(m), p, t + 1)
<1> DEFINE s == TxStep(m)
<1>0. p.reply \in Nat
  BY DEF Timetable
<1>1. CASE t < p.reply + 454
  <2>1. m.tx = "TIMED_S11" /\ m.txCount = t - p.reply - 1 /\ TxLimit(m.tx) = 453
    BY <1>1 DEF RepliesTx2400, Sends, TxLimit
  <2>2. CASE t + 1 < p.reply + 454
    <3>1. m.txCount + 1 < TxLimit(m.tx) /\ m.txCount + 1 = (t + 1) - p.reply - 1
      BY <1>0, <2>1, <2>2
    <3>2. Sends(s, "TIMED_S11", m.txCount + 1)
      BY <2>1, <3>1, TxStepDoes
    <3> QED BY <2>2, <3>1, <3>2 DEF RepliesTx2400
  <2>3. CASE ~(t + 1 < p.reply + 454)
    <3>1. /\ m.txCount + 1 >= TxLimit(m.tx) /\ t + 1 < p.reply + 574 /\ t > p.reply + 24
          /\ (t + 1) - p.reply - 454 = 0
      BY <1>0, <1>1, <2>1, <2>3
    <3>2. m.negotiated = 2400
      BY <3>1
    <3>3. Sends(s, "S1111", 0)
      BY <2>1, <3>1, <3>2, TxStepDoes
    <3> QED BY <2>3, <3>1, <3>3 DEF RepliesTx2400
  <2> QED BY <2>2, <2>3
<1>2. CASE ~(t < p.reply + 454) /\ t < p.reply + 574
  <2>0. ~(t + 1 < p.reply + 454)
    BY <1>0, <1>2
  <2>1. m.tx = "S1111" /\ m.txCount = t - p.reply - 454 /\ TxLimit(m.tx) = 120
    BY <1>2 DEF RepliesTx2400, Sends, TxLimit
  <2>2. CASE t + 1 < p.reply + 574
    <3>1. m.txCount + 1 < TxLimit(m.tx) /\ m.txCount + 1 = (t + 1) - p.reply - 454
      BY <1>0, <2>1, <2>2
    <3>2. Sends(s, "S1111", m.txCount + 1)
      BY <2>1, <3>1, TxStepDoes
    <3> QED BY <2>0, <2>2, <3>1, <3>2 DEF RepliesTx2400
  <2>3. CASE ~(t + 1 < p.reply + 574)
    <3>1. m.txCount + 1 >= TxLimit(m.tx)
      BY <1>0, <2>1, <2>3
    <3>2. s.tx = "NORMAL"
      BY <2>1, <3>1, TxStepDoes
    <3> QED BY <2>0, <2>3, <3>2 DEF RepliesTx2400
  <2> QED BY <2>2, <2>3
<1>3. CASE ~(t < p.reply + 574)
  <2>0. ~(t < p.reply + 454) /\ ~(t + 1 < p.reply + 454) /\ ~(t + 1 < p.reply + 574)
    BY <1>0, <1>3
  <2>1. m.tx = "NORMAL"
    BY <1>3, <2>0 DEF RepliesTx2400
  <2>2. s.tx = "NORMAL"
    BY <2>1, TxStepDoes
  <2> QED BY <2>0, <2>2 DEF RepliesTx2400
<1> QED BY <1>0, <1>1, <1>2, <1>3

\* At 2400 it hears S1 in the first 24 symbols of it, which symbol it is does not
\* matter: it is ready before the ones at 2400 come, and hears nine of them.
LEMMA RepliesAt2400Next ==
  ASSUME NEW p, Timetable(p), NEW t \in Nat, t > p.reply, NEW far, NEW m, Sound(m, far),
         RepliesAt2400(m, p, t), m.bit_rate = 2400, NEW x, x # "silence",
         t < p.reply + 60 => x = "S1",
         t < p.reply + 360 => x # "S1111" /\ x # "data2400",
         t >= p.reply + 360 /\ t < p.reply + 369 => x = "S1111",
         NEW n \in RxStep(TxStep(m), x)
  PROVE  RepliesAt2400(n, p, t + 1)
<1> DEFINE s == TxStep(m)
<1>0. p.reply \in Nat
  BY DEF Timetable
<1>1. Modem(m)
  BY DEF Sound, Near
<1>2. m.calling /\ m.present /\ m.down = 0
  BY DEF RepliesAt2400
<1>3. t > p.reply + 24 => m.negotiated = 2400
  <2>1. CASE Listens(m, p, t)
    <3>1. t <= p.reply + 24
      BY <2>1 DEF Listens
    <3> QED BY <1>0, <3>1
  <2>2. CASE ~Listens(m, p, t)
    BY <2>2 DEF RepliesAt2400, Awaits, Counts, Done
  <2> QED BY <2>1, <2>2
<1>4. RepliesTx2400(s, p, t + 1)
  <2>1. RepliesTx2400(m, p, t)
    BY DEF RepliesAt2400, RepliesTx2400
  <2> QED BY <1>1, <1>3, <2>1, RepliesTx2400Next
<1> HIDE DEF s
<1>5. PICK k : /\ Modem(k) /\ SameEnd(m, k) /\ SameSender(s, k) /\ SameDecoder(m, k)
               /\ k.present /\ k.down = 0 /\ n \in Decide(k, x)
  BY <1>2, SoundDoes DEF s
<1>6. /\ k.rx = m.rx /\ k.rxCount = m.rxCount /\ k.negotiated = m.negotiated
      /\ k.sixteen = m.sixteen /\ k.repeats = m.repeats /\ k.heard = m.heard
  BY <1>5 DEF SameDecoder
<1>7. k.calling /\ k.bit_rate = 2400
  BY <1>2, <1>5 DEF SameEnd
<1>8. ASSUME SameEnd(k, n), SameCarrier(k, n), SameSender(k, n),
             Listens(n, p, t + 1) \/ Awaits(n, p, t + 1) \/ Counts(n, p, t + 1) \/ Done(n, p, t + 1)
      PROVE  RepliesAt2400(n, p, t + 1)
  <2>1. n.calling /\ n.present /\ n.down = 0
    BY <1>5, <1>7, <1>8 DEF SameEnd, SameCarrier
  <2>2. RepliesTx2400(n, p, t + 1)
    BY <1>4, <1>5, <1>8 DEF RepliesTx2400, SameSender, Sends
  <2> QED BY <1>8, <2>1, <2>2 DEF RepliesAt2400, RepliesTx2400
<1>9. CASE Listens(m, p, t)
  <2>1. /\ m.negotiated = 1200 /\ t <= p.reply + 24 /\ m.rx = "SCRAMBLED_ONES_AT_1200"
        /\ m.rxCount = t - p.reply - 1 /\ m.heard = t - p.reply - 1
    BY <1>9 DEF Listens, Hears
  <2>2. ~m.sixteen
    BY <1>9 DEF Listens
  <2>3. x = "S1"
    <3>1. t < p.reply + 60
      BY <1>0, <2>1
    <3> QED BY <3>1
  <2>4. n \in ScrambledOnes(k, x)
    BY <1>5, <1>6, <2>1 DEF Decide
  <2>5. PICK c : /\ Listened(k, x, c)
                 /\ \/ c.heard >= 15 /\ Found(c, n)
                    \/ c.heard <= 23 /\ c.rxCount < 240 /\ n = c
                    \/ c.heard <= 23 /\ c.rxCount >= 240 /\ GaveUp(c, n)
    BY <1>5, <1>6, <2>1, <2>4, SearchDoes
  <2>6. c.heard = t - p.reply /\ c.rxCount = t - p.reply /\ c.rx = "SCRAMBLED_ONES_AT_1200"
    <3>1. c.heard = k.heard + 1 /\ c.rxCount = k.rxCount + 1 /\ c.rx = k.rx
      BY <2>3, <2>5 DEF Listened, Hears
    <3> QED BY <1>0, <1>6, <2>1, <3>1
  <2>7. SameEnd(k, c) /\ SameCarrier(k, c) /\ SameSender(k, c) /\ c.negotiated = 1200
    BY <1>6, <2>1, <2>5 DEF Listened
  <2>8. ~c.sixteen
    BY <1>6, <2>2, <2>5 DEF Listened
  <2>9. CASE c.heard >= 15 /\ Found(c, n)
    <3>1. SameEnd(k, n) /\ SameCarrier(k, n) /\ SameSender(k, n) /\ n.negotiated = 2400
      BY <1>7, <2>7, <2>9 DEF Found, SameEnd, SameCarrier, SameSender
    <3>2. n.rx = "SCRAMBLED_ONES_AT_1200" /\ n.rxCount = 0
      BY <2>6, <2>9 DEF Found, Hears
    <3>3. ~n.sixteen
      BY <2>8, <2>9 DEF Found
    <3>4. /\ n.rxCount >= (t + 1) - p.reply - 25 /\ n.rxCount <= (t + 1) - p.reply - 16
          /\ n.rxCount < 330
      BY <1>0, <2>1, <2>6, <2>9, <3>2
    <3>5. Awaits(n, p, t + 1)
      BY <3>1, <3>2, <3>3, <3>4 DEF Awaits
    <3> QED BY <1>8, <3>1, <3>5
  <2>10. CASE c.heard <= 23 /\ n = c
    <3>1. t + 1 <= p.reply + 24 /\ (t + 1) - p.reply - 1 = t - p.reply
      BY <1>0, <2>6, <2>10
    <3>2. /\ Hears(n, "SCRAMBLED_ONES_AT_1200", (t + 1) - p.reply - 1)
          /\ n.heard = (t + 1) - p.reply - 1
      BY <2>6, <2>10, <3>1 DEF Hears
    <3>3. ~n.sixteen
      BY <2>8, <2>10
    <3>4. Listens(n, p, t + 1)
      BY <2>7, <2>10, <3>1, <3>2, <3>3 DEF Listens
    <3> QED BY <1>8, <2>7, <2>10, <3>4
  <2>11. ~(c.rxCount >= 240)
    BY <1>0, <2>1, <2>6
  <2> QED BY <2>5, <2>9, <2>10, <2>11
<1>10. CASE Awaits(m, p, t)
  <2>1. /\ m.negotiated = 2400 /\ m.rx = "SCRAMBLED_ONES_AT_1200"
        /\ m.rxCount >= t - p.reply - 25 /\ m.rxCount <= t - p.reply - 16 /\ m.rxCount < 330
    BY <1>10 DEF Awaits
  <2>2. ~m.sixteen
    BY <1>10 DEF Awaits
  <2>3. n \in ScrambledOnes(k, x)
    BY <1>5, <1>6, <2>1 DEF Decide
  <2>4. Wait(k) = 330
    BY <1>7 DEF Wait
  <2>5. /\ SameEnd(k, n) /\ SameCarrier(k, n) /\ SameSender(k, n) /\ n.negotiated = 2400
        /\ k.rxCount + 1 < Wait(k) => Hears(n, k.rx, k.rxCount + 1) /\ n.sixteen = k.sixteen
        /\ k.rxCount + 1 >= Wait(k) =>
              /\ Hears(n, "WAIT_FOR_SCRAMBLED_ONES_AT_2400", k.rxCount + 1)
              /\ n.sixteen /\ n.repeats = 0
    BY <1>5, <1>6, <2>1, <2>3, Await2400Does
  <2>6. k.rxCount \in Nat
    BY <1>5 DEF Modem
  <2>7. CASE k.rxCount + 1 < 330
    <3>1. Hears(n, "SCRAMBLED_ONES_AT_1200", k.rxCount + 1) /\ n.sixteen = k.sixteen
      BY <1>6, <2>1, <2>4, <2>5, <2>7
    <3>2. ~n.sixteen
      BY <1>6, <2>2, <3>1
    <3>3. n.rx = "SCRAMBLED_ONES_AT_1200" /\ n.rxCount = k.rxCount + 1
      BY <3>1 DEF Hears
    <3>4. /\ n.rxCount >= (t + 1) - p.reply - 25 /\ n.rxCount <= (t + 1) - p.reply - 16
          /\ n.rxCount < 330
      BY <1>0, <1>6, <2>1, <2>6, <2>7, <3>3
    <3>5. Awaits(n, p, t + 1)
      BY <2>5, <3>2, <3>3, <3>4 DEF Awaits
    <3> QED BY <1>8, <2>5, <3>5
  <2>8. CASE ~(k.rxCount + 1 < 330)
    <3>1. k.rxCount + 1 >= 330
      BY <2>6, <2>8
    <3>2. n.rx = "WAIT_FOR_SCRAMBLED_ONES_AT_2400" /\ n.repeats = 0
      BY <2>4, <2>5, <3>1 DEF Hears
    <3>3. n.sixteen
      BY <2>4, <2>5, <3>1
    <3>4. t + 1 >= p.reply + 346 /\ t + 1 < p.reply + 369 /\ t + 1 <= p.reply + 360
      BY <1>0, <1>6, <2>1, <2>6, <3>1
    <3>5. Counts(n, p, t + 1)
      BY <2>5, <3>2, <3>3, <3>4 DEF Counts
    <3> QED BY <1>8, <2>5, <3>5
  <2> QED BY <2>7, <2>8
<1>11. CASE Counts(m, p, t)
  <2>1. /\ m.negotiated = 2400 /\ m.rx = "WAIT_FOR_SCRAMBLED_ONES_AT_2400"
        /\ t >= p.reply + 346 /\ t < p.reply + 369
        /\ m.repeats = IF t <= p.reply + 360 THEN 0 ELSE t - (p.reply + 360)
    BY <1>11 DEF Counts
  <2>2. m.sixteen
    BY <1>11 DEF Counts
  <2>3. x # "data2400"
    <3>1. t < p.reply + 360 \/ (t >= p.reply + 360 /\ t < p.reply + 369)
      BY <1>0, <2>1
    <3> QED BY <3>1
  <2>4. n \in Wait2400(k, x)
    BY <1>5, <1>6, <2>1 DEF Decide
  <2>5. k.repeats \in Nat
    BY <1>0, <1>6, <2>1
  <2>6. /\ SameEnd(k, n) /\ SameCarrier(k, n) /\ SameSender(k, n)
        /\ n.negotiated = k.negotiated /\ n.sixteen = k.sixteen
        /\ x = "S1111" /\ k.repeats + 1 >= 9 => n.rx = "NORMAL"
        /\ x = "S1111" /\ k.repeats + 1 < 9 => n.rx = k.rx /\ n.repeats = k.repeats + 1
        /\ x # "S1111" => n.rx = k.rx /\ n.repeats = 0
    BY <1>5, <2>3, <2>4, <2>5, Wait2400Does
  <2>7. n.negotiated = 2400
    BY <1>6, <2>1, <2>6
  <2>8. n.sixteen
    BY <1>6, <2>2, <2>6
  <2>9. t + 1 >= p.reply + 346
    BY <1>0, <2>1
  <2>10. CASE t < p.reply + 360
    <3>1. t + 1 <= p.reply + 360 /\ t + 1 < p.reply + 369 /\ x # "S1111"
      BY <1>0, <2>10
    <3>2. n.rx = "WAIT_FOR_SCRAMBLED_ONES_AT_2400" /\ n.repeats = 0
      BY <1>6, <2>1, <2>6, <3>1
    <3>3. Counts(n, p, t + 1)
      BY <2>7, <2>8, <2>9, <3>1, <3>2 DEF Counts
    <3> QED BY <1>8, <2>6, <3>3
  <2>11. CASE ~(t < p.reply + 360) /\ t + 1 < p.reply + 369
    <3>1. /\ ~(t + 1 <= p.reply + 360) /\ k.repeats + 1 = (t + 1) - (p.reply + 360)
          /\ k.repeats + 1 < 9 /\ x = "S1111"
      BY <1>0, <1>6, <2>1, <2>11
    <3>2. n.rx = "WAIT_FOR_SCRAMBLED_ONES_AT_2400" /\ n.repeats = (t + 1) - (p.reply + 360)
      BY <1>6, <2>1, <2>6, <3>1
    <3>3. Counts(n, p, t + 1)
      BY <2>7, <2>8, <2>9, <2>11, <3>1, <3>2 DEF Counts
    <3> QED BY <1>8, <2>6, <3>3
  <2>12. CASE ~(t + 1 < p.reply + 369)
    <3>1. k.repeats + 1 >= 9 /\ t + 1 >= p.reply + 369 /\ x = "S1111"
      BY <1>0, <1>6, <2>1, <2>12
    <3>2. n.rx = "NORMAL"
      BY <2>6, <3>1
    <3>3. Done(n, p, t + 1)
      BY <2>7, <2>8, <3>1, <3>2 DEF Done
    <3> QED BY <1>8, <2>6, <3>3
  <2> QED BY <2>10, <2>11, <2>12
<1>12. CASE Done(m, p, t)
  <2>1. m.negotiated = 2400 /\ m.rx = "NORMAL" /\ t >= p.reply + 369
    BY <1>12 DEF Done
  <2>2. m.sixteen
    BY <1>12 DEF Done
  <2>3. n = k
    BY <1>5, <1>6, <2>1 DEF Decide
  <2>4. t + 1 >= p.reply + 369 /\ n.negotiated = 2400 /\ n.rx = "NORMAL"
    BY <1>0, <1>6, <2>1, <2>3
  <2>5. n.sixteen
    <3>1. n.sixteen = k.sixteen
      BY <2>3
    <3> QED BY <1>6, <2>2, <3>1
  <2>6. Done(n, p, t + 1)
    BY <2>4, <2>5 DEF Done
  <2>7. SameEnd(k, n) /\ SameCarrier(k, n) /\ SameSender(k, n)
    BY <2>3 DEF SameEnd, SameCarrier, SameSender
  <2> QED BY <1>8, <2>6, <2>7
<1> QED BY <1>9, <1>10, <1>11, <1>12 DEF RepliesAt2400

-----------------------------------------------------------------------------
(* The line carries what the timetable has both ends send.                 *)

Caller == modem["caller"]
Answerer == modem["answerer"]

LEMMA SignalIs ==
  ASSUME NEW m
  PROVE  /\ m.tx \in {"INITIAL_SILENCE", "INITIAL_TIMED_SILENCE"} => Signal(m) = "silence"
         /\ m.tx = "U11" => Signal(m) = "U11"
         /\ m.tx = "U0011" => Signal(m) = "S1"
         /\ m.tx \in {"S11", "TIMED_S11"} => Signal(m) = "S11"
         /\ m.tx = "S1111" => Signal(m) = "S1111"
         /\ m.tx = "NORMAL" /\ m.negotiated = 1200 => Signal(m) = "data1200"
         /\ m.tx = "NORMAL" /\ m.negotiated = 2400 => Signal(m) = "data2400"
<1>1. m.tx \in {"INITIAL_SILENCE", "INITIAL_TIMED_SILENCE"} => Signal(m) = "silence"
  BY DEF Signal
<1>2. m.tx = "U11" => Signal(m) = "U11"
  BY DEF Signal
<1>3. m.tx = "U0011" => Signal(m) = "S1"
  BY DEF Signal
<1>4. m.tx \in {"S11", "TIMED_S11"} => Signal(m) = "S11"
  BY DEF Signal
<1>5. m.tx = "S1111" => Signal(m) = "S1111"
  BY DEF Signal
<1>6. m.tx = "NORMAL" => Signal(m) = IF m.negotiated = 1200 THEN "data1200" ELSE "data2400"
  BY DEF Signal
<1>7. m.negotiated = 2400 => m.negotiated # 1200
  OBVIOUS
<1> QED BY <1>1, <1>2, <1>3, <1>4, <1>5, <1>6, <1>7

LEMMA AnswererSignal ==
  ASSUME NEW p, Timetable(p), NEW t \in Nat, NEW m, Answers(m, p, t)
  PROVE  Signal(m) = AnswererSends(p, t)
<1>0. p.answer \in Nat /\ p.hear \in Nat /\ p.answer >= p.hear + 42 /\ p.hear >= 45
  BY DEF Timetable
<1>1. CASE t < p.answer
  <2>1. Called(m, p, t)
    BY <1>1 DEF Answers
  <2>2. CASE t < 45
    <3>1. m.tx = "INITIAL_TIMED_SILENCE"
      BY <2>1, <2>2 DEF Called, Sends
    <3> QED BY <2>2, <3>1, SignalIs DEF AnswererSends
  <2>3. CASE ~(t < 45)
    <3>1. m.tx = "U11"
      BY <2>1, <2>3 DEF Called
    <3> QED BY <1>1, <2>3, <3>1, SignalIs DEF AnswererSends
  <2> QED BY <2>2, <2>3
<1>2. CASE ~(t < p.answer) /\ p.both
  <2>0. ~(t < 45)
    BY <1>0, <1>2
  <2>1. AnswersAt2400(m, p, t)
    BY <1>2 DEF Answers
  <2>2. m.negotiated = 2400
    BY <2>1 DEF AnswersAt2400
  <2>3. CASE t < p.answer + 60
    <3>1. m.tx = "U0011"
      BY <2>1, <2>3 DEF AnswersAt2400, Sends
    <3> QED BY <1>2, <2>0, <2>3, <3>1, SignalIs DEF AnswererSends
  <2>4. CASE ~(t < p.answer + 60) /\ t < p.answer + 360
    <3>1. m.tx = "TIMED_S11"
      BY <2>1, <2>4 DEF AnswersAt2400, Sends
    <3> QED BY <1>2, <2>0, <2>4, <3>1, SignalIs DEF AnswererSends
  <2>5. CASE ~(t < p.answer + 60) /\ ~(t < p.answer + 360) /\ t < p.answer + 480
    <3>1. m.tx = "S1111"
      BY <2>1, <2>5 DEF AnswersAt2400, Sends
    <3> QED BY <1>2, <2>0, <2>5, <3>1, SignalIs DEF AnswererSends
  <2>6. CASE ~(t < p.answer + 60) /\ ~(t < p.answer + 360) /\ ~(t < p.answer + 480)
    <3>1. m.tx = "NORMAL"
      BY <2>1, <2>6 DEF AnswersAt2400, Sends
    <3> QED BY <1>2, <2>0, <2>2, <2>6, <3>1, SignalIs DEF AnswererSends
  <2> QED BY <2>3, <2>4, <2>5, <2>6
<1>3. CASE ~(t < p.answer) /\ ~p.both
  <2>0. ~(t < 45)
    BY <1>0, <1>3
  <2>1. AnswersAt1200(m, p, t)
    BY <1>3 DEF Answers
  <2>2. m.negotiated = 1200
    BY <2>1 DEF AnswersAt1200
  <2>3. CASE t < p.answer + 453
    <3>1. m.tx = "TIMED_S11"
      BY <2>1, <2>3 DEF AnswersAt1200, Sends
    <3> QED BY <1>3, <2>0, <2>3, <3>1, SignalIs DEF AnswererSends
  <2>4. CASE ~(t < p.answer + 453)
    <3>1. m.tx = "NORMAL"
      BY <2>1, <2>4 DEF AnswersAt1200, Sends
    <3> QED BY <1>3, <2>0, <2>2, <2>4, <3>1, SignalIs DEF AnswererSends
  <2> QED BY <2>3, <2>4
<1> QED BY <1>1, <1>2, <1>3

\* By the time the caller sends data at 2400 it works at 2400.
LEMMA RepliesRate ==
  ASSUME NEW p, Timetable(p), NEW t \in Nat, t > p.reply + 24, NEW m, RepliesAt2400(m, p, t)
  PROVE  m.negotiated = 2400
<1>1. p.reply \in Nat
  BY DEF Timetable
<1>2. ~Listens(m, p, t)
  BY <1>1 DEF Listens
<1> QED BY <1>2 DEF RepliesAt2400, Awaits, Counts, Done

LEMMA CallerSignal ==
  ASSUME NEW p, Timetable(p), NEW t \in Nat, NEW m, Replies(m, p, t)
  PROVE  Signal(m) = CallerSends(p, t)
<1>0. p.call \in Nat /\ p.reply \in Nat /\ p.reply >= p.call
  BY DEF Timetable
<1>1. CASE t <= p.reply
  <2>1. Calls(m, p, t)
    BY <1>1 DEF Replies
  <2>2. CASE t < p.call
    <3>1. m.tx = "INITIAL_SILENCE"
      BY <2>1, <2>2 DEF Calls
    <3> QED BY <2>2, <3>1, SignalIs DEF CallerSends
  <2>3. CASE ~(t < p.call) /\ p.quick /\ t < p.call + 60
    <3>1. m.tx = "U0011"
      BY <2>1, <2>3 DEF Calls, Sends
    <3> QED BY <1>1, <2>3, <3>1, SignalIs DEF CallerSends
  <2>4. CASE ~(t < p.call) /\ ~(p.quick /\ t < p.call + 60)
    <3>1. m.tx = "S11"
      BY <2>1, <2>4 DEF Calls
    <3> QED BY <1>1, <2>4, <3>1, SignalIs DEF CallerSends
  <2> QED BY <2>2, <2>3, <2>4
<1>2. CASE ~(t <= p.reply) /\ p.both
  <2>0. ~(t < p.call)
    BY <1>0, <1>2
  <2>1. RepliesAt2400(m, p, t)
    BY <1>2 DEF Replies
  <2>2. CASE t < p.reply + 454
    <3>1. m.tx = "TIMED_S11"
      BY <2>1, <2>2 DEF RepliesAt2400, Sends
    <3> QED BY <1>2, <2>0, <2>2, <3>1, SignalIs DEF CallerSends
  <2>3. CASE ~(t < p.reply + 454) /\ t < p.reply + 574
    <3>1. m.tx = "S1111"
      BY <2>1, <2>3 DEF RepliesAt2400, Sends
    <3> QED BY <1>2, <2>0, <2>3, <3>1, SignalIs DEF CallerSends
  <2>4. CASE ~(t < p.reply + 454) /\ ~(t < p.reply + 574)
    <3>1. m.tx = "NORMAL"
      BY <2>1, <2>4 DEF RepliesAt2400
    <3>2. t > p.reply + 24
      BY <1>0, <2>4
    <3>3. m.negotiated = 2400
      BY <2>1, <3>2, RepliesRate
    <3> QED BY <1>2, <2>0, <2>4, <3>1, <3>3, SignalIs DEF CallerSends
  <2> QED BY <2>2, <2>3, <2>4
<1>3. CASE ~(t <= p.reply) /\ ~p.both
  <2>0. ~(t < p.call)
    BY <1>0, <1>3
  <2>1. RepliesAt1200(m, p, t)
    BY <1>3 DEF Replies
  <2>2. m.negotiated = 1200
    BY <2>1 DEF RepliesAt1200
  <2>3. CASE t < p.reply + 694
    <3>1. m.tx = "TIMED_S11"
      BY <2>1, <2>3 DEF RepliesAt1200, Sends
    <3> QED BY <1>3, <2>0, <2>3, <3>1, SignalIs DEF CallerSends
  <2>4. CASE ~(t < p.reply + 694)
    <3>0. ~(t <= p.reply + 240)
      BY <1>0, <2>4
    <3>1. m.tx = "NORMAL"
      BY <2>1, <2>4, <3>0 DEF RepliesAt1200
    <3> QED BY <1>3, <2>0, <2>2, <2>4, <3>1, SignalIs DEF CallerSends
  <2> QED BY <2>3, <2>4
<1> QED BY <1>1, <1>2, <1>3

\* A line of d symbols holds the last d of what was sent, which is f.
Holds(l, f, t, d) == Len(l) = d /\ \A i \in 1..d : l[i] = f[t - d + (i - 1)]

\* It delivers the one sent d symbols ago.
LEMMA LineMoves ==
  ASSUME NEW S, NEW l \in Seq(S), NEW x \in S, NEW d \in Nat, NEW t \in Nat, NEW f,
         Holds(l, f, t, d), x = f[t]
  PROVE  Head(Append(l, x)) = f[t - d] /\ Holds(Tail(Append(l, x)), f, t + 1, d)
<1> DEFINE q == Append(l, x)
           g(i) == f[t - d + (i - 1)]
<1>1. /\ q \in Seq(S) /\ Len(q) = d + 1
      /\ \A i \in 1..d : q[i] = l[i]
      /\ q[d + 1] = x
  BY DEF Holds
<1>2. (\A i \in 1..d : l[i] = g(i)) /\ x = g(d + 1) /\ f[t - d] = g(1)
  <2>1. t - d + ((d + 1) - 1) = t /\ t - d + (1 - 1) = t - d
    OBVIOUS
  <2> QED BY <2>1 DEF Holds
<1> HIDE DEF q, g
<1>4. ASSUME NEW i \in 1..(d + 1)
      PROVE  q[i] = g(i)
  <2>1. i \in 1..d \/ i = d + 1
    OBVIOUS
  <2> QED BY <1>1, <1>2, <2>1
<1>5. Head(q) = q[1] /\ Len(Tail(q)) = d /\ \A i \in 1..d : Tail(q)[i] = q[i + 1]
  BY <1>1
<1>6. Head(q) = f[t - d]
  <2>1. 1 \in 1..(d + 1)
    OBVIOUS
  <2> QED BY <1>2, <1>4, <1>5, <2>1
<1> DEFINE r == Tail(q)
<1>7. Len(r) = d /\ \A i \in 1..d : r[i] = q[i + 1]
  BY <1>5
<1> HIDE DEF r
<1>8. \A i \in 1..d : r[i] = f[(t + 1) - d + (i - 1)]
  <2> SUFFICES ASSUME NEW i \in 1..d
               PROVE  r[i] = f[(t + 1) - d + (i - 1)]
    OBVIOUS
  <2>1. i + 1 \in 1..(d + 1)
    OBVIOUS
  <2>2. r[i] = g(i + 1)
    BY <1>4, <1>7, <2>1
  <2>3. t - d + ((i + 1) - 1) = (t + 1) - d + (i - 1)
    OBVIOUS
  <2> QED BY <2>2, <2>3 DEF g
<1>9. Holds(r, f, t + 1, d)
  BY <1>7, <1>8 DEF Holds
<1> QED BY <1>6, <1>9 DEF q, r

\* Only what was sent by then matters.
LEMMA LineSame ==
  ASSUME NEW l, NEW d \in Nat, NEW t \in Nat, NEW f, NEW g, Holds(l, f, t, d),
         \A u \in Int : u < t => f[u] = g[u]
  PROVE  Holds(l, g, t, d)
<1>1. ASSUME NEW i \in 1..d
      PROVE  l[i] = g[t - d + (i - 1)]
  <2> DEFINE u == t - d + (i - 1)
  <2>1. u \in Int /\ u < t /\ l[i] = f[u]
    BY DEF Holds
  <2> HIDE DEF u
  <2>2. l[i] = g[u]
    BY <2>1
  <2> QED BY <2>2 DEF u
<1> QED BY <1>1 DEF Holds

\* Both ends and the line keep to timetable p, t symbols into it.  After a dip the
\* answerer has its carrier still: DipLength is less than it takes to lose it.
LateIs(p, t) == late = IF t < p.start THEN p.start - t ELSE 0
OnLine(p, t) ==
    /\ Holds(line["answerer"], [u \in Int |-> AnswererSends(p, u)], t, p.delay)
    /\ Holds(line["caller"], [u \in Int |-> CallerSends(p, u)], t, p.delay)
Dips(m) ==
    /\ dip \in [left : Nat, comes : BOOLEAN]
    /\ m.down \in Nat /\ m.down + dip.left <= DipLength
    /\ dip.comes => dip.left = 0 /\ m.down = 0
    /\ dip.left > 0 \/ m.down > 0 => m.rx = "NORMAL"
Timed(p, t) ==
    /\ Timetable(p) /\ (p.quick <=> Caller.bit_rate = 2400)
    /\ Answers(Answerer, p, t) /\ Replies(Caller, p, t)
    /\ LateIs(p, t) /\ OnLine(p, t)
OnTime == \E p : \E t \in Nat : Timed(p, t)

LEMMA LineDelivers ==
  ASSUME IInv, NEW p, NEW t \in Nat, Timed(p, t)
  PROVE  /\ Head(Queue("answerer")) = AnswererSends(p, t - p.delay)
         /\ Head(Queue("caller")) = CallerSends(p, t - p.delay)
         /\ Tick => OnLine(p, t + 1)'
<1>0. Timetable(p) /\ p.delay \in Nat /\ p.start \in Nat /\ p.call \in Nat /\ p.call >= p.start
  BY DEF Timed, Timetable
<1>1. "answerer" \in Ends /\ "caller" \in Ends
  BY DEF Ends
<1>2. /\ line["answerer"] \in Seq(Signals) /\ line["caller"] \in Seq(Signals)
      /\ Sent("answerer") \in Signals /\ Sent("caller") \in Signals
  BY <1>1, SentIs DEF IInv, Carried
<1>3. Sent("answerer") = AnswererSends(p, t)
  <2>1. Sent("answerer") = Signal(Answerer)
    BY DEF Sent, Answerer
  <2> QED BY <1>0, <2>1, AnswererSignal DEF Timed
<1>4. Sent("caller") = CallerSends(p, t)
  <2>1. CASE t < p.start
    <3>1. late > 0 /\ t < p.call
      BY <1>0, <2>1 DEF Timed, LateIs
    <3> QED BY <3>1 DEF Sent, CallerSends
  <2>2. CASE ~(t < p.start)
    <3>1. late = 0
      BY <2>2 DEF Timed, LateIs
    <3>2. Sent("caller") = Signal(Caller)
      BY <3>1 DEF Sent, Caller
    <3> QED BY <1>0, <3>2, CallerSignal DEF Timed
  <2> QED BY <2>1, <2>2
<1> DEFINE a == [u \in Int |-> AnswererSends(p, u)]
           c == [u \in Int |-> CallerSends(p, u)]
<1>5. t \in Int /\ t - p.delay \in Int
  BY <1>0
<1>6. \A u \in Int : a[u] = AnswererSends(p, u) /\ c[u] = CallerSends(p, u)
  OBVIOUS
<1> HIDE DEF a, c
<1>7. /\ Head(Queue("answerer")) = a[t - p.delay]
      /\ Holds(Tail(Queue("answerer")), a, t + 1, p.delay)
  <2> DEFINE l == line["answerer"]
             x == Sent("answerer")
             d == p.delay
  <2>1. Holds(l, a, t, d)
    BY DEF Timed, OnLine, a
  <2>2. l \in Seq(Signals) /\ x \in Signals /\ d \in Nat
    BY <1>0, <1>2
  <2>3. x = a[t]
    BY <1>3, <1>5, <1>6
  <2> DEFINE q == Append(l, x)
  <2>4. Queue("answerer") = q
    BY DEF Queue
  <2> HIDE DEF l, x, d
  <2>5. Head(q) = a[t - d] /\ Holds(Tail(q), a, t + 1, d)
    BY <2>1, <2>2, <2>3, LineMoves
  <2> HIDE DEF q
  <2>6. Head(q) = a[t - p.delay] /\ Holds(Tail(q), a, t + 1, p.delay)
    BY <2>5 DEF d
  <2> QED BY <2>4, <2>6
<1>8. /\ Head(Queue("caller")) = c[t - p.delay]
      /\ Holds(Tail(Queue("caller")), c, t + 1, p.delay)
  <2> DEFINE l == line["caller"]
             x == Sent("caller")
             d == p.delay
  <2>1. Holds(l, c, t, d)
    BY DEF Timed, OnLine, c
  <2>2. l \in Seq(Signals) /\ x \in Signals /\ d \in Nat
    BY <1>0, <1>2
  <2>3. x = c[t]
    BY <1>4, <1>5, <1>6
  <2> DEFINE q == Append(l, x)
  <2>4. Queue("caller") = q
    BY DEF Queue
  <2> HIDE DEF l, x, d
  <2>5. Head(q) = c[t - d] /\ Holds(Tail(q), c, t + 1, d)
    BY <2>1, <2>2, <2>3, LineMoves
  <2> HIDE DEF q
  <2>6. Head(q) = c[t - p.delay] /\ Holds(Tail(q), c, t + 1, p.delay)
    BY <2>5 DEF d
  <2> QED BY <2>4, <2>6
<1>9. /\ Head(Queue("answerer")) = AnswererSends(p, t - p.delay)
      /\ Head(Queue("caller")) = CallerSends(p, t - p.delay)
  BY <1>5, <1>6, <1>7, <1>8
<1>10. ASSUME Tick
       PROVE  OnLine(p, t + 1)'
  <2>1. /\ line'["answerer"] = Tail(Queue("answerer"))
        /\ line'["caller"] = Tail(Queue("caller"))
    BY <1>1, <1>10 DEF Tick
  <2>2. Holds(line'["answerer"], a, t + 1, p.delay) /\ Holds(line'["caller"], c, t + 1, p.delay)
    BY <1>7, <1>8, <2>1
  <2> QED BY <2>2 DEF OnLine, a, c
<1> QED BY <1>9, <1>10

\* While the answerer has not answered, when and how it will is open.
Answering(p, answer, both) ==
    [delay |-> p.delay, start |-> p.start, ring |-> p.ring, call |-> p.call, hear |-> p.hear,
     answer |-> answer, reply |-> answer + p.delay, quick |-> p.quick, both |-> both]

LEMMA Postpone ==
  ASSUME NEW p, NEW t \in Nat, Timed(p, t), t < p.answer,
         NEW answer \in Nat, answer > t, answer >= p.hear + 42,
         NEW both \in BOOLEAN, both => p.quick
  PROVE  Timed(Answering(p, answer, both), t)
<1> DEFINE q == Answering(p, answer, both)
<1>0. /\ Timetable(p) /\ p.delay \in Nat /\ p.reply \in Nat /\ p.answer \in Nat /\ p.call \in Nat
      /\ p.reply = p.answer + p.delay
  BY DEF Timed, Timetable
<1>1. /\ q.delay = p.delay /\ q.start = p.start /\ q.ring = p.ring /\ q.call = p.call
      /\ q.hear = p.hear
  BY DEF Answering
<1>2. q.answer = answer /\ q.reply = answer + p.delay /\ q.quick = p.quick /\ q.both = both
  BY DEF Answering
<1> HIDE DEF q
<1>3. Timetable(q)
  BY <1>0, <1>1, <1>2 DEF Timetable
<1>4. t <= p.reply /\ t < q.answer /\ t <= q.reply /\ q.reply \in Nat
  BY <1>0, <1>2
<1>5. Answers(Answerer, q, t)
  <2>1. Called(Answerer, p, t)
    BY DEF Timed, Answers
  <2>2. Called(Answerer, q, t)
    BY <1>1, <2>1 DEF Called
  <2> QED BY <1>4, <2>2 DEF Answers
<1>6. Replies(Caller, q, t)
  <2>1. Calls(Caller, p, t)
    BY <1>4 DEF Timed, Replies
  <2>2. Calls(Caller, q, t)
    BY <1>1, <1>2, <2>1 DEF Calls
  <2> QED BY <1>4, <2>2 DEF Replies
<1>8. ASSUME NEW u \in Int, u < t
      PROVE  AnswererSends(p, u) = AnswererSends(q, u) /\ CallerSends(p, u) = CallerSends(q, u)
  <2>1. u < p.answer /\ u < q.answer /\ u <= p.reply /\ u <= q.reply
    BY <1>0, <1>2, <1>4, <1>8
  <2>2. AnswererSends(p, u) = AnswererSends(q, u)
    BY <2>1 DEF AnswererSends
  <2>3. CallerSends(p, u) = CallerSends(q, u)
    BY <1>1, <1>2, <2>1 DEF CallerSends
  <2> QED BY <2>2, <2>3
<1>9. OnLine(q, t)
  <2> DEFINE a == [u \in Int |-> AnswererSends(p, u)]
             b == [u \in Int |-> AnswererSends(q, u)]
             c == [u \in Int |-> CallerSends(p, u)]
             d == [u \in Int |-> CallerSends(q, u)]
  <2>1. \A u \in Int : u < t => a[u] = b[u] /\ c[u] = d[u]
    BY <1>8
  <2>2. Holds(line["answerer"], a, t, p.delay) /\ Holds(line["caller"], c, t, p.delay)
    BY DEF Timed, OnLine
  <2> HIDE DEF a, b, c, d
  <2>3. Holds(line["answerer"], b, t, p.delay) /\ Holds(line["caller"], d, t, p.delay)
    BY <1>0, <2>1, <2>2, LineSame
  <2> QED BY <1>1, <2>3 DEF OnLine, b, d
<1>10. LateIs(q, t) /\ (q.quick <=> Caller.bit_rate = 2400)
  BY <1>1, <1>2 DEF Timed, LateIs
<1> QED BY <1>3, <1>5, <1>6, <1>9, <1>10 DEF Timed, q

-----------------------------------------------------------------------------
(* A symbol at both ends.                                                  *)

\* What arrives was sent a delay ago, but for the dip.
LEMMA Arrivals ==
  ASSUME IInv, NEW p, NEW t \in Nat, Timed(p, t)
  PROVE  /\ Arrives("caller") = AnswererSends(p, t - p.delay)
         /\ Arrives("answerer") = IF dip.left > 0 THEN "silence" ELSE CallerSends(p, t - p.delay)
<1>1. Other("caller") = "answerer" /\ Other("answerer") = "caller" /\ "caller" # "answerer"
  BY DEF Other
<1> QED BY <1>1, LineDelivers DEF Arrives

\* The dip finds the answerer in normal operation and leaves it its carrier.
Dipped(m) == IF dip.left > 0 THEN m.down + 1 ELSE 0

LEMMA DipHeard ==
  ASSUME DipLength < CarrierLoss, NEW m, Dips(m), dip.left > 0
  PROVE  m.rx = "NORMAL" /\ m.down \in 0..58
<1>1. dip.left \in Nat /\ m.down \in Nat /\ m.down + dip.left <= DipLength
  BY DEF Dips
<1>2. DipLength \in Nat /\ DipLength < 60
  BY V22bisAssumption DEF CarrierLoss
<1>3. m.down \in 0..58
  BY <1>1, <1>2
<1> QED BY <1>3 DEF Dips

\* The answerer that has answered.
LEMMA AnswererNext ==
  ASSUME DipLength < CarrierLoss, IInv, NEW p, NEW t \in Nat, Timed(p, t), Dips(Answerer),
         t >= p.answer, NEW n \in Step("answerer")
  PROVE  /\ Answers(n, p, t + 1) /\ n.down = Dipped(Answerer)
         /\ Answerer.rx = "NORMAL" => n.rx = "NORMAL"
<1> DEFINE m == Answerer
           x == Arrives("answerer")
           u == t - p.delay
           far == Far("answerer")
<1>0. /\ Timetable(p) /\ p.delay \in Nat /\ p.answer \in Nat /\ p.reply \in Nat /\ p.call \in Nat
      /\ p.reply = p.answer + p.delay /\ p.answer >= p.call + p.delay + 42
  BY DEF Timed, Timetable
<1>1. Sound(m, far) /\ n \in RxStep(TxStep(m), x)
  <2>1. "answerer" \in Ends /\ "answerer" # "caller"
    BY DEF Ends
  <2> QED BY <2>1 DEF IInv, Far, Step, Answerer
<1>2. x = IF dip.left > 0 THEN "silence" ELSE CallerSends(p, u)
  BY Arrivals
<1>3. Answers(m, p, t) /\ Dips(m)
  BY DEF Timed
<1>4. ~(t < p.answer) /\ ~(t + 1 < p.answer) /\ ~(u < p.call) /\ u \in Int
  BY <1>0
<1>5. CallerSends(p, u) # "silence"
  BY <1>4 DEF CallerSends
<1>6. ASSUME dip.left > 0
      PROVE  m.rx = "NORMAL" /\ m.down \in 0..58
  BY <1>3, <1>6, DipHeard
<1> HIDE DEF x, m, far
<1>7. Heard(m, x)
  BY <1>2, <1>5, <1>6 DEF Heard
<1>8. Down(m, x) = Dipped(m)
  BY <1>2, <1>5 DEF Down, Dipped
<1>9. CASE p.both
  <2>1. AnswersAt2400(m, p, t)
    BY <1>3, <1>4, <1>9 DEF Answers
  <2>2. ASSUME t < p.reply + p.delay + 454
        PROVE  x # "S1111" /\ x # "data2400"
    <3>1. u < p.reply + 454
      BY <1>0, <2>2
    <3>2. CallerSends(p, u) \in {"S1", "S11"}
      BY <1>4, <1>9, <3>1 DEF CallerSends
    <3> QED BY <1>2, <3>2
  <2>3. ASSUME t >= p.reply + p.delay + 454, t < p.reply + p.delay + 463
        PROVE  x = "S1111"
    <3>1. ~(u <= p.reply) /\ ~(u < p.reply + 454) /\ u < p.reply + 574 /\ p.answer + 270 <= t
      BY <1>0, <2>3
    <3>2. CallerSends(p, u) = "S1111"
      BY <1>4, <1>9, <3>1 DEF CallerSends
    <3>3. m.rx # "NORMAL"
      BY <2>1, <2>3, <3>1 DEF AnswersAt2400
    <3> QED BY <1>2, <1>6, <3>2, <3>3
  <2>4. AnswersAt2400(n, p, t + 1) /\ n.down = Down(m, x)
    BY <1>0, <1>1, <1>7, <2>1, <2>2, <2>3, AnswersAt2400Next
  <2>5. m.present
    BY <2>1 DEF AnswersAt2400
  <2>6. m.rx = "NORMAL" => n.rx = "NORMAL"
    BY <1>1, <1>7, <2>5, NormalDoes
  <2> QED BY <1>4, <1>8, <1>9, <2>4, <2>6 DEF Answers, m
<1>10. CASE ~p.both
  <2>1. AnswersAt1200(m, p, t)
    BY <1>3, <1>4, <1>10 DEF Answers
  <2>2. AnswersAt1200(n, p, t + 1) /\ n.down = Down(m, x)
    BY <1>0, <1>1, <1>7, <2>1, AnswersAt1200Next
  <2>3. m.present
    BY <2>1 DEF AnswersAt1200
  <2>4. m.rx = "NORMAL" => n.rx = "NORMAL"
    BY <1>1, <1>7, <2>3, NormalDoes
  <2> QED BY <1>4, <1>8, <1>10, <2>2, <2>4 DEF Answers, m
<1> QED BY <1>9, <1>10

\* One that is called, and may answer now: the timetable is the one of that choice.
Chosen(p, q, t, n) ==
    /\ q.delay = p.delay /\ q.start = p.start /\ q.hear = p.hear
    /\ \/ q.answer = p.hear + 42
       \/ q.answer = t + 1
       \/ q.answer = t + 2 /\ Called(n, p, t + 1)

LEMMA CalledStep ==
  ASSUME IInv, NEW p, NEW t \in Nat, Timed(p, t), Dips(Answerer),
         t < p.answer, NEW n \in Step("answerer")
  PROVE  /\ \E q : Timed(q, t) /\ Answers(n, q, t + 1) /\ Chosen(p, q, t, n)
         /\ n.down = Dipped(Answerer) /\ Answerer.rx # "NORMAL"
<1> DEFINE m == Answerer
           x == Arrives("answerer")
           u == t - p.delay
           far == Far("answerer")
<1>0. /\ Timetable(p) /\ p.delay \in Nat /\ p.answer \in Nat /\ p.reply \in Nat /\ p.call \in Nat
      /\ p.hear \in Nat /\ p.hear = p.call + p.delay /\ p.reply = p.answer + p.delay
  BY DEF Timed, Timetable
<1>1. Kept(m, n, far) /\ Sound(m, far) /\ n \in RxStep(TxStep(m), x)
  <2>1. "answerer" \in Ends /\ "answerer" # "caller"
    BY DEF Ends
  <2> QED BY <2>1, StepKeeps DEF IInv, Far, Step, Answerer
<1>2. x = IF dip.left > 0 THEN "silence" ELSE CallerSends(p, u)
  BY Arrivals
<1>3. far = Caller.bit_rate
  BY DEF Far, Other, Caller
<1>4. Called(m, p, t) /\ Dips(m)
  BY DEF Timed, Answers
<1>5. m.rx # "NORMAL"
  BY <1>4 DEF Called, Hears
<1>6. ~(dip.left > 0)
  BY <1>4, <1>5 DEF Dips
<1>7. (t < p.hear => x = "silence") /\ (t >= p.hear => x # "silence")
  <2>1. (t < p.hear => u < p.call) /\ (t >= p.hear => ~(u < p.call))
    BY <1>0
  <2> QED BY <1>2, <1>6, <2>1 DEF CallerSends
<1> HIDE DEF x, m, far
<1>8. Called(n, p, t + 1) \/ (t >= p.hear + 41 /\ Begins(n))
  BY <1>0, <1>1, <1>4, <1>7, CalledNext
<1>9. n.down = 0
  BY <1>8 DEF Called, Begins
<1>10. \E q : Timed(q, t) /\ Answers(n, q, t + 1) /\ Chosen(p, q, t, n)
  <2>1. CASE Called(n, p, t + 1)
    <3> DEFINE answer == IF t + 2 < p.hear + 42 THEN p.hear + 42 ELSE t + 2
               both == FALSE
               q == Answering(p, answer, both)
    <3>1. /\ answer \in Nat /\ answer > t /\ answer >= p.hear + 42 /\ t + 1 < answer
          /\ answer = p.hear + 42 \/ answer = t + 2
      BY <1>0
    <3>0. both \in BOOLEAN /\ (both => p.quick)
      OBVIOUS
    <3> HIDE DEF answer, both
    <3>2. Timed(q, t)
      BY <3>0, <3>1, Postpone
    <3>3. q.answer = answer /\ q.hear = p.hear /\ q.delay = p.delay /\ q.start = p.start
      BY DEF Answering
    <3> HIDE DEF q
    <3>4. Called(n, q, t + 1)
      BY <2>1, <3>3 DEF Called
    <3>5. Chosen(p, q, t, n)
      BY <2>1, <3>1, <3>3 DEF Chosen
    <3> QED BY <3>1, <3>2, <3>3, <3>4, <3>5 DEF Answers
  <2>2. CASE t >= p.hear + 41 /\ Begins(n)
    <3> DEFINE both == n.negotiated = 2400
               q == Answering(p, t + 1, both)
    <3>1. t + 1 \in Nat /\ t + 1 > t /\ t + 1 >= p.hear + 42
      BY <1>0, <2>2
    <3>2. both \in BOOLEAN /\ (both => p.quick)
      <4>1. both => far = 2400
        BY <1>1 DEF Kept, Sound, Near, Agreed
      <4> QED BY <1>3, <4>1 DEF Timed
    <3> HIDE DEF both
    <3>3. Timed(q, t)
      BY <3>1, <3>2, Postpone
    <3>4. q.answer = t + 1 /\ q.both = both
      BY DEF Answering
    <3>10. Chosen(p, q, t, n)
      BY DEF Answering, Chosen
    <3> HIDE DEF q
    <3>5. Timetable(q)
      BY <3>3 DEF Timed
    <3>6. q.both <=> n.negotiated = 2400
      <4>1. CASE n.negotiated = 2400
        <5>1. both = TRUE
          BY <4>1 DEF both
        <5> QED BY <3>4, <4>1, <5>1
      <4>2. CASE n.negotiated # 2400
        <5>1. both = FALSE
          BY <4>2 DEF both
        <5> QED BY <3>4, <4>2, <5>1
      <4> QED BY <4>1, <4>2
    <3>7. IF q.both THEN AnswersAt2400(n, q, t + 1) ELSE AnswersAt1200(n, q, t + 1)
      BY <2>2, <3>1, <3>4, <3>5, <3>6, BeginsIs
    <3>8. ~(t + 1 < q.answer)
      BY <3>4
    <3>9. Answers(n, q, t + 1)
      BY <3>7, <3>8 DEF Answers
    <3> QED BY <3>3, <3>9, <3>10
  <2> QED BY <1>8, <2>1, <2>2
<1>11. n.down = Dipped(m)
  BY <1>6, <1>9 DEF Dipped
<1> QED BY <1>5, <1>10, <1>11 DEF m

\* The caller.
LEMMA CallerNext ==
  ASSUME IInv, NEW p, NEW t \in Nat, Timed(p, t), NEW n \in Step("caller")
  PROVE  Replies(n, p, t + 1)
<1> DEFINE m == Caller
           x == Arrives("caller")
           u == t - p.delay
           far == Far("caller")
<1>0. /\ Timetable(p) /\ p.delay \in Nat /\ p.answer \in Nat /\ p.reply \in Nat /\ p.call \in Nat
      /\ p.start \in Nat /\ p.ring \in Nat /\ p.ring >= p.start
      /\ p.ring = p.start \/ p.ring = 45 + p.delay
      /\ p.reply = p.answer + p.delay /\ p.reply > p.ring /\ p.answer >= 45 /\ p.ring >= 45 + p.delay
  BY DEF Timed, Timetable
<1>1. Sound(m, far) /\ (late > 0 => n = m)
  <2>1. "caller" \in Ends
    BY DEF Ends
  <2> QED BY <2>1 DEF IInv, Far, Step, Caller
<1>2. late = 0 => n \in RxStep(TxStep(m), x)
  BY DEF Step, Caller
<1>3. x = AnswererSends(p, u) /\ u \in Int
  BY <1>0, Arrivals
<1>4. Replies(m, p, t) /\ (p.quick <=> m.bit_rate = 2400)
  BY DEF Timed
<1>5. IF t < p.start THEN late > 0 ELSE late = 0
  BY <1>0 DEF Timed, LateIs
<1> HIDE DEF x, m, far
<1>6. CASE t < p.start
  <2>1. n = m /\ t <= p.reply /\ t + 1 <= p.reply
    BY <1>0, <1>1, <1>5, <1>6
  <2>2. Calls(m, p, t)
    BY <1>4, <2>1 DEF Replies
  <2>3. Calls(n, p, t + 1)
    BY <1>0, <1>6, <2>1, <2>2, CallsIdle
  <2> QED BY <2>1, <2>3 DEF Replies
<1>7. CASE ~(t < p.start) /\ t < p.reply
  <2>1. n \in RxStep(TxStep(m), x)
    BY <1>2, <1>5, <1>7
  <2>2. Calls(m, p, t)
    BY <1>0, <1>4, <1>7 DEF Replies
  <2>3. ASSUME t < p.ring
        PROVE  x = "silence"
    <3>1. u < 45
      BY <1>0, <1>7, <2>3
    <3> QED BY <1>3, <3>1 DEF AnswererSends
  <2>4. ASSUME t >= p.ring
        PROVE  x = "U11"
    <3>1. ~(u < 45) /\ u < p.answer
      BY <1>0, <1>7, <2>4
    <3> QED BY <1>3, <3>1 DEF AnswererSends
  <2>5. Calls(n, p, t + 1)
    BY <1>0, <1>1, <1>4, <2>1, <2>2, <2>3, <2>4, CallsNext
  <2>6. t + 1 <= p.reply
    BY <1>0, <1>7
  <2> QED BY <2>5, <2>6 DEF Replies
<1>8. CASE ~(t < p.start) /\ t = p.reply
  <2>1. n \in RxStep(TxStep(m), x)
    BY <1>2, <1>5, <1>8
  <2>2. Calls(m, p, t)
    BY <1>0, <1>4, <1>8 DEF Replies
  <2>3. x # "silence" /\ x # "U11"
    <3>1. ~(u < 45) /\ ~(u < p.answer) /\ u < p.answer + 453 /\ u < p.answer + 60
      BY <1>0, <1>8
    <3> QED BY <1>3, <3>1 DEF AnswererSends
  <2>4. IF p.both THEN RepliesAt2400(n, p, t + 1) ELSE RepliesAt1200(n, p, t + 1)
    BY <1>0, <1>1, <1>8, <2>1, <2>2, <2>3, CallsAnswered
  <2>5. ~(t + 1 <= p.reply)
    BY <1>0, <1>8
  <2> QED BY <2>4, <2>5 DEF Replies
<1>9. CASE ~(t < p.start) /\ t > p.reply
  <2>0. /\ ~(t <= p.reply) /\ ~(t + 1 <= p.reply) /\ ~(u < 45) /\ ~(u < p.answer)
    BY <1>0, <1>9
  <2>1. n \in RxStep(TxStep(m), x)
    BY <1>2, <1>5, <1>9
  <2>2. CASE p.both
    <3>1. RepliesAt2400(m, p, t) /\ m.bit_rate = 2400
      BY <1>0, <1>4, <2>0, <2>2 DEF Replies, Timetable
    <3>2. x # "silence"
      BY <1>3, <2>0, <2>2 DEF AnswererSends
    <3>3. ASSUME t < p.reply + 60
          PROVE  x = "S1"
      <4>1. u < p.answer + 60
        BY <1>0, <3>3
      <4> QED BY <1>3, <2>0, <2>2, <4>1 DEF AnswererSends
    <3>4. ASSUME t < p.reply + 360
          PROVE  x # "S1111" /\ x # "data2400"
      <4>1. u < p.answer + 360
        BY <1>0, <3>4
      <4> QED BY <1>3, <2>0, <2>2, <4>1 DEF AnswererSends
    <3>5. ASSUME t >= p.reply + 360, t < p.reply + 369
          PROVE  x = "S1111"
      <4>1. ~(u < p.answer + 60) /\ ~(u < p.answer + 360) /\ u < p.answer + 480
        BY <1>0, <3>5
      <4> QED BY <1>3, <2>0, <2>2, <4>1 DEF AnswererSends
    <3>6. RepliesAt2400(n, p, t + 1)
      BY <1>0, <1>1, <1>9, <2>1, <3>1, <3>2, <3>3, <3>4, <3>5, RepliesAt2400Next
    <3> QED BY <2>0, <2>2, <3>6 DEF Replies
  <2>3. CASE ~p.both
    <3>1. RepliesAt1200(m, p, t)
      BY <1>4, <2>0, <2>3 DEF Replies
    <3>2. x # "silence" /\ x # "S1"
      BY <1>3, <2>0, <2>3 DEF AnswererSends
    <3>3. RepliesAt1200(n, p, t + 1)
      BY <1>0, <1>1, <1>9, <2>1, <3>1, <3>2, RepliesAt1200Next
    <3> QED BY <2>0, <2>3, <3>3 DEF Replies
  <2> QED BY <2>2, <2>3
<1>10. t < p.start \/ t < p.reply \/ t = p.reply \/ t > p.reply
  BY <1>0
<1> QED BY <1>6, <1>7, <1>8, <1>9, <1>10

-----------------------------------------------------------------------------
(* Everything happens on time.                                             *)

\* A timetable that both ends keep is kept by the line.
LEMMA TimedNext ==
  ASSUME IInv, Tick, NEW q, NEW t \in Nat, Timed(q, t), Answers(Answerer', q, t + 1)
  PROVE  Timed(q, t + 1)'
<1>1. Caller' \in Step("caller")
  BY DEF Tick, Caller
<1>2. Replies(Caller', q, t + 1)
  BY <1>1, CallerNext
<1>3. OnLine(q, t + 1)'
  BY LineDelivers
<1>4. Timetable(q) /\ (q.quick <=> Caller.bit_rate = 2400) /\ LateIs(q, t)
  BY DEF Timed
<1>5. late' = IF t + 1 < q.start THEN q.start - (t + 1) ELSE 0
  <2>1. late' = IF late > 0 THEN late - 1 ELSE 0
    BY DEF Tick
  <2>2. q.start \in Nat
    BY <1>4 DEF Timetable
  <2> QED BY <1>4, <2>1, <2>2 DEF LateIs
<1>6. LateIs(q, t + 1)'
  BY <1>5 DEF LateIs
<1>7. Caller'.bit_rate = Caller.bit_rate
  <2>1. "caller" \in Ends
    BY DEF Ends
  <2> QED BY <1>1, <2>1, StepKeeps DEF Kept, Caller
<1> QED BY <1>2, <1>3, <1>4, <1>6, <1>7 DEF Timed

LEMMA TickOnTime ==
  ASSUME DipLength < CarrierLoss, IInv, OnTime, Dips(Answerer), Tick
  PROVE  OnTime' /\ Dips(Answerer)'
<1>1. PICK p : \E t \in Nat : Timed(p, t)
  BY DEF OnTime
<1>2. PICK t \in Nat : Timed(p, t)
  BY <1>1
<1> DEFINE a == Answerer'
<1>3. a \in Step("answerer")
  BY DEF Tick, Answerer
<1> HIDE DEF a
<1>5. /\ \E q : Timed(q, t) /\ Answers(a, q, t + 1)
      /\ a.down = Dipped(Answerer) /\ (Answerer.rx = "NORMAL" => a.rx = "NORMAL")
  <2>1. CASE t < p.answer
    BY <1>2, <1>3, <2>1, CalledStep
  <2>2. CASE t >= p.answer
    BY <1>2, <1>3, <2>2, AnswererNext
  <2>3. p.answer \in Nat
    BY <1>2 DEF Timed, Timetable
  <2> QED BY <2>1, <2>2, <2>3
<1>4. a = Answerer'
  BY DEF a
<1>6. PICK q : Timed(q, t) /\ Answers(a, q, t + 1)
  BY <1>5
<1>12. Timed(q, t + 1)'
  BY <1>4, <1>6, TimedNext
<1>13. OnTime'
  <2>1. t + 1 \in Nat
    OBVIOUS
  <2> QED BY <1>12, <2>1 DEF OnTime
<1>14. Dips(Answerer)'
  <2>1. /\ dip \in [left : Nat, comes : BOOLEAN]
        /\ Answerer.down \in Nat /\ Answerer.down + dip.left <= DipLength
        /\ dip.comes => dip.left = 0 /\ Answerer.down = 0
        /\ dip.left > 0 \/ Answerer.down > 0 => Answerer.rx = "NORMAL"
    BY DEF Dips
  <2>2. dip' = [dip EXCEPT !.left = IF @ > 0 THEN @ - 1 ELSE 0]
    BY DEF Tick
  <2>3. /\ dip' \in [left : Nat, comes : BOOLEAN]
        /\ dip'.left = IF dip.left > 0 THEN dip.left - 1 ELSE 0
    BY <2>1, <2>2
  <2>4. dip'.comes = dip.comes
    BY <2>1, <2>2
  <2>5. a.down = IF dip.left > 0 THEN Answerer.down + 1 ELSE 0
    BY <1>5 DEF Dipped
  <2>6. DipLength \in Nat
    BY V22bisAssumption
  <2>7. dip.left \in Nat
    BY <2>1
  <2>8. a.down \in Nat /\ a.down + dip'.left <= DipLength
    BY <2>1, <2>3, <2>5, <2>6, <2>7
  <2>9. dip'.comes => dip'.left = 0 /\ a.down = 0
    <3>1. dip.left = 0 => dip'.left = 0 /\ a.down = 0
      BY <2>3, <2>5
    <3> QED BY <2>1, <2>4, <3>1
  <2>10. dip'.left > 0 \/ a.down > 0 => a.rx = "NORMAL"
    <3>1. dip'.left > 0 \/ a.down > 0 => dip.left > 0
      BY <2>3, <2>5, <2>7
    <3> QED BY <1>5, <2>1, <3>1
  <2> QED BY <1>4, <2>3, <2>8, <2>9, <2>10 DEF Dips
<1> QED BY <1>13, <1>14

\* The dip comes once, to ends that are trained.
LEMMA DipOnTime ==
  ASSUME OnTime, Dips(Answerer), Dip
  PROVE  OnTime' /\ Dips(Answerer)'
<1>1. modem' = modem /\ line' = line /\ late' = late
  BY DEF Dip
<1>2. OnTime'
  BY <1>1 DEF OnTime, Timed, OnLine, LateIs, Caller, Answerer
<1>3. Answerer' = Answerer /\ Answerer.down = 0 /\ Answerer.rx = "NORMAL"
  <2>1. dip.comes => Answerer.down = 0
    BY DEF Dips
  <2>2. Trained(modem["answerer"]) /\ dip.comes
    BY DEF Dip, Ends
  <2> QED BY <1>1, <2>1, <2>2 DEF Answerer, Trained
<1>4. DipLength \in Nat
  BY V22bisAssumption
<1>5. dip' = [left |-> DipLength, comes |-> FALSE]
  BY DEF Dip
<1>6. /\ dip' \in [left : Nat, comes : BOOLEAN] /\ dip'.left = DipLength
  BY <1>4, <1>5
<1>7. ~dip'.comes
  BY <1>5
<1>8. Dips(Answerer)'
  BY <1>3, <1>4, <1>6, <1>7 DEF Dips
<1> QED BY <1>2, <1>8

\* An end as v22bis_restart leaves it.
LEMMA RestartedIs ==
  ASSUME NEW e, NEW rate
  PROVE  LET n == Restarted(e, rate) IN
         /\ (n.calling <=> e = "caller") /\ n.bit_rate = rate
         /\ Sends(n, IF e = "caller" THEN "INITIAL_SILENCE" ELSE "INITIAL_TIMED_SILENCE", 0)
         /\ ~n.present /\ ~n.sixteen /\ Hears(n, "SYMBOL_ACQUISITION", 0)
         /\ n.negotiated = 1200 /\ n.down = 0 /\ n.heard = 0 /\ n.since = 0
<1> DEFINE calls == e = "caller"
<1>0. calls \in BOOLEAN /\ (calls <=> e = "caller")
  OBVIOUS
<1> HIDE DEF calls
<1> DEFINE m == [calling |-> calls, bit_rate |-> rate, negotiated |-> 0,
                 tx |-> IF e = "caller" THEN "INITIAL_SILENCE"
                                        ELSE "INITIAL_TIMED_SILENCE",
                 txCount |-> 0, rx |-> "", rxCount |-> 0, present |-> FALSE,
                 down |-> 0, sixteen |-> FALSE, repeats |-> 0, heard |-> 0, since |-> 0]
           n == RxRestart(m)
<1>1. Restarted(e, rate) = n
  BY DEF Restarted, calls
<1>2. m.calling = calls
  OBVIOUS
<1>3. /\ DOMAIN m = Fields /\ m.bit_rate = rate /\ m.txCount = 0
      /\ m.tx = IF e = "caller" THEN "INITIAL_SILENCE" ELSE "INITIAL_TIMED_SILENCE"
  BY DEF Fields
<1> HIDE DEF m
<1>4. n.calling = m.calling /\ n.bit_rate = m.bit_rate
  BY <1>3 DEF RxRestart, Fields
<1>5. n.tx = m.tx /\ n.txCount = m.txCount
  BY <1>3 DEF RxRestart, Fields
<1>6. n.rx = "SYMBOL_ACQUISITION" /\ n.rxCount = 0 /\ n.negotiated = 1200
  BY <1>3 DEF RxRestart, Fields
<1>7. n.down = 0 /\ n.heard = 0 /\ n.since = 0
  BY <1>3 DEF RxRestart, Fields
<1>8. ~n.present
  BY <1>3 DEF RxRestart, Fields
<1>9. ~n.sixteen
  BY <1>3 DEF RxRestart, Fields
<1> HIDE DEF n
<1>10. Sends(n, IF e = "caller" THEN "INITIAL_SILENCE" ELSE "INITIAL_TIMED_SILENCE", 0)
  BY <1>3, <1>5 DEF Sends
<1>11. n.calling <=> e = "caller"
  BY <1>0, <1>2, <1>4
<1>12. /\ (n.calling <=> e = "caller") /\ n.bit_rate = rate
       /\ Sends(n, IF e = "caller" THEN "INITIAL_SILENCE" ELSE "INITIAL_TIMED_SILENCE", 0)
       /\ ~n.present /\ ~n.sixteen /\ Hears(n, "SYMBOL_ACQUISITION", 0)
       /\ n.negotiated = 1200 /\ n.down = 0 /\ n.heard = 0 /\ n.since = 0
  BY <1>3, <1>4, <1>6, <1>7, <1>8, <1>9, <1>10, <1>11 DEF Hears
<1> QED BY <1>1, <1>12

LEMMA InitTimed ==
  ASSUME Init
  PROVE  /\ \E p : Timed(p, 0) /\ p.answer = p.hear + 42
         /\ Dips(Answerer) /\ Answerer.since = 0
<1>1. PICK rate \in [Ends -> Rates] : modem = [e \in Ends |-> Restarted(e, rate[e])]
  BY DEF Init
<1>2. PICK d \in Delays : line = [e \in Ends |-> [i \in 1..d |-> "silence"]]
  BY DEF Init
<1>3. d \in Nat /\ late \in Nat
  BY DEF Init, V22bisAssumption
<1>4. "caller" \in Ends /\ "answerer" \in Ends /\ "answerer" # "caller"
  BY DEF Ends
<1>5. /\ Caller = Restarted("caller", rate["caller"])
      /\ Answerer = Restarted("answerer", rate["answerer"])
  BY <1>1, <1>4 DEF Caller, Answerer
<1> DEFINE ring == IF late > 45 + d THEN late ELSE 45 + d
           quick == Caller.bit_rate = 2400
           p == [delay |-> d, start |-> late, ring |-> ring, call |-> ring + 367,
                 hear |-> ring + 367 + d, answer |-> ring + 367 + d + 42,
                 reply |-> ring + 367 + d + 42 + d, quick |-> quick, both |-> FALSE]
<1>6. /\ ring \in Nat /\ ring >= late /\ ring >= 45 + d /\ ring \in {late, 45 + d}
  BY <1>3
<1>7. quick \in BOOLEAN /\ (quick <=> Caller.bit_rate = 2400)
  OBVIOUS
<1> HIDE DEF ring, quick
<1>8. /\ p.delay = d /\ p.start = late /\ p.ring = ring /\ p.call = ring + 367
      /\ p.hear = ring + 367 + d /\ p.answer = ring + 367 + d + 42
      /\ p.reply = ring + 367 + d + 42 + d /\ p.quick = quick
  OBVIOUS
<1>9. p.both = FALSE
  OBVIOUS
<1> HIDE DEF p
<1>10. Timetable(p)
  <2>1. p.both \in BOOLEAN /\ p.quick \in BOOLEAN
    BY DEF p, quick
  <2>4. p.both => p.quick
    BY <1>9
  <2>2. /\ p.delay \in Nat /\ p.start \in Nat /\ p.ring \in Nat /\ p.call \in Nat
        /\ p.hear \in Nat /\ p.answer \in Nat /\ p.reply \in Nat
        /\ p.ring >= p.start /\ p.ring >= 45 + p.delay /\ p.ring \in {p.start, 45 + p.delay}
        /\ p.call = p.ring + 367 /\ p.hear = p.call + p.delay /\ p.answer >= p.hear + 42
        /\ p.reply = p.answer + p.delay
    BY <1>3, <1>6, <1>8
  <2> QED BY <2>1, <2>2, <2>4 DEF Timetable
<1>11. p.quick <=> Caller.bit_rate = 2400
  BY <1>7, <1>8
<1>12. /\ 0 < p.answer /\ 0 <= p.reply /\ 0 <= p.hear /\ 0 < p.call /\ 0 <= p.ring
       /\ ~(p.call <= 0) /\ p.delay \in Nat
  BY <1>3, <1>6, <1>8
<1>13. Called(Answerer, p, 0)
  BY <1>4, <1>5, <1>12, RestartedIs DEF Called
<1>14. Calls(Caller, p, 0)
  BY <1>4, <1>5, <1>12, RestartedIs DEF Calls, Sends
<1>15. Answers(Answerer, p, 0) /\ Replies(Caller, p, 0)
  BY <1>12, <1>13, <1>14 DEF Answers, Replies
<1>16. LateIs(p, 0)
  BY <1>3, <1>8 DEF LateIs
<1>17. OnLine(p, 0)
  <2> DEFINE silence == [i \in 1..d |-> "silence"]
             a == [u \in Int |-> AnswererSends(p, u)]
             c == [u \in Int |-> CallerSends(p, u)]
  <2>1. line["answerer"] = silence /\ line["caller"] = silence
    BY <1>2, <1>4
  <2>2. Len(silence) = d
    BY <1>3
  <2>3. \A u \in Int : u < 0 => a[u] = "silence" /\ c[u] = "silence"
    <3>1. \A u \in Int : u < 0 => u < 45 /\ u < p.call
      BY <1>6, <1>8
    <3> QED BY <3>1 DEF AnswererSends, CallerSends
  <2>4. ASSUME NEW i \in 1..d
        PROVE  silence[i] = "silence" /\ 0 - d + (i - 1) \in Int /\ 0 - d + (i - 1) < 0
    BY <1>3
  <2> HIDE DEF silence, a, c
  <2>5. ASSUME NEW i \in 1..d
        PROVE  silence[i] = a[0 - d + (i - 1)] /\ silence[i] = c[0 - d + (i - 1)]
    <3> DEFINE u == 0 - d + (i - 1)
    <3>1. u \in Int /\ u < 0 /\ silence[i] = "silence"
      BY <2>4
    <3> HIDE DEF u
    <3>2. silence[i] = a[u] /\ silence[i] = c[u]
      BY <2>3, <3>1
    <3> QED BY <3>2 DEF u
  <2>6. Holds(silence, a, 0, d) /\ Holds(silence, c, 0, d)
    BY <2>2, <2>5 DEF Holds
  <2> QED BY <1>8, <2>1, <2>6 DEF OnLine, a, c
<1>18. Timed(p, 0) /\ p.answer = p.hear + 42
  <2>1. Timed(p, 0)
    BY <1>10, <1>11, <1>15, <1>16, <1>17 DEF Timed
  <2> QED BY <1>8, <2>1
<1>19. Dips(Answerer)
  <2>1. dip = [left |-> 0, comes |-> TRUE]
    BY DEF Init
  <2>2. dip \in [left : Nat, comes : BOOLEAN] /\ dip.left = 0
    BY <2>1
  <2>3. Answerer.down = 0
    BY <1>5, RestartedIs
  <2>4. DipLength \in Nat
    BY V22bisAssumption
  <2> QED BY <2>2, <2>3, <2>4 DEF Dips
<1>21. Answerer.since = 0
  BY <1>5, RestartedIs
<1> QED BY <1>18, <1>19, <1>21

LEMMA InitOnTime == Init => OnTime /\ Dips(Answerer)
<1> SUFFICES ASSUME Init
             PROVE  OnTime /\ Dips(Answerer)
  OBVIOUS
<1>1. PICK p : Timed(p, 0)
  BY InitTimed
<1>2. OnTime
  BY <1>1 DEF OnTime
<1> QED BY <1>2, InitTimed

\* Whatever happens, everything stays on time.
LEMMA NextOnTime ==
  ASSUME DipLength < CarrierLoss, IInv, OnTime, Dips(Answerer), [Next]_vars
  PROVE  OnTime' /\ Dips(Answerer)'
<1>1. CASE Tick
  BY <1>1, TickOnTime
<1>2. CASE Dip
  BY <1>2, DipOnTime
<1>3. CASE UNCHANGED vars
  <2>1. modem' = modem /\ line' = line /\ late' = late /\ dip' = dip
    BY <1>3 DEF vars
  <2>2. OnTime'
    BY <2>1 DEF OnTime, Timed, OnLine, LateIs, Caller, Answerer
  <2>3. Dips(Answerer)'
    BY <2>1 DEF Dips, Answerer
  <2> QED BY <2>2, <2>3
<1> QED BY <1>1, <1>2, <1>3 DEF Next

\* An end in normal operation that has heard the other's answer.
LEMMA CallerNormal ==
  ASSUME NEW p, Timetable(p), NEW t \in Nat, NEW m, Replies(m, p, t), m.rx = "NORMAL"
  PROVE  /\ t > p.reply
         /\ p.both => m.sixteen /\ m.negotiated = 2400
         /\ ~p.both => ~m.sixteen /\ m.negotiated = 1200
<1>0. p.reply \in Nat
  BY DEF Timetable
<1>1. CASE t <= p.reply
  <2>1. Calls(m, p, t)
    BY <1>1 DEF Replies
  <2> QED BY <2>1 DEF Calls, Hears
<1>2. CASE ~(t <= p.reply) /\ p.both
  <2>1. RepliesAt2400(m, p, t)
    BY <1>2 DEF Replies
  <2>2. Done(m, p, t)
    BY <2>1 DEF RepliesAt2400, Listens, Awaits, Counts, Hears
  <2> QED BY <1>0, <1>2, <2>2 DEF Done
<1>3. CASE ~(t <= p.reply) /\ ~p.both
  <2>1. RepliesAt1200(m, p, t)
    BY <1>3 DEF Replies
  <2> QED BY <1>0, <1>3, <2>1 DEF RepliesAt1200
<1> QED BY <1>1, <1>2, <1>3

LEMMA AnswererNormal ==
  ASSUME NEW p, Timetable(p), NEW t \in Nat, NEW m, Answers(m, p, t), m.rx = "NORMAL"
  PROVE  p.both <=> m.sixteen
<1>0. p.answer \in Nat
  BY DEF Timetable
<1>1. CASE t < p.answer
  <2>1. Called(m, p, t)
    BY <1>1 DEF Answers
  <2> QED BY <2>1 DEF Called, Hears
<1>2. CASE ~(t < p.answer) /\ p.both
  <2>1. AnswersAt2400(m, p, t)
    BY <1>2 DEF Answers
  <2>2. ~(t < p.answer + 270)
    BY <2>1 DEF AnswersAt2400, Hears
  <2>3. m.sixteen
    BY <2>1, <2>2 DEF AnswersAt2400
  <2> QED BY <1>2, <2>3
<1>3. CASE ~(t < p.answer) /\ ~p.both
  <2>1. AnswersAt1200(m, p, t)
    BY <1>3 DEF Answers
  <2> QED BY <1>3, <2>1 DEF AnswersAt1200
<1> QED BY <1>1, <1>2, <1>3

\* The rate of an answerer that has ended U11.
LEMMA AnswererRate ==
  ASSUME NEW p, Timetable(p), NEW t \in Nat, NEW m, Answers(m, p, t), t >= p.answer
  PROVE  p.both <=> m.negotiated = 2400
<1>0. p.answer \in Nat /\ ~(t < p.answer)
  BY DEF Timetable
<1>1. CASE p.both
  <2>1. AnswersAt2400(m, p, t)
    BY <1>0, <1>1 DEF Answers
  <2> QED BY <1>1, <2>1 DEF AnswersAt2400
<1>2. CASE ~p.both
  <2>1. AnswersAt1200(m, p, t)
    BY <1>0, <1>2 DEF Answers
  <2>2. m.negotiated = 1200
    BY <2>1 DEF AnswersAt1200
  <2> QED BY <1>2, <2>2
<1> QED BY <1>1, <1>2

\* Data is sent so late that the other end is done training.
LEMMA CallerFound ==
  ASSUME NEW p, Timetable(p), NEW t \in Nat, NEW m, Modem(m), Replies(m, p, t),
         AnswererSends(p, t - p.delay) \in {"data1200", "data2400"}
  PROVE  m.rx = "NORMAL"
<1> DEFINE u == t - p.delay
<1>0. /\ p.delay \in Nat /\ p.answer \in Nat /\ p.reply \in Nat /\ p.reply = p.answer + p.delay
      /\ u \in Int /\ u + p.delay = t
  BY DEF Timetable
<1> HIDE DEF u
<1>1. AnswererSends(p, u) \in {"data1200", "data2400"}
  BY DEF u
<1>2. CASE p.both
  <2>1. ~(u < 45) /\ ~(u < p.answer) /\ ~(u < p.answer + 480)
    BY <1>1, <1>2 DEF AnswererSends
  <2>2. ~(t <= p.reply) /\ ~(t <= p.reply + 24) /\ ~(t < p.reply + 369) /\ t - p.reply - 25 >= 330
    BY <1>0, <2>1
  <2>3. RepliesAt2400(m, p, t)
    BY <1>2, <2>2 DEF Replies
  <2>4. ~Listens(m, p, t) /\ ~Counts(m, p, t)
    BY <2>2 DEF Listens, Counts
  <2>5. ~Awaits(m, p, t)
    <3>1. m.rxCount \in Nat
      BY DEF Modem
    <3> QED BY <1>0, <2>2, <3>1 DEF Awaits
  <2> QED BY <2>3, <2>4, <2>5 DEF RepliesAt2400, Done
<1>3. CASE ~p.both
  <2>1. ~(u < 45) /\ ~(u < p.answer) /\ ~(u < p.answer + 453)
    BY <1>1, <1>3 DEF AnswererSends
  <2>2. ~(t <= p.reply) /\ ~(t <= p.reply + 240)
    BY <1>0, <2>1
  <2>3. RepliesAt1200(m, p, t)
    BY <1>3, <2>2 DEF Replies
  <2> QED BY <2>2, <2>3 DEF RepliesAt1200
<1> QED BY <1>2, <1>3

LEMMA AnswererFound ==
  ASSUME NEW p, Timetable(p), NEW t \in Nat, NEW m, Answers(m, p, t),
         CallerSends(p, t - p.delay) \in {"data1200", "data2400"}
  PROVE  m.rx = "NORMAL"
<1> DEFINE u == t - p.delay
<1>0. /\ p.delay \in Nat /\ p.answer \in Nat /\ p.reply \in Nat /\ p.reply = p.answer + p.delay
      /\ u \in Int /\ u + p.delay = t
  BY DEF Timetable
<1> HIDE DEF u
<1>1. CallerSends(p, u) \in {"data1200", "data2400"}
  BY DEF u
<1>2. ~(u < p.call) /\ ~(u <= p.reply)
  BY <1>1 DEF CallerSends
<1>3. CASE p.both
  <2>1. ~(u < p.reply + 574)
    BY <1>1, <1>2, <1>3 DEF CallerSends
  <2>2. ~(t < p.answer) /\ t >= p.reply + p.delay + 463
    BY <1>0, <2>1
  <2>3. AnswersAt2400(m, p, t)
    BY <1>3, <2>2 DEF Answers
  <2> QED BY <2>2, <2>3 DEF AnswersAt2400
<1>4. CASE ~p.both
  <2>1. ~(u < p.reply + 694)
    BY <1>1, <1>2, <1>4 DEF CallerSends
  <2>2. ~(t < p.answer) /\ ~(t < p.answer + 382)
    BY <1>0, <2>1
  <2>3. AnswersAt1200(m, p, t)
    BY <1>4, <2>2 DEF Answers
  <2> QED BY <2>2, <2>3 DEF AnswersAt1200
<1> QED BY <1>3, <1>4

\* Once trained, for good: the carrier is never lost, and nothing else restarts.
LEMMA TrainedHears ==
  ASSUME DipLength < CarrierLoss, IInv, NEW p, NEW t \in Nat, Timed(p, t), Dips(Answerer),
         NEW e \in Ends, modem[e].rx = "NORMAL"
  PROVE  /\ modem[e].present /\ Heard(modem[e], Arrives(e))
         /\ Step(e) = RxStep(TxStep(modem[e]), Arrives(e))
<1> DEFINE u == t - p.delay
<1>0. /\ Timetable(p) /\ p.delay \in Nat /\ p.answer \in Nat /\ p.reply \in Nat /\ p.call \in Nat
      /\ p.start \in Nat /\ p.reply = p.answer + p.delay /\ p.answer >= p.call + p.delay + 42
      /\ p.call > p.start /\ p.answer >= 45
  BY DEF Timed, Timetable
<1>1. "caller" \in Ends /\ "answerer" \in Ends /\ "answerer" # "caller"
  BY DEF Ends
<1>2. CASE e = "caller"
  <2>1. Replies(Caller, p, t) /\ Caller.rx = "NORMAL"
    BY <1>2 DEF Timed, Caller
  <2>2. t > p.reply
    BY <1>0, <2>1, CallerNormal
  <2>3. ~(t <= p.reply) /\ ~(u < 45) /\ ~(u < p.answer) /\ ~(t < p.start)
    BY <1>0, <2>2
  <2>4. AnswererSends(p, u) # "silence"
    BY <2>3 DEF AnswererSends
  <2>5. Arrives("caller") # "silence"
    BY <2>4, Arrivals
  <2>6. late = 0
    BY <2>3 DEF Timed, LateIs
  <2>7. Caller.present
    BY <2>1, <2>3 DEF Replies, RepliesAt2400, RepliesAt1200
  <2> QED BY <1>2, <2>5, <2>6, <2>7 DEF Step, Heard, Caller
<1>3. CASE e = "answerer"
  <2>1. Answers(Answerer, p, t) /\ Answerer.rx = "NORMAL"
    BY <1>3 DEF Timed, Answerer
  <2>2. ~(t < p.answer)
    <3>1. ~Called(Answerer, p, t)
      BY <2>1 DEF Called, Hears
    <3> QED BY <2>1, <3>1 DEF Answers
  <2>3. ~(u < p.call)
    BY <1>0, <2>2
  <2>4. CallerSends(p, u) # "silence"
    BY <2>3 DEF CallerSends
  <2>5. Arrives("answerer") = IF dip.left > 0 THEN "silence" ELSE CallerSends(p, u)
    BY Arrivals
  <2>6. dip.left > 0 => Answerer.down \in 0..58
    BY DipHeard
  <2>7. Heard(Answerer, Arrives("answerer"))
    BY <2>1, <2>4, <2>5, <2>6 DEF Heard
  <2>8. Answerer.present
    BY <2>1, <2>2 DEF Answers, AnswersAt2400, AnswersAt1200
  <2> QED BY <1>1, <1>3, <2>7, <2>8 DEF Step, Answerer
<1> QED BY <1>2, <1>3 DEF Ends

LEMMA TrainedStays ==
  ASSUME DipLength < CarrierLoss, IInv, OnTime, Dips(Answerer), Tick,
         NEW e \in Ends, Trained(modem[e])
  PROVE  /\ Trained(modem'[e]) /\ modem'[e].negotiated = modem[e].negotiated
         /\ modem'[e].sixteen = modem[e].sixteen
<1> DEFINE m == modem[e]
           n == modem'[e]
           x == Arrives(e)
<1>1. PICK p : \E t \in Nat : Timed(p, t)
  BY DEF OnTime
<1>2. PICK t \in Nat : Timed(p, t)
  BY <1>1
<1>3. m.rx = "NORMAL" /\ m.tx = "NORMAL"
  BY DEF Trained
<1>4. m.present /\ Heard(m, x) /\ Step(e) = RxStep(TxStep(m), x)
  BY <1>2, <1>3, TrainedHears
<1>5. n \in Step(e)
  <2>1. PICK c \in Step("caller"), a \in Step("answerer") :
            modem' = [caller |-> c, answerer |-> a]
    BY DEF Tick
  <2> QED BY <2>1 DEF Ends
<1>6. Sound(m, Far(e))
  BY DEF IInv, Far
<1>7. TxStep(m) = m
  BY <1>3 DEF TxStep
<1> HIDE DEF m, n, x
<1>8. /\ SameSender(TxStep(m), n) /\ n.rx = "NORMAL"
      /\ n.negotiated = m.negotiated /\ n.sixteen = m.sixteen
  BY <1>3, <1>4, <1>5, <1>6, NormalDoes
<1>9. n.tx = "NORMAL"
  BY <1>3, <1>7, <1>8 DEF SameSender
<1> QED BY <1>8, <1>9 DEF Trained, m, n

-----------------------------------------------------------------------------
(* How long training takes.                                                *)

\* The window of S1 is the receiver's own.
LEMMA TxKeepsWindow ==
  ASSUME NEW m, Modem(m)
  PROVE  TxStep(m).since = m.since
<1> DEFINE k == [m EXCEPT !.txCount = @ + 1]
<1>1. /\ DOMAIN k = Fields /\ k.tx = m.tx /\ k.since = m.since
  BY DEF Modem, Fields
<1>2. TxStep(m) \in {m, k, Following(k)} /\ m.tx \in TxTraining
  BY DEF TxStep, Modem
<1>3. m.tx \in {"INITIAL_SILENCE", "U11", "S11", "NORMAL"} => TxStep(m) = m
  BY DEF TxStep
<1> HIDE DEF k
<1>4. ASSUME NEW training, NEW y \in {k}
      PROVE  SetTx(y, training).since = y.since
  BY <1>1 DEF SetTx, Fields
<1>5. CASE k.tx = "INITIAL_TIMED_SILENCE"
  <2>1. Following(k) = SetTx(k, "U11")
    BY <1>5 DEF Following
  <2> QED BY <1>1, <1>2, <1>4, <2>1
<1>6. CASE k.tx = "U0011" /\ k.calling
  <2>1. Following(k) = SetTx(k, "S11")
    BY <1>6 DEF Following
  <2> QED BY <1>1, <1>2, <1>4, <2>1
<1>7. CASE k.tx = "U0011" /\ ~k.calling
  <2>1. Following(k) = [k EXCEPT !.tx = "TIMED_S11",
                                 !.txCount = ms_to_symbols(756 - (600 - 100))]
    BY <1>7 DEF Following
  <2>2. Following(k).since = k.since
    BY <1>1, <2>1 DEF Fields
  <2> QED BY <1>1, <1>2, <2>2
<1>8. CASE k.tx = "TIMED_S11"
  <2>1. Following(k) = SetTx(k, IF k.negotiated = 2400 THEN "S1111" ELSE "NORMAL")
    BY <1>8 DEF Following
  <2> QED BY <1>1, <1>2, <1>4, <2>1
<1>9. CASE k.tx = "S1111"
  <2>1. Following(k) = SetTx(k, "NORMAL")
    BY <1>9 DEF Following
  <2> QED BY <1>1, <1>2, <1>4, <2>1
<1> QED BY <1>1, <1>2, <1>3, <1>5, <1>6, <1>7, <1>8, <1>9 DEF TxTraining

\* What has been heard of S1 is forgotten nine symbols after the last of it, and until
\* then only may put the commitment to 1200 off.
LEMMA ListenForgets ==
  ASSUME NEW m, Modem(m), m.since \in 0..8, NEW x
  PROVE  LET k == [Listen(m, x) EXCEPT !.rxCount = @ + 1] IN
         /\ DOMAIN k = Fields /\ k.since \in 0..8 /\ k.rxCount = m.rxCount + 1
         /\ x # "S1" => k.heard = 0 \/ (m.heard > 0 /\ k.since = m.since + 1)
         /\ x # "S1" /\ m.heard = 0 => k.heard = 0
<1> DEFINE l == Listen(m, x)
           k == [l EXCEPT !.rxCount = @ + 1]
<1>1. m.heard \in Nat /\ m.rxCount \in Nat /\ DOMAIN m = Fields
  BY DEF Modem
<1>2. CASE x = "S1"
  <2>1. l = [m EXCEPT !.heard = @ + 1, !.since = 0]
    BY <1>2 DEF Listen
  <2>2. DOMAIN l = Fields /\ l.since = 0 /\ l.rxCount = m.rxCount
    BY <1>1, <2>1 DEF Fields
  <2> HIDE DEF l
  <2>3. DOMAIN k = Fields /\ k.since = 0 /\ k.rxCount = m.rxCount + 1
    BY <2>2 DEF Fields
  <2> QED BY <1>2, <2>3 DEF l
<1>3. CASE x # "S1" /\ m.since >= 8
  <2>1. l = [m EXCEPT !.heard = 0]
    BY <1>3 DEF Listen, S1Window, S1Needed
  <2>2. DOMAIN l = Fields /\ l.since = m.since /\ l.rxCount = m.rxCount /\ l.heard = 0
    BY <1>1, <2>1 DEF Fields
  <2> HIDE DEF l
  <2>3. DOMAIN k = Fields /\ k.since = m.since /\ k.rxCount = m.rxCount + 1 /\ k.heard = 0
    BY <2>2 DEF Fields
  <2> QED BY <1>3, <2>3 DEF l
<1>4. CASE x # "S1" /\ ~(m.since >= 8)
  <2>1. l = [m EXCEPT !.since = IF m.heard > 0 THEN @ + 1 ELSE 0]
    BY <1>4 DEF Listen, S1Window, S1Needed
  <2>2. /\ DOMAIN l = Fields /\ l.rxCount = m.rxCount /\ l.heard = m.heard
        /\ l.since = IF m.heard > 0 THEN m.since + 1 ELSE 0
    BY <1>1, <2>1 DEF Fields
  <2> HIDE DEF l
  <2>3. /\ DOMAIN k = Fields /\ k.rxCount = m.rxCount + 1 /\ k.heard = m.heard
        /\ k.since = IF m.heard > 0 THEN m.since + 1 ELSE 0
    BY <2>2 DEF Fields
  <2> HIDE DEF k
  <2>4. k.since \in 0..8 /\ (k.heard = 0 \/ (m.heard > 0 /\ k.since = m.since + 1))
    BY <1>1, <1>4, <2>3
  <2> QED BY <2>3, <2>4 DEF k, l
<1> QED BY <1>2, <1>3, <1>4

LEMMA SearchForgets ==
  ASSUME NEW m, Modem(m), m.negotiated = 1200, m.since \in 0..8, NEW x,
         NEW n \in ScrambledOnes(m, x)
  PROVE  /\ n.since \in 0..8
         /\ x # "S1" => n.heard = 0 \/ (m.heard > 0 /\ n.since = m.since + 1)
         /\ x # "S1" /\ m.heard = 0 => n.rxCount = m.rxCount + 1
<1> DEFINE k == [Listen(m, x) EXCEPT !.rxCount = @ + 1]
<1>1. /\ DOMAIN k = Fields /\ k.since \in 0..8 /\ k.rxCount = m.rxCount + 1
      /\ x # "S1" => k.heard = 0 \/ (m.heard > 0 /\ k.since = m.since + 1)
      /\ x # "S1" /\ m.heard = 0 => k.heard = 0
  BY ListenForgets
<1>2. n \in AwaitS1(k)
  BY DEF ScrambledOnes
<1> HIDE DEF k
<1>3. CommitTo1200(k).since = k.since /\ CommitTo1200(k).heard = k.heard
      /\ CommitTo1200(k).rxCount = k.rxCount
  BY <1>1 DEF CommitTo1200, SetTx, Fields
<1>4. \/ n = HearS1(k) /\ k.heard # 0
      \/ n = k
      \/ n = CommitTo1200(k)
  BY <1>2 DEF AwaitS1, S1Needed, S1Lucky
<1>5. HearS1(k).since = k.since
  <2> DEFINE h == [k EXCEPT !.heard = S1Needed - 15, !.rxCount = 0, !.repeats = 0]
             sent == IF h.calling THEN h ELSE SetTx(h, "U0011")
             up == [sent EXCEPT !.negotiated = 2400]
  <2>1. HearS1(k) = IF h.bit_rate # 2400 THEN h ELSE up
    BY DEF HearS1
  <2>2. DOMAIN h = Fields /\ h.since = k.since
    BY <1>1 DEF Fields
  <2> HIDE DEF h
  <2>3. DOMAIN sent = Fields /\ sent.since = h.since
    BY <2>2 DEF SetTx, Fields
  <2> HIDE DEF sent
  <2>4. up.since = sent.since
    BY <2>3 DEF Fields
  <2> HIDE DEF up
  <2> QED BY <2>1, <2>2, <2>3, <2>4
<1> QED BY <1>1, <1>3, <1>4, <1>5

\* The answerer that waits for S1: what it has heard is forgotten in time, and from then on
\* it counts every symbol.
Waits(m, p, t) ==
    /\ m.since \in 0..8
    /\ t >= p.hear + 60 => m.heard = 0 \/ m.since >= t - (p.hear + 60)
    /\ t >= p.hear + 69 => m.rxCount >= t - (p.hear + 69)

\* It goes on like this with every symbol that leaves it waiting.
LEMMA WaitsNext ==
  ASSUME NEW p, Timetable(p), NEW t \in Nat, NEW far, NEW m, Sound(m, far), Called(m, p, t),
         Waits(m, p, t), NEW x, t >= p.hear => x # "silence", t >= p.hear + 60 => x # "S1",
         NEW n \in RxStep(TxStep(m), x), Modem(n)
  PROVE  Waits(n, p, t + 1)
<1> DEFINE s == TxStep(m)
           k == [s EXCEPT !.down = IF x = "silence" THEN @ + 1 ELSE 0]
           i == [s EXCEPT !.present = TRUE, !.down = 0]
<1>0. p.hear \in Nat /\ n.rxCount \in Nat /\ m.rxCount \in Nat /\ m.heard \in Nat
  BY DEF Timetable, Sound, Near, Modem
<1>1. Modem(m) /\ Modem(s)
  BY TxStepIs DEF Sound, Near
<1>2. SameReceiver(m, s) /\ s.since = m.since
  BY <1>1, TxStepDoes, TxKeepsWindow
<1>3. n \in RxStep(s, x)
  OBVIOUS
<1> HIDE DEF s
<1>4. CASE t <= p.hear
  <2>1. ~s.present
    BY <1>2, <1>4 DEF Called, SameReceiver
  <2>2. n = s \/ n = i
    BY <1>3, <2>1 DEF RxStep
  <2>3. i.since = s.since
    BY <1>1 DEF Modem, Fields
  <2> HIDE DEF i
  <2>4. n.since \in 0..8
    BY <1>2, <2>2, <2>3 DEF Waits
  <2> QED BY <1>0, <1>4, <2>4 DEF Waits
<1>5. CASE t > p.hear
  <2>1. m.present /\ x # "silence" /\ m.negotiated = 1200
    BY <1>0, <1>5 DEF Called
  <2>2. n \in Decide(k, x)
    BY <1>2, <1>3, <2>1 DEF RxStep, SameReceiver
  <2>3. /\ Modem(k) /\ k.since = s.since
        /\ k.rx = s.rx /\ k.rxCount = s.rxCount /\ k.negotiated = s.negotiated /\ k.heard = s.heard
    <3>1. DOMAIN k = Fields /\ k.since = s.since
      BY <1>1 DEF Modem, Fields
    <3>2. k.rx = s.rx /\ k.rxCount = s.rxCount /\ k.negotiated = s.negotiated /\ k.heard = s.heard
      BY <1>1 DEF Modem, Fields
    <3>3. k.bit_rate = s.bit_rate /\ k.tx = s.tx /\ k.txCount = s.txCount
      BY <1>1 DEF Modem, Fields
    <3> HIDE DEF k
    <3> QED BY <1>1, <3>1, <3>2, <3>3 DEF Modem
  <2> HIDE DEF k
  <2>4. /\ k.since = m.since /\ k.rx = m.rx /\ k.rxCount = m.rxCount
        /\ k.negotiated = 1200 /\ k.heard = m.heard
    BY <1>2, <2>1, <2>3 DEF SameReceiver
  <2>5. CASE t <= p.hear + 40
    <3>1. k.rx = "SYMBOL_ACQUISITION"
      BY <1>0, <1>5, <2>4, <2>5 DEF Called, Hears
    <3>2. n = Acquire(k)
      BY <2>2, <3>1 DEF Decide
    <3>3. n.since = k.since
      BY <2>3, <3>2 DEF Acquire, Modem, Fields
    <3>4. n.since \in 0..8
      BY <2>4, <3>3 DEF Waits
    <3>5. ~(t + 1 >= p.hear + 60) /\ ~(t + 1 >= p.hear + 69)
      BY <1>0, <2>5
    <3> QED BY <3>4, <3>5 DEF Waits
  <2>6. CASE ~(t <= p.hear + 40)
    <3>1. k.rx = "SCRAMBLED_ONES_AT_1200"
      BY <1>0, <1>5, <2>4, <2>6 DEF Called
    <3>2. n \in ScrambledOnes(k, x)
      BY <2>2, <3>1 DEF Decide
    <3>3. k.since \in 0..8
      BY <2>4 DEF Waits
    <3>4. /\ n.since \in 0..8
          /\ x # "S1" => n.heard = 0 \/ (m.heard > 0 /\ n.since = m.since + 1)
          /\ x # "S1" /\ m.heard = 0 => n.rxCount = m.rxCount + 1
      BY <2>3, <2>4, <3>2, <3>3, SearchForgets
    <3>5. /\ m.since \in 0..8
          /\ t >= p.hear + 60 => m.heard = 0 \/ m.since >= t - (p.hear + 60)
          /\ t >= p.hear + 69 => m.rxCount >= t - (p.hear + 69)
      BY DEF Waits
    <3>6. t + 1 >= p.hear + 60 => n.heard = 0 \/ n.since >= t + 1 - (p.hear + 60)
      <4>1. CASE t >= p.hear + 60
        BY <1>0, <3>4, <3>5, <4>1
      <4>2. CASE ~(t >= p.hear + 60)
        BY <1>0, <3>4, <4>2
      <4> QED BY <4>1, <4>2
    <3>7. t + 1 >= p.hear + 69 => n.rxCount >= t + 1 - (p.hear + 69)
      <4>1. CASE t >= p.hear + 69
        <5>1. m.heard = 0 /\ x # "S1"
          BY <1>0, <3>5, <4>1
        <5> QED BY <1>0, <3>4, <3>5, <4>1, <5>1
      <4>2. CASE ~(t >= p.hear + 69)
        BY <1>0, <4>2
      <4> QED BY <4>1, <4>2
    <3> QED BY <1>0, <3>4, <3>6, <3>7 DEF Waits
  <2> QED BY <2>5, <2>6
<1> QED BY <1>0, <1>4, <1>5

\* The count reaches 240 at the latest 309 symbols after the caller is heard.
LEMMA WaitsBriefly ==
  ASSUME NEW p, Timetable(p), NEW t \in Nat, NEW far, NEW m, Sound(m, far), Called(m, p, t),
         Waits(m, p, t)
  PROVE  t <= p.hear + 308
<1>1. p.hear \in Nat /\ m.rxCount \in Nat
  BY DEF Timetable, Sound, Near, Modem
<1>2. CASE t >= p.hear + 69
  <2>1. ~(t <= p.hear) /\ ~(t <= p.hear + 40)
    BY <1>1, <1>2
  <2>2. m.rx = "SCRAMBLED_ONES_AT_1200" /\ m.negotiated = 1200
    BY <2>1 DEF Called
  <2>3. m.rxCount < 240
    BY <2>2 DEF Sound, RxCounts, RxLimit
  <2> QED BY <1>1, <1>2, <2>3 DEF Waits
<1>3. CASE ~(t >= p.hear + 69)
  BY <1>1, <1>3
<1> QED BY <1>2, <1>3

\* The timetable is one in which the answerer answers promptly.
Prompt(p, t) ==
    /\ Timed(p, t) /\ p.answer <= p.hear + 309
    /\ t < p.answer => Waits(Answerer, p, t)

LEMMA PromptNext ==
  ASSUME DipLength < CarrierLoss, IInv, Dips(Answerer), Tick, NEW p, NEW t \in Nat, Prompt(p, t)
  PROVE  \E q : Prompt(q, t + 1)' /\ q.start = p.start
<1> DEFINE m == Answerer
           n == Answerer'
           x == Arrives("answerer")
           u == t - p.delay
           far == Far("answerer")
<1>0. /\ Timetable(p) /\ p.delay \in Nat /\ p.answer \in Nat /\ p.reply \in Nat /\ p.call \in Nat
      /\ p.hear \in Nat /\ p.hear = p.call + p.delay /\ p.reply = p.answer + p.delay
  BY DEF Prompt, Timed, Timetable
<1>1. Timed(p, t)
  BY DEF Prompt
<1>2. n \in Step("answerer")
  BY DEF Tick, Answerer
<1>3. CASE t >= p.answer
  <2>1. Answers(n, p, t + 1)
    BY <1>1, <1>2, <1>3, AnswererNext
  <2>2. Timed(p, t + 1)'
    BY <1>1, <2>1, TimedNext
  <2>3. ~(t + 1 < p.answer)
    BY <1>0, <1>3
  <2>4. Prompt(p, t + 1)'
    BY <2>2, <2>3 DEF Prompt
  <2> QED BY <2>4
<1>4. CASE t < p.answer
  <2>1. PICK q : Timed(q, t) /\ Answers(n, q, t + 1) /\ Chosen(p, q, t, n)
    BY <1>1, <1>2, <1>4, CalledStep
  <2>2. Timed(q, t + 1)'
    BY <2>1, TimedNext
  <2>3. Kept(m, n, far) /\ Sound(m, far) /\ n \in RxStep(TxStep(m), x)
    <3>1. "answerer" \in Ends /\ "answerer" # "caller"
      BY DEF Ends
    <3> QED BY <1>2, <3>1, StepKeeps DEF IInv, Far, Step, Answerer
  <2>4. Called(m, p, t) /\ Waits(m, p, t)
    BY <1>1, <1>4 DEF Prompt, Timed, Answers
  <2>5. x = CallerSends(p, u)
    <3>1. m.rx # "NORMAL"
      BY <2>4 DEF Called, Hears
    <3>2. ~(dip.left > 0)
      BY <3>1 DEF Dips
    <3> QED BY <1>1, <3>2, Arrivals
  <2>6. (t >= p.hear => x # "silence") /\ (t >= p.hear + 60 => x # "S1")
    <3>1. (t >= p.hear => ~(u < p.call)) /\ (t >= p.hear + 60 => ~(u < p.call + 60))
      BY <1>0
    <3>2. u <= p.reply
      BY <1>0, <1>4
    <3> QED BY <2>5, <3>1, <3>2 DEF CallerSends
  <2> HIDE DEF m, n, x, u, far
  <2>7. Sound(n, far) /\ Modem(n)
    BY <2>3 DEF Kept, Sound, Near
  <2>8. Waits(n, p, t + 1)
    BY <1>0, <2>3, <2>4, <2>6, <2>7, WaitsNext
  <2>9. t <= p.hear + 308
    BY <1>0, <2>3, <2>4, WaitsBriefly
  <2>10. Called(n, p, t + 1) => t + 1 <= p.hear + 308
    BY <1>0, <2>7, <2>8, WaitsBriefly
  <2>11. q.start = p.start /\ q.hear = p.hear /\ q.answer <= p.hear + 309
    BY <1>0, <2>1, <2>9, <2>10 DEF Chosen
  <2>12. Waits(n, q, t + 1)
    BY <2>8, <2>11 DEF Waits
  <2>13. Prompt(q, t + 1)'
    BY <2>2, <2>11, <2>12 DEF Prompt, n
  <2> QED BY <2>11, <2>13
<1> QED BY <1>0, <1>3, <1>4

\* By then both ends are done.
LEMMA BothDone ==
  ASSUME NEW p, Timetable(p), NEW t \in Nat, NEW c, Modem(c), Replies(c, p, t), NEW a, Answers(a, p, t),
         t >= p.reply + p.delay + 694
  PROVE  Trained(c) /\ Trained(a)
<1>1. p.delay \in Nat /\ p.answer \in Nat /\ p.reply \in Nat /\ p.reply = p.answer + p.delay
  BY DEF Timetable
<1>2. /\ ~(t <= p.reply) /\ ~(t <= p.reply + 24) /\ ~(t <= p.reply + 240) /\ ~(t < p.reply + 369)
      /\ ~(t < p.reply + 454) /\ ~(t < p.reply + 574) /\ ~(t < p.reply + 694)
      /\ t - p.reply - 25 >= 330
  BY <1>1
<1>3. /\ ~(t < p.answer) /\ ~(t < p.answer + 60) /\ ~(t < p.answer + 360) /\ ~(t < p.answer + 382)
      /\ ~(t < p.answer + 453) /\ ~(t < p.answer + 480) /\ t >= p.reply + p.delay + 463
  BY <1>1
<1>4. CASE p.both
  <2>1. RepliesAt2400(c, p, t)
    BY <1>2, <1>4 DEF Replies
  <2>2. ~Listens(c, p, t) /\ ~Counts(c, p, t)
    BY <1>2 DEF Listens, Counts
  <2>3. ~Awaits(c, p, t)
    <3>1. c.rxCount \in Nat
      BY DEF Modem
    <3> QED BY <1>1, <1>2, <3>1 DEF Awaits
  <2>4. c.rx = "NORMAL" /\ c.tx = "NORMAL"
    BY <1>2, <2>1, <2>2, <2>3 DEF RepliesAt2400, Done
  <2>5. AnswersAt2400(a, p, t)
    BY <1>3, <1>4 DEF Answers
  <2>6. a.rx = "NORMAL" /\ a.tx = "NORMAL"
    BY <1>3, <2>5 DEF AnswersAt2400
  <2> QED BY <2>4, <2>6 DEF Trained
<1>5. CASE ~p.both
  <2>1. RepliesAt1200(c, p, t)
    BY <1>2, <1>5 DEF Replies
  <2>2. AnswersAt1200(a, p, t)
    BY <1>3, <1>5 DEF Answers
  <2>3. c.rx = "NORMAL" /\ c.tx = "NORMAL"
    BY <1>2, <2>1 DEF RepliesAt1200
  <2>4. a.rx = "NORMAL" /\ a.tx = "NORMAL"
    BY <1>3, <2>2 DEF AnswersAt1200
  <2> QED BY <2>3, <2>4 DEF Trained
<1> QED BY <1>4, <1>5

\* A history variable: the symbols since both ends have been running.
VARIABLE clock

CountedNext ==
    \/ Tick /\ clock' = IF late > 0 THEN clock ELSE clock + 1
    \/ Dip /\ clock' = clock
CountedSpec == Init /\ clock = 0 /\ [][CountedNext]_<<vars, clock>>

Counted ==
    \E p : \E t \in Nat : Prompt(p, t) /\ clock = IF t < p.start THEN 0 ELSE t - p.start

\* Every step keeps the clock and the timetable together.
LEMMA CountedKept ==
  ASSUME DipLength < CarrierLoss, IInv, Dips(Answerer), Counted, [CountedNext]_<<vars, clock>>
  PROVE  Counted'
<1>1. PICK p : \E t \in Nat : Prompt(p, t) /\ clock = IF t < p.start THEN 0 ELSE t - p.start
  BY DEF Counted
<1>2. PICK t \in Nat : Prompt(p, t) /\ clock = IF t < p.start THEN 0 ELSE t - p.start
  BY <1>1
<1>3. p.start \in Nat /\ (IF t < p.start THEN late = p.start - t ELSE late = 0)
  BY <1>2 DEF Prompt, Timed, Timetable, LateIs
<1>4. CASE Tick /\ clock' = IF late > 0 THEN clock ELSE clock + 1
  <2>1. PICK q : Prompt(q, t + 1)' /\ q.start = p.start
    BY <1>2, <1>4, PromptNext
  <2>2. clock' = IF t + 1 < q.start THEN 0 ELSE t + 1 - q.start
    <3>1. CASE t < p.start
      BY <1>2, <1>3, <1>4, <2>1, <3>1
    <3>2. CASE ~(t < p.start)
      BY <1>2, <1>3, <1>4, <2>1, <3>2
    <3> QED BY <3>1, <3>2
  <2>3. t + 1 \in Nat
    OBVIOUS
  <2>4. clock' = IF t + 1 < q.start THEN 0 ELSE (t + 1) - q.start
    BY <1>3, <2>1, <2>2
  <2> QED BY <2>1, <2>3, <2>4 DEF Counted
<1>5. CASE (Dip \/ UNCHANGED vars) /\ clock' = clock
  <2>1. modem' = modem /\ line' = line /\ late' = late
    BY <1>5 DEF Dip, vars
  <2>2. Prompt(p, t)'
    BY <1>2, <2>1 DEF Prompt, Timed, OnLine, LateIs, Caller, Answerer
  <2> QED BY <1>2, <1>5, <2>2 DEF Counted
<1> QED BY <1>4, <1>5 DEF CountedNext

\* They start together.
LEMMA InitCounted ==
  ASSUME Init, clock = 0
  PROVE  Counted
<1>1. PICK p : Timed(p, 0) /\ p.answer = p.hear + 42
  BY InitTimed
<1>2. p.hear \in Nat /\ p.start \in Nat /\ p.answer \in Nat
  BY <1>1 DEF Timed, Timetable
<1>3. Waits(Answerer, p, 0)
  BY <1>2, InitTimed DEF Waits
<1>4. Prompt(p, 0)
  BY <1>1, <1>2, <1>3 DEF Prompt
<1>5. clock = IF 0 < p.start THEN 0 ELSE 0 - p.start
  BY <1>2
<1> QED BY <1>4, <1>5 DEF Counted

\* The longest a training takes, added up from the times it runs to.
LEMMA AnswerSoon ==
  ASSUME NEW p, Timetable(p), p.answer <= p.hear + 309,
         NEW t \in Nat, t >= p.start + 4 * p.delay + 1415
  PROVE  t >= p.reply + p.delay + 694
<1> DEFINE d == p.delay
           start == p.start
           ring == p.ring
           hear == p.hear
           answer == p.answer
           reply == p.reply
<1>1. d \in Nat /\ start \in Nat /\ ring \in Nat
  BY DEF Timetable
<1>2. hear \in Nat /\ answer \in Nat /\ reply \in Nat
  BY DEF Timetable
<1>3. ring = start \/ ring = 45 + d
  BY DEF Timetable
<1>4. hear = ring + 367 + d
  <2>1. p.call = ring + 367 /\ hear = p.call + d
    BY DEF Timetable
  <2> QED BY <2>1
<1>5. reply = answer + d
  BY DEF Timetable
<1>6. answer <= hear + 309 /\ t >= start + 4 * d + 1415
  OBVIOUS
<1> HIDE DEF d, start, ring, hear, answer, reply
<1>7. ring <= start + 45 + d
  BY <1>1, <1>3
<1>8. t >= reply + d + 694
  BY <1>1, <1>2, <1>4, <1>5, <1>6, <1>7
<1> QED BY <1>8 DEF d, reply

\* Once the clock has reached the bound, the timetable is over.
LEMMA CountedTrained ==
  ASSUME IInv, Counted, clock >= 4 * Len(line["caller"]) + 1415, NEW e \in Ends
  PROVE  Trained(modem[e])
<1>1. PICK p : \E t \in Nat : Prompt(p, t) /\ clock = IF t < p.start THEN 0 ELSE t - p.start
  BY DEF Counted
<1>2. PICK t \in Nat : Prompt(p, t) /\ clock = IF t < p.start THEN 0 ELSE t - p.start
  BY <1>1
<1>3. Timetable(p) /\ Answers(Answerer, p, t) /\ Replies(Caller, p, t)
  BY <1>2 DEF Prompt, Timed
<1>4. p.delay \in Nat /\ p.start \in Nat /\ p.answer <= p.hear + 309
  BY <1>2, <1>3 DEF Prompt, Timetable
<1>5. Len(line["caller"]) = p.delay
  BY <1>2 DEF Prompt, Timed, OnLine, Holds
<1>6. t >= p.start + 4 * p.delay + 1415
  <2>1. CASE t < p.start
    BY <1>2, <1>4, <1>5, <2>1
  <2>2. CASE ~(t < p.start)
    <3>1. t - p.start >= 4 * p.delay + 1415
      BY <1>2, <1>5, <2>2
    <3> QED BY <1>4, <3>1
  <2> QED BY <2>1, <2>2
<1>7. t >= p.reply + p.delay + 694
  BY <1>3, <1>4, <1>6, AnswerSoon
<1>8. Modem(Caller)
  BY DEF IInv, Sound, Near, Ends, Caller
<1>9. Trained(Caller) /\ Trained(Answerer)
  BY <1>3, <1>7, <1>8, BothDone
<1> QED BY <1>9 DEF Ends, Caller, Answerer

-----------------------------------------------------------------------------
(* The theorems.                                                           *)

\* What the sequencers of both ends and the line keep at every symbol.
THEOREM Invariance == Spec => []IInv
  <1>1. IInv /\ [Next]_vars => IInv'
    BY TickKeeps, DipKeeps DEF Next
  <1> QED BY InitSound, <1>1, PTL DEF Spec

\* Both ends are always in a state of their sequencers, and neither symbol count
\* passes the end of its segment (training_get, process_half_baud).
THEOREM TypeCorrect == Spec => []TypeOK
  <1>1. IInv => TypeOK
    <2>1. ASSUME IInv, NEW e \in Ends
          PROVE  /\ modem[e].tx \in TxTraining /\ modem[e].rx \in RxTraining
                 /\ modem[e].negotiated \in {1200, 2400}
                 /\ modem[e].txCount \in 0..ms_to_symbols(756)
                 /\ modem[e].rxCount \in 0..ms_to_symbols(270 + 765)
      <3> DEFINE m == modem[e]
      <3>1. Modem(m) /\ TxCounts(m) /\ RxCounts(m)
        BY <2>1 DEF IInv, Sound, Near
      <3> HIDE DEF m
      <3> DEFINE t == TxLimit(m.tx)
                 r == RxLimit(m.rx, m.negotiated)
      <3>2. t \in Nat /\ t <= 453
        BY DEF TxLimit
      <3>3. r \in Nat /\ r <= 622
        BY DEF RxLimit, Acquisition
      <3>4. m.txCount \in 0..453 /\ m.rxCount \in 0..621
        <4>1. m.txCount \in Nat /\ m.txCount < t /\ m.rxCount \in Nat /\ m.rxCount < r
          BY <3>1 DEF Modem, TxCounts, RxCounts
        <4> HIDE DEF t, r
        <4> QED BY <3>2, <3>3, <4>1
      <3>5. m.txCount \in 0..ms_to_symbols(756) /\ m.rxCount \in 0..ms_to_symbols(270 + 765)
        BY <3>4, Symbols
      <3> QED BY <2>1, <3>1, <3>5 DEF Modem, m
    <2> QED BY <2>1 DEF TypeOK, IInv, Carried
  <1> QED BY <1>1, Invariance, PTL

\* Consent is part of what the ends keep.
LEMMA Consents == IInv => Consent
  <1> SUFFICES ASSUME IInv, NEW e \in Ends, modem[e].negotiated = 2400, NEW f \in Ends
               PROVE  modem[f].bit_rate = 2400
    BY DEF Consent
  <1>1. modem[e].bit_rate = 2400 /\ modem[Other(e)].bit_rate = 2400
    BY DEF IInv, Sound, Near, Agreed
  <1>2. f = e \/ f = Other(e)
    BY DEF Ends, Other
  <1> QED BY <1>1, <1>2

\* An end works at 2400 only if both are configured for it, whatever the delay
\* of the line, whatever is heard of S1 and however the carrier comes and goes.
THEOREM ConsentAlways == Spec => []Consent
  BY Consents, Invariance, PTL

\* Training runs to a timetable (training_get, process_half_baud): with any delay of
\* the line, any start and any rates, each symbol of either end is the one that the
\* counts of the code put there, as long as no silence is so long that v22bis_rx
\* takes the carrier for lost.
THEOREM OnTimeAlways ==
  ASSUME DipLength < CarrierLoss
  PROVE  Spec => [](OnTime /\ Dips(Answerer))
<1>1. IInv /\ (OnTime /\ Dips(Answerer)) /\ [Next]_vars => (OnTime /\ Dips(Answerer))'
  BY NextOnTime
<1> QED BY <1>1, InitOnTime, Invariance, PTL DEF Spec

\* Two ends in normal operation use the same constellation, and 2400 b/s only with
\* the consent of both: no message of the training names the rate, each end infers
\* it from when it heard S1 (v22bis_rx.c, S1 heard; v22bis_tx.c, after S11).
THEOREM RatesAgreeAlways ==
  ASSUME DipLength < CarrierLoss
  PROVE  Spec => []RatesAgree
<1>1. IInv /\ OnTime => RatesAgree
  <2> SUFFICES ASSUME IInv, OnTime
               PROVE  RatesAgree
    OBVIOUS
  <2>1. PICK p : \E t \in Nat : Timed(p, t)
    BY DEF OnTime
  <2>2. PICK t \in Nat : Timed(p, t)
    BY <2>1
  <2>3. Timetable(p) /\ Answers(Answerer, p, t) /\ Replies(Caller, p, t)
    BY <2>2 DEF Timed
  <2>4. ASSUME Caller.rx = "NORMAL"
        PROVE  /\ Caller.sixteen <=> Answerer.negotiated = 2400
               /\ Answerer.rx = "NORMAL" => (Answerer.sixteen <=> Caller.negotiated = 2400)
    <3>1. /\ t > p.reply
          /\ p.both => Caller.sixteen /\ Caller.negotiated = 2400
          /\ ~p.both => ~Caller.sixteen /\ Caller.negotiated = 1200
      BY <2>3, <2>4, CallerNormal
    <3>2. t >= p.answer
      BY <2>3, <3>1 DEF Timetable
    <3>3. p.both <=> Answerer.negotiated = 2400
      BY <2>3, <3>2, AnswererRate
    <3>4. Answerer.rx = "NORMAL" => (p.both <=> Answerer.sixteen)
      BY <2>3, AnswererNormal
    <3>5. Caller.negotiated = 1200 => Caller.negotiated # 2400
      OBVIOUS
    <3> QED BY <3>1, <3>3, <3>4, <3>5
  <2>5. ASSUME NEW e \in Ends, modem[e].rx = "NORMAL", Trained(modem[Other(e)])
        PROVE  modem[e].sixteen <=> modem[Other(e)].negotiated = 2400
    <3>1. modem[Other(e)].rx = "NORMAL"
      BY <2>5 DEF Trained
    <3>2. CASE e = "caller"
      <4>1. modem[e] = Caller /\ modem[Other(e)] = Answerer
        BY <3>2 DEF Other, Caller, Answerer
      <4> QED BY <2>4, <2>5, <4>1
    <3>3. CASE e = "answerer"
      <4>1. modem[e] = Answerer /\ modem[Other(e)] = Caller
        BY <3>3 DEF Other, Caller, Answerer
      <4> QED BY <2>4, <2>5, <3>1, <4>1
    <3> QED BY <3>2, <3>3 DEF Ends
  <2> QED BY <2>5, Consents DEF RatesAgree
<1> QED BY <1>1, OnTimeAlways, Invariance, PTL

\* No user data is sent to an end that is still training: what either end sends last
\* takes longer than what the other has left to do (training_get), however long the
\* symbols are on their way.
THEOREM DataFindsListenerAlways ==
  ASSUME DipLength < CarrierLoss
  PROVE  Spec => []DataFindsListener
<1>1. IInv /\ OnTime => DataFindsListener
  <2> SUFFICES ASSUME IInv, OnTime,
                      NEW e \in Ends, Arrives(e) \in {"data1200", "data2400"}
               PROVE  modem[e].rx = "NORMAL"
    BY DEF DataFindsListener
  <2>1. PICK p : \E t \in Nat : Timed(p, t)
    BY DEF OnTime
  <2>2. PICK t \in Nat : Timed(p, t)
    BY <2>1
  <2>3. Timetable(p) /\ Answers(Answerer, p, t) /\ Replies(Caller, p, t)
    BY <2>2 DEF Timed
  <2>4. CASE e = "caller"
    <3>1. AnswererSends(p, t - p.delay) \in {"data1200", "data2400"}
      BY <2>2, <2>4, Arrivals
    <3>2. Modem(Caller)
      BY DEF IInv, Sound, Near, Ends, Caller
    <3>3. Caller.rx = "NORMAL"
      BY <2>3, <3>1, <3>2, CallerFound
    <3> QED BY <2>4, <3>3 DEF Caller
  <2>5. CASE e = "answerer"
    <3>1. CallerSends(p, t - p.delay) \in {"data1200", "data2400"}
      BY <2>2, <2>5, Arrivals
    <3>2. Answerer.rx = "NORMAL"
      BY <2>3, <3>1, AnswererFound
    <3> QED BY <2>5, <3>2 DEF Answerer
  <2> QED BY <2>4, <2>5 DEF Ends
<1> QED BY <1>1, OnTimeAlways, Invariance, PTL

\* The safety half of BothTrain: an end that has trained stays trained, at the rate it has,
\* in both directions; v22bis_rx_restart is only reached by a carrier that is lost.
THEOREM TrainedForGood ==
  ASSUME DipLength < CarrierLoss
  PROVE  Spec => [][\A e \in Ends : Trained(modem[e]) =>
                        /\ Trained(modem'[e]) /\ modem'[e].negotiated = modem[e].negotiated
                        /\ modem'[e].sixteen = modem[e].sixteen]_vars
<1> DEFINE Stays == \A e \in Ends : Trained(modem[e]) =>
                        /\ Trained(modem'[e]) /\ modem'[e].negotiated = modem[e].negotiated
                        /\ modem'[e].sixteen = modem[e].sixteen
<1>1. IInv /\ (OnTime /\ Dips(Answerer)) /\ [Next]_vars => [Stays]_vars
  <2>1. ASSUME IInv, OnTime, Dips(Answerer), Tick
        PROVE  Stays
    BY <2>1, TrainedStays
  <2>2. Dip => Stays
    BY DEF Dip
  <2> HIDE DEF Stays
  <2> QED BY <2>1, <2>2 DEF Next
<1> QED BY <1>1, OnTimeAlways, Invariance, PTL DEF Spec

\* BothTrain with a bound: 1415 symbols (2.36 s) and four times the delay after both ends
\* have been running they are trained, whatever the rates and whatever is heard of S1.  The
\* symbols are the code's: 45 of silence, 367 until unscrambled ones are answered, at most
\* 309 until the answerer answers, 240 and 454 of the caller's S11 (training_get,
\* process_half_baud).
THEOREM TrainsInTime ==
  ASSUME DipLength < CarrierLoss
  PROVE  CountedSpec => [](clock >= 4 * Len(line["caller"]) + 1415
                               => \A e \in Ends : Trained(modem[e]))
<1> DEFINE J == IInv /\ OnTime /\ Dips(Answerer) /\ Counted
           Bound == clock >= 4 * Len(line["caller"]) + 1415 => \A e \in Ends : Trained(modem[e])
<1>1. Init /\ clock = 0 => J
  BY InitSound, InitOnTime, InitCounted
<1>2. J /\ [CountedNext]_<<vars, clock>> => J'
  <2> SUFFICES ASSUME J, [CountedNext]_<<vars, clock>>
               PROVE  J'
    OBVIOUS
  <2>1. [Next]_vars
    BY DEF CountedNext, Next
  <2>2. IInv'
    BY <2>1, TickKeeps, DipKeeps DEF Next
  <2> QED BY <2>1, <2>2, NextOnTime, CountedKept
<1>3. J => Bound
  BY CountedTrained
<1> QED BY <1>1, <1>2, <1>3, PTL DEF CountedSpec

=============================================================================
