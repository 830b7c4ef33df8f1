---------------------------- MODULE PppShimProofs ----------------------------
(***************************************************************************)
(* What PppShim's runs check for a handful of bytes, for every chunk,      *)
(* buffer and queue size and any number of bytes.                          *)
(***************************************************************************)
EXTENDS PppShim, TLAPS

USE ShimAssumption

\* Nothing is buffered.
LEMMA InitTypes == Init => TypeOK
<1> SUFFICES ASSUME Init PROVE TypeOK
  OBVIOUS
<1>1. data \in [Dirs -> [Positions -> Nat]]
  <2>1. [i \in Positions |-> 0] \in [Positions -> Nat]
    OBVIOUS
  <2> QED BY <2>1 DEF Init
<1>2. intact \in [Dirs -> BOOLEAN]
  BY Zenon DEF Init
<1> QED BY <1>1, <1>2 DEF Init, TypeOK

\* A poll.
LEMMA PollTypes == TypeOK /\ Poll => TypeOK'
  BY DEF Poll, TypeOK, Moves, endVars, Positions

\* A read fills the buffer of a direction.
LEMMA ReadTypes ==
  ASSUME TypeOK, NEW d \in Dirs, NEW here, NEW next \in Moves, Read(d, here, next)
  PROVE  TypeOK'
<1>1. CASE d \notin readable
  BY <1>1 DEF Read, TypeOK, endVars, Moves, Positions
<1>2. CASE AtEof(d, next) /\ UNCHANGED <<data, len, taken>>
  BY <1>2 DEF Read, AtEof, TypeOK, endVars, Moves, Positions
<1>3. ASSUME NEW r \in 1..Least(Chunk, Arrived(d)), Fill(d, r), pc' = next
      PROVE  TypeOK'
  <2>1. r \in Nat
    BY <1>3
  <2>2. data' \in [Dirs -> [Positions -> Nat]]
    <3> DEFINE new == [i \in Positions |-> IF i \in len[d]..len[d] + r - 1
                         THEN taken[d] + 1 + (i - len[d]) ELSE data[d][i]]
    <3>1. new \in [Positions -> Nat]
      BY <2>1 DEF TypeOK, Positions
    <3>2. data' \in {data, [data EXCEPT ![d] = new]}
      BY <1>3, Zenon DEF Fill
    <3> HIDE DEF new
    <3> QED BY <3>1, <3>2 DEF TypeOK
  <2>3. len' \in [Dirs -> Nat] /\ taken' \in [Dirs -> Nat]
    BY <1>3, <2>1 DEF Fill, TypeOK
  <2>4. \A e \in Dirs : off'[e] < len'[e] \/ off'[e] = 0
    BY <1>3, <2>1 DEF Fill, Read, TypeOK
  <2> QED BY <1>3, <2>2, <2>3, <2>4 DEF Read, TypeOK, endVars, Moves
<1> QED BY <1>1, <1>2, <1>3 DEF Read

\* A write empties it, or a part of it.
LEMMA WriteTypes ==
  ASSUME TypeOK, NEW d \in Dirs, NEW here, NEW next \in Moves \cup {"poll"},
         Write(d, here, next)
  PROVE  TypeOK'
<1>1. CASE ~(len[d] > 0 /\ d \in writable)
  BY <1>1 DEF Write, TypeOK, endVars, Moves, Positions
<1>2. ASSUME NEW k \in Accepted(d), Drain(d, k)
      PROVE  TypeOK'
  <2>1. k \in Nat /\ k <= len[d] - off[d]
    BY <1>2 DEF Accepted, Least, Held, Room, TypeOK
  <2>2. len' \in [Dirs -> Nat] /\ off' \in [Dirs -> Nat] /\ given' \in [Dirs -> Nat]
    BY <1>2, <2>1 DEF Drain, Give, TypeOK
  <2>3. ASSUME NEW e \in Dirs PROVE off'[e] < len'[e] \/ off'[e] = 0
    <3>1. CASE e = d
      <4>0. len \in [Dirs -> Nat] /\ off \in [Dirs -> Nat]
        BY DEF TypeOK
      <4>1. len'[d] = IF off[d] + k = len[d] THEN 0 ELSE len[d]
        BY <1>2, <4>0 DEF Drain
      <4>2. off'[d] = IF off[d] + k = len[d] THEN 0 ELSE off[d] + k
        BY <1>2, <4>0 DEF Drain
      <4> QED BY <2>1, <3>1, <4>1, <4>2 DEF TypeOK
    <3>2. CASE e # d
      BY <1>2, <3>2 DEF Drain, TypeOK
    <3> QED BY <3>1, <3>2
  <2>4. intact' \in [Dirs -> BOOLEAN]
    <3> DEFINE ok == /\ intact[d]
                     /\ \A i \in off[d]..off[d] + k - 1 :
                          i < ShimBuf /\ data[d][i] = given[d] + 1 + (i - off[d])
    <3>1. ok \in BOOLEAN
      OBVIOUS
    <3>2. intact' = [intact EXCEPT ![d] = ok]
      BY <1>2, Zenon DEF Drain, Give
    <3> HIDE DEF ok
    <3> QED BY <3>1, <3>2 DEF TypeOK
  <2> QED BY <2>2, <2>3, <2>4 DEF Write, TypeOK, endVars, Moves
<1> QED BY <1>1, <1>2 DEF Write

\* The steps of pppd and of the modem.
LEMMA EndTypes ==
  ASSUME TypeOK,
         PppdWrites \/ PppdWrote \/ PppdReads \/ PppdExits
           \/ ModemWrites \/ ModemReads \/ ModemCloses
  PROVE  TypeOK'
<1> USE DEF TypeOK, relayVars, Dirs
<1>1. CASE PppdWrites
  <2>1. sent' \in [Dirs -> Nat]
    BY <1>1 DEF PppdWrites, Send
  <2>2. blocked' \in BOOLEAN
    BY <1>1, Zenon DEF PppdWrites
  <2> QED BY <1>1, <2>1, <2>2 DEF PppdWrites
<1>2. CASE PppdWrote
  <2>1. sent' \in [Dirs -> Nat]
    BY <1>2 DEF PppdWrote, Send
  <2> QED BY <1>2, <2>1 DEF PppdWrote
<1>3. CASE PppdReads
  BY <1>3 DEF PppdReads, Receive
<1>4. CASE PppdExits
  BY <1>4 DEF PppdExits
<1>5. CASE ModemWrites
  BY <1>5 DEF ModemWrites, Send
<1>6. CASE ModemReads
  BY <1>6 DEF ModemReads, Receive
<1>7. CASE ModemCloses
  BY <1>7 DEF ModemCloses
<1> QED BY <1>1, <1>2, <1>3, <1>4, <1>5, <1>6, <1>7

\* Every step.
LEMMA StepTypes == TypeOK /\ [Next]_vars => TypeOK'
<1> SUFFICES ASSUME TypeOK, [Next]_vars PROVE TypeOK'
  OBVIOUS
<1>1. CASE Poll
  BY <1>1, PollTypes
<1>2. CASE ReadPppd \/ ReadModem
  BY <1>2, ReadTypes DEF ReadPppd, ReadModem, Dirs, Moves
<1>3. CASE WriteModem \/ WritePppd
  BY <1>3, WriteTypes DEF WriteModem, WritePppd, Dirs, Moves
<1>4. CASE PppdWrites \/ PppdWrote \/ PppdReads \/ PppdExits
           \/ ModemWrites \/ ModemReads \/ ModemCloses
  BY <1>4, EndTypes
<1>5. CASE UNCHANGED vars
  BY <1>5 DEF vars, relayVars, endVars, TypeOK
<1> QED BY <1>1, <1>2, <1>3, <1>4, <1>5 DEF Next, Relay, Returned

\* Every position, count and byte of the relay has its type, and a buffer that
\* has been written out starts again at its beginning (sm_pppd.c:227, 263).
THEOREM TypeCorrect == Spec => []TypeOK
<1>1. Init => TypeOK
  BY InitTypes
<1>2. TypeOK /\ [Next]_vars => TypeOK'
  BY StepTypes
<1> QED BY <1>1, <1>2, PTL DEF Spec

-----------------------------------------------------------------------------
(* While both ends are open a direction is read only into an empty buffer; *)
(* from then on the buffer holds the next bytes of the stream, from off to *)
(* len, until they have all been given.                                    *)

Faithful(d) ==
    /\ intact[d]
    /\ given[d] + Held(d) = taken[d]
    /\ len[d] <= Chunk
    /\ \A i \in off[d]..len[d] - 1 : data[d][i] = given[d] + 1 + (i - off[d])
    /\ d \in readable => len[d] = 0

BothFaithful == ends = Ends => \A d \in Dirs : Faithful(d)

IInv == TypeOK /\ BothFaithful

\* A poll moves no data.
LEMMA PollFaithful == IInv /\ Poll => BothFaithful'
  BY DEF IInv, TypeOK, BothFaithful, Faithful, Held, Poll, Readable, Closed,
         Source, endVars, Ends, Dirs

\* What is read is appended to what is held.
LEMMA ReadFaithful ==
  ASSUME IInv, NEW d \in Dirs, NEW here, NEW next, Read(d, here, next)
  PROVE  BothFaithful'
<1> SUFFICES ASSUME ends = Ends, NEW e \in Dirs PROVE Faithful(e)'
  BY DEF BothFaithful, Read, endVars
<1> USE DEF IInv, TypeOK, BothFaithful
<1>1. Faithful(d) /\ Faithful(e)
  OBVIOUS
<1>2. CASE UNCHANGED <<data, len, taken>>
  BY <1>1, <1>2 DEF Read, Faithful, Held
<1>3. ASSUME d \in readable, NEW r \in 1..Least(Chunk, Arrived(d)), Fill(d, r)
      PROVE  Faithful(e)'
  <2>1. r \in Nat /\ 0 < r /\ r <= Chunk
    BY <1>3 DEF Least, Arrived
  <2>2. len[d] = 0 /\ off[d] = 0 /\ given[d] = taken[d]
    BY <1>1, <1>3 DEF Faithful, Held
  <2>3. CASE e # d
    <3>1. data'[e] = data[e] /\ len'[e] = len[e] /\ taken'[e] = taken[e]
      BY <1>3, <2>3 DEF Fill
    <3> QED BY <1>1, <3>1 DEF Faithful, Held, Read
  <2>4. CASE e = d
    <3>1. len'[d] = r /\ taken'[d] = taken[d] + r /\ off'[d] = 0 /\ given'[d] = given[d]
      BY <1>3, <2>1, <2>2 DEF Fill, Read
    <3>2. \A i \in 0..r - 1 : data'[d][i] = taken[d] + 1 + i
      BY <1>3, <2>1, <2>2 DEF Fill, Positions
    <3>3. d \notin readable' /\ intact' = intact
      BY DEF Read
    <3> QED BY <1>1, <2>1, <2>2, <2>4, <3>1, <3>2, <3>3 DEF Faithful, Held
  <2> QED BY <2>3, <2>4
<1> QED BY <1>2, <1>3 DEF Read

\* What is written is the beginning of what is held.
LEMMA WriteFaithful ==
  ASSUME IInv, NEW d \in Dirs, NEW here, NEW next, Write(d, here, next)
  PROVE  BothFaithful'
<1> SUFFICES ASSUME ends = Ends, NEW e \in Dirs PROVE Faithful(e)'
  BY DEF BothFaithful, Write, endVars
<1> USE DEF IInv, TypeOK, BothFaithful
<1>1. Faithful(d) /\ Faithful(e)
  OBVIOUS
<1>2. CASE UNCHANGED <<len, off, given, intact>>
  BY <1>1, <1>2 DEF Write, Faithful, Held
<1>3. ASSUME len[d] > 0, NEW k \in Accepted(d), Drain(d, k)
      PROVE  Faithful(e)'
  <2>1. k \in Nat /\ k <= len[d] - off[d]
    BY <1>3 DEF Accepted, Least, Held, Room
  <2>2. data' = data /\ taken' = taken /\ readable' = readable
    BY DEF Write
  <2>3. CASE e # d
    <3>1. /\ len'[e] = len[e] /\ off'[e] = off[e]
          /\ given'[e] = given[e] /\ intact'[e] = intact[e]
      BY <1>3, <2>3 DEF Drain, Give
    <3> QED BY <1>1, <2>2, <3>1 DEF Faithful, Held
  <2>4. CASE e = d
    <3>1. \A i \in off[d]..off[d] + k - 1 :
            i < ShimBuf /\ data[d][i] = given[d] + 1 + (i - off[d])
      BY <1>1, <2>1 DEF Faithful
    <3>2. intact'[d] = TRUE
      BY <1>1, <1>3, <3>1 DEF Drain, Give, Faithful
    <3>3. given'[d] = given[d] + k
      BY <1>3, <2>1 DEF Drain, Give
    <3>4. d \notin readable'
      BY <1>1, <1>3, <2>2 DEF Faithful
    <3>5. CASE off[d] + k = len[d]
      <4>1. len'[d] = 0 /\ off'[d] = 0
        BY <1>3, <3>5 DEF Drain
      <4> QED BY <1>1, <2>1, <2>2, <2>4, <3>2, <3>3, <3>4, <3>5, <4>1 DEF Faithful, Held
    <3>6. CASE off[d] + k # len[d]
      <4>1. len'[d] = len[d] /\ off'[d] = off[d] + k
        BY <1>3, <3>6 DEF Drain
      <4> QED BY <1>1, <2>1, <2>2, <2>4, <3>2, <3>3, <3>4, <4>1 DEF Faithful, Held
    <3> QED BY <3>5, <3>6
  <2> QED BY <2>3, <2>4
<1> QED BY <1>2, <1>3 DEF Write

\* The ends give and take in order.
LEMMA EndFaithful ==
  ASSUME IInv,
         PppdWrites \/ PppdWrote \/ PppdReads \/ PppdExits
           \/ ModemWrites \/ ModemReads \/ ModemCloses
  PROVE  BothFaithful'
<1>1. UNCHANGED relayVars
  BY DEF PppdWrites, PppdWrote, PppdReads, PppdExits, ModemWrites, ModemReads,
         ModemCloses, Receive
<1>2. ends' = Ends => ends = Ends
  BY DEF PppdWrites, PppdWrote, PppdReads, PppdExits, ModemWrites, ModemReads,
         ModemCloses, Receive, Ends
<1> QED BY <1>1, <1>2 DEF IInv, BothFaithful, Faithful, Held, relayVars

\* Nothing was sent.
LEMMA InitInv == Init => IInv
<1> SUFFICES ASSUME Init PROVE BothFaithful
  BY InitTypes DEF IInv
<1> QED BY DEF Init, BothFaithful, Faithful, Held

\* Every step.
LEMMA StepInv == IInv /\ [Next]_vars => IInv'
<1> SUFFICES ASSUME IInv, [Next]_vars PROVE IInv'
  OBVIOUS
<1>1. TypeOK'
  BY StepTypes DEF IInv
<1>2. CASE Poll
  BY <1>1, <1>2, PollFaithful DEF IInv
<1>3. CASE ReadPppd \/ ReadModem
  BY <1>1, <1>3, ReadFaithful DEF ReadPppd, ReadModem, Dirs, IInv
<1>4. CASE WriteModem \/ WritePppd
  BY <1>1, <1>4, WriteFaithful DEF WriteModem, WritePppd, Dirs, IInv
<1>5. CASE PppdWrites \/ PppdWrote \/ PppdReads \/ PppdExits
           \/ ModemWrites \/ ModemReads \/ ModemCloses
  BY <1>1, <1>5, EndFaithful DEF IInv
<1>6. CASE UNCHANGED vars
  BY <1>1, <1>6 DEF vars, relayVars, endVars, IInv, BothFaithful, Faithful, Held
<1> QED BY <1>2, <1>3, <1>4, <1>5, <1>6 DEF Next, Relay, Returned

\* The inductive invariant of the relay: types, and faithful in both directions.
LEMMA Invariance == Spec => []IInv
<1> QED BY InitInv, StepInv, PTL DEF Spec

\* While both ends are open nothing is lost, repeated or reordered on the way
\* through sm_pppd_shim_main, however reads and writes are split.
THEOREM StreamsInOrder == Spec => []InOrder
<1>1. IInv => InOrder
  BY DEF IInv, BothFaithful, Faithful, InOrder
<1> QED BY <1>1, Invariance, PTL

\* While both ends are open the relay holds no more than one read for a sink
\* that takes nothing: what comes next waits in the kernel, with its sender.
THEOREM RelayHoldsBack == Spec => []BackPressure
<1>1. IInv => BackPressure
  BY DEF IInv, TypeOK, BothFaithful, Faithful, BackPressure, Held
<1> QED BY <1>1, Invariance, PTL

=============================================================================
