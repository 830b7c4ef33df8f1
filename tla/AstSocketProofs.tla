--------------------------- MODULE AstSocketProofs ---------------------------
(***************************************************************************)
(* sm_ast_read returns what sm_ast_write was given, for every message      *)
(* length, buffer size and number of messages.  Both ends have a place in  *)
(* the stream; the inductive invariant says that the reader's fields are   *)
(* what the writer's messages make of its place.                           *)
(***************************************************************************)
EXTENDS AstSocket, SequenceTheorems, TLAPS

USE AstAssumption

\* The byte that follows byte b in the stream of messages ms.
After(ms, b) == IF b.at + 1 = HeaderLen + ms[b.msg].len
                THEN [msg |-> b.msg + 1, at |-> 0]
                ELSE [msg |-> b.msg, at |-> b.at + 1]

\* The byte that follows the first p bytes of st.
At(ms, st, p) == IF p = 0 THEN [msg |-> 1, at |-> 0] ELSE After(ms, st[p])

\* The byte the writer sends next, and the one the reader expects.
WriterAt == IF Len(msgs) = 0 \/ off = HeaderLen + msgs[Len(msgs)].len
            THEN [msg |-> Len(msgs) + 1, at |-> 0]
            ELSE [msg |-> Len(msgs), at |-> off]

ReaderAt == [msg |-> Len(delivered) + 1,
             at  |-> IF rx_pending THEN HeaderLen + rxlen ELSE Len(rxhead)]

WriterInv ==
    /\ Len(msgs) > 0 => off <= HeaderLen + msgs[Len(msgs)].len
    /\ wpc = "idle" => Len(msgs) = 0 \/ off = HeaderLen + msgs[Len(msgs)].len
    /\ wpc \in {"send", "failed"} =>
         Len(msgs) > 0 /\ off < HeaderLen + msgs[Len(msgs)].len

StreamInv ==
    /\ \A p \in 1..Len(stream) :
         /\ stream[p].msg \in 1..Len(msgs)
         /\ stream[p].at < HeaderLen + msgs[stream[p].msg].len
         /\ stream[p].msg = Len(msgs) => stream[p].at < off
         /\ stream[p] = At(msgs, stream, p - 1)
    /\ At(msgs, stream, Len(stream)) = WriterAt

ReaderInv ==
    /\ At(msgs, stream, rcvd) = ReaderAt
    /\ \A i \in 1..Len(rxhead) : rxhead[i] = [msg |-> Len(delivered) + 1, at |-> i - 1]
    /\ Len(rxhead) > 0 => Len(delivered) < Len(msgs)
    /\ rx_pending =>
         /\ Len(delivered) < Len(msgs)
         /\ Len(rxhead) = 0
         /\ rx_kind = msgs[Len(delivered) + 1].kind
         /\ rx_expected = msgs[Len(delivered) + 1].len
         /\ rxlen < rx_expected
         /\ rxbuf = Prefix(Len(delivered) + 1, rxlen)
    /\ rpc = "ended" => wpc = "closed" /\ rcvd = Len(stream)

IInv == TypeOK /\ WriterInv /\ StreamInv /\ ReaderInv /\ FramesIntact

\* Division with remainder, which the lengths in a header are split by.
LEMMA DivMod ==
  ASSUME NEW a \in Nat, NEW b \in Nat \ {0}
  PROVE  a = b * (a \div b) + (a % b)
  BY SMT

\* The constants are numbers.
LEMMA Numbers == Base \in Nat /\ Kinds \subseteq Nat /\ Lengths \subseteq Nat
<1>1. Base \in Nat /\ Base * Base \in Nat
  OBVIOUS
<1>2. 0..Base * Base - 1 \subseteq Nat /\ 0..Base - 1 \subseteq Nat
  BY <1>1
<1> QED BY <1>1, <1>2

\* What the proofs keep needing of the types.
LEMMA Facts ==
  ASSUME TypeOK
  PROVE  /\ Len(msgs) \in Nat /\ Len(stream) \in Nat /\ off \in Nat /\ rcvd \in Nat
         /\ Len(delivered) \in Nat /\ Len(rxhead) \in Nat /\ rxlen \in Nat
         /\ \A k \in 1..Len(msgs) : msgs[k].len \in Nat /\ msgs[k].kind \in Nat
         /\ \A p \in 1..Len(stream) : stream[p].msg \in Nat /\ stream[p].at \in Nat
<1>1. \A k \in 1..Len(msgs) : msgs[k] \in Message
  BY DEF TypeOK
<1>2. \A p \in 1..Len(stream) : stream[p] \in Byte
  BY DEF TypeOK
<1>3. \A m \in Message : m.len \in Nat /\ m.kind \in Nat
  BY Numbers DEF Message
<1>4. \A b \in Byte : b.msg \in Nat /\ b.at \in Nat
  BY DEF Byte
<1>5. /\ Len(msgs) \in Nat /\ Len(stream) \in Nat /\ Len(delivered) \in Nat
      /\ Len(rxhead) \in Nat
  BY DEF TypeOK
<1> QED BY <1>1, <1>2, <1>3, <1>4, <1>5 DEF TypeOK

\* Nothing is on its way.
LEMMA InitInv == Init => IInv
<1> SUFFICES ASSUME Init PROVE IInv
  OBVIOUS
<1>1. TypeOK
  <2>1. /\ <<>> \in Seq(Message) /\ <<>> \in Seq(Byte)
        /\ <<>> \in Seq([kind : Nat, len : Nat, payload : Seq(Byte)])
    BY EmptySeq
  <2>2. Len(stream) = 0 /\ Len(rxhead) = 0 /\ Len(rxbuf) = 0
    BY DEF Init
  <2>3. Len(rxhead) < HeaderLen
    BY <2>2 DEF HeaderLen
  <2>4. rcvd <= Len(stream) /\ Len(rxbuf) <= MaxPayload /\ rcvd \in Nat
    BY <2>2 DEF Init
  <2>5. off \in Nat /\ rx_kind \in Nat /\ rx_expected \in Nat /\ rxlen \in Nat
    BY DEF Init
  <2>6. rx_pending \in BOOLEAN
    BY Zenon DEF Init
  <2>7. wpc \in {"idle", "send", "failed", "closed"} /\ rpc \in {"idle", "read", "ended"}
    BY DEF Init
  <2>8. /\ msgs \in Seq(Message) /\ stream \in Seq(Byte) /\ rxhead \in Seq(Byte)
        /\ rxbuf \in Seq(Byte)
        /\ delivered \in Seq([kind : Nat, len : Nat, payload : Seq(Byte)])
    BY <2>1, Zenon DEF Init
  <2> QED BY <2>3, <2>4, <2>5, <2>6, <2>7, <2>8 DEF TypeOK
<1>2. WriterInv
  BY DEF Init, WriterInv
<1>3. StreamInv
  BY DEF Init, StreamInv, At, WriterAt
<1>4. ReaderInv
  BY DEF Init, ReaderInv, At, ReaderAt
<1>5. FramesIntact
  BY DEF Init, FramesIntact
<1> QED BY <1>1, <1>2, <1>3, <1>4, <1>5 DEF IInv

-----------------------------------------------------------------------------
(* The writer.                                                             *)

\* A message is begun behind what is in the stream.
LEMMA BeginWriteInv ==
  ASSUME IInv, BeginWrite
  PROVE  IInv'
<1> USE DEF IInv, HeaderLen
<1> PICK m \in Message : msgs' = Append(msgs, m)
  BY DEF BeginWrite
<1>1. m.len \in Nat
  BY Numbers DEF Message
<1>2. /\ Len(msgs') = Len(msgs) + 1 /\ msgs' \in Seq(Message)
      /\ \A k \in 1..Len(msgs) : msgs'[k] = msgs[k]
      /\ msgs'[Len(msgs) + 1] = m
  BY DEF TypeOK
<1>3. UNCHANGED <<stream, rcvd, rxhead, rx_pending, rx_kind, rx_expected, rxlen,
                  rxbuf, rpc, delivered>>
  BY DEF BeginWrite, readerVars, parseVars
<1>4. off' = 0 /\ wpc = "idle" /\ wpc' = "send"
  BY DEF BeginWrite
<1>5. TypeOK'
  BY <1>2, <1>3, <1>4 DEF TypeOK
<1>6. WriterInv'
  BY <1>1, <1>2, <1>4, Facts DEF WriterInv
<1>7. ASSUME NEW p \in 0..Len(stream)
      PROVE  At(msgs', stream', p) = At(msgs, stream, p)
  <2>1. p # 0 => stream[p].msg \in 1..Len(msgs)
    BY Facts DEF StreamInv
  <2> QED BY <1>2, <1>3, <2>1 DEF At, After
<1>8. StreamInv'
  <2>1. ASSUME NEW p \in 1..Len(stream)
        PROVE  /\ stream[p].msg \in 1..Len(msgs')
               /\ stream[p].at < HeaderLen + msgs'[stream[p].msg].len
               /\ stream[p].msg # Len(msgs')
               /\ stream[p] = At(msgs', stream', p - 1)
    <3>1. p - 1 \in 0..Len(stream)
      BY Facts
    <3> QED BY <1>2, <1>7, <3>1, Facts DEF StreamInv
  <2>2. WriterAt = [msg |-> Len(msgs) + 1, at |-> 0]
    BY <1>4 DEF WriterInv, WriterAt
  <2>3. WriterAt' = [msg |-> Len(msgs) + 1, at |-> 0]
    BY <1>1, <1>2, <1>4, Facts DEF WriterAt
  <2>4. At(msgs', stream', Len(stream)) = WriterAt'
    BY <1>7, <2>2, <2>3, Facts DEF StreamInv
  <2> QED BY <1>3, <2>1, <2>4 DEF StreamInv
<1>9. ReaderInv'
  <2>1. At(msgs', stream', rcvd) = At(msgs, stream, rcvd)
    BY <1>7, Facts DEF TypeOK
  <2>2. ReaderAt' = ReaderAt
    BY <1>3 DEF ReaderAt
  <2> QED BY <1>2, <1>3, <1>4, <2>1, <2>2, Facts DEF ReaderInv, Prefix
<1>10. FramesIntact'
  <2> SUFFICES ASSUME NEW k \in 1..Len(delivered)
               PROVE  /\ k <= Len(msgs') /\ Whole(k)'
                      /\ delivered[k] = [kind |-> msgs'[k].kind, len |-> msgs'[k].len,
                                         payload |-> Prefix(k, msgs'[k].len)]
    BY <1>3 DEF FramesIntact
  <2>1. k <= Len(msgs)
    BY DEF FramesIntact
  <2>2. k \in 1..Len(msgs)
    BY <2>1, Facts
  <2> QED BY <1>2, <2>2, Facts DEF FramesIntact, Whole
<1> QED BY <1>5, <1>6, <1>8, <1>9, <1>10

\* A byte of the message goes into the stream.
LEMMA SendByteInv ==
  ASSUME IInv, SendByte
  PROVE  IInv'
<1> USE DEF IInv, HeaderLen
<1> DEFINE next == [msg |-> Len(msgs), at |-> off]
           size == HeaderLen + msgs[Len(msgs)].len
<1>1. /\ off' = off + 1 /\ wpc = "send"
      /\ wpc' = IF off' = size THEN "idle" ELSE "send"
  BY DEF SendByte, Size
<1>2. Len(msgs) \in 1..Len(msgs) /\ size \in Nat /\ off < size
  BY <1>1, Facts DEF WriterInv
<1>3. stream' = Append(stream, next) /\ next \in Byte
  BY <1>2, Facts DEF SendByte, Byte
<1>4. /\ Len(stream') = Len(stream) + 1 /\ stream' \in Seq(Byte)
      /\ \A p \in 1..Len(stream) : stream'[p] = stream[p]
      /\ stream'[Len(stream) + 1] = next
  BY <1>3 DEF TypeOK
<1>5. UNCHANGED <<msgs, rcvd, rxhead, rx_pending, rx_kind, rx_expected, rxlen,
                  rxbuf, rpc, delivered>>
  BY DEF SendByte, readerVars, parseVars
<1>6. TypeOK'
  BY <1>1, <1>4, <1>5 DEF TypeOK
<1>7. WriterInv'
  BY <1>1, <1>2, <1>5, Facts DEF WriterInv
<1>8. ASSUME NEW p \in 0..Len(stream)
      PROVE  At(msgs', stream', p) = At(msgs, stream, p)
  <2>1. CASE p = 0
    BY <2>1 DEF At
  <2>2. CASE p # 0
    <3>1. p \in 1..Len(stream)
      BY <2>2, Facts
    <3> QED BY <1>4, <1>5, <3>1 DEF At, After
  <2> QED BY <2>1, <2>2
<1>9. StreamInv'
  <2>1. At(msgs, stream, Len(stream)) = next
    BY <1>2 DEF StreamInv, WriterAt
  <2>2. ASSUME NEW p \in 1..Len(stream')
        PROVE  /\ stream'[p].msg \in 1..Len(msgs)
               /\ stream'[p].at < HeaderLen + msgs[stream'[p].msg].len
               /\ stream'[p].msg = Len(msgs) => stream'[p].at < off'
               /\ stream'[p] = At(msgs', stream', p - 1)
    <3>1. CASE p = Len(stream) + 1
      <4>1. stream'[p] = next /\ p - 1 = Len(stream)
        BY <1>4, <3>1, Facts
      <4>2. At(msgs', stream', p - 1) = next
        BY <1>8, <2>1, <4>1, Facts
      <4> QED BY <1>1, <1>2, <4>1, <4>2, Facts
    <3>2. CASE p # Len(stream) + 1
      <4>1. p \in 1..Len(stream) /\ p - 1 \in 0..Len(stream)
        BY <1>4, <3>2, Facts
      <4>2. At(msgs', stream', p - 1) = At(msgs, stream, p - 1)
        BY <1>8, <4>1
      <4>3. stream'[p] = stream[p] /\ stream[p].at \in Nat
        BY <1>4, <4>1, Facts
      <4>4. /\ stream[p].msg \in 1..Len(msgs)
            /\ stream[p].at < HeaderLen + msgs[stream[p].msg].len
            /\ stream[p].msg = Len(msgs) => stream[p].at < off
            /\ stream[p] = At(msgs, stream, p - 1)
        BY <4>1 DEF StreamInv
      <4>5. stream[p].msg = Len(msgs) => stream[p].at < off + 1
        BY <4>3, <4>4, Facts
      <4> QED BY <1>1, <4>2, <4>3, <4>4, <4>5
    <3> QED BY <3>1, <3>2
  <2>3. At(msgs', stream', Len(stream) + 1) = WriterAt'
    BY <1>1, <1>2, <1>4, <1>5, Facts DEF At, After, WriterAt
  <2> QED BY <1>4, <1>5, <2>2, <2>3 DEF StreamInv
<1>10. ReaderInv'
  <2>1. At(msgs', stream', rcvd') = At(msgs, stream, rcvd) /\ ReaderAt' = ReaderAt
    BY <1>5, <1>8, Facts DEF ReaderAt, TypeOK
  <2>2. rpc # "ended"
    BY <1>1 DEF ReaderInv
  <2> QED BY <1>5, <2>1, <2>2 DEF ReaderInv, Prefix
<1>11. FramesIntact'
  <2>1. \A k \in 1..Len(msgs) : Whole(k) => Whole(k)'
    BY <1>1, <1>2, <1>5 DEF Whole, Size
  <2> SUFFICES ASSUME NEW k \in 1..Len(delivered)
               PROVE  /\ k <= Len(msgs) /\ Whole(k)'
                      /\ delivered[k] = [kind |-> msgs[k].kind, len |-> msgs[k].len,
                                         payload |-> Prefix(k, msgs[k].len)]
    BY <1>5 DEF FramesIntact
  <2> QED BY <2>1, Facts DEF FramesIntact
<1> QED BY <1>6, <1>7, <1>9, <1>10, <1>11

\* A write that timed out, and the end of the connection.
LEMMA WriterStopsInv ==
  ASSUME IInv, SendTimesOut \/ CloseWriter
  PROVE  IInv'
<1> USE DEF IInv
<1>1. UNCHANGED <<msgs, stream, off, rcvd, rxhead, rx_pending, rx_kind, rx_expected,
                  rxlen, rxbuf, rpc, delivered>>
  BY DEF SendTimesOut, CloseWriter, readerVars, parseVars
<1>2. \/ wpc = "send" /\ wpc' = "failed"
      \/ wpc \in {"idle", "failed"} /\ wpc' = "closed"
  BY DEF SendTimesOut, CloseWriter
<1>3. TypeOK'
  BY <1>1, <1>2 DEF TypeOK
<1>4. WriterInv'
  BY <1>1, <1>2 DEF WriterInv
<1>5. StreamInv'
  BY <1>1 DEF StreamInv, WriterAt
<1>6. ReaderInv'
  BY <1>1, <1>2 DEF ReaderInv, ReaderAt, Prefix
<1>7. FramesIntact'
  BY <1>1 DEF FramesIntact, Whole, Size, Prefix
<1> QED BY <1>3, <1>4, <1>5, <1>6, <1>7

-----------------------------------------------------------------------------
(* The reader.                                                             *)

\* What the reader keeps of a payload, no more than its buffer holds.
LEMMA PrefixFacts ==
  ASSUME NEW d \in Nat \ {0}, NEW n \in Nat
  PROVE  /\ Prefix(d, n) \in Seq(Byte)
         /\ Len(Prefix(d, n)) = IF n < MaxPayload THEN n ELSE MaxPayload
         /\ \A i \in 1..Len(Prefix(d, n)) :
              Prefix(d, n)[i] = [msg |-> d, at |-> HeaderLen - 1 + i]
<1> DEFINE m == IF n < MaxPayload THEN n ELSE MaxPayload
           e(i) == [msg |-> d, at |-> HeaderLen - 1 + i]
<1>1. m \in Nat
  OBVIOUS
<1>2. \A i \in 1..m : e(i) \in Byte
  BY DEF HeaderLen, Byte
<1>3. Prefix(d, n) = [i \in 1..m |-> e(i)]
  BY DEF Prefix
<1> HIDE DEF m, e
<1>4. Prefix(d, n) \in [1..m -> Byte]
  BY <1>2, <1>3
<1>5. Prefix(d, n) \in Seq(Byte)
  BY <1>1, <1>4, SeqDef
<1>6. Len(Prefix(d, n)) = m
  <2>1. DOMAIN Prefix(d, n) = 1..m
    BY <1>4
  <2>2. DOMAIN Prefix(d, n) = 1..Len(Prefix(d, n)) /\ Len(Prefix(d, n)) \in Nat
    BY <1>5, LenProperties
  <2> QED BY <1>1, <2>1, <2>2
<1> QED BY <1>3, <1>5, <1>6 DEF m, e

\* Another byte of the payload: rxbuf grows by it while there is room.
LEMMA PrefixNext ==
  ASSUME NEW d \in Nat \ {0}, NEW n \in Nat,
         NEW b, b = [msg |-> d, at |-> HeaderLen + n]
  PROVE  /\ n < MaxPayload => Append(Prefix(d, n), b) = Prefix(d, n + 1)
         /\ n >= MaxPayload => Prefix(d, n) = Prefix(d, n + 1)
<1>1. CASE n < MaxPayload
  <2> DEFINE s == Append(Prefix(d, n), b)
             t == Prefix(d, n + 1)
  <2>1. b \in Byte
    BY DEF Byte, HeaderLen
  <2>2. n + 1 \in Nat /\ (n + 1 < MaxPayload \/ n + 1 = MaxPayload)
    BY <1>1
  <2> DEFINE k == n + 1
  <2>a. k \in Nat /\ k = (IF k < MaxPayload THEN k ELSE MaxPayload)
    BY <2>2
  <2> HIDE DEF k
  <2>b. /\ Prefix(d, k) \in Seq(Byte) /\ Len(Prefix(d, k)) = k
        /\ \A i \in 1..k : Prefix(d, k)[i] = [msg |-> d, at |-> HeaderLen - 1 + i]
    <3>1. /\ Prefix(d, k) \in Seq(Byte)
          /\ Len(Prefix(d, k)) = IF k < MaxPayload THEN k ELSE MaxPayload
          /\ \A i \in 1..Len(Prefix(d, k)) : Prefix(d, k)[i] = [msg |-> d, at |-> HeaderLen - 1 + i]
      BY <2>a, PrefixFacts
    <3>2. Len(Prefix(d, k)) = k
      BY <2>a, <3>1
    <3> QED BY <3>1, <3>2, Zenon
  <2>3. t \in Seq(Byte) /\ Len(t) = n + 1
    BY <2>b DEF k
  <2>4. \A i \in 1..n + 1 : t[i] = [msg |-> d, at |-> HeaderLen - 1 + i]
    BY <2>b DEF k
  <2>5. Prefix(d, n) \in Seq(Byte) /\ Len(Prefix(d, n)) = n
    BY <1>1, PrefixFacts
  <2>6. \A i \in 1..n : Prefix(d, n)[i] = [msg |-> d, at |-> HeaderLen - 1 + i]
    BY <2>5, PrefixFacts
  <2> HIDE DEF t
  <2>7. s \in Seq(Byte) /\ Len(s) = n + 1 /\ s[n + 1] = b
        /\ \A i \in 1..n : s[i] = Prefix(d, n)[i]
    BY <2>1, <2>5
  <2> HIDE DEF s
  <2>8. HeaderLen - 1 + (n + 1) = HeaderLen + n
    BY DEF HeaderLen
  <2>9. ASSUME NEW i \in 1..n + 1
        PROVE  s[i] = t[i]
    <3>1. CASE i = n + 1
      <4>1. t[n + 1] = [msg |-> d, at |-> HeaderLen - 1 + (n + 1)]
        BY <2>2, <2>4
      <4> QED BY <2>7, <2>8, <3>1, <4>1
    <3>2. CASE i # n + 1
      <4>1. i \in 1..n
        BY <3>2
      <4>2. s[i] = Prefix(d, n)[i]
        BY <2>7, <4>1
      <4>3. Prefix(d, n)[i] = [msg |-> d, at |-> HeaderLen - 1 + i]
        BY <2>6, <4>1
      <4>4. t[i] = [msg |-> d, at |-> HeaderLen - 1 + i]
        BY <2>4
      <4> QED BY <4>2, <4>3, <4>4
    <3> QED BY <3>1, <3>2
  <2>10. s = t
    BY <2>3, <2>7, <2>9, SeqEqual
  <2> QED BY <1>1, <2>10 DEF s, t
<1>2. CASE n >= MaxPayload
  BY <1>2 DEF Prefix
<1> QED BY <1>1, <1>2

\* The byte that has arrived is the one the reader expects, and its place in
\* the stream leads to the next.
LEMMA Arrival ==
  ASSUME IInv, Arrived
  PROVE  /\ NextByte = ReaderAt
         /\ NextByte \in Byte
         /\ Len(delivered) + 1 \in 1..Len(msgs)
         /\ ReaderAt.at < HeaderLen + msgs[Len(delivered) + 1].len
         /\ Len(delivered) + 1 = Len(msgs) => ReaderAt.at < off
         /\ At(msgs, stream, rcvd + 1) = After(msgs, ReaderAt)
<1> USE DEF IInv
<1>1. rcvd + 1 \in 1..Len(stream) /\ (rcvd + 1) - 1 = rcvd /\ rcvd + 1 # 0
  BY Facts DEF Arrived
<1>2. NextByte = ReaderAt
  BY <1>1 DEF StreamInv, ReaderInv, NextByte
<1>3. ReaderAt.msg = Len(delivered) + 1
  BY DEF ReaderAt
<1>4. NextByte \in Byte
  BY <1>1 DEF NextByte, TypeOK
<1>5. /\ NextByte.msg \in 1..Len(msgs)
      /\ NextByte.at < HeaderLen + msgs[NextByte.msg].len
      /\ NextByte.msg = Len(msgs) => NextByte.at < off
  BY <1>1 DEF StreamInv, NextByte
<1>6. At(msgs, stream, rcvd + 1) = After(msgs, NextByte)
  BY <1>1 DEF At, NextByte
<1> QED BY <1>2, <1>3, <1>4, <1>5, <1>6

\* The last byte of a message completes it.
LEMMA ReturnInv ==
  ASSUME IInv, Arrived, UNCHANGED writerVars, rcvd' = rcvd + 1,
         rpc = "read",
         NEW payload,
         LET d == Len(delivered) + 1
         IN  /\ ReaderAt.at + 1 = HeaderLen + msgs[d].len
             /\ payload = Prefix(d, msgs[d].len)
             /\ Return(msgs[d].kind, msgs[d].len, payload)
  PROVE  IInv'
<1> USE DEF IInv
<1> DEFINE d == Len(delivered) + 1
           out == [kind |-> msgs[d].kind, len |-> msgs[d].len, payload |-> payload]
<1>1. /\ ReaderAt.at + 1 = HeaderLen + msgs[d].len
      /\ payload = Prefix(d, msgs[d].len)
      /\ Return(msgs[d].kind, msgs[d].len, payload)
  OBVIOUS
<1>2. d \in 1..Len(msgs) /\ d \in Nat \ {0}
  BY Arrival, Facts
<1>3. msgs[d].len \in Nat /\ msgs[d].kind \in Nat
  BY <1>2, Facts
<1>4. payload \in Seq(Byte)
  BY <1>1, <1>2, <1>3, PrefixFacts
<1>5. out \in [kind : Nat, len : Nat, payload : Seq(Byte)]
  BY <1>3, <1>4
<1>6. /\ delivered' = Append(delivered, out)
      /\ rxhead' = <<>> /\ rx_pending' = FALSE /\ rx_kind' = msgs[d].kind
      /\ rx_expected' = 0 /\ rxlen' = 0 /\ rxbuf' = <<>> /\ rpc' = "idle"
  BY <1>1 DEF Return
<1>7. /\ Len(delivered') = d
      /\ delivered' \in Seq([kind : Nat, len : Nat, payload : Seq(Byte)])
      /\ delivered'[d] = out
      /\ \A k \in 1..Len(delivered) : delivered'[k] = delivered[k]
  BY <1>5, <1>6 DEF TypeOK
<1>8. /\ msgs' = msgs /\ stream' = stream /\ off' = off /\ wpc' = wpc
  BY DEF writerVars
<1>9. /\ rxhead' \in Seq(Byte) /\ Len(rxhead') = 0
      /\ rxbuf' \in Seq(Byte) /\ Len(rxbuf') = 0
  BY <1>6, EmptySeq
<1>10. TypeOK'
  <2>1. rcvd' \in Nat /\ rcvd' <= Len(stream)
    BY Facts DEF Arrived
  <2>2. Len(rxhead') < HeaderLen /\ Len(rxbuf') <= MaxPayload
    BY <1>9 DEF HeaderLen
  <2>3. /\ rx_pending' \in BOOLEAN /\ rx_kind' \in Nat /\ rx_expected' \in Nat
        /\ rxlen' \in Nat /\ rpc' \in {"idle", "read", "ended"}
    BY <1>3, <1>6
  <2> QED BY <1>7, <1>8, <1>9, <2>1, <2>2, <2>3 DEF TypeOK
<1>11. WriterInv'
  BY <1>8 DEF WriterInv
<1>12. StreamInv'
  BY <1>8 DEF StreamInv, WriterAt
<1>13. ReaderInv'
  <2>1. ReaderAt.msg = d
    BY DEF ReaderAt
  <2>2. At(msgs, stream, rcvd + 1) = [msg |-> d + 1, at |-> 0]
    BY <1>1, <2>1, Arrival DEF After
  <2>3. ReaderAt' = [msg |-> d + 1, at |-> 0]
    BY <1>6, <1>7, <1>9 DEF ReaderAt
  <2>4. At(msgs', stream', rcvd') = ReaderAt'
    BY <1>8, <2>2, <2>3
  <2> QED BY <1>6, <1>9, <2>4 DEF ReaderInv
<1>14. FramesIntact'
  <2>1. Whole(d)
    <3>1. CASE d < Len(msgs)
      BY <3>1 DEF Whole
    <3>2. CASE d = Len(msgs)
      <4>1. ReaderAt.at < off /\ off <= HeaderLen + msgs[d].len
        BY <1>2, <3>2, Arrival, Facts DEF WriterInv
      <4>2. ReaderAt.at \in Nat /\ off \in Nat
        BY Arrival, Facts DEF Byte
      <4>3. off = HeaderLen + msgs[d].len
        BY <1>1, <1>3, <4>1, <4>2 DEF HeaderLen
      <4> QED BY <3>2, <4>3 DEF Whole, Size
    <3> QED BY <1>2, <3>1, <3>2, Facts
  <2>2. ASSUME NEW k \in 1..Len(delivered)
        PROVE  /\ k <= Len(msgs) /\ Whole(k)
               /\ delivered'[k] = [kind |-> msgs[k].kind, len |-> msgs[k].len,
                                   payload |-> Prefix(k, msgs[k].len)]
    BY <1>7 DEF FramesIntact
  <2>3. ASSUME NEW k \in 1..Len(delivered')
        PROVE  /\ k <= Len(msgs) /\ Whole(k)
               /\ delivered'[k] = [kind |-> msgs[k].kind, len |-> msgs[k].len,
                                   payload |-> Prefix(k, msgs[k].len)]
    <3>1. CASE k = d
      BY <1>1, <1>2, <1>7, <2>1, <3>1
    <3>2. CASE k # d
      <4>1. k \in 1..Len(delivered)
        BY <1>7, <3>2, Facts
      <4> QED BY <2>2, <4>1
    <3> QED BY <3>1, <3>2
  <2>4. \A k : Whole(k)' <=> Whole(k)
    BY <1>8 DEF Whole, Size
  <2> QED BY <1>8, <2>3, <2>4 DEF FramesIntact, Prefix
<1> QED BY <1>10, <1>11, <1>12, <1>13, <1>14

\* A byte of a header is read; the third completes it.
LEMMA RecvHeaderByteInv ==
  ASSUME IInv, RecvHeaderByte
  PROVE  IInv'
<1> USE DEF IInv
<1> DEFINE d == Len(delivered) + 1
           n == Len(rxhead)
           head == Append(rxhead, NextByte)
<1>1. /\ Arrived /\ rcvd' = rcvd + 1 /\ UNCHANGED writerVars
      /\ rpc = "read" /\ rx_pending = FALSE
  BY DEF RecvHeaderByte, TypeOK
<1>2. d \in 1..Len(msgs) /\ d \in Nat \ {0}
  BY <1>1, Arrival, Facts
<1>3. msgs[d].len \in Nat /\ msgs[d].kind \in Nat
  BY <1>2, Facts
<1>4. ReaderAt = [msg |-> d, at |-> n] /\ n \in Nat /\ n < HeaderLen
  BY <1>1, Facts DEF ReaderAt, TypeOK
<1>5. NextByte = [msg |-> d, at |-> n] /\ NextByte \in Byte
  BY <1>1, <1>4, Arrival
<1>6. /\ head \in Seq(Byte) /\ Len(head) = n + 1
      /\ \A i \in 1..Len(head) : head[i] = [msg |-> d, at |-> i - 1]
  <2>1. head \in Seq(Byte) /\ Len(head) = n + 1 /\ head[n + 1] = NextByte
    BY <1>5 DEF TypeOK
  <2>2. \A i \in 1..n : head[i] = rxhead[i]
    BY <1>5 DEF TypeOK
  <2>3. \A i \in 1..n : rxhead[i] = [msg |-> d, at |-> i - 1]
    BY DEF ReaderInv
  <2> HIDE DEF head
  <2>4. ASSUME NEW i \in 1..Len(head)
        PROVE  head[i] = [msg |-> d, at |-> i - 1]
    <3>1. CASE i = n + 1
      BY <1>4, <1>5, <2>1, <3>1
    <3>2. CASE i # n + 1
      <4>1. i \in 1..n
        BY <1>4, <2>1, <3>2
      <4> QED BY <2>2, <2>3, <4>1
    <3> QED BY <3>1, <3>2
  <2> QED BY <2>1, <2>4
<1>7. CASE Len(head) < HeaderLen
  <2>1. /\ rxhead' = head
        /\ UNCHANGED <<rx_pending, rx_kind, rx_expected, rxlen, rxbuf, rpc, delivered,
                       msgs, stream, off, wpc>>
    BY <1>1, <1>7 DEF RecvHeaderByte, writerVars
  <2> HIDE DEF head
  <2>2. TypeOK'
    <3>1. rcvd' \in Nat /\ rcvd' <= Len(stream)
      BY <1>1, Facts DEF Arrived
    <3> QED BY <1>6, <1>7, <2>1, <3>1 DEF TypeOK
  <2>3. WriterInv'
    BY <2>1 DEF WriterInv
  <2>4. StreamInv'
    BY <2>1 DEF StreamInv, WriterAt
  <2>5. ReaderInv'
    <3>1. At(msgs, stream, rcvd + 1) = [msg |-> d, at |-> n + 1]
      BY <1>1, <1>3, <1>4, <1>6, <1>7, Arrival DEF After, HeaderLen
    <3>2. ReaderAt' = [msg |-> d, at |-> n + 1]
      BY <1>1, <1>6, <2>1 DEF ReaderAt
    <3>3. At(msgs', stream', rcvd') = ReaderAt'
      BY <1>1, <2>1, <3>1, <3>2
    <3>4. Len(delivered) < Len(msgs)
      BY <1>2, Facts
    <3> QED BY <1>1, <1>6, <2>1, <3>3, <3>4 DEF ReaderInv
  <2>6. FramesIntact'
    BY <2>1 DEF FramesIntact, Whole, Size, Prefix
  <2> QED BY <2>2, <2>3, <2>4, <2>5, <2>6
<1>8. CASE ~(Len(head) < HeaderLen)
  <2>1. n = 2
    BY <1>4, <1>6, <1>8 DEF HeaderLen
  <2>2. /\ head[1] = [msg |-> d, at |-> 0]
        /\ head[2] = [msg |-> d, at |-> 1]
        /\ head[3] = [msg |-> d, at |-> 2]
    BY <1>6, <2>1
  <2>3. Kind(head[1]) = msgs[d].kind
    BY <2>2 DEF Kind
  <2>4. Expected(head) = msgs[d].len
    <3>1. Value(head[2]) = msgs[d].len \div Base /\ Value(head[3]) = msgs[d].len % Base
      BY <2>2 DEF Value
    <3>2. msgs[d].len = Base * (msgs[d].len \div Base) + (msgs[d].len % Base)
      BY <1>3, DivMod
    <3>3. msgs[d].len \div Base \in Nat /\ Base \in Nat
      BY <1>3
    <3>4. (msgs[d].len \div Base) * Base = Base * (msgs[d].len \div Base)
      BY <3>3
    <3> QED BY <3>1, <3>2, <3>4 DEF Expected
  <2> HIDE DEF head
  <2>5. CASE msgs[d].len = 0
    <3>1. Return(msgs[d].kind, msgs[d].len, <<>>)
      BY <1>8, <2>3, <2>4, <2>5 DEF RecvHeaderByte, head
    <3>2. ReaderAt.at + 1 = HeaderLen + msgs[d].len
      BY <1>4, <2>1, <2>5 DEF HeaderLen
    <3>3. <<>> = Prefix(d, msgs[d].len)
      <4>1. Prefix(d, 0) \in Seq(Byte) /\ Len(Prefix(d, 0)) = 0
        BY <1>2, PrefixFacts
      <4> QED BY <2>5, <4>1, EmptySeq
    <3> QED BY <1>1, <3>1, <3>2, <3>3, ReturnInv
  <2>6. CASE msgs[d].len # 0
    <3>1. /\ rxhead' = <<>> /\ rx_pending' = TRUE
          /\ rx_kind' = msgs[d].kind /\ rx_expected' = msgs[d].len
          /\ rxlen' = 0 /\ rxbuf' = <<>>
          /\ UNCHANGED <<rpc, delivered, msgs, stream, off, wpc>>
      BY <1>1, <1>8, <2>3, <2>4, <2>6 DEF RecvHeaderByte, head, writerVars
    <3>2. /\ rxhead' \in Seq(Byte) /\ Len(rxhead') = 0
          /\ rxbuf' \in Seq(Byte) /\ Len(rxbuf') = 0
      BY <3>1, EmptySeq
    <3>3. TypeOK'
      <4>1. rcvd' \in Nat /\ rcvd' <= Len(stream)
        BY <1>1, Facts DEF Arrived
      <4>2. Len(rxhead') < HeaderLen /\ Len(rxbuf') <= MaxPayload
        BY <3>2 DEF HeaderLen
      <4> QED BY <1>3, <3>1, <3>2, <4>1, <4>2 DEF TypeOK
    <3>4. WriterInv'
      BY <3>1 DEF WriterInv
    <3>5. StreamInv'
      BY <3>1 DEF StreamInv, WriterAt
    <3>6. ReaderInv'
      <4>1. At(msgs, stream, rcvd + 1) = [msg |-> d, at |-> HeaderLen]
        BY <1>1, <1>3, <1>4, <2>1, <2>6, Arrival DEF After, HeaderLen
      <4>2. ReaderAt' = [msg |-> d, at |-> HeaderLen]
        BY <3>1 DEF ReaderAt, HeaderLen
      <4>3. At(msgs', stream', rcvd') = ReaderAt'
        BY <1>1, <3>1, <4>1, <4>2
      <4>4. Len(delivered) < Len(msgs)
        BY <1>2, Facts
      <4>5. <<>> = Prefix(d, 0)
        <5>1. Prefix(d, 0) \in Seq(Byte) /\ Len(Prefix(d, 0)) = 0
          BY <1>2, PrefixFacts
        <5> QED BY <5>1, EmptySeq
      <4>6. rxbuf' = Prefix(Len(delivered) + 1, rxlen)'
        BY <3>1, <4>5 DEF Prefix
      <4>7. 0 < msgs[d].len
        BY <1>3, <2>6
      <4> QED BY <1>1, <3>1, <3>2, <4>3, <4>4, <4>6, <4>7 DEF ReaderInv
    <3>7. FramesIntact'
      BY <3>1 DEF FramesIntact, Whole, Size, Prefix
    <3> QED BY <3>3, <3>4, <3>5, <3>6, <3>7
  <2> QED BY <2>5, <2>6
<1> QED BY <1>7, <1>8

\* A byte of a payload is read; the last completes the message.
LEMMA RecvPayloadByteInv ==
  ASSUME IInv, RecvPayloadByte
  PROVE  IInv'
<1> USE DEF IInv
<1> DEFINE d == Len(delivered) + 1
           buf == IF rxlen < MaxPayload THEN Append(rxbuf, NextByte) ELSE rxbuf
<1>1. /\ Arrived /\ rcvd' = rcvd + 1 /\ UNCHANGED writerVars
      /\ rpc = "read" /\ rx_pending
  BY DEF RecvPayloadByte
<1>2. d \in 1..Len(msgs) /\ d \in Nat \ {0}
  BY <1>1, Arrival, Facts
<1>3. msgs[d].len \in Nat /\ msgs[d].kind \in Nat /\ rxlen \in Nat
  BY <1>2, Facts
<1>4. /\ Len(rxhead) = 0 /\ rx_kind = msgs[d].kind /\ rx_expected = msgs[d].len
      /\ rxlen < msgs[d].len /\ rxbuf = Prefix(d, rxlen)
  BY <1>1 DEF ReaderInv
<1>5. ReaderAt = [msg |-> d, at |-> HeaderLen + rxlen]
  BY <1>1 DEF ReaderAt
<1>6. NextByte = [msg |-> d, at |-> HeaderLen + rxlen]
  BY <1>1, <1>5, Arrival
<1>7. buf = Prefix(d, rxlen + 1)
  <2>1. /\ rxlen < MaxPayload => Append(Prefix(d, rxlen), NextByte) = Prefix(d, rxlen + 1)
        /\ rxlen >= MaxPayload => Prefix(d, rxlen) = Prefix(d, rxlen + 1)
    BY <1>2, <1>3, <1>6, PrefixNext
  <2>2. rxlen < MaxPayload \/ rxlen >= MaxPayload
    BY <1>3
  <2> QED BY <1>3, <1>4, <2>1, <2>2
<1> HIDE DEF buf
<1>8. CASE rxlen + 1 = msgs[d].len
  <2>1. Return(msgs[d].kind, msgs[d].len, buf)
    BY <1>4, <1>8 DEF RecvPayloadByte, Kept, Fits, buf
  <2>2. ReaderAt.at + 1 = HeaderLen + msgs[d].len
    BY <1>3, <1>5, <1>8 DEF HeaderLen
  <2> QED BY <1>1, <1>7, <1>8, <2>1, <2>2, ReturnInv
<1>9. CASE rxlen + 1 # msgs[d].len
  <2>1. /\ rxlen' = rxlen + 1 /\ rxbuf' = buf
        /\ UNCHANGED <<rxhead, rx_pending, rx_kind, rx_expected, rpc, delivered,
                       msgs, stream, off, wpc>>
    BY <1>1, <1>4, <1>9 DEF RecvPayloadByte, Kept, Fits, buf, writerVars
  <2>2. TypeOK'
    <3>1. rcvd' \in Nat /\ rcvd' <= Len(stream)
      BY <1>1, Facts DEF Arrived
    <3>2. buf \in Seq(Byte) /\ Len(buf) <= MaxPayload
      <4>1. rxlen + 1 \in Nat
        BY <1>3
      <4>2. /\ Prefix(d, rxlen + 1) \in Seq(Byte)
            /\ Len(Prefix(d, rxlen + 1)) =
                 IF rxlen + 1 < MaxPayload THEN rxlen + 1 ELSE MaxPayload
        BY <1>2, <4>1, PrefixFacts
      <4> QED BY <1>7, <4>1, <4>2
    <3> QED BY <1>3, <2>1, <3>1, <3>2 DEF TypeOK
  <2>3. WriterInv'
    BY <2>1 DEF WriterInv
  <2>4. StreamInv'
    BY <2>1 DEF StreamInv, WriterAt
  <2>5. ReaderInv'
    <3>1. At(msgs, stream, rcvd + 1) = [msg |-> d, at |-> HeaderLen + (rxlen + 1)]
      BY <1>1, <1>3, <1>5, <1>9, Arrival DEF After, HeaderLen
    <3>2. ReaderAt' = [msg |-> d, at |-> HeaderLen + (rxlen + 1)]
      BY <1>1, <2>1 DEF ReaderAt
    <3>3. At(msgs', stream', rcvd') = ReaderAt'
      BY <1>1, <2>1, <3>1, <3>2
    <3>4. rxlen + 1 < msgs[d].len
      BY <1>3, <1>4, <1>9
    <3>5. rxbuf' = Prefix(Len(delivered) + 1, rxlen)'
      BY <1>7, <2>1 DEF Prefix
    <3>6. Len(delivered) < Len(msgs)
      BY <1>2, Facts
    <3> QED BY <1>1, <1>4, <2>1, <3>3, <3>4, <3>5, <3>6 DEF ReaderInv
  <2>6. FramesIntact'
    BY <2>1 DEF FramesIntact, Whole, Size, Prefix
  <2> QED BY <2>2, <2>3, <2>4, <2>5, <2>6
<1> QED BY <1>8, <1>9

\* The reader's other steps leave its place and its fields alone.
LEMMA ReaderPauseInv ==
  ASSUME IInv, BeginRead \/ ReadTimesOut \/ ReadEnds
  PROVE  IInv'
<1> USE DEF IInv
<1>1. UNCHANGED <<msgs, stream, off, wpc, rcvd, rxhead, rx_pending, rx_kind,
                  rx_expected, rxlen, rxbuf, delivered>>
  BY DEF BeginRead, ReadTimesOut, ReadEnds, writerVars, parseVars
<1>2. /\ rpc' \in {"idle", "read", "ended"}
      /\ rpc' = "ended" => wpc = "closed" /\ ~Arrived
  BY DEF BeginRead, ReadTimesOut, ReadEnds
<1>3. TypeOK'
  BY <1>1, <1>2 DEF TypeOK
<1>4. WriterInv' /\ StreamInv'
  BY <1>1 DEF WriterInv, StreamInv, WriterAt
<1>5. ~Arrived => rcvd = Len(stream)
  BY Facts DEF Arrived, TypeOK
<1>6. ReaderInv'
  BY <1>1, <1>2, <1>5 DEF ReaderInv, ReaderAt, Prefix
<1>7. FramesIntact'
  BY <1>1 DEF FramesIntact, Whole, Size, Prefix
<1> QED BY <1>3, <1>4, <1>6, <1>7

\* Every step.
LEMMA StepInv == IInv /\ [Next]_vars => IInv'
<1> SUFFICES ASSUME IInv, [Next]_vars PROVE IInv'
  OBVIOUS
<1>1. CASE Read
  BY <1>1, RecvHeaderByteInv, RecvPayloadByteInv, ReaderPauseInv DEF Read
<1>2. CASE Write
  BY <1>2, BeginWriteInv, SendByteInv, WriterStopsInv DEF Write
<1>3. CASE UNCHANGED vars
  <2>1. UNCHANGED <<msgs, stream, off, wpc, rcvd, rxhead, rx_pending, rx_kind,
                    rx_expected, rxlen, rxbuf, rpc, delivered>>
    BY <1>3 DEF vars, writerVars, readerVars, parseVars
  <2> QED BY <2>1 DEF IInv, TypeOK, WriterInv, StreamInv, WriterAt, ReaderInv, ReaderAt,
                      FramesIntact, Whole, Size, Prefix
<1> QED BY <1>1, <1>2, <1>3 DEF Next, Ended

-----------------------------------------------------------------------------
(* Theorems.                                                               *)

\* The inductive invariant of writer, stream and reader.
LEMMA Invariance == Spec => []IInv
  BY InitInv, StepInv, PTL DEF Spec

\* Type correctness of the parser of sm_ast_read: rxbuf never overflows, and
\* what is kept of a header is never a whole one.
THEOREM TypeCorrect == Spec => []TypeOK
<1>1. IInv => TypeOK
  BY DEF IInv
<1> QED BY <1>1, Invariance, PTL

\* sm_ast_read returns exactly the messages sm_ast_write was given, in order,
\* for any split of the stream, any timeouts and any message lengths.
THEOREM FramesStayIntact == Spec => []FramesIntact
<1>1. IInv => FramesIntact
  BY DEF IInv
<1> QED BY <1>1, Invariance, PTL

\* When sm_ast_read says the connection has ended, every message that was sent
\* whole has been returned.
THEOREM EofIsLast == Spec => []NothingLostAtEof
<1>1. IInv => NothingLostAtEof
  <2> SUFFICES ASSUME IInv, rpc = "ended", NEW k \in 1..Len(msgs), Whole(k)
               PROVE  k <= Len(delivered)
    BY DEF NothingLostAtEof
  <2> USE DEF IInv
  <2>1. WriterAt = ReaderAt
    BY DEF StreamInv, ReaderInv
  <2>2. ReaderAt.msg = Len(delivered) + 1
    BY DEF ReaderAt
  <2>3. WriterAt.msg > k
    BY Facts DEF WriterAt, Whole, Size
  <2> QED BY <2>1, <2>2, <2>3, Facts
<1> QED BY <1>1, Invariance, PTL

=============================================================================
