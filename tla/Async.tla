------------------------------- MODULE Async -------------------------------
(***************************************************************************)
(* Start-stop framing as src/src/serial/sm_async.c does it: the queue of   *)
(* bits the modem's transmitter pulls from, a ring read and written through*)
(* two 32 bit counters that are only masked when the ring is indexed, and  *)
(* the deframer its receiver pushes bits into.  A byte is the sequence of  *)
(* its DataBits bits, the least significant first.                         *)
(***************************************************************************)
EXTENDS Integers, Sequences

CONSTANTS
    DataBits,   \* bits of a byte (8)
    QueueSize,  \* SM_BITQ_SIZE (65536), "must be a power of two"
    Wrap,       \* what the counters head and tail count modulo (2^32)
    OutSize     \* sizeof(d->out) (4096)

ASSUME AsyncAssumption ==
    /\ DataBits \in Nat \ {0} /\ OutSize \in Nat \ {0}
    /\ QueueSize \in Nat \ {0} /\ Wrap \in Nat \ {0}
    /\ Wrap > QueueSize /\ Wrap % QueueSize = 0
    /\ QueueSize >= DataBits + 2

Bit  == {0, 1}
Byte == [1..DataBits -> Bit]

\* A start bit, the data, a stop bit.
Frame(byte) == <<0>> \o byte \o <<1>>
FrameBits == DataBits + 2

\* The frames of some bytes, back to back.
Frames(bytes) ==
    [i \in 1..Len(bytes) * FrameBits |->
        Frame(bytes[((i - 1) \div FrameBits) + 1])[((i - 1) % FrameBits) + 1]]

-----------------------------------------------------------------------------
(* The bit queue.                                                          *)

Bitq == [bits : [0..QueueSize - 1 -> Bit], head : 0..Wrap - 1, tail : 0..Wrap - 1]

BitqEmpty == [bits |-> [i \in 0..QueueSize - 1 |-> 0], head |-> 0, tail |-> 0]

\* Mutant: the counters are compared, not subtracted.
BitqCount_Compares(q) == IF q.head > q.tail THEN q.head - q.tail ELSE 0

\* uint32_t arithmetic: right however often either counter has wrapped.
BitqCount(q) == (q.head - q.tail) % Wrap

\* Mutant: the counters are kept below the size of the ring.
BitqPush_MaskedHead(q, bits) ==
    [q EXCEPT !.bits = [i \in 0..QueueSize - 1 |->
                           LET k == (i - q.head) % QueueSize IN
                           IF k < Len(bits) THEN bits[k + 1] ELSE @[i]],
              !.head = (@ + Len(bits)) % QueueSize]

\* Bits are written behind the head, at the counter's value modulo the size.
BitqPush(q, bits) ==
    [q EXCEPT !.bits = [i \in 0..QueueSize - 1 |->
                           LET k == (i - q.head) % QueueSize IN
                           IF k < Len(bits) THEN bits[k + 1] ELSE @[i]],
              !.head = (@ + Len(bits)) % Wrap]

BitqFree(q) == QueueSize - BitqCount(q)

\* Mutant: one bit more is asked for.
BitqRoom_OffByOne(q) == (BitqFree(q) - 1) \div FrameBits

\* A byte is framed whole or not at all: how many bytes there is room for.
BitqRoom(q) == BitqFree(q) \div FrameBits

\* Up to n bits leave the queue; what the line carries when it is empty is ones.
BitqPop(q, n) ==
    LET k == IF n < BitqCount(q) THEN n ELSE BitqCount(q) IN
    [q |-> [q EXCEPT !.tail = (@ + k) % Wrap],
     line |-> [i \in 1..n |-> IF i <= k THEN q.bits[(q.tail + i - 1) % QueueSize] ELSE 1]]

\* What is waiting, oldest bit first.
BitqContents(q) == BitqPop(q, BitqCount(q)).line

-----------------------------------------------------------------------------
(* The deframer.                                                           *)

Deframer == [state : {"hunt", "data", "stop"}, byte : UNION {[1..n -> Bit] : n \in 0..DataBits},
             prev : Bit, out : UNION {[1..n -> Byte] : n \in 0..OutSize}]

DeframerInit == [state |-> "hunt", byte |-> <<>>, prev |-> 1, out |-> <<>>]

\* A start bit is an edge: a line that stays at 0 does not start a byte.
Hunt(d, bit) ==
    IF d.prev = 1 /\ bit = 0 THEN [d EXCEPT !.state = "data", !.byte = <<>>, !.prev = bit]
                             ELSE [d EXCEPT !.prev = bit]

\* Mutant: the first bit to arrive is taken for the most significant one.
Collect_MsbFirst(d, bit) ==
    [d EXCEPT !.byte = <<bit>> \o @, !.prev = bit,
              !.state = IF Len(d.byte) + 1 >= DataBits THEN "stop" ELSE "data"]

Collect(d, bit) ==
    [d EXCEPT !.byte = Append(@, bit), !.prev = bit,
              !.state = IF Len(d.byte) + 1 >= DataBits THEN "stop" ELSE "data"]

\* The byte counts when the stop bit is 1; either way the hunt goes on.
Stop(d, bit) ==
    [d EXCEPT !.state = "hunt", !.prev = bit, !.byte = <<>>,
              !.out = IF bit = 1 THEN Append(@, d.byte) ELSE @]

\* A full output is emptied, not kept, when the next bit arrives.
DeframerFlush(d) == IF Len(d.out) >= OutSize THEN [d EXCEPT !.out = <<>>] ELSE d

DeframerBit(d, bit) ==
    LET e == DeframerFlush(d) IN
    CASE e.state = "hunt" -> Hunt(e, bit)
      [] e.state = "data" -> Collect(e, bit)
      [] e.state = "stop" -> Stop(e, bit)

DeframerTake(d, n) ==
    LET k == IF n < Len(d.out) THEN n ELSE Len(d.out) IN
    [d |-> [d EXCEPT !.out = SubSeq(@, k + 1, Len(@))], bytes |-> SubSeq(d.out, 1, k)]

\* The deframer after a run of bits.
Deframe(d, bits) ==
    LET after[i \in 0..Len(bits)] == IF i = 0 THEN d ELSE DeframerBit(after[i - 1], bits[i])
    IN after[Len(bits)]

Hunting(d) == d.state = "hunt" /\ d.prev = 1

=============================================================================
