------------------------------ MODULE BytePath ------------------------------
(***************************************************************************)
(* The bytes of a call, both ways between pppd and the line: pump_ppp and  *)
(* ppp_flush of src/src/call/sm_call.c over the bit queue and the deframer *)
(* of sm_async.c (module Async), the two modem callbacks that join them to *)
(* the modem, and the socket pair to the pppd relay.  Where Call only says *)
(* which phase a byte was decoded in, this module says which byte it is.   *)
(*                                                                         *)
(* One pass of the call is one audio message: the transmitter pulls the    *)
(* message's bits, the receiver delivers as many, pump_ppp runs.  The far  *)
(* end is a modem with the same framing; the line may turn a bit over, and *)
(* either end may ask for a retrain.                                       *)
(***************************************************************************)
EXTENDS Async

CONSTANTS
    Loads,     \* what a run puts on the path: records of Load
    MsgBits,   \* bits the line carries per message (24 at 1200 b/s, 672 at 33600)
    Chunk,     \* sizeof(tmp) in pump_ppp: bytes moved per pass and direction (256)
    PpySize,   \* sizeof(c->ppy_out) (4096)
    SockSize   \* bytes the socket pair holds each way

\* The bytes each side sends, in order, how many bits the line may turn over,
\* and whether the call echoes.
Load == [down : Seq(Byte), up : Seq(Byte), noise : Nat, echo : BOOLEAN]

ASSUME BytePathAssumption ==
    /\ \A l \in Loads : l \in Load
    /\ MsgBits \in Nat \ {0} /\ Chunk \in Nat \ {0}
    /\ PpySize \in Nat \ {0} /\ SockSize \in Nat \ {0}
    /\ MsgBits <= Chunk * FrameBits  \* 20 ms messages: 672 bits, and room for 2560
    /\ Chunk < OutSize
    /\ MsgBits + FrameBits <= QueueSize  \* 672 and 10, of 65536

VARIABLES
    load,        \* the run's traffic
    pc,          \* where the pass has got to
    phase,       \* "HANDSHAKE" or "DATA"
    txbits,      \* c->txbits
    deframer,    \* c->deframer
    ppy_out,     \* c->ppy_out, its first ppy_out_len bytes
    ppp_fd,      \* "none", "open", or "gone" once pppd's end has closed
    left,        \* bits of this message still to be sent or delivered
    fromPppd, toPppd,  \* the socket pair
    pppdSent,    \* bytes of load.down that pppd has written
    pppdGot,     \* bytes pppd has read
    pppdEnd,     \* pppd's end of the socket pair is closed
    farBits,     \* what is left of the frame the far end is sending
    farSent,     \* bytes of load.up that the far end has begun
    far,         \* the far end's receiver: its deframer and the bytes it got
    noise,       \* bits that may still be turned over
    quiet,       \* ones in a row the receiver has delivered in data mode
    inStep,      \* the deframer follows the far end's frames: the line has idled
                 \* since the last bit that was turned over and the last retrain
    decoded,     \* every byte the deframer completed
    accepted,    \* every byte that entered the bit queue
    loss         \* where bytes were lost

txVars  == <<txbits, fromPppd, pppdSent, far, accepted>>
rxVars  == <<deframer, ppy_out, toPppd, pppdGot, farBits, farSent, noise, quiet, inStep, decoded>>
fdVars  == <<ppp_fd, pppdEnd>>
vars == <<load, pc, phase, left, txVars, rxVars, fdVars, loss>>

Losses == {"queue", "full", "flush", "retrain"}

TypeOK ==
    /\ load \in Loads
    /\ pc \in {"read", "tx", "rx", "pump"} /\ phase \in {"HANDSHAKE", "DATA"}
    /\ txbits \in Bitq /\ BitqCount(txbits) <= QueueSize
    /\ deframer \in Deframer /\ far.d \in Deframer
    /\ Len(ppy_out) <= PpySize /\ Len(toPppd) <= SockSize /\ Len(fromPppd) <= SockSize
    /\ ppp_fd \in {"none", "open", "gone"} /\ pppdEnd \in BOOLEAN
    /\ left \in 0..MsgBits
    /\ pppdSent \in 0..Len(load.down) /\ farSent \in 0..Len(load.up)
    /\ noise \in 0..load.noise /\ quiet \in 0..FrameBits /\ inStep \in BOOLEAN
    /\ loss \subseteq Losses

Init ==
    /\ load \in Loads
    /\ pc = "read" /\ phase = "HANDSHAKE" /\ left = 0
    /\ txbits = BitqEmpty /\ deframer = DeframerInit
    /\ ppy_out = <<>> /\ ppp_fd = "none" /\ pppdEnd = FALSE
    /\ fromPppd = <<>> /\ toPppd = <<>> /\ pppdSent = 0 /\ pppdGot = <<>>
    /\ farBits = <<>> /\ farSent = 0 /\ far = [d |-> DeframerInit, got |-> <<>>]
    /\ noise = load.noise /\ quiet = 0 /\ inStep = FALSE
    /\ decoded = <<>> /\ accepted = <<>> /\ loss = {}

-----------------------------------------------------------------------------
(* The modem.                                                              *)

\* A receiver that hands every byte on as it completes.
Hear(r, bit) ==
    LET d == DeframerBit(r.d, bit) IN
    [d |-> [d EXCEPT !.out = <<>>], got |-> r.got \o d.out]

Listen(r, bits) ==
    LET after[i \in 0..Len(bits)] == IF i = 0 THEN r ELSE Hear(after[i - 1], bits[i])
    IN after[Len(bits)]

\* sm_ast_read times out (a pass without a message), or a message has come.
ReadTimesOut ==
    /\ pc = "read" /\ pc' = "pump"
    /\ UNCHANGED <<load, phase, left, txVars, rxVars, fdVars, loss>>

ReadMessage ==
    /\ pc = "read" /\ pc' = "tx" /\ left' = MsgBits
    /\ UNCHANGED <<load, phase, txVars, rxVars, fdVars, loss>>

\* call_get_bit, once for every bit of the message.
TransmitBit ==
    /\ pc = "tx" /\ left > 0 /\ phase = "DATA"
    /\ LET sent == BitqPop(txbits, 1) IN
       txbits' = sent.q /\ far' = Hear(far, sent.line[1])
    /\ left' = left - 1
    /\ UNCHANGED <<load, pc, phase, fromPppd, pppdSent, accepted, rxVars, fdVars, loss>>

\* All bits are sent; in training the transmitter makes its own and asks for none.
Transmitted ==
    /\ pc = "tx" /\ (left = 0 \/ phase = "HANDSHAKE")
    /\ pc' = "rx" /\ left' = MsgBits
    /\ UNCHANGED <<load, phase, txVars, rxVars, fdVars, loss>>

\* The far end's next bit: of the frame it is in, of a new one, or idle.
FarBit(bit) ==
    \/ /\ farBits # <<>> /\ bit = Head(farBits)
       /\ farBits' = Tail(farBits) /\ UNCHANGED farSent
    \/ /\ farBits = <<>> /\ bit = 1
       /\ UNCHANGED <<farBits, farSent>>
    \/ /\ farBits = <<>> /\ farSent < Len(load.up) /\ bit = 0
       /\ farSent' = farSent + 1
       /\ farBits' = Tail(Frame(load.up[farSent']))

\* call_put_bit.  The deframer empties a full output, which loses what it held.
PutBit(bit) ==
    LET d == DeframerBit(deframer, bit) IN
    /\ deframer' = d
    /\ loss' = IF Len(deframer.out) >= OutSize THEN loss \cup {"flush"} ELSE loss
    /\ decoded' = IF deframer.state = "stop" /\ bit = 1 THEN Append(decoded, deframer.byte)
                                                        ELSE decoded
    /\ quiet' = IF bit = 0 THEN 0 ELSE IF quiet < FrameBits THEN quiet + 1 ELSE quiet

\* A bit in data mode, possibly turned over by the line.  The far end and the
\* deframer are in step again once the line has idled for a frame.
DataBit ==
    /\ pc = "rx" /\ left > 0 /\ phase = "DATA"
    /\ \E bit \in Bit, turned \in Bit :
         /\ turned <= noise
         /\ FarBit(bit)
         /\ PutBit((bit + turned) % 2)
         /\ noise' = noise - turned
         /\ inStep' = IF turned = 1 THEN FALSE
                      ELSE inStep \/ (farBits' = <<>> /\ quiet' >= DataBits + 1)
    /\ left' = left - 1
    /\ UNCHANGED <<load, pc, phase, txVars, ppy_out, toPppd, pppdGot, fdVars>>

\* In training the receiver delivers nothing, and call_put_bit would drop it;
\* V.34's first bit is what enters data mode.
TrainingMessage ==
    /\ pc = "rx" /\ phase = "HANDSHAKE" /\ left > 0
    /\ \/ left' = 0 /\ UNCHANGED phase
       \/ phase' = "DATA" /\ UNCHANGED left
    /\ UNCHANGED <<load, pc, txVars, rxVars, fdVars, loss>>

\* The far end asks for a retrain: call_status drops the deframer's state, the
\* bytes it had completed with it, and leaves data mode.  The far end may forget
\* its half of a byte too; the other half of one is sent when data mode is back.
Retrain ==
    /\ pc = "rx" /\ phase = "DATA"
    /\ phase' = "HANDSHAKE" /\ left' = 0
    /\ deframer' = DeframerInit
    /\ loss' = loss \cup {"retrain"}
    /\ quiet' = 0 /\ inStep' = FALSE
    /\ far' \in {far, [far EXCEPT !.d = DeframerInit]}
    /\ UNCHANGED <<load, pc, txbits, fromPppd, pppdSent, accepted, ppy_out, toPppd, pppdGot, farBits, farSent, noise,
                   decoded, fdVars>>

\* The end of process_audio: data mode is entered with a fresh deframer.
MessageEnds ==
    /\ pc = "rx" /\ left = 0
    /\ \/ UNCHANGED <<phase, deframer>>
       \/ phase = "HANDSHAKE" /\ phase' = "DATA" /\ deframer' = DeframerInit
    /\ pc' = "pump"
    /\ UNCHANGED <<load, left, txVars, ppy_out, toPppd, pppdGot, farBits, farSent, noise,
                   quiet, inStep, decoded, fdVars, loss>>

-----------------------------------------------------------------------------
(* pump_ppp.                                                               *)

\* The bytes of s that fit in n.
Fitting(s, n) == SubSeq(s, 1, IF Len(s) < n THEN Len(s) ELSE n)

\* What the bytes of this pass do to the bit queue: bytes are framed until one
\* does not fit, and the rest of them is dropped.
Send(bytes) ==
    LET framed == Fitting(bytes, BitqRoom(txbits)) IN
    /\ txbits' = BitqPush(txbits, Frames(framed))
    /\ accepted' = accepted \o framed

LostIf(lost, where) == IF lost THEN {where} ELSE {}

\* --echo: what was decoded goes back, nothing goes to pppd.
PumpEcho ==
    /\ pc = "pump" /\ load.echo
    /\ IF phase = "DATA"
       THEN LET took == DeframerTake(deframer, Chunk) IN
            /\ deframer' = took.d
            /\ Send(took.bytes)
            /\ loss' = loss \cup LostIf(Len(accepted') < Len(accepted) + Len(took.bytes), "queue")
       ELSE UNCHANGED <<deframer, txbits, accepted, loss>>
    /\ pc' = "read"
    /\ UNCHANGED <<load, phase, left, fromPppd, pppdSent, far, ppy_out, toPppd, pppdGot,
                   farBits, farSent, noise, quiet, inStep, decoded, fdVars>>

\* Mutant: nothing is taken from the deframer while pppd's buffer is full.
Taken_WhenRoom == DeframerTake(deframer, IF Len(ppy_out) < PpySize THEN Chunk ELSE 0)

Taken == DeframerTake(deframer, Chunk)

\* Mutant: a write that blocks is taken for one that wrote everything.
Unwritten_Forgets(staged, n) == <<>>

Unwritten(staged, n) == SubSeq(staged, n + 1, Len(staged))

\* Data mode starts pppd; the deframer's bytes are staged and ppp_flush writes
\* what the socket takes.
Upstream ==
    IF phase # "DATA"
    THEN UNCHANGED <<deframer, ppy_out, toPppd>>
    ELSE LET took   == Taken
             staged == ppy_out \o Fitting(took.bytes, PpySize - Len(ppy_out))
             room   == IF ppp_fd = "gone" \/ pppdEnd THEN 0 ELSE SockSize - Len(toPppd)
             wrote  == Fitting(staged, room)
         IN /\ deframer' = took.d
            /\ toPppd' = toPppd \o wrote
            /\ ppy_out' = Unwritten(staged, Len(wrote))

UpstreamLoss ==
    LostIf(phase = "DATA" /\ Len(ppy_out) + Len(Taken.bytes) > PpySize, "full")

\* pppd is read in every phase; at most a chunk a pass.
Readable == IF ppp_fd = "gone" THEN <<>> ELSE Fitting(fromPppd, Chunk)

Downstream ==
    /\ Send(Readable)
    /\ fromPppd' = SubSeq(fromPppd, Len(Readable) + 1, Len(fromPppd))
    /\ ppp_fd' = IF ppp_fd = "none" /\ phase # "DATA" THEN "none"
                 ELSE IF ppp_fd = "gone" \/ (pppdEnd /\ fromPppd = <<>>) THEN "gone"
                 ELSE "open"

PumpPpp ==
    /\ pc = "pump" /\ ~load.echo
    /\ Upstream
    /\ Downstream
    /\ loss' = loss \cup UpstreamLoss
                    \cup LostIf(Len(accepted') < Len(accepted) + Len(Readable), "queue")
    /\ pc' = "read"
    /\ UNCHANGED <<load, phase, left, pppdSent, far, pppdGot, farBits, farSent, noise,
                   quiet, inStep, decoded, pppdEnd>>

-----------------------------------------------------------------------------
(* pppd and its relay, on the other end of the socket pair.                *)

PppdWrites ==
    /\ ppp_fd # "none" /\ ~pppdEnd
    /\ pppdSent < Len(load.down) /\ Len(fromPppd) < SockSize
    /\ pppdSent' = pppdSent + 1
    /\ fromPppd' = Append(fromPppd, load.down[pppdSent'])
    /\ UNCHANGED <<load, pc, phase, left, txbits, far, accepted, rxVars, fdVars, loss>>

PppdReads ==
    /\ ~pppdEnd /\ toPppd # <<>>
    /\ pppdGot' = Append(pppdGot, Head(toPppd)) /\ toPppd' = Tail(toPppd)
    /\ UNCHANGED <<load, pc, phase, left, txVars, deframer, ppy_out, farBits, farSent,
                   noise, quiet, inStep, decoded, fdVars, loss>>

PppdCloses ==
    /\ ppp_fd = "open" /\ ~pppdEnd
    /\ pppdEnd' = TRUE
    /\ UNCHANGED <<load, pc, phase, left, txVars, rxVars, ppp_fd, loss>>

-----------------------------------------------------------------------------

Thread == \/ ReadTimesOut \/ ReadMessage \/ TransmitBit \/ Transmitted
          \/ DataBit \/ TrainingMessage \/ MessageEnds \/ PumpEcho \/ PumpPpp
Pppd   == PppdWrites \/ PppdReads \/ PppdCloses

Next == Thread \/ Retrain \/ Pppd

Spec == Init /\ [][Next]_vars

\* The call's thread runs, messages keep coming (five timeouts in a row end the
\* call) and pppd reads what it is given.
FairSpec == Spec /\ WF_vars(Thread) /\ SF_vars(ReadMessage) /\ WF_vars(PppdReads)

-----------------------------------------------------------------------------
(* Properties.                                                             *)

Retrained == "retrain" \in loss

\* What the far end has decoded, followed by what it will make of the bits that
\* still wait, is exactly the sequence of bytes that were let into the queue: no
\* byte is torn, repeated or reversed, however often the ring and its counters
\* have wrapped and wherever the queue was full (sm_async.c:17-48).
TxExact ==
    ~Retrained => Listen(far, BitqContents(txbits)).got = accepted

\* Bytes of pppd are dropped for one reason only: it is further ahead of the
\* line than the queue is long (sm_call.c:500); "the bits wait in the queue"
\* (line 489) for anything less, data mode or not.
DropsOnlyWhenAhead ==
    [][ "queue" \in loss' \ loss /\ ~load.echo
          => (pppdSent - Len(far.got)) * FrameBits > QueueSize ]_vars

\* A deframer that has heard a frame's worth of ones while the far end was idle,
\* whatever the line did before, is ready for the next start bit, and from then
\* on reads each frame of the far end as the byte it is (sm_async.c:74-104).
InStepDecodes ==
    phase = "DATA" /\ inStep =>
        LET end == Deframe([deframer EXCEPT !.out = <<>>], farBits) IN
        /\ Hunting(end)
        /\ farBits # <<>> => end.out = <<load.up[farSent]>>

\* s is what is left of t when some of its elements are dropped: the longest
\* start of s found in t, matched element by element, is all of s.
IsSubsequence(s, t) ==
    LET met[i \in 0..Len(t)] ==
          IF i = 0 THEN 0
          ELSE LET m == met[i - 1] IN
               IF m < Len(s) /\ s[m + 1] = t[i] THEN m + 1 ELSE m
    IN met[Len(t)] = Len(s)

\* pppd's bytes are the decoded ones, in order and none twice: all of them
\* while nothing was dropped for want of room.  "--echo: echo received data back
\* (byte-exact test mode)" (sm_daemon.c:45): what came is what goes back, in
\* order and complete, and as the line is as fast in both directions the queue
\* never fills.
RxInOrder ==
    /\ load.echo /\ ~Retrained => accepted \o deframer.out = decoded
    /\ ~load.echo /\ loss = {} => pppdGot \o toPppd \o ppy_out \o deframer.out = decoded
    /\ ~load.echo => IsSubsequence(pppdGot \o toPppd \o ppy_out \o deframer.out, decoded)

\* The deframer's output is emptied by the call, never by itself: a pass takes
\* more than a message can bring, whether pppd takes bytes or not
\* (sm_async.c:65, sm_call.c:394).
NeverFlushed == "flush" \notin loss

\* A byte let into the queue reaches the far end, in the handshake or in data
\* mode, unless a retrain makes the far end forget its start bit.
TxArrives ==
    \A n \in 1..4 :
        Len(accepted) >= n /\ phase = "DATA" ~> Len(far.got) >= n \/ Retrained

=============================================================================
