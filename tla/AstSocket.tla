------------------------------ MODULE AstSocket ------------------------------
(***************************************************************************)
(* One direction of an AudioSocket connection: the process at one end      *)
(* calls sm_ast_write, the one at the other end sm_ast_read                *)
(* (sm_ast_socket.c).  The connection is a stream of bytes without message *)
(* boundaries; a message is a kind, two bytes of length and the payload.   *)
(*                                                                         *)
(* Bytes move one at a time: a send or recv of several is several steps of *)
(* the same loop, so every split of every message happens.  A byte is      *)
(* known by the message it belongs to and its place there.                 *)
(*                                                                         *)
(* The writer closes with nothing unread on its side, so that the close is *)
(* an orderly end of file, and the reader stays until it has seen it.      *)
(***************************************************************************)
EXTENDS Integers, Sequences

CONSTANTS
    Base,       \* values of a byte (256)
    Kinds,      \* kinds of message
    Lengths,    \* payload lengths the writer uses
    MaxPayload, \* SM_AS_MAX_PAYLOAD: sizeof(rxbuf), and the readers' buf_len
    SockBuf,    \* bytes the connection holds
    MaxMsgs     \* bound: messages written

ASSUME AstAssumption ==
    /\ Base \in Nat \ {0}
    /\ Kinds \subseteq 0..Base - 1
    /\ Lengths \subseteq 0..Base * Base - 1
    /\ MaxPayload \in Nat \ {0}
    /\ SockBuf \in Nat \ {0}
    /\ MaxMsgs \in Nat

VARIABLES
    msgs,       \* the messages sm_ast_write was given
    stream,     \* every byte sent so far
    off,        \* bytes of the last message that have been sent
    wpc,        \* the writer: "idle", "send", "failed" or "closed"
    rcvd,       \* how many bytes of the stream have been received
    rxhead,     \* header bytes buffered; rxhdr is their number
    rx_pending, rx_kind, rx_expected,
    rxlen, rxbuf,
    rpc,        \* the reader: "idle", "read" or "ended"
    delivered   \* what sm_ast_read has returned

writerVars == <<msgs, stream, off, wpc>>
parseVars  == <<rxhead, rx_pending, rx_kind, rx_expected, rxlen, rxbuf>>
readerVars == <<rcvd, parseVars, rpc, delivered>>
vars == <<writerVars, readerVars>>

HeaderLen == 3
Message == [kind : Kinds, len : Lengths]
Byte    == [msg : Nat \ {0}, at : Nat]
Size(m) == HeaderLen + msgs[m].len   \* bytes message m takes in the stream

TypeOK ==
    /\ msgs \in Seq(Message)
    /\ stream \in Seq(Byte)
    /\ off \in Nat
    /\ wpc \in {"idle", "send", "failed", "closed"}
    /\ rcvd \in Nat /\ rcvd <= Len(stream)
    /\ rxhead \in Seq(Byte) /\ Len(rxhead) < HeaderLen
    /\ rx_pending \in BOOLEAN
    /\ rx_kind \in Nat /\ rx_expected \in Nat
    /\ rxlen \in Nat
    /\ rxbuf \in Seq(Byte) /\ Len(rxbuf) <= MaxPayload
    /\ rpc \in {"idle", "read", "ended"}
    /\ delivered \in Seq([kind : Nat, len : Nat, payload : Seq(Byte)])

Init ==
    /\ msgs = <<>> /\ stream = <<>> /\ off = 0 /\ wpc = "idle"
    /\ rcvd = 0 /\ rxhead = <<>>
    /\ rx_pending = FALSE /\ rx_kind = 0 /\ rx_expected = 0
    /\ rxlen = 0 /\ rxbuf = <<>>
    /\ rpc = "idle" /\ delivered = <<>>

-----------------------------------------------------------------------------
(* sm_ast_write.                                                           *)

BeginWrite ==
    /\ wpc = "idle" /\ Len(msgs) < MaxMsgs
    /\ \E m \in Message : msgs' = Append(msgs, m)
    /\ off' = 0 /\ wpc' = "send"
    /\ UNCHANGED <<stream, readerVars>>

HasRoom == Len(stream) - rcvd < SockBuf

SendByte ==
    /\ wpc = "send" /\ HasRoom
    /\ stream' = Append(stream, [msg |-> Len(msgs), at |-> off])
    /\ off' = off + 1
    /\ wpc' = IF off' = Size(Len(msgs)) THEN "idle" ELSE "send"
    /\ UNCHANGED <<msgs, readerVars>>

\* send_all gives up after five seconds without room, with part of the message
\* sent: sm_ast_write returns -1 and its callers drop the connection.
SendTimesOut ==
    /\ wpc = "send" /\ ~HasRoom
    /\ wpc' = "failed"
    /\ UNCHANGED <<msgs, stream, off, readerVars>>

CloseWriter ==
    /\ wpc \in {"idle", "failed"}
    /\ wpc' = "closed"
    /\ UNCHANGED <<msgs, stream, off, readerVars>>

-----------------------------------------------------------------------------
(* sm_ast_read.  Its state survives a call that returns 0, so that the     *)
(* next call goes on where the last one stopped.                           *)

BeginRead ==
    /\ rpc = "idle"
    /\ rpc' = "read"
    /\ UNCHANGED <<writerVars, rcvd, parseVars, delivered>>

Arrived == rcvd < Len(stream)
NextByte == stream[rcvd + 1]

\* What a byte says when it is taken for part of a header: the payload is any
\* data, and may look like a header too.
Value(b) ==
    CASE b.at = 1 -> msgs[b.msg].len \div Base
      [] b.at = 2 -> msgs[b.msg].len % Base
      [] OTHER -> Base - 1
Kind(b) == IF b.at = 0 THEN msgs[b.msg].kind ELSE Value(b)

Expected(head) == Value(head[2]) * Base + Value(head[3])

\* The message is whole: hand it to the caller and start on the next.
Return(kind, len, payload) ==
    /\ delivered' = Append(delivered, [kind |-> kind, len |-> len, payload |-> payload])
    /\ rxhead' = <<>> /\ rx_pending' = FALSE
    /\ rx_kind' = kind /\ rx_expected' = 0
    /\ rxlen' = 0 /\ rxbuf' = <<>>
    /\ rpc' = "idle"

RecvHeaderByte ==
    /\ rpc = "read" /\ ~rx_pending /\ Arrived
    /\ rcvd' = rcvd + 1
    /\ LET head == Append(rxhead, NextByte)
       IN  IF Len(head) < HeaderLen
           THEN /\ rxhead' = head
                /\ UNCHANGED <<rx_pending, rx_kind, rx_expected, rxlen, rxbuf,
                               rpc, delivered>>
           ELSE IF Expected(head) = 0
           THEN Return(Kind(head[1]), 0, <<>>)
           ELSE /\ rxhead' = <<>> /\ rx_pending' = TRUE
                /\ rx_kind' = Kind(head[1]) /\ rx_expected' = Expected(head)
                /\ rxlen' = 0 /\ rxbuf' = <<>>
                /\ UNCHANGED <<rpc, delivered>>
    /\ UNCHANGED writerVars

\* Mutant: what does not fit is left in the connection.
Kept_LeavesExcess == IF rx_expected < MaxPayload THEN rx_expected ELSE MaxPayload

\* How much of the payload is taken from the connection.
Kept == rx_expected

Fits == rxlen < MaxPayload

\* Payload beyond rxbuf is read all the same, and thrown away.
RecvPayloadByte ==
    /\ rpc = "read" /\ rx_pending /\ Arrived
    /\ rcvd' = rcvd + 1
    /\ LET buf == IF Fits THEN Append(rxbuf, NextByte) ELSE rxbuf
       IN  IF rxlen + 1 = Kept
           THEN Return(rx_kind, rx_expected, buf)
           ELSE /\ rxlen' = rxlen + 1 /\ rxbuf' = buf
                /\ UNCHANGED <<rxhead, rx_pending, rx_kind, rx_expected, rpc, delivered>>
    /\ UNCHANGED writerVars

\* Mutant: a timeout forgets the part of the header that has come.
ReadTimesOut_Forgets ==
    /\ rpc = "read" /\ ~Arrived /\ wpc # "closed"
    /\ rpc' = "idle" /\ rxhead' = <<>>
    /\ UNCHANGED <<writerVars, rcvd, rx_pending, rx_kind, rx_expected, rxlen,
                   rxbuf, delivered>>

\* Nothing comes for timeout_ms: return 0.
ReadTimesOut ==
    /\ rpc = "read" /\ ~Arrived /\ wpc # "closed"
    /\ rpc' = "idle"
    /\ UNCHANGED <<writerVars, rcvd, parseVars, delivered>>

\* Mutant: a close is reported ahead of the bytes sent before it.
ReadEnds_Early ==
    /\ rpc = "read" /\ wpc = "closed"
    /\ rpc' = "ended"
    /\ UNCHANGED <<writerVars, rcvd, parseVars, delivered>>

\* End of file, between messages or inside one: return -1.
ReadEnds ==
    /\ rpc = "read" /\ ~Arrived /\ wpc = "closed"
    /\ rpc' = "ended"
    /\ UNCHANGED <<writerVars, rcvd, parseVars, delivered>>

Ended == rpc = "ended" /\ UNCHANGED vars

Read == BeginRead \/ RecvHeaderByte \/ RecvPayloadByte \/ ReadTimesOut \/ ReadEnds
Write == BeginWrite \/ SendByte \/ SendTimesOut \/ CloseWriter
Next == Read \/ Write \/ Ended

Spec == Init /\ [][Next]_vars

\* sm_call_run and sm_sip_run call sm_ast_read again and again until it returns
\* -1 or their call is over.
FairSpec == Spec /\ WF_vars(Read)

-----------------------------------------------------------------------------
(* Properties.                                                             *)

\* Every byte of message m has been sent.
Whole(m) == m < Len(msgs) \/ (m = Len(msgs) /\ off = Size(m))

\* The first n bytes of message m's payload, as far as rxbuf has room.
Prefix(m, n) == [i \in 1..(IF n < MaxPayload THEN n ELSE MaxPayload) |->
                   [msg |-> m, at |-> HeaderLen - 1 + i]]

\* "framed and fully resumable" (sm_ast_socket.h:26): whatever the splits, the
\* timeouts and the payloads that do not fit, sm_ast_read returns the messages
\* that were written, each once, in order, and never part of one as a whole.
FramesIntact ==
    \A k \in 1..Len(delivered) :
        /\ k <= Len(msgs) /\ Whole(k)
        /\ delivered[k] = [kind |-> msgs[k].kind, len |-> msgs[k].len,
                           payload |-> Prefix(k, msgs[k].len)]

\* The reader learns of the end after the last whole message, not before.
NothingLostAtEof ==
    rpc = "ended" => \A k \in 1..Len(msgs) : Whole(k) => k <= Len(delivered)

\* A message that has been written is read, however late its bytes come and
\* however often sm_ast_read returns 0 in between.
EveryMessageArrives ==
    \A k \in 1..MaxMsgs :
        (k <= Len(msgs) /\ Whole(k)) ~> (Len(delivered) >= k)

=============================================================================
