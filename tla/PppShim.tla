------------------------------- MODULE PppShim -------------------------------
(***************************************************************************)
(* The relay pppd runs on its pty (sm_pppd_shim_main, sm_pppd.c): one poll *)
(* loop that copies bytes between the pty and the call's socket pair, with *)
(* one buffer each way.  Between two poll calls it makes four moves in a   *)
(* fixed order, each on the revents of that poll: read pppd, write the     *)
(* modem, read the modem, write pppd.                                      *)
(*                                                                         *)
(* The two processes at its ends, pppd and the call (pump_ppp), write and  *)
(* read between any two moves, and either may go away.  The bytes of each  *)
(* direction are numbered 1, 2, 3, ... in the order they were sent; the    *)
(* kernel's queues keep that order, so a counter of bytes in and one of    *)
(* bytes out describe them, and only the relay's buffers hold bytes.       *)
(***************************************************************************)
EXTENDS Integers

CONSTANTS
    Chunk,     \* the most one read takes: sizeof(scratch), 4096
    ShimBuf,   \* SHIM_BUF, 8192
    QueueSize, \* bytes the kernel holds on the way into or out of the relay
    MaxBytes   \* bound: bytes sent each way

ASSUME ShimAssumption ==
    /\ Chunk \in Nat \ {0}
    /\ ShimBuf \in Nat /\ ShimBuf >= Chunk
    /\ QueueSize \in Nat \ {0}
    /\ MaxBytes \in Nat

Dirs == {"to_modem", "to_pppd"}
Ends == {"pppd", "modem"}

Source(d) == IF d = "to_modem" THEN "pppd" ELSE "modem"
Sink(d)   == IF d = "to_modem" THEN "modem" ELSE "pppd"

VARIABLES
    pc,               \* the next move of the relay, "done" when it has returned
    readable,         \* directions whose source end poll reported
    writable,         \* directions whose sink end poll reported
    data, len, off,   \* the buffers: data[d] holds byte numbers
    sent, taken,      \* bytes written by the source, read by the relay
    given, consumed,  \* bytes written by the relay, read by the sink
    intact,           \* every byte given so far was the next one of the stream
    ends,             \* the ends that are open
    blocked           \* pppd is inside a write and its pty is full

relayVars == <<pc, readable, writable, data, len, off, taken, given, intact>>
endVars   == <<sent, consumed, ends, blocked>>
vars == <<relayVars, endVars>>

Moves == {"read to_modem", "write to_modem", "read to_pppd", "write to_pppd"}
Positions == 0..ShimBuf - 1
Least(m, n) == IF m < n THEN m ELSE n

TypeOK ==
    /\ pc \in Moves \cup {"poll", "done"}
    /\ readable \in SUBSET Dirs /\ writable \in SUBSET Dirs
    /\ data \in [Dirs -> [Positions -> Nat]]
    /\ len \in [Dirs -> Nat] /\ off \in [Dirs -> Nat]
    /\ \A d \in Dirs : off[d] < len[d] \/ off[d] = 0
    /\ sent \in [Dirs -> Nat] /\ taken \in [Dirs -> Nat]
    /\ given \in [Dirs -> Nat] /\ consumed \in [Dirs -> Nat]
    /\ intact \in [Dirs -> BOOLEAN]
    /\ ends \in SUBSET Ends
    /\ blocked \in BOOLEAN

Init ==
    /\ pc = "poll"
    /\ readable = {} /\ writable = {}
    /\ data = [d \in Dirs |-> [i \in Positions |-> 0]]
    /\ len = [d \in Dirs |-> 0] /\ off = [d \in Dirs |-> 0]
    /\ sent = [d \in Dirs |-> 0] /\ taken = [d \in Dirs |-> 0]
    /\ given = [d \in Dirs |-> 0] /\ consumed = [d \in Dirs |-> 0]
    /\ intact = [d \in Dirs |-> TRUE]
    /\ ends = Ends
    /\ blocked = FALSE

Arrived(d) == sent[d] - taken[d]                  \* waiting for the relay
Room(d)    == QueueSize - (given[d] - consumed[d])  \* the sink's queue
Held(d)    == len[d] - off[d]
Closed(e)  == e \notin ends

-----------------------------------------------------------------------------
(* The relay.                                                              *)

\* POLLIN is asked for while the buffer is empty, POLLOUT while it is not;
\* POLLHUP comes unasked, on both descriptors of an end that has closed.
Readable(d) == (len[d] = 0 /\ Arrived(d) > 0) \/ Closed(Source(d))

Writable(d) == (len[d] > 0 /\ Room(d) > 0) \/ Closed(Sink(d))

Poll ==
    /\ pc = "poll"
    /\ readable' = {d \in Dirs : Readable(d)}
    /\ writable' = {d \in Dirs : Writable(d)}
    /\ readable' \cup writable' # {}
    /\ pc' = "read to_modem"
    /\ UNCHANGED <<data, len, off, taken, given, intact, endVars>>

\* Mutant: a read that returns 0 is taken for EAGAIN.
AtEof_Ignored(d, next) == Arrived(d) = 0 /\ pc' = next

\* A read that finds nothing: end of file, or EIO from the pty.  The relay
\* closes its socket and returns, whatever its buffers hold.
AtEof(d, next) == Arrived(d) = 0 /\ pc' = "done"

\* r bytes are copied behind the ones held if they fit, and counted in len
\* whether they fit or not.
Fill(d, r) ==
    /\ data' = IF len[d] + r <= ShimBuf
               THEN [data EXCEPT ![d] = [i \in Positions |->
                        IF i \in len[d]..len[d] + r - 1
                        THEN taken[d] + 1 + (i - len[d]) ELSE @[i]]]
               ELSE data
    /\ len' = [len EXCEPT ![d] = @ + r]
    /\ taken' = [taken EXCEPT ![d] = @ + r]

Read(d, here, next) ==
    /\ pc = here
    /\ IF d \notin readable
       THEN pc' = next /\ UNCHANGED <<data, len, taken>>
       ELSE \/ \E r \in 1..Least(Chunk, Arrived(d)) : Fill(d, r) /\ pc' = next
            \/ AtEof(d, next) /\ UNCHANGED <<data, len, taken>>
    /\ readable' = readable \ {d}   \* not looked at again before the next poll
    /\ UNCHANGED <<writable, off, given, intact, endVars>>

\* The k bytes from off go out.
Give(d, k) ==
    /\ given' = [given EXCEPT ![d] = @ + k]
    /\ intact' = [intact EXCEPT ![d] = @ /\ \A i \in off[d]..off[d] + k - 1 :
                    i < ShimBuf /\ data[d][i] = given[d] + 1 + (i - off[d])]

\* Mutant: a partial write empties the buffer.
Drain_Partial(d, k) ==
    /\ Give(d, k)
    /\ off' = [off EXCEPT ![d] = 0]
    /\ len' = [len EXCEPT ![d] = 0]

\* Both start again when everything has gone.
Drain(d, k) ==
    /\ Give(d, k)
    /\ off' = [off EXCEPT ![d] = IF @ + k = len[d] THEN 0 ELSE @ + k]
    /\ len' = [len EXCEPT ![d] = IF off[d] + k = @ THEN 0 ELSE @]

\* Mutant: write blocks until it has written everything.
Accepted_All(d) ==
    {k \in {Held(d)} : k <= Room(d) /\ ~Closed(Sink(d))}
    \cup {k \in {0} : Closed(Sink(d))}

\* What write may return: something if the queue has room; nothing once the
\* end has closed (EPIPE), though a closed pty may still swallow bytes.
Accepted(d) ==
    {k \in 0..Least(Held(d), Room(d)) :
        /\ k = 0 => Closed(Sink(d))
        /\ k > 0 => ~(Sink(d) = "modem" /\ Closed("modem"))}

Write(d, here, next) ==
    /\ pc = here
    /\ pc' = next
    /\ IF len[d] > 0 /\ d \in writable
       THEN \E k \in Accepted(d) : Drain(d, k)
       ELSE UNCHANGED <<len, off, given, intact>>
    /\ writable' = writable \ {d}
    /\ UNCHANGED <<readable, data, taken, endVars>>

ReadPppd   == Read("to_modem", "read to_modem", "write to_modem")
WriteModem == Write("to_modem", "write to_modem", "read to_pppd")
ReadModem  == Read("to_pppd", "read to_pppd", "write to_pppd")
WritePppd  == Write("to_pppd", "write to_pppd", "poll")

Relay == Poll \/ ReadPppd \/ WriteModem \/ ReadModem \/ WritePppd

-----------------------------------------------------------------------------
(* The two ends.  pppd's writes block, so that it does not read while its  *)
(* pty is full; pump_ppp writes what fits and comes back for the rest.     *)

Send(d) ==
    /\ pc # "done" /\ sent[d] < MaxBytes
    /\ sent' = [sent EXCEPT ![d] = @ + 1]

Receive(d) ==
    /\ Sink(d) \in ends /\ consumed[d] < given[d]
    /\ consumed' = [consumed EXCEPT ![d] = @ + 1]
    /\ UNCHANGED <<relayVars, sent, ends, blocked>>

PppdWrites ==
    /\ "pppd" \in ends /\ ~blocked /\ pc # "done" /\ sent["to_modem"] < MaxBytes
    /\ IF Arrived("to_modem") < QueueSize
       THEN Send("to_modem") /\ UNCHANGED blocked
       ELSE blocked' = TRUE /\ UNCHANGED sent
    /\ UNCHANGED <<relayVars, consumed, ends>>

PppdWrote ==
    /\ blocked /\ Arrived("to_modem") < QueueSize
    /\ Send("to_modem") /\ blocked' = FALSE
    /\ UNCHANGED <<relayVars, consumed, ends>>

PppdReads == ~blocked /\ Receive("to_pppd")

ModemWrites ==
    /\ "modem" \in ends /\ Arrived("to_pppd") < QueueSize
    /\ Send("to_pppd")
    /\ UNCHANGED <<relayVars, consumed, ends, blocked>>

ModemReads == Receive("to_modem")

PppdExits ==
    /\ "pppd" \in ends
    /\ ends' = ends \ {"pppd"} /\ blocked' = FALSE
    /\ UNCHANGED <<relayVars, sent, consumed>>

ModemCloses ==
    /\ "modem" \in ends
    /\ ends' = ends \ {"modem"}
    /\ UNCHANGED <<relayVars, sent, consumed, blocked>>

\* The relay has returned.
Returned == pc = "done" /\ UNCHANGED vars

Next == \/ Relay \/ Returned
        \/ PppdWrites \/ PppdWrote \/ PppdReads \/ PppdExits
        \/ ModemWrites \/ ModemReads \/ ModemCloses

Spec == Init /\ [][Next]_vars

\* The relay is scheduled; pppd reads unless a write holds it; the call reads
\* its descriptor in every pass of pump_ppp while the line takes bytes.
FairSpec == Spec /\ WF_vars(Relay) /\ WF_vars(PppdWrote)
                 /\ WF_vars(PppdReads) /\ WF_vars(ModemReads)

-----------------------------------------------------------------------------
(* Properties.                                                             *)

\* As long as both ends are open, the sink of each direction is given exactly
\* the bytes of its source, in order: what the relay has read and not written
\* is what its buffer holds between off and len.
InOrder ==
    ends = Ends => \A d \in Dirs : intact[d] /\ given[d] + Held(d) = taken[d]

\* "back-pressure the modem already handles" (sm_pppd.c:146): while both ends
\* are open the relay is never ahead of a sink by more than one read.
BackPressure == ends = Ends => \A d \in Dirs : taken[d] - given[d] <= Chunk

\* No deadlock on a busy line (sm_pppd.c:136): what one end has sent reaches
\* the other, though pppd reads nothing while its own write is stuck.
BusyLineMoves ==
    \A d \in Dirs : \A n \in 1..MaxBytes :
        sent[d] >= n ~> (consumed[d] >= n \/ ends # Ends)

\* When either end goes, the relay returns, so that the other one learns of it.
EofEndsRelay == \A e \in Ends : Closed(e) ~> pc = "done"

=============================================================================
