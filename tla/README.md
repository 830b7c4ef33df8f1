# A verification of the soft-modem gateway

This directory holds TLA+ models of the program under `src/src/`, the TLC
configurations that check them on small instances, and theorems about them with
proofs for TLAPS.  Paths below are relative to the repository; `sm_call.c:1042`
means `src/src/call/sm_call.c`, line 1042, and so on.

    tlc -config MCCallAll.cfg MCCall        # check one run
    tlapm CallProofs.tla                    # check one module's proofs

`PROJECT.json` lists the components, the runs with the properties each checks,
the lines every definition stands for, the hazards and the theorems.

## 1. The system

A dial-up modem answers a telephone call, trains with the calling modem, and
carries the bytes of a PPP link to `pppd`.

    caller --SIP/RTP--> sm_sip --AudioSocket--> sm_daemon --fork--> one call
                        (bridge)                                     |  sm_call_run
    Asterisk ------------------AudioSocket-----------^               |  engines: BinModem,
                                                                     |  V.8, V.34, V.22bis
                                        pppd <--pty-- relay <--socketpair--+

| part | source | state | operations | talks to |
|---|---|---|---|---|
| call | `call/sm_call.c` | phase, mode, engine handles, answer tone, squelch, deframer, bit queue, pppd's pid and descriptor, timeout count | one pass of `sm_call_run` per AudioSocket message: `process_audio`, `pump_ppp`, reap, clean-up | AudioSocket, engines (callbacks `call_put_bit`, `call_get_bit`, `call_status`, `call_v8_result`), pppd's relay |
| SIP bridge | `sip/sm_sip.c` | the one call, its RTP socket and daemon connection, the queue of received frames, the 20 ms clock | INVITE, ACK, BYE, CANCEL; RTP in; daemon watch; ticks | callers (UDP), daemon (AudioSocket) |
| V.22bis | `modem/v22bis/*.c` | transmitter and receiver sequencers, symbol counts, the shared bit rate, carrier detection | one symbol sent, one heard | the other modem (line), the call (callbacks) |
| pppd relay | `ppp/sm_pppd.c` | one buffer each way | a poll loop of four moves; spawn | pppd (pty), the call (socket pair) |
| AudioSocket | `ast_socket/sm_ast_socket.c` | the partial message of a reader | resumable read, write with timeout, open and accept | everything above |
| daemon | `main/sm_daemon.c` | the run flag, the listening socket, the number of the next call | listen, accept, fork, signals, exit | AudioSocket, calls, a second daemon |
| start-stop layer | `serial/sm_async.c` | deframer, bit queue with two wrapping counters | a bit in, bytes out; a byte in, bits out | engines, the call |
| V.8 wrapper | `modem/v8/sm_v8.c` | a handle of spandsp's | create, process, result | the call |
| sample ring | `audio/sm_ring.c` | head, tail, lock | write, read, drop, clear, peek | nothing creates one |
| BBS and doors | `bbs/` | stage, input line, early PPP bytes, the user, the row of this connection, the game; tables `users`, `connections`, `game_state` | feed, tick, route, take early bytes, destroy; a game's open and input | the call (`pump_ppp`), the database, other sessions through it; nothing in the daemon starts one |
| filters, logging, vendored engines | `dsp/`, `logging/`, `third_party/` | | | |

### What is hard about it

* One thread per call drives four engines that report through callbacks, in the
  middle of `process_audio`.  The order of poll, service and step decides whether
  bits made of a handshake count as data (`sm_call.c:689`).
* pppd, its relay, the far end and the signals of the system act between any two
  steps of a call: pppd dies while its pid is being looked at; a pid that has been
  reaped is signalled.
* Everything must end: a call whose far end is silent, a bridge whose daemon hung
  up, a relay one of whose ends has gone.
* SIP is datagrams that are lost, repeated and reordered, and the bridge serves one
  call at a time for callers that do not know of each other.
* Two modems agree on a bit rate by what they hear of each other: the only thing
  that makes them agree is a set of symbol counts.
* pppd and the call write before they read; a relay that waits on one of them
  stops both.
* A message of the AudioSocket arrives in any pieces, with timeouts between them.
* Bytes are made of bits that a line may turn over, and pushed into a ring that may
  be full, by a call that may be in a handshake; a retrain may come in the middle of
  a byte.
* A forked process holds a copy of every descriptor its parent had: a socket is closed
  when the last of the daemon, the call, pppd and its relay has closed it.
* Sessions of several calls write to one database, statement by statement, and any
  statement may fail while another process has it locked.

What makes each part correct follows from this list; section 4 states it run by run.

## 2. The modules

### Call, PppSession, MCCall, CallProofs

`Call` is `sm_call_init`, `sm_call_run` and everything they call.  The call is one
thread, and `pc` is the point it has reached; a message takes it through
`audio -> bmstep | engine -> v8switch -> detect -> reply -> pump -> reap`, in the
order of the code, with the early returns of `process_audio` as jumps.  The
environment (`PppdExits`, `RelayCloses`, `FarEndStops`) may act between any two
points.  The engines that are not part of the program (BinModem, V.8, V.34) report
anything their interface allows in each step.

* Bytes are known by where they came from: `"link"` when decoded in data mode,
  `"noise"` when made of a handshake.  `deframer`, `bmRx` and `ppy_out` are sets of
  these, which is all `DataModeBytesOnly` needs.
* Samples are counted in messages: `tone`, `rx_guard` and `bm_nocarrier` are the
  code's sample counts divided by a message.  `farEnd` says whether messages still
  come; in `"silent"` the connection is open and only timeouts happen.
* `training` is how far V.22bis has come: what `V22bis` models symbol by symbol is
  here the order in which its transmitter and receiver may arrive.
* A configuration is a record of Booleans: BinModem, V.8, V.34, the answer tone, PPP
  and echo, on or off, and `sigchld_ignored`, the one fact about the process around the
  call that matters: with SIGCHLD ignored the kernel reaps pppd and `waitpid` never
  answers its pid.  `AllConfigs` is all 64 of the daemon, which ignores it, and the PPP
  calls of a process that does not.

`PppSession` is the abstract promise to pppd: the link comes up, may drop and come up
again; pppd is started at most once and only while the link is up; a call that is
over stays over; it is released with pppd gone.  `Session` in `Call` maps a call's
state to it (`Link`, `Process`), and `KeepsSession` is the refinement.

### SipBridge, MCSipBridge, SipBridgeProofs

`SipBridge` is the thread of `sm_sip_run` with its handlers.  A turn is: the daemon
watch, one RTP packet or else one SIP message, then the ticks that are due; `loop`
says which half it is in.  Each caller places one call and is named by it.  The
network keeps at most one copy of each request, which may be read any number of
times (repetition), in any order, or lost; the bridge's own datagrams may be lost.
The daemon's child at the other end of the AudioSocket answers a frame, ends, or
times out; `fed` and `answered` are the frames between it and the bridge.  A frame
in `rxq` is named by the call whose RTP socket it came from, so that audio of one
call heard in another is visible.

### V22bis, MCV22bis, V22bisProofs

`V22bis` is two modems and the line between them.  One `Tick` is one symbol at both
ends: `TxStep` is `training_get`, `RxStep` and `Decide` are `v22bis_rx` and
`process_half_baud`.  The constants of the sequencers are those of the code, so the
runs use the real counts: 40 symbols of acquisition, 611 ms of unscrambled ones of
which the last 456 ms must be clean, 100 ms of S1, 23 of 31 alternations, 400 ms
before committing to 1200, 756 ms of scrambled ones, 200 ms and nine symbols of ones
at 2400.  (They agree with what `tests/v22bis_loopback.c` measures.
`docs/v22bis.md` gives other figures for two of them: 270 ms to commit and 15
repeats of S1; the model has the code's.)  A symbol is abstracted to its segment.  What the demodulator
may or may not make of the S1 that is left after acquisition, and of data that
looks like ones, is a choice.

### PppShim, PppShimProofs

`PppShim` is the loop of `sm_pppd_shim_main`: `Poll` takes what poll reports, and
the four moves follow in their fixed order, each acting on that report even when the
ends have changed since.  The bytes of each direction are numbered, so that loss,
duplication and reordering show in what is given (`intact`).  pppd blocks in a write
when its pty is full and then reads nothing; the call never blocks.

### AstSocket, AstSocketProofs

`AstSocket` is one direction of a connection: `sm_ast_write` at one end,
`sm_ast_read` at the other.  One byte moves per step, which makes every split of
every message a behaviour.  A byte is known by its message and its place in it; the
reader takes kind and length out of whatever bytes it has come to treat as a header,
so a reader that loses its place is caught and not assumed away.  The payload that
does not fit is read and dropped, and the length reported is the message's, as in
the code.  The writer closes in an orderly way: a reset, which may discard bytes the
reader has not fetched, is left out.

### Async, BytePath, MCBytePath, BytePathProofs

`Async` is `sm_async.c` as operators.  The bit queue is a record of the ring and its
two counters, which count modulo `Wrap` and are masked only when the ring is indexed;
the deframer is its state machine bit by bit, with the flush of a full output.  A byte
is the sequence of its `DataBits` bits.

`BytePath` composes them with their user.  One pass is one message: `TransmitBit` pulls
the message's bits (`call_get_bit`), `DataBit` delivers as many (`call_put_bit`), one of
which the line may turn over, and `PumpPpp` or `PumpEcho` is a whole pass of `pump_ppp`
with `ppp_flush`.  A retrain may come between any two bits: it drops what the deframer
holds, and the far end may keep or forget its half of a byte.  pppd writes and reads a
byte at a time through a socket pair that fills up, and may close.  `accepted`,
`decoded`, `far`, `inStep`, `quiet` and `loss` are history the properties are stated in.
Where `Call` says in which phase a byte was decoded, `BytePath` says which byte it is.
The transmitter is asked for no bits in training, as V.22bis does it.

### Daemon, DaemonProofs

`Daemon` is `main` of `sm_daemon.c` for an old daemon and its replacement, one process
per call, and pppd with its relay as one process per call.  `files` is the descriptors
of every process, `Fork` copies the daemon's into the child, and `StartPppd` the call's
into pppd, which may close those it did not ask for.  A socket is closed when nobody
holds it (`Held`): then who waits in its backlog is reset (`Settle`).  On a Unix path a
new daemon takes the path from whoever listens behind it; on a port it cannot bind while
anything listens.  Forks fail, accept fails, signals come at any point, and a call ends
of itself or by a signal.

### Doors, Bbs, MCBbs, BbsProofs

`Doors` is what each game does with a line, as a function from what it holds to the set
of what may come of it: cards and the generator's draws are choices.  `Bbs` is the
session: `Feed` is the beginning of `bbs_session_feed`, `Byte` and one action per case
of `handle_line` its loop, `Tick` is `bbs_session_tick`, and `Comes`, `PumpRoute`,
`CallEnds` are what the call does with a session.  A statement of the database is a
step, so those of two sessions interleave, and any may fail while another process has
the database open (`Busy`).  `LoadKey` and `SaveKey` are the statements of a game.
What is typed is a sequence of tokens: a character, or a word nothing looks inside of,
a terminal's report, a part of a PPP frame.  `broken` marks a session one of whose
statements has failed, or that was killed.  `ScenarioAssumption` is what a scenario may
be: a handle is registered once (UNIQUE, `bbs.c:91`), and a feed is shorter than the early
buffer, because `pump_ppp` takes at most 256 bytes at a time (`sm_call.c:394`).

## 3. How the models relate

`Call` has the outcomes of `V22bis` (its `training`), of the relay (`ptyEof`, bytes
that move or not) and of the AudioSocket (a message, a timeout, an end) as choices;
the three modules show what those choices stand for.  `BytePath` refines what `Call`
does to `deframer` and `ppy_out` from sets of origins to the bytes themselves, over
`Async`, and has the relay of `PppShim` as the other end of its socket pair.  `Daemon`
has `Call` as a process that begins, may start pppd and ends, and gives it the two
things it depends on: its own connection, and SIGCHLD ignored.  `Bbs` stands where
`pump_ppp` hands a call's bytes to a session in place of pppd.  `SipBridge` has the daemon's
child, that is `Call`, as `Child`: it answers, ends, or times out before audio
starts, which is what `CallEnds` of `Call` promises of it.

## 4. The runs

The first column is the run; bounds are in the `.cfg` files.

| run | checks | what it shows |
|---|---|---|
| `call` | `EngineOwnsLine`, `DataModeBytesOnly`, `NoCarrierClock`, `V8OutcomeActedOn`, `CleanExit`, `NoStraySignal`, `KeepsSession`, `CallEnds`, `PppdDeathNoticed` | every configuration and every engine outcome: one engine drives the line, nothing decoded in a handshake or before a retrain reaches pppd, everything is released, the call implements `PppSession`, and it ends once the far end has stopped; where `waitpid` can see pppd die, the call ends and no stranger is signalled |
| `call_reap_daemon` | `PppdDeathEndsCall` (fails) | pppd dies in a call of the daemon, which ignores SIGCHLD |
| `sip_safety` | `NothingLeaks`, `AudioOfThisCall`, `OnlyOwnerEnds` | two callers and an unreliable network: descriptors and call agree, audio stays in its call, only the owner or the daemon ends one |
| `sip_live` | `UnheardCallEnds`, `GhostCallEnds`, `ByeEndsCall` | calls nobody speaks in, calls set up by a late INVITE and calls whose caller says BYE all end |
| `sip_bye` | `ByeOnSipSocket` (fails) | where the bridge's own BYE goes |
| `v22bis_train` | `RatesAgree`, `DataFindsListener`, `BothTrain` | every pair of rates, three delays, a caller there at once or half a second late: both ends train, to the same rate, and no data is sent to a receiver in training |
| `relay` | `InOrder`, `BusyLineMoves`, `EofEndsRelay` | full queues, split reads and writes, ends that close: nothing lost or reordered while both are open, no deadlock, the relay returns |
| `ast_socket` | `FramesIntact`, `NothingLostAtEof`, `EveryMessageArrives` | every split, timeout and oversize payload: the messages written are returned, once, in order, and all before the end |
| `byte_path` | `TxExact`, `DropsOnlyWhenAhead`, `InStepDecodes`, `RxInOrder`, `NeverFlushed`, `TxArrives` | the far end decodes exactly the bytes let into the queue; pppd's bytes are dropped only when it is further ahead of the line than the queue is long; a deframer that has heard an idle line is in step and decodes each frame as the byte it is; pppd, or the far end in the echo mode, gets what was decoded in order; the deframer never empties itself; what is in the queue arrives |
| `daemon` | `OnlyItsOwn`, `PortIsFree`, `AtMostOneMore`, `EveryCallerHeard`, `HangupSeen` | a caller's connection is held by its own call and pppd only; a stopped daemon's port is free although its calls go on; a daemon told to stop takes one more call at most; who waits is answered or reset; who was in a call sees it end |
| `daemon_term` | `TermEndsDaemon` (fails) | SIGTERM to a daemon that waits in accept |
| `bbs` | `EarlyFrameWhole`, `InsideIsSomebody`, `OneRowEach`, `GamesInBounds`, `SavedGame` | pppd is given all of an early frame or nothing; behind the login is the user who gave the password; each session completes its own row; a game shows only states it allows, and what it shows is what is saved |

The type invariants (`TypeOK` of each module) and the facts `DataModeHasPppd`,
`BackPressure` and `Consent` are in no run by themselves: they are proved for every value
of the constants (section 5), which is more than a run would show.

### Bounds, and why they are enough

* **Call.** Counters matter at zero, at their limit and in between: two or three
  messages of tone, squelch and missing carrier and two or three timeouts have all
  of these.  The proofs are for every bound.
* **SipBridge.** Two callers are the owner and the other one; a third would be told
  Busy by the same line.  A ring of three slots holds two frames and so drops the
  oldest.  `MaxLag` caps the frames the child owes: the code has no cap, and a child
  further behind behaves as one that is one behind.  The liveness run has one caller,
  larger queues and more lag: another caller does not change the bridge's call (`OnlyOwnerEnds`),
  it is told Busy.
* **V22bis.** The counts are the code's; the delays are none, one 20 ms frame and six.
  The runs are long and thin: a training is a thousand symbols and more.
* **PppShim.** Three bytes each way with a read of two, a buffer of four and queues of
  two: partial reads, partial writes, both queues full at once and a blocked pppd all
  occur.
* **AstSocket.** `Base` is 3 rather than 256, and lengths 0, 1 and 4: an empty payload,
  one that fits, one whose length needs both bytes and is larger than the buffer of
  two.  The connection holds four bytes and the longest message takes seven, so the
  writer waits and gives up in the middle of one.
* **BytePath.** Bytes of two bits, a queue of eight bits, which holds two frames, and
  counters modulo 16, so that the ring and the counters wrap within three bytes; a message of three bits,
  so that frames end anywhere in a message; buffers of one or two bytes.  Each load is
  a few bytes down, up, or both, with one turned bit or none, or an echo.
  `BytePathAssumption` has the relations of the real sizes that matter: a message
  (at most 672 bits, at 33600 b/s and 20 ms) never brings more bytes than a pass takes
  (256), and its bits with one frame more fit in the queue (682 of 65536), which is why
  an echo loses nothing.  AudioSocket would allow longer messages.
* **Daemon.** Two starts and two callers: the old daemon and the new one, a call of each,
  or two of one.  The backlog holds both.  `daemon_term` needs one of each.
* **Bbs.** One caller with every token at the first prompt, one for each game, one for
  the settings, and two calls at once, of one user and of two; `moves` bounds the lines
  given to a game.  A line of two tokens and three early bytes reach both limits.

### Fairness, and why the code justifies it

* `Call`: weak fairness of the thread.  Every wait in it has a timeout
  (`sm_ast_read` with 2 and 5 s, `nanosleep`, `waitpid` after SIGKILL).  Nothing is
  assumed of the far end or of pppd.
* `SipBridge`: the loop turns (its poll has a timeout), the ticks catch up
  (`next_tick` is put right when it falls behind), the child's reads time out as
  `CallEnds` says, and a caller that is closing repeats its BYE and is heard if it
  goes on for ever: strong fairness of reading it, which is UDP's best effort.
* `V22bis`: samples keep coming (`Tick`).
* `PppShim`: the relay is scheduled; pppd reads unless it is stuck in a write; the
  call reads its descriptor in every pass.  Neither is assumed to write.
* `AstSocket`: the reader calls again until it is told of the end.
* `BytePath`: the call's thread runs, pppd reads what it is given, and messages keep
  coming: strong fairness of `ReadMessage`, because a timeout may take its place, and
  five in a row end the call.
* `Daemon`: each daemon takes its steps, a forked child begins, a relay that has seen
  the end of its socket ends.  Nothing makes a call or a daemon end.
* `Bbs`: none; its properties are of safety.

A run that sets `CHECK_DEADLOCK FALSE` is one of a system that may really stop: the
bridge after `--once`, daemons and calls that have all ended, sessions that are gone.

## 5. What is proved

`CallProofs` is for every set of configurations, both dispositions of SIGCHLD among
them, and every bound.  None of the properties is inductive.  `IInv` adds the order of things that
the code keeps without saying so: which points of the loop a hang-up cannot be at
(`LoopOrder`), what BinModem has queued when data mode begins (`BmOrder`), that V.8
has a result only if it exists (`V8Order`), that a message in place of the UUID is
too early to bring the link up (`GreetingOrder`), and that a living pppd's pid is
known (`PppOrder`).  One lemma per group of actions shows that the group keeps it.
From it: `TypeCorrect`, `OneEngine`, `BytesFromDataMode`, `CarrierCountIsFresh`,
`PppdIsStarted`, `ExitIsClean`, `V8IsActedOn`, and `CallImplementsSession`, that every
step is a step of `PppSession` or leaves it alone.  `SignalsStayHome` adds `PidIsOurs`:
where children wait to be reaped, a pid is forgotten when its process is, and the
process the SIGKILL is meant for is still one of the call's own.

`SipBridgeProofs` is for any callers, any size of the ring and any limit.  `IInv` is the
types and the two invariants with three facts they rest on: only an INVITE carries a session
description (`RequestsPlain`), the bound on what the child owes (`LagBound`), and a call is
only there while the loop goes on, because the attempt that reaches the limit is over before
it is counted (`CallCounts`).  From it: `TypeCorrect`, `NothingLeaksAlways`,
`AudioOfThisCallAlways`, `OneAttempt` (with `--once` a second attempt is never taken), and
from the steps themselves `OnlyOwnerEndsAlways`.

`DaemonProofs` is for any number of daemons, callers and places in the backlog.  The
properties are about who holds a descriptor, and hold because a caller is at one place only:
in one backlog once, or accepted by one daemon, or in one call (`OnePlace`).  `IInv` adds
what a daemon's position says of its accepted connection (`Accepted`, `Forked`), who may hold
a listening socket and a pair (`ListenerHeld`, `PairHeld`), that the dead hold nothing
(`GoneHolds`), that only a daemon that was in accept when it was told to stop has a late call
(`LateOnce`), and what `call_seq` counts (`SeqCounts`).  From it: `TypeCorrect`,
`OnlyItsOwnAlways`, `PortIsFreeAlways`, `AtMostOneMoreAlways`; `HangupWaitsForRelayAlways`,
the safety half of `HangupSeen`: once a call is over only its own relay, or the daemon in the
middle of the fork, keeps its caller from seeing the end; and `NumbersDifferAlways`: two calls
of one daemon never share a number, and with it the name of pppd's log.

`BbsProofs` is for any number of sessions, users and tokens.  `IInv` has the records'
fields (`Shape`), the tables and types, what was heard before the choice (`Early`), whose a
session is (`Somebody`), and, as long as no statement has failed, which row of `connections`
is whose (`Rows`); the last is about all sessions at once, because one whose INSERT has
failed may complete another's row.  From it: `TypeCorrect`,
`EarlyFrameWholeAlways`, `InsideIsSomebodyAlways`, `OneRowEachAlways`.  `GInv` adds
`Playing`: handles are unique, the table of games is keyed by the games' keys and empty for
who has never played, each game's state is one it allows (`Holding`), and for a session that
is alone with its user's rows the rows are, key by key, what the save under way has done and
the load has read (`Right`).  From it: `GamesInBoundsAlways`, `SavedGameAlways`.

`BytePathProofs` is for every size of byte, frame, queue, counter, message and buffer.
`IInv` has, towards the far end, that the ring from `head` to `tail` is the rest of a
sequence of frames whose beginning has been sent, and that the far end's deframer is what
hearing that beginning makes of it (`TxPath`); that pppd's bytes are those let in and those
still in the socket (`FromPppd`); from the far end, that what pppd was given, with what is
on its way, is a subsequence of what was decoded, by an increasing map (`RxOrder`), what a
message can have brought (`RxBound`, `EchoBound`), how many ones have been heard in a row
(`Quiet`), and where in the far end's frame a deframer in step is (`InFrame`).  The
counters enter through lemmas on remainders: a ring whose size divides what they wrap at is
read where it was written however often either has wrapped.  Most of it is about sequences of
any length, and the library's induction theorems cannot be used for that (they take an
operator); `Least` and `UpTo` take their place.  They say, from the well-foundedness of the
naturals, that a set of naturals has a least element and that one closed under successor has
all of 0..N, and with them the recursive functions of `Async` and `BytePath` are shown to
exist and to do on a longer sequence what they say (`DeframeIs`, `ListenIs`,
`SubsequenceIs`).  From it: `TypeCorrect`, `TxExactAlways`, `FromPppdAlways` (with the one
before it: the far end decodes what pppd wrote, in order, until a byte is dropped),
`InStepDecodesAlways`, `RxInOrderAlways`, `NeverFlushedAlways`, `DropsOnlyWhenAheadAlways`.

`V22bisProofs` is for any rates, delays and late starts, and any dip.  `IInv` says of each
end how far its two counts go in each state (`TxCounts`, `RxCounts`) and what its rate rests
on (`Agreed`): an end that sends S1 is configured for 2400, one that has heard any has a far
end that is, and one that works at 2400 has both; and of the line, that S1 is on it only from
an end that may send it (`Carried`).  From it: `TypeCorrect` and `ConsentAlways`, for any
dip.

Whether the ends agree is a matter of time, and the argument is a timetable.  A training
has a delay, a start, and one choice: when, and at which rate, the answerer ends U11; every
other event comes a number of symbols after one of these.  `Timetable` is those times,
`AnswererSends` and `CallerSends` the segment each end sends symbol t of, and `Answers` and
`Replies` the state of each sequencer at t.  `OnTime` says that some timetable and some t
describe both ends and all that is on the line.  A symbol keeps it (`TickOnTime`): what
arrives is what the timetable has the other end send a delay ago (`LineDelivers`,
`Arrivals`), and the sequencers, one state at a time, do with it what the timetable says
(`CalledNext`, `AnswersAt1200Next`, `AnswersAt2400Next`, `CallsNext`, `RepliesAt1200Next`,
`RepliesAt2400Next`).  Before the answerer has answered, a symbol either puts off the answer
of the timetable or settles it; nothing that was sent by then depends on it (`Postpone`).
From it, for every delay, start and pair of rates: `OnTimeAlways`, `RatesAgreeAlways`,
`DataFindsListenerAlways`, and `TrainedForGood`, the safety half of `BothTrain`: an end that
has trained stays trained, at its rate.

`TrainsInTime` is `BothTrain` with a bound: 1415 symbols (2.36 s) and four times the delay of
the line after both ends have been running, both are trained.  `clock` is a history variable
that counts those symbols beside the specification (`CountedSpec`: every step is one of
`Next`).  Before the answerer has answered, the timetable alone bounds nothing, since the
answer can be put off; what bounds it is that the S1 the answerer has heard is forgotten nine
symbols after the last of it (`ListenForgets`, `SearchForgets`): S1 lasts 60 symbols, from
the 69th on the answerer's count runs undisturbed (`Waits`), and at 240 it answers
(`WaitsBriefly`), at most 309 symbols after the caller is heard (`Prompt`).  The rest is a sum: 45 symbols of silence, 367 until the caller
replies to unscrambled ones, those 309, and 694 of the caller's S11 and what follows.  On the
run's constants TLC finds the bound met and 1410 too small.

These five have the hypothesis `DipLength < CarrierLoss`: no silence in data mode is as long
as the 100 ms after which `v22bis_rx` takes the carrier for lost.  They are false without it:
with a dip of 60 symbols TLC finds the answerer restarted and the rates different (section 6,
`v22bis_rx.c:728`).  The run has the longest dip the hypothesis allows, 59.

`PppShimProofs` is for every chunk, buffer and queue size and any number of bytes.
`IInv` is the types and `Faithful`: while both ends are open a buffer holds exactly
the bytes between what was given and what was taken, at their places.  From it:
`TypeCorrect`, `StreamsInOrder`, `RelayHoldsBack`.

`AstSocketProofs` is for every base, message length, buffer and number of messages.
Both ends have a place in the stream, the byte they send or expect next
(`WriterAt`, `ReaderAt`); `IInv` says that each byte of the stream is the successor
of the one before (`StreamInv`) and that the reader's fields are what the writer's
messages make of its place (`ReaderInv`).  A byte that arrives is then the one the
reader expects (`Arrival`), the length it computes from two bytes is the writer's
(`DivMod`), and the last byte completes the message (`ReturnInv`).  From it:
`TypeCorrect`, `FramesStayIntact`, `EofIsLast`; the last because at the end both
ends are at the same place.

The assumptions are the `ASSUME`s of the modules: sizes are positive naturals,
configurations are records of the stated shape, and the hypothesis of five theorems of
`V22bisProofs`.

Only model-checked:

* everything with fairness (`CallEnds`, `PppdDeathNoticed`, the fairness half of
  `KeepsSession`, `UnheardCallEnds`, `GhostCallEnds`, `ByeEndsCall`, `BothTrain`,
  `BusyLineMoves`, `EofEndsRelay`, `EveryMessageArrives`, `TxArrives`, `EveryCallerHeard`,
  `HangupSeen`), because TLAPS does not reason about ENABLED.
  Of `BothTrain` that leaves only that symbols go on arriving: how many are enough is
  `TrainsInTime`.

Every safety invariant that a run checks is proved.

## 6. What was found

* **pppd's death is not noticed** (`sm_daemon.c:195`, run `call_reap_daemon`).  The
  daemon ignores SIGCHLD, its children inherit that, and `waitpid` never answers
  pppd's pid; "If pppd died, the data path is gone: end the call" (`sm_call.c:1100`)
  does not happen.
* **SIGTERM does not end the daemon** (`sm_daemon.c:198`, run `daemon_term`).  The
  handler is installed with SA_RESTART, so accept goes on: "EINTR: check g_run"
  (`sm_daemon.c:235`) is never reached, and the daemon takes one more call first.
* **The bridge's BYE goes to the RTP socket** (`sm_sip.c:547`, run `sip_bye`); the test
  client listens for it on its SIP socket.

Seen while modelling, and kept here without a run of its own:

* A forced V.34 that fails stays in V.8 (`sm_call.c:880`), though the log says it falls
  back to V.22bis; `V8OutcomeActedOn` is stated for the outcomes of V.8 itself.
* A carrier lost in data mode changes what is sent (`v22bis_rx.c:728`): the receiver's
  restart resets a rate the transmitter shares, against the comment at line 571.
* The relay reads without room (`sm_pppd.c:195`): poll reports a hang-up whatever was
  asked for, and `len` grows past the buffer when the other end takes nothing.
* The 487 to a CANCEL carries the CANCEL's CSeq (`sm_sip.c:933`); a reply of the daemon
  that is later than 200 ms delays the audio for the rest of the call (`sm_sip.c:616`);
  `sm_ast_read` takes a timeout of 0 for a poll where its header says "block forever".
* A retrain drops bytes the deframer had completed and the call not yet taken, with the
  partial one the comment speaks of (`sm_call.c:157`); when pppd's end closes, `ppp_fd` is
  forgotten without being closed (`sm_call.c:539`); "the bits wait in the queue"
  (`sm_call.c:489`) holds only as far as `DropsOnlyWhenAhead` says.
* Any error of accept but two, a lack of descriptors among them, ends the daemon with
  exit code 0 (`sm_daemon.c:237`); a SIGTERM that reaches a child between fork and
  `sm_daemon.c:260` is taken by the daemon's handler and forgotten; a Unix path is
  removed before it is known whether it can be bound (`sm_ast_socket.c:49`); `MAX_CALLS`
  is not used; call numbers start at 0 again with each daemon, and with them the names
  of pppd's logs.
* In the BBS: the rest of a chunk after the line that chose PPP is read as typed text and
  may choose again, and is not given to pppd (`bbs.c:315`); a frame after noise is not
  recognised (`bbs.c:309`); an empty line is ignored where the text says to press ENTER
  (`bbs.c:318`); "[Q] Return" of the connection screen is the main menu's Q, which hangs
  up (`bbs.c:210`, `bbs.c:278`); a terminal's report that comes after 1500 ms enters the
  line, against the comment at `bbs.c:166`; an INSERT that fails leaves the connection
  with the id of another row, or none (`bbs.c:144`); a game whose save is broken off
  between two keys loads a state it never made.

## 7. What is not modelled, and why

* Signal processing (`dsp/`, the equaliser and the timing of `v22bis_rx.c`): numbers
  without control.  The models take what it decides.
* The engines under `third_party/`: vendored; used through their interfaces.
* The V.22bis retrain: nothing in the repository starts one.
* Parsing of SIP and SDP, the option parsers, logging: conversions, abstracted to the
  fields they yield.
* The V.8 exchange: third-party; `Call` has what the wrapper reports.
* The sample ring: nothing creates one, so there is no producer and consumer to model it
  with.  (Its locked variant takes its own lock twice.)
* In `Bbs`, a database that cannot be opened at all, and two sessions' view of the same
  statement: SQLite serialises those.
* In `BytePath`, messages other than 20 ms ones, see section 4, and the start of pppd
  failing, which is in `Call`.

## 8. Plan

Done: `Call` with `PppSession`, `SipBridge`, `V22bis`, `PppShim`, `AstSocket`; `Async`
and `BytePath`; `Daemon`; `Doors` and `Bbs`; and the safety of all of them proved.  Left, in
this order:

1. `Gateway`: `SipBridge` with `Call` in place of its `Child`, and `AstSocket` between
   them: the bridge's and the call's view of who hung up.
2. The unmodelled rest of `sm_sip.c`: the ladder of optional headers and SDP answers, as
   conversions with a reference definition.
