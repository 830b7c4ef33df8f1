----------------------------- MODULE SipBridge -----------------------------
(***************************************************************************)
(* The SIP bridge, src/src/sip/sm_sip.c: one thread that answers SIP over  *)
(* UDP, carries one call at a time between the caller's RTP and a daemon   *)
(* connection, and pumps audio on a 20 ms clock.  sm_sip_run is a loop     *)
(* whose turn is: wait in poll, look at the daemon, then one RTP packet or *)
(* else one SIP message, then the ticks that are due.                      *)
(*                                                                         *)
(* Outside it: callers, one call each, so that a caller names its Call-ID; *)
(* a network that loses and reorders datagrams and repeats requests; and   *)
(* the daemon's child, one per connection.  Audio is abstracted to whole   *)
(* frames; a frame in rxq is named by the call it was received in.         *)
(* REGISTER, OPTIONS, unknown methods and responses change no state here.  *)
(***************************************************************************)
EXTENDS Integers, Sequences

CONSTANTS
    Callers,  \* every caller places one call
    NoCall,   \* call_active = 0
    Limits,   \* the values of max_calls: -1 for none, 1 with --once
    RxqSize,  \* SM_SIP_RXQ: the ring holds one frame less
    MaxRtp,   \* packets the kernel holds for rtp_fd
    MaxLag    \* frames the daemon may owe the bridge, a bound of the model

ASSUME SipAssumption ==
    /\ NoCall \notin Callers
    /\ Limits \subseteq {-1, 1}
    /\ RxqSize \in Nat /\ RxqSize > 1
    /\ MaxRtp \in Nat \ {0}
    /\ MaxLag \in Nat \ {0}

VARIABLES
    loop,         \* where sm_sip_run is: "poll", "ticks", "exited"
    call,         \* call_id while call_active, else NoCall
    media_active,
    fds,          \* descriptors open for calls: RTP socket, daemon connection
    rtp_known,    \* rtp_peer_known
    rxq,          \* the received frames waiting for their tick
    rtpin,        \* packets waiting on rtp_fd
    max_calls,    \* never changes
    calls_done,   \* ended attempts, counted only against a limit
    child,        \* the connection's far end: "none", "up",
                  \* "closed" (FIN sent), "reset" (poll reports an error)
    fed,          \* frames written that the child has not answered
    answered,     \* replies waiting on daemon_fd
    stage,        \* where each caller is
    reqs,         \* requests on their way to the bridge
    inbox         \* the last datagram on its way to each caller

bridgeVars == <<call, media_active, fds, rtp_known, rxq, rtpin, calls_done>>
childVars == <<child, fed, answered>>
netVars == <<reqs, inbox>>
vars == <<max_calls, loop, bridgeVars, childVars, stage, netVars>>

Request == [method : {"INVITE", "ACK", "BYE", "CANCEL"}, id : Callers,
            sdp : BOOLEAN]

\* What reaches a caller: the status (0 for a request of the bridge's own),
\* the method of its CSeq, and the socket it is addressed to.
Datagram == [status : {0, 200, 486, 487, 488, 500, 503},
             cseq : {"INVITE", "BYE", "CANCEL"}, port : {"sip", "rtp"}]
Nothing == [status |-> 0, cseq |-> "INVITE", port |-> "sip"]

Req(method, c) == [method |-> method, id |-> c, sdp |-> FALSE]
Response(status, cseq) == [status |-> status, cseq |-> cseq, port |-> "sip"]

-----------------------------------------------------------------------------
Init ==
    /\ loop = "poll"
    /\ call = NoCall /\ media_active = FALSE
    /\ fds = 0 /\ rtp_known = FALSE /\ rxq = <<>> /\ rtpin = 0
    /\ max_calls \in Limits /\ calls_done = 0
    /\ child = "none" /\ fed = 0 /\ answered = 0
    /\ stage = [c \in Callers |-> "idle"]
    /\ reqs = {}
    /\ inbox = [c \in Callers |-> Nothing]

\* send_response and send_raw: the datagram replaces one still on its way,
\* which the network then loses.
Send(c, d) == inbox' = [inbox EXCEPT ![c] = d]

\* send_bye: addressed to rtp_peer, the caller's RTP socket.
SendBye ==
    IF rtp_known
    THEN Send(call, [status |-> 0, cseq |-> "BYE", port |-> "rtp"])
    ELSE UNCHANGED inbox

\* end_call without its reset of the queue.
EndCall_KeepsQueue ==
    /\ call' = NoCall /\ media_active' = FALSE
    /\ fds' = 0 /\ rtp_known' = FALSE /\ rxq' = rxq /\ rtpin' = 0
    /\ calls_done' = IF max_calls < 0 THEN 0 ELSE calls_done + 1
    /\ child' = "none" /\ fed' = 0 /\ answered' = 0

\* end_call closes whatever is open; the child loses its connection.
EndCall ==
    /\ call' = NoCall /\ media_active' = FALSE
    /\ fds' = 0 /\ rtp_known' = FALSE /\ rxq' = <<>> /\ rtpin' = 0
    /\ calls_done' = IF max_calls < 0 THEN 0 ELSE calls_done + 1
    /\ child' = "none" /\ fed' = 0 /\ answered' = 0

-----------------------------------------------------------------------------
(* handle_invite, in the order of its returns.                             *)
Retransmitted(m) == call = m.id
Busy(m) == call \notin {NoCall, m.id}

InviteAgain(m) ==
    /\ Retransmitted(m)
    /\ Send(m.id, Response(200, "INVITE"))
    /\ UNCHANGED <<bridgeVars, childVars>>

InviteBusy(m) ==
    /\ Busy(m)
    /\ Send(m.id, Response(486, "INVITE"))
    /\ UNCHANGED <<bridgeVars, childVars>>

InviteNoAudio(m) ==
    /\ call = NoCall /\ ~m.sdp
    /\ Send(m.id, Response(488, "INVITE"))
    /\ UNCHANGED <<bridgeVars, childVars>>

\* The error returns of handle_invite without end_call.
InviteFails_NoEndCall(m) ==
    /\ call = NoCall /\ m.sdp
    /\ \E status \in {500, 503} : Send(m.id, Response(status, "INVITE"))
    /\ fds' = IF inbox'[m.id].status = 503 THEN 1 ELSE fds
    /\ UNCHANGED <<call, media_active, rtp_known, rxq, rtpin, calls_done,
                   childVars>>

\* socket, bind or getsockname fails (500), or the daemon cannot be reached
\* (503): end_call closes what had been opened.
InviteFails(m) ==
    /\ call = NoCall /\ m.sdp
    /\ \E status \in {500, 503} : Send(m.id, Response(status, "INVITE"))
    /\ EndCall

InviteAccepted(m) ==
    /\ call = NoCall /\ m.sdp
    /\ call' = m.id /\ media_active' = FALSE
    /\ fds' = fds + 2 /\ rtp_known' = FALSE /\ rxq' = <<>> /\ rtpin' = 0
    /\ child' = "up" /\ fed' = 0 /\ answered' = 0
    /\ Send(m.id, Response(200, "INVITE"))
    /\ UNCHANGED calls_done

HandleInvite(m) ==
    \/ InviteAgain(m) \/ InviteBusy(m) \/ InviteNoAudio(m)
    \/ InviteFails(m) \/ InviteAccepted(m)

\* handle_bye and handle_cancel without the comparison of Call-IDs.
Mine_AnyCall(m) == call # NoCall

\* SIP messages of a call that is active and heard are left for later.
Mine_OnlyUnheard(m) == call = m.id /\ ~rtp_known

\* strcmp(s->call_id, m->call_id) == 0 with a call active.
Mine(m) == call = m.id

HandleAck(m) ==
    /\ media_active' = (media_active \/ Mine(m))
    /\ UNCHANGED <<call, fds, rtp_known, rxq, rtpin, calls_done, childVars,
                   inbox>>

HandleBye(m) ==
    /\ Send(m.id, Response(200, "BYE"))
    /\ IF Mine(m) THEN EndCall ELSE UNCHANGED <<bridgeVars, childVars>>

\* Both responses go out, the 487 last.  The copy of the request that names
\* INVITE changes cseq_method only, and build_response prints m->cseq.
HandleCancel(m) ==
    IF Mine(m)
    THEN /\ Send(m.id, Response(487, "CANCEL"))
         /\ EndCall
    ELSE /\ Send(m.id, Response(200, "CANCEL"))
         /\ UNCHANGED <<bridgeVars, childVars>>

-----------------------------------------------------------------------------
(* One turn of sm_sip_run.                                                 *)

\* while (max_calls < 0 || s->calls_done < max_calls)
Running == max_calls < 0 \/ calls_done < max_calls

Leave ==
    /\ loop = "poll" /\ ~Running
    /\ loop' = "exited"
    /\ UNCHANGED <<bridgeVars, childVars, stage, netVars>>

\* The loop without lines 1046-1070, which look at the daemon between packets.
DaemonGone_NotSeen == FALSE

\* POLLHUP or POLLERR, or a readable socket on which MSG_PEEK finds the end:
\* a closed connection with replies still to read looks alive.
DaemonGone ==
    \/ child = "reset"
    \/ child = "closed" /\ answered = 0

PollDaemon ==
    /\ loop = "poll" /\ Running /\ DaemonGone
    /\ SendBye
    /\ EndCall
    /\ UNCHANGED <<loop, stage, reqs>>

\* The rest of the turn looks at RTP first, and at SIP only without it.  Any
\* packet makes its sender the RTP peer; one that is no PCMU is not queued.
PollRtp ==
    /\ loop = "poll" /\ Running /\ ~DaemonGone /\ rtpin > 0
    /\ rtpin' = rtpin - 1
    /\ rtp_known' = TRUE
    /\ rxq' \in {rxq, IF Len(rxq) = RxqSize - 1
                     THEN Append(Tail(rxq), call) ELSE Append(rxq, call)}
    /\ loop' = "ticks"
    /\ UNCHANGED <<call, media_active, fds, calls_done, childVars, stage,
                   netVars>>

PollSip(m) ==
    /\ loop = "poll" /\ Running /\ ~DaemonGone /\ rtpin = 0
    /\ m \in reqs /\ reqs' = reqs \ {m}
    /\ CASE m.method = "INVITE" -> HandleInvite(m)
         [] m.method = "ACK"    -> HandleAck(m)
         [] m.method = "BYE"    -> HandleBye(m)
         [] m.method = "CANCEL" -> HandleCancel(m)
    /\ loop' = "ticks"
    /\ UNCHANGED stage

PollTimeout ==
    /\ loop = "poll" /\ Running /\ ~DaemonGone /\ rtpin = 0
    /\ loop' = "ticks"
    /\ UNCHANGED <<bridgeVars, childVars, stage, netVars>>

\* audio_tick: a queued frame, or silence.
TakeFrame == rxq' = IF rxq = <<>> THEN <<>> ELSE Tail(rxq)

TickDue == loop = "ticks" /\ call # NoCall /\ rtp_known

\* feed_daemon writes the frame and waits up to 200 ms for one audio reply.
\* The child's answer to an earlier frame does as well as one to this frame.
TickForwards ==
    /\ TickDue
    /\ TakeFrame
    /\ \/ /\ answered > 0 /\ child # "reset" /\ fed < MaxLag
          /\ answered' = answered - 1
          /\ fed' = IF child = "up" THEN fed + 1 ELSE fed
          /\ child' = IF child = "up" THEN "up" ELSE "reset"
       \/ /\ answered = 0 /\ child = "up"
          /\ UNCHANGED childVars
    /\ UNCHANGED <<loop, call, media_active, fds, rtp_known, rtpin,
                   calls_done, stage, netVars>>

\* sm_ast_read returns 0 after 200 ms: the tick forwards nothing.
TickLate ==
    /\ TickDue
    /\ TakeFrame
    /\ answered = 0 /\ child = "up" /\ fed < MaxLag
    /\ fed' = fed + 1
    /\ UNCHANGED <<loop, call, media_active, fds, rtp_known, rtpin,
                   calls_done, child, answered, stage, netVars>>

\* The write fails, or the read finds the end of file.
TickEnds ==
    /\ TickDue
    /\ DaemonGone
    /\ SendBye
    /\ EndCall
    /\ UNCHANGED <<loop, stage, reqs>>

\* Nothing is due any more: next_tick is resynchronised when it falls behind.
TicksDone ==
    /\ loop = "ticks"
    /\ loop' = "poll"
    /\ UNCHANGED <<bridgeVars, childVars, stage, netVars>>

Bridge ==
    \/ Leave \/ PollDaemon \/ PollRtp \/ PollTimeout
    \/ \E m \in reqs : PollSip(m)
    \/ TickForwards \/ TickLate \/ TickEnds \/ TicksDone

-----------------------------------------------------------------------------
(* The daemon's child: sm_call_run at the other end of daemon_fd.          *)
ChildAnswers ==
    /\ child = "up" /\ fed > 0
    /\ fed' = fed - 1 /\ answered' = answered + 1
    /\ UNCHANGED <<loop, bridgeVars, child, stage, netVars>>

\* The call ends for a reason of its own.  Closing a socket with frames still
\* unread resets the connection.
ChildEnds ==
    /\ child = "up"
    /\ child' = IF fed > 0 THEN "reset" ELSE "closed"
    /\ UNCHANGED <<loop, bridgeVars, fed, answered, stage, netVars>>

\* Nothing comes before the RTP peer is known, and five reads in a row time
\* out.
ChildTimesOut ==
    /\ child = "up" /\ ~rtp_known
    /\ child' = "closed"
    /\ UNCHANGED <<loop, bridgeVars, fed, answered, stage, netVars>>

Child == ChildAnswers \/ ChildEnds \/ ChildTimesOut

-----------------------------------------------------------------------------
(* The callers and the network.                                            *)
CallerSends(c, from, to, method) ==
    /\ stage[c] = from
    /\ stage' = [stage EXCEPT ![c] = to]
    /\ reqs' = reqs \cup {Req(method, c)}
    /\ UNCHANGED <<loop, bridgeVars, childVars, inbox>>

\* The same INVITE may go out again for as long as nothing has come back.
Invite(c) ==
    /\ stage[c] \in {"idle", "inviting"}
    /\ stage' = [stage EXCEPT ![c] = "inviting"]
    /\ \E sdp \in BOOLEAN :
          /\ \A m \in reqs : m.method = "INVITE" /\ m.id = c => m.sdp = sdp
          /\ reqs' = reqs \cup {[Req("INVITE", c) EXCEPT !.sdp = sdp]}
    /\ UNCHANGED <<loop, bridgeVars, childVars, inbox>>

Cancel(c) == \E s \in {"inviting", "cancelling"} : CallerSends(c, s, "cancelling", "CANCEL")
Bye(c) == \E s \in {"talking", "closing"} : CallerSends(c, s, "closing", "BYE")

Talk(c) ==
    /\ stage[c] = "talking" /\ call = c /\ rtpin < MaxRtp
    /\ rtpin' = rtpin + 1
    /\ UNCHANGED <<loop, call, media_active, fds, rtp_known, rxq, calls_done,
                   childVars, stage, netVars>>

Vanish(c) ==
    /\ stage[c] \in {"inviting", "talking"}
    /\ stage' = [stage EXCEPT ![c] = "gone"]
    /\ UNCHANGED <<loop, bridgeVars, childVars, netVars>>

\* A caller reads its SIP socket: a 200 to its INVITE starts the audio and is
\* acknowledged, another answer to what it asked last is the end of its call.
Answers(c, d) ==
    \/ stage[c] = "inviting" /\ d.cseq = "INVITE"
    \/ stage[c] = "cancelling" /\ (d.cseq = "CANCEL" \/ d.status # 200)
    \/ stage[c] = "closing" /\ d.cseq = "BYE"

Receive(c) ==
    /\ inbox[c] # Nothing /\ inbox[c].port = "sip"
    /\ inbox' = [inbox EXCEPT ![c] = Nothing]
    /\ LET ok == stage[c] = "inviting" /\ inbox[c] = Response(200, "INVITE")
       IN /\ stage' = [stage EXCEPT ![c] =
                          IF ok THEN "talking"
                          ELSE IF Answers(c, inbox[c]) THEN "done" ELSE @]
          /\ reqs' = IF ok THEN reqs \cup {Req("ACK", c)} ELSE reqs
    /\ UNCHANGED <<loop, bridgeVars, childVars>>

\* A request that is lost is lost where the bridge would have read it, which
\* is as good as anywhere on its way.
LoseRequest ==
    /\ loop = "poll" /\ Running /\ ~DaemonGone /\ rtpin = 0
    /\ \E m \in reqs : reqs' = reqs \ {m}
    /\ UNCHANGED <<loop, bridgeVars, childVars, stage, inbox>>

LoseDatagram ==
    /\ \E c \in Callers : /\ inbox[c] # Nothing
                          /\ inbox' = [inbox EXCEPT ![c] = Nothing]
    /\ UNCHANGED <<loop, bridgeVars, childVars, stage, reqs>>

World ==
    \/ \E c \in Callers : \/ Invite(c) \/ Cancel(c) \/ Bye(c) \/ Talk(c)
                          \/ Vanish(c) \/ Receive(c)
    \/ LoseRequest \/ LoseDatagram

\* max_calls is a parameter of sm_sip_run.
Fixed == UNCHANGED max_calls

Next == (Bridge \/ Child \/ World) /\ Fixed

Spec == Init /\ [][Next]_vars

\* The loop of the bridge turns: poll always comes back, and the ticks catch
\* up.  The child's reads time out when nothing comes.
Turns == /\ WF_vars(Bridge /\ Fixed)
         /\ WF_vars(TicksDone /\ Fixed)
         /\ WF_vars(ChildTimesOut /\ Fixed)

\* A caller that closes repeats its BYE, and one that is repeated for ever is
\* received one day.
ByeIsHeard(c) ==
    /\ WF_vars(stage[c] = "closing" /\ Bye(c) /\ Fixed)
    /\ SF_vars(PollSip(Req("BYE", c)) /\ Fixed)

FairSpec == Spec /\ Turns /\ \A c \in Callers : ByeIsHeard(c)

-----------------------------------------------------------------------------
TypeOK ==
    /\ loop \in {"poll", "ticks", "exited"}
    /\ call \in Callers \cup {NoCall}
    /\ media_active \in BOOLEAN /\ rtp_known \in BOOLEAN
    /\ fds \in {0, 2}
    /\ rxq \in Seq(Callers) /\ Len(rxq) < RxqSize
    /\ rtpin \in 0..MaxRtp
    /\ max_calls \in Limits /\ calls_done \in 0..1
    /\ child \in {"none", "up", "closed", "reset"}
    /\ fed \in 0..MaxLag /\ answered \in 0..MaxLag + 1
    /\ stage \in [Callers -> {"idle", "inviting", "talking", "cancelling",
                              "closing", "done", "gone"}]
    /\ reqs \subseteq Request
    /\ inbox \in [Callers -> Datagram]

\* A call holds one RTP socket and one daemon connection; without a call
\* nothing of one is left, whichever of the ways out end_call was reached by.
NothingLeaks ==
    /\ fds = IF call = NoCall THEN 0 ELSE 2
    /\ child = "none" <=> call = NoCall
    /\ call = NoCall => ~media_active /\ ~rtp_known /\ rtpin = 0

\* No frame of one call is played into another: what waits in the queue came
\* in on the RTP socket of the call that is active.
AudioOfThisCall == \A i \in 1..Len(rxq) : rxq[i] = call

\* A call ends by its own caller's BYE or CANCEL or because the daemon went
\* away; no other caller's message, late, repeated or reordered, ends it.
EndedByOwner ==
    call # NoCall /\ call' # call =>
        \/ DaemonGone
        \/ \E method \in {"BYE", "CANCEL"} :
              Req(method, call) \in reqs \ reqs'
OnlyOwnerEnds == [][EndedByOwner]_vars

\* The comment at sm_sip.c:1046: a call whose RTP never starts does not stay
\* and make the next INVITE look busy.
UnheardCallEnds ==
    \A c \in Callers : (call = c /\ ~rtp_known) ~> (call # c \/ rtp_known)

\* A call that a late copy of an INVITE starts for a caller who has finished
\* with it ends by itself.
GhostCallEnds ==
    \A c \in Callers : (call = c /\ stage[c] = "done") ~> call # c

\* A caller that keeps saying BYE is let go, however much audio is queued.
ByeEndsCall ==
    \A c \in Callers : (stage[c] = "closing") ~> call # c

\* sip_client.c:599 looks for the bridge's BYE on its SIP socket.
ByeOnSipSocket ==
    \A c \in Callers : inbox[c].cseq = "BYE" => inbox[c].port = "sip"

=============================================================================
