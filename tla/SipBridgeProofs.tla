-------------------------- MODULE SipBridgeProofs --------------------------
(***************************************************************************)
(* What a call of the bridge holds, whose audio it plays and who may end   *)
(* it, proved for any callers, queue sizes and limits.  The proofs are     *)
(* about safety, so they start from Spec and need no fairness.             *)
(***************************************************************************)
EXTENDS SipBridge, SequenceTheorems, TLAPS

USE SipAssumption

\* Only an INVITE carries a session description, so any other request is known
\* by its method and its caller.
RequestsPlain == \A m \in reqs : m.method # "INVITE" => m.sdp = FALSE

\* The child owes or has answered no more frames than the bound of the model.
LagBound == fed + answered <= MaxLag

\* A call is only there while the loop goes on: the attempt that reaches the
\* limit is over before it is counted.
CallCounts == call # NoCall => Running

IInv == /\ TypeOK /\ NothingLeaks /\ AudioOfThisCall
        /\ RequestsPlain /\ LagBound /\ CallCounts

\* The types, by what they are of: the ring, the flags, the rest of the call,
\* and what the callers and the network keep.
TypeOfQueue == rxq \in Seq(Callers) /\ Len(rxq) < RxqSize

TypeOfFlags == media_active \in BOOLEAN /\ rtp_known \in BOOLEAN

TypeOfRest ==
    /\ call \in Callers \cup {NoCall}
    /\ fds \in {0, 2}
    /\ rtpin \in 0..MaxRtp
    /\ max_calls \in Limits /\ calls_done \in 0..1
    /\ child \in {"none", "up", "closed", "reset"}
    /\ fed \in 0..MaxLag /\ answered \in 0..MaxLag + 1

TypeOfCall == TypeOfQueue /\ TypeOfFlags /\ TypeOfRest

TypeOfWorld ==
    /\ stage \in [Callers -> {"idle", "inviting", "talking", "cancelling",
                              "closing", "done", "gone"}]
    /\ reqs \subseteq Request
    /\ inbox \in [Callers -> Datagram]

CallInv == TypeOfCall /\ NothingLeaks /\ AudioOfThisCall /\ LagBound /\ CallCounts
WorldInv == TypeOfWorld /\ RequestsPlain

\* The invariant is its two halves and the place of the loop: one step seldom
\* touches more than one half.
LEMMA Halves == IInv <=> loop \in {"poll", "ticks", "exited"} /\ CallInv /\ WorldInv
  BY DEF IInv, TypeOK, CallInv, WorldInv, TypeOfCall, TypeOfQueue, TypeOfFlags, TypeOfRest,
         TypeOfWorld

\* The same of the state after a step.
LEMMA HalvesNext == IInv' <=> loop' \in {"poll", "ticks", "exited"} /\ CallInv' /\ WorldInv'
  BY DEF IInv, TypeOK, CallInv, WorldInv, TypeOfCall, TypeOfQueue, TypeOfFlags, TypeOfRest,
         TypeOfWorld

-----------------------------------------------------------------------------
(* The operators the handlers share.                                       *)

\* The frames of a ring that stays in the call's hands: taking one off the
\* front and adding one of the call's own keep every frame the call's.
LEMMA RingOfCall ==
  ASSUME NEW c \in Callers, NEW q \in Seq(Callers),
         \A i \in 1..Len(q) : q[i] = c
  PROVE  /\ Append(q, c) \in Seq(Callers)
         /\ Len(Append(q, c)) = Len(q) + 1
         /\ \A i \in 1..Len(Append(q, c)) : Append(q, c)[i] = c
         /\ q # <<>> => /\ Tail(q) \in Seq(Callers)
                        /\ Len(Tail(q)) = Len(q) - 1
                        /\ \A i \in 1..Len(Tail(q)) : Tail(q)[i] = c
  <1>1. /\ Append(q, c) \in Seq(Callers)
        /\ Len(Append(q, c)) = Len(q) + 1
        /\ \A i \in 1..Len(Append(q, c)) : Append(q, c)[i] = c
    BY AppendProperties
  <1>2. ASSUME q # <<>>
        PROVE  /\ Tail(q) \in Seq(Callers)
               /\ Len(Tail(q)) = Len(q) - 1
               /\ \A i \in 1..Len(Tail(q)) : Tail(q)[i] = c
    BY <1>2, HeadTailProperties
  <1> QED BY <1>1, <1>2

\* A datagram sent to a caller leaves every inbox holding one.
LEMMA SendTyped ==
  ASSUME NEW c \in Callers, NEW d \in Datagram,
         inbox \in [Callers -> Datagram], Send(c, d)
  PROVE  inbox' \in [Callers -> Datagram]
  BY DEF Send

\* The bridge's own BYE goes to the caller of the call.
LEMMA SendByeTyped ==
  ASSUME call \in Callers, inbox \in [Callers -> Datagram], SendBye
  PROVE  inbox' \in [Callers -> Datagram]
  BY SendTyped DEF SendBye, Datagram

\* end_call leaves nothing of the call, and counts one attempt more only while
\* the limit is not reached.
LEMMA EndCallStep ==
  ASSUME CallInv, Running, EndCall, Fixed
  PROVE  CallInv'
  <1>1. max_calls \in {-1, 1} /\ calls_done \in 0..1
    BY DEF CallInv, TypeOfCall, TypeOfRest
  <1>2. calls_done' \in 0..1
    BY <1>1 DEF EndCall, Running
  <1>3. TypeOfQueue'
    BY DEF EndCall, TypeOfQueue
  <1>4. TypeOfFlags'
    BY DEF EndCall, TypeOfFlags
  <1>5. TypeOfRest'
    BY <1>2 DEF CallInv, TypeOfCall, TypeOfRest, EndCall, Fixed
  <1>6. NothingLeaks' /\ AudioOfThisCall' /\ LagBound' /\ CallCounts'
    BY DEF EndCall, NothingLeaks, AudioOfThisCall, LagBound, CallCounts
  <1> QED BY <1>3, <1>4, <1>5, <1>6 DEF CallInv, TypeOfCall

\* A step that leaves the call's fields alone.
LEMMA CallUntouched ==
  ASSUME CallInv, UNCHANGED <<max_calls, bridgeVars, childVars>>
  PROVE  CallInv'
  BY DEF CallInv, TypeOfCall, TypeOfQueue, TypeOfFlags, TypeOfRest, NothingLeaks, AudioOfThisCall, LagBound,
         CallCounts, Running, bridgeVars, childVars

\* A step that leaves the callers and the network alone.
LEMMA WorldUntouched ==
  ASSUME WorldInv, UNCHANGED <<stage, reqs, inbox>>
  PROVE  WorldInv'
  BY DEF WorldInv, TypeOfWorld, RequestsPlain

-----------------------------------------------------------------------------
(* The handlers of SIP messages: for each, what becomes of the call, and   *)
(* the response that goes out.                                             *)

\* The responses the handlers send are datagrams.
LEMMA ResponseTyped ==
  ASSUME NEW s \in {200, 486, 487, 488, 500, 503},
         NEW q \in {"INVITE", "BYE", "CANCEL"}
  PROVE  Response(s, q) \in Datagram
  BY DEF Response, Datagram

\* handle_invite keeps the invariant at each of its returns.
LEMMA InviteStep ==
  ASSUME CallInv, Running, Fixed, NEW m \in Request,
         inbox \in [Callers -> Datagram], HandleInvite(m)
  PROVE  CallInv' /\ inbox' \in [Callers -> Datagram]
  <1>0. m.id \in Callers
    BY DEF Request
  <1>1. CASE InviteAgain(m) \/ InviteBusy(m) \/ InviteNoAudio(m)
    <2>1. CallInv'
      BY <1>1, CallUntouched DEF InviteAgain, InviteBusy, InviteNoAudio, Fixed
    <2>2. \E s \in {200, 486, 488} : Send(m.id, Response(s, "INVITE"))
      BY <1>1 DEF InviteAgain, InviteBusy, InviteNoAudio
    <2> QED BY <1>0, <2>1, <2>2, SendTyped, ResponseTyped
  <1>2. CASE InviteFails(m)
    <2>1. CallInv'
      BY <1>2, EndCallStep DEF InviteFails
    <2> QED BY <1>0, <1>2, <2>1, SendTyped, ResponseTyped DEF InviteFails
  <1>3. CASE InviteAccepted(m)
    <2>0. TypeOfQueue' /\ fds' = 2
      BY <1>3 DEF InviteAccepted, CallInv, NothingLeaks, TypeOfQueue
    <2>5. TypeOfFlags'
      BY <1>3 DEF InviteAccepted, TypeOfFlags
    <2>1. TypeOfRest'
      BY <1>0, <1>3, <2>0 DEF InviteAccepted, CallInv, TypeOfCall, TypeOfRest, Fixed
    <2>2. NothingLeaks' /\ AudioOfThisCall' /\ LagBound'
      BY <1>0, <1>3 DEF InviteAccepted, CallInv, NothingLeaks, AudioOfThisCall, LagBound
    <2>3. CallCounts'
      BY <1>3 DEF InviteAccepted, CallCounts, Running, Fixed
    <2>4. inbox' \in [Callers -> Datagram]
      BY <1>0, <1>3, SendTyped, ResponseTyped DEF InviteAccepted
    <2> QED BY <2>0, <2>1, <2>2, <2>3, <2>4, <2>5 DEF CallInv, TypeOfCall
  <1> QED BY <1>1, <1>2, <1>3 DEF HandleInvite

\* handle_ack may start the media of the call it is for, and of no other.
LEMMA AckStep ==
  ASSUME CallInv, Fixed, NEW m \in Request, HandleAck(m)
  PROVE  CallInv'
  <1>1. TypeOfCall' /\ AudioOfThisCall' /\ LagBound' /\ CallCounts'
    BY DEF HandleAck, CallInv, TypeOfCall, TypeOfQueue, TypeOfFlags, TypeOfRest, AudioOfThisCall, LagBound, CallCounts,
           Running, Fixed, childVars
  <1>2. NothingLeaks'
    BY DEF HandleAck, Mine, CallInv, NothingLeaks, Request, childVars
  <1> QED BY <1>1, <1>2 DEF CallInv

\* handle_bye and handle_cancel end their own caller's call or none.
LEMMA HangUpStep ==
  ASSUME CallInv, Running, Fixed, NEW m \in Request,
         inbox \in [Callers -> Datagram], HandleBye(m) \/ HandleCancel(m)
  PROVE  CallInv' /\ inbox' \in [Callers -> Datagram]
  <1>0. m.id \in Callers
    BY DEF Request
  <1>1. CallInv'
    BY EndCallStep, CallUntouched DEF HandleBye, HandleCancel, Fixed
  <1>2. inbox' \in [Callers -> Datagram]
    <2>1. \E s \in {200, 487}, q \in {"BYE", "CANCEL"} : Send(m.id, Response(s, q))
      BY DEF HandleBye, HandleCancel
    <2> QED BY <1>0, <2>1, SendTyped, ResponseTyped
  <1> QED BY <1>1, <1>2

-----------------------------------------------------------------------------
(* The invariant holds at the start and is kept by every step.             *)

\* At the start there is no call and nothing on its way.
LEMMA InitIInv == Init => IInv
  <1> SUFFICES ASSUME Init PROVE IInv
    OBVIOUS
  <1>0. Nothing \in Datagram
    BY DEF Nothing, Datagram
  <1>1. CallInv
    <2>1. TypeOfQueue
      BY DEF Init, TypeOfQueue
    <2>4. TypeOfFlags
      BY DEF Init, TypeOfFlags
    <2>2. TypeOfRest
      BY DEF Init, TypeOfRest
    <2>3. NothingLeaks /\ AudioOfThisCall /\ LagBound /\ CallCounts
      BY DEF Init, NothingLeaks, AudioOfThisCall, LagBound, CallCounts
    <2> QED BY <2>1, <2>2, <2>3, <2>4 DEF CallInv, TypeOfCall
  <1>2. WorldInv
    BY <1>0 DEF Init, WorldInv, TypeOfWorld, RequestsPlain
  <1> QED BY <1>1, <1>2, Halves DEF Init

\* A turn of sm_sip_run, and the ticks after it.
LEMMA BridgeStep ==
  ASSUME IInv, Bridge, Fixed
  PROVE  IInv'
  <1>0. loop \in {"poll", "ticks", "exited"} /\ CallInv /\ WorldInv
    BY Halves
  <1>1. CASE Leave \/ PollTimeout \/ TicksDone
    <2>1. CallInv' /\ WorldInv'
      BY <1>0, <1>1, CallUntouched, WorldUntouched
      DEF Leave, PollTimeout, TicksDone, netVars, Fixed
    <2> QED BY <1>1, <2>1, HalvesNext DEF Leave, PollTimeout, TicksDone
  <1>2. CASE PollDaemon \/ TickEnds
    <2>1. Running /\ call \in Callers
      BY <1>0, <1>2 DEF PollDaemon, TickEnds, TickDue, CallInv, TypeOfCall, TypeOfQueue, TypeOfFlags, TypeOfRest,
                        NothingLeaks, CallCounts, DaemonGone
    <2>2. CallInv'
      BY <1>0, <1>2, <2>1, EndCallStep DEF PollDaemon, TickEnds
    <2>3. inbox' \in [Callers -> Datagram]
      BY <1>0, <1>2, <2>1, SendByeTyped
      DEF PollDaemon, TickEnds, WorldInv, TypeOfWorld
    <2>4. WorldInv'
      BY <1>0, <1>2, <2>3 DEF PollDaemon, TickEnds, WorldInv, TypeOfWorld, RequestsPlain
    <2> QED BY <1>0, <1>2, <2>2, <2>4, HalvesNext DEF PollDaemon, TickEnds
  <1>3. CASE PollRtp
    <2>1. call \in Callers
      BY <1>0, <1>3 DEF PollRtp, CallInv, TypeOfCall, TypeOfQueue, TypeOfFlags, TypeOfRest, NothingLeaks
    <2>2. /\ rxq' \in Seq(Callers) /\ Len(rxq') < RxqSize
          /\ \A i \in 1..Len(rxq') : rxq'[i] = call
      <3>1. /\ rxq \in Seq(Callers) /\ Len(rxq) < RxqSize
            /\ \A i \in 1..Len(rxq) : rxq[i] = call
        BY <1>0 DEF CallInv, TypeOfCall, TypeOfQueue, TypeOfFlags, TypeOfRest, AudioOfThisCall
      <3>2. CASE rxq' = rxq
        BY <3>1, <3>2
      <3>3. CASE Len(rxq) = RxqSize - 1 /\ rxq' = Append(Tail(rxq), call)
        <4>1. rxq # <<>>
          BY <3>1, <3>3
        <4>2. /\ Tail(rxq) \in Seq(Callers)
              /\ Len(Tail(rxq)) = Len(rxq) - 1
              /\ \A i \in 1..Len(Tail(rxq)) : Tail(rxq)[i] = call
          BY <2>1, <3>1, <4>1, RingOfCall
        <4>3. /\ Append(Tail(rxq), call) \in Seq(Callers)
              /\ Len(Append(Tail(rxq), call)) = Len(Tail(rxq)) + 1
              /\ \A i \in 1..Len(Append(Tail(rxq), call)) :
                    Append(Tail(rxq), call)[i] = call
          BY <2>1, <4>2, RingOfCall
        <4> QED BY <3>1, <3>3, <4>2, <4>3
      <3>4. CASE Len(rxq) # RxqSize - 1 /\ rxq' = Append(rxq, call)
        <4>1. /\ Append(rxq, call) \in Seq(Callers)
              /\ Len(Append(rxq, call)) = Len(rxq) + 1
              /\ \A i \in 1..Len(Append(rxq, call)) : Append(rxq, call)[i] = call
          BY <2>1, <3>1, RingOfCall
        <4> QED BY <3>1, <3>4, <4>1
      <3> QED BY <1>3, <3>2, <3>3, <3>4 DEF PollRtp
    <2>3. TypeOfCall'
      BY <1>0, <1>3, <2>2 DEF PollRtp, CallInv, TypeOfCall, TypeOfQueue, TypeOfFlags, TypeOfRest, childVars, Fixed
    <2>4. NothingLeaks' /\ AudioOfThisCall' /\ LagBound' /\ CallCounts'
      BY <1>0, <1>3, <2>1, <2>2
      DEF PollRtp, CallInv, NothingLeaks, AudioOfThisCall, LagBound, CallCounts,
          Running, childVars, Fixed
    <2>5. WorldInv'
      BY <1>0, <1>3, WorldUntouched DEF PollRtp, netVars
    <2> QED BY <1>3, <2>3, <2>4, <2>5, HalvesNext DEF PollRtp, CallInv
  <1>4. ASSUME NEW m \in reqs, PollSip(m)
        PROVE  IInv'
    <2>1. m \in Request /\ Running /\ inbox \in [Callers -> Datagram]
      BY <1>0, <1>4 DEF PollSip, WorldInv, TypeOfWorld
    <2>2. \/ HandleInvite(m) \/ HandleAck(m) \/ HandleBye(m) \/ HandleCancel(m)
      BY <1>4, <2>1 DEF PollSip, Request
    <2>3. CallInv' /\ inbox' \in [Callers -> Datagram]
      <3>1. CASE HandleInvite(m)
        BY <1>0, <2>1, <3>1, InviteStep
      <3>2. CASE HandleAck(m)
        <4>1. inbox' = inbox
          BY <3>2 DEF HandleAck
        <4> QED BY <1>0, <2>1, <3>2, <4>1, AckStep
      <3>3. CASE HandleBye(m) \/ HandleCancel(m)
        BY <1>0, <2>1, <3>3, HangUpStep
      <3> QED BY <2>2, <3>1, <3>2, <3>3
    <2>4. WorldInv'
      BY <1>0, <1>4, <2>3 DEF PollSip, WorldInv, TypeOfWorld, RequestsPlain
    <2> QED BY <1>4, <2>3, <2>4, HalvesNext DEF PollSip
  <1>5. CASE TickForwards \/ TickLate
    <2>1. call \in Callers /\ loop' = loop
      BY <1>0, <1>5 DEF TickForwards, TickLate, TickDue, CallInv, TypeOfCall, TypeOfRest
    <2>2. /\ rxq' \in Seq(Callers) /\ Len(rxq') < RxqSize
          /\ \A i \in 1..Len(rxq') : rxq'[i] = call
      <3>1. /\ rxq \in Seq(Callers) /\ Len(rxq) < RxqSize
            /\ \A i \in 1..Len(rxq) : rxq[i] = call
        BY <1>0 DEF CallInv, TypeOfCall, TypeOfQueue, TypeOfFlags, TypeOfRest, AudioOfThisCall
      <3>2. rxq' = IF rxq = <<>> THEN <<>> ELSE Tail(rxq)
        BY <1>5 DEF TickForwards, TickLate, TakeFrame
      <3>3. CASE rxq = <<>>
        BY <3>1, <3>2, <3>3
      <3>4. CASE rxq # <<>>
        BY <2>1, <3>1, <3>2, <3>4, RingOfCall
      <3> QED BY <3>3, <3>4
    <2>3. UNCHANGED <<max_calls, call, media_active, fds, rtp_known, rtpin, calls_done>>
      BY <1>5 DEF TickForwards, TickLate, Fixed
    <2>4. /\ fed' \in 0..MaxLag /\ answered' \in 0..MaxLag + 1
          /\ fed' + answered' <= MaxLag
          /\ child' \in {"none", "up", "closed", "reset"}
          /\ child' = "none" <=> child = "none"
      BY <1>0, <1>5
      DEF TickForwards, TickLate, TickDue, CallInv, TypeOfCall, TypeOfQueue, TypeOfFlags, TypeOfRest, NothingLeaks, LagBound,
          childVars
    <2>5. CallInv'
      BY <1>0, <2>1, <2>2, <2>3, <2>4
      DEF CallInv, TypeOfCall, TypeOfQueue, TypeOfFlags, TypeOfRest, NothingLeaks, AudioOfThisCall, LagBound, CallCounts, Running
    <2>6. WorldInv'
      BY <1>0, <1>5, WorldUntouched DEF TickForwards, TickLate, netVars
    <2> QED BY <1>0, <2>1, <2>5, <2>6, HalvesNext
  <1> QED BY <1>1, <1>2, <1>3, <1>4, <1>5 DEF Bridge

\* The daemon's child, which only moves while a call holds its connection.
LEMMA ChildStep ==
  ASSUME IInv, Child, Fixed
  PROVE  IInv'
  <1>0. loop \in {"poll", "ticks", "exited"} /\ CallInv /\ WorldInv
    BY Halves
  <1>1. UNCHANGED <<max_calls, loop, bridgeVars, stage, netVars>>
    BY DEF Child, ChildAnswers, ChildEnds, ChildTimesOut, Fixed
  <1>2. /\ fed' \in 0..MaxLag /\ answered' \in 0..MaxLag + 1
        /\ fed' + answered' <= MaxLag
        /\ child' \in {"none", "up", "closed", "reset"}
        /\ child' = "none" <=> child = "none"
    BY <1>0 DEF Child, ChildAnswers, ChildEnds, ChildTimesOut, CallInv, TypeOfCall, TypeOfQueue, TypeOfFlags, TypeOfRest, LagBound
  <1>3. CallInv'
    BY <1>0, <1>1, <1>2
    DEF CallInv, TypeOfCall, TypeOfQueue, TypeOfFlags, TypeOfRest, NothingLeaks, AudioOfThisCall, LagBound, CallCounts, Running,
        bridgeVars
  <1> QED BY <1>0, <1>1, <1>3, WorldUntouched, HalvesNext DEF netVars

\* The callers and the network, which touch nothing of the bridge but the
\* packets that wait on the RTP socket of the call.
LEMMA WorldStep ==
  ASSUME IInv, World, Fixed
  PROVE  IInv'
  <1>0. loop \in {"poll", "ticks", "exited"} /\ CallInv /\ WorldInv
    BY Halves
  <1>1. ASSUME NEW c \in Callers, Talk(c)
        PROVE  IInv'
    <2>1. TypeOfCall' /\ NothingLeaks' /\ AudioOfThisCall' /\ LagBound' /\ CallCounts'
      BY <1>0, <1>1
      DEF Talk, CallInv, TypeOfCall, TypeOfQueue, TypeOfFlags, TypeOfRest, NothingLeaks, AudioOfThisCall, LagBound,
          CallCounts, Running, childVars, Fixed
    <2> QED BY <1>0, <1>1, <2>1, WorldUntouched, HalvesNext DEF Talk, netVars, CallInv
  <1>2. ASSUME NEW c \in Callers, Invite(c) \/ Cancel(c) \/ Bye(c) \/ Vanish(c) \/ Receive(c)
        PROVE  IInv'
    <2>1. UNCHANGED <<loop, bridgeVars, childVars>>
      BY <1>2 DEF Invite, Cancel, Bye, Vanish, Receive, CallerSends
    <2>2. /\ reqs' \subseteq Request
          /\ \A m \in reqs' : m.method # "INVITE" => m.sdp = FALSE
      <3>1. \A m \in reqs' \ reqs :
               /\ m \in Request
               /\ m.method # "INVITE" => m.sdp = FALSE
        <4>1. ASSUME NEW sdp \in BOOLEAN
              PROVE  LET m == [Req("INVITE", c) EXCEPT !.sdp = sdp]
                     IN  m \in Request /\ m.method = "INVITE"
          BY DEF Req, Request
        <4>2. ASSUME NEW method \in {"ACK", "BYE", "CANCEL"}
              PROVE  Req(method, c) \in Request /\ Req(method, c).sdp = FALSE
          BY DEF Req, Request
        <4>3. \A m \in reqs' \ reqs :
                 \/ \E sdp \in BOOLEAN : m = [Req("INVITE", c) EXCEPT !.sdp = sdp]
                 \/ \E method \in {"ACK", "BYE", "CANCEL"} : m = Req(method, c)
          <5>1. CASE Invite(c)
            BY <5>1 DEF Invite
          <5>2. CASE Cancel(c) \/ Bye(c)
            BY <5>2 DEF Cancel, Bye, CallerSends
          <5>3. CASE Vanish(c) \/ Receive(c)
            BY <5>3 DEF Vanish, Receive, netVars
          <5> QED BY <1>2, <5>1, <5>2, <5>3
        <4> QED BY <4>1, <4>2, <4>3
      <3> QED BY <1>0, <3>1 DEF WorldInv, TypeOfWorld, RequestsPlain
    <2>3. /\ stage' \in [Callers -> {"idle", "inviting", "talking", "cancelling",
                                     "closing", "done", "gone"}]
      BY <1>0, <1>2
      DEF Invite, Cancel, Bye, Vanish, Receive, CallerSends, WorldInv, TypeOfWorld
    <2>4. inbox' \in [Callers -> Datagram]
      BY <1>0, <1>2
      DEF Invite, Cancel, Bye, Vanish, Receive, CallerSends, WorldInv, TypeOfWorld,
          netVars, Nothing, Datagram
    <2>5. CallInv' /\ WorldInv'
      BY <1>0, <2>1, <2>2, <2>3, <2>4, CallUntouched
      DEF WorldInv, TypeOfWorld, RequestsPlain, Fixed
    <2> QED BY <1>0, <2>1, <2>5, HalvesNext
  <1>3. CASE LoseRequest
    BY <1>0, <1>3, CallUntouched, HalvesNext
    DEF LoseRequest, WorldInv, TypeOfWorld, RequestsPlain, Fixed
  <1>4. CASE LoseDatagram
    BY <1>0, <1>4, CallUntouched, HalvesNext
    DEF LoseDatagram, WorldInv, TypeOfWorld, RequestsPlain, Nothing, Datagram, Fixed
  <1> QED BY <1>1, <1>2, <1>3, <1>4 DEF World

\* Every step of the bridge, of the child and of the world keeps the invariant.
LEMMA NextIInv == IInv /\ [Next]_vars => IInv'
  <1> SUFFICES ASSUME IInv, [Next]_vars PROVE IInv'
    OBVIOUS
  <1>1. CASE Next
    BY <1>1, BridgeStep, ChildStep, WorldStep DEF Next
  <1>2. CASE UNCHANGED vars
    <2>1. loop \in {"poll", "ticks", "exited"} /\ CallInv /\ WorldInv
      BY Halves
    <2> QED BY <1>2, <2>1, CallUntouched, WorldUntouched, HalvesNext DEF vars, netVars
  <1> QED BY <1>1, <1>2

-----------------------------------------------------------------------------
(* The theorems.                                                           *)

\* The invariant holds in every state the bridge can reach.
THEOREM Invariance == Spec => []IInv
  BY InitIInv, NextIInv, PTL DEF Spec

\* Every variable keeps its type; in particular the ring of received frames
\* never fills and the second attempt of a bridge run with --once is not made.
THEOREM TypeCorrect == Spec => []TypeOK
  <1>1. IInv => TypeOK
    BY DEF IInv
  <1> QED BY <1>1, Invariance, PTL

\* After each of the ways out of a call nothing of it is left open, and during
\* one exactly its two descriptors are.
THEOREM NothingLeaksAlways == Spec => []NothingLeaks
  <1>1. IInv => NothingLeaks
    BY DEF IInv
  <1> QED BY <1>1, Invariance, PTL

\* Every frame waiting to be played came from the call that is active.
THEOREM AudioOfThisCallAlways == Spec => []AudioOfThisCall
  <1>1. IInv => AudioOfThisCall
    BY DEF IInv
  <1> QED BY <1>1, Invariance, PTL

\* With a limit of one call, a bridge that has counted an attempt has no call
\* and takes none: the loop is over at its next poll.
OnceIsOnce == max_calls = 1 /\ calls_done = 1 => call = NoCall

\* sm_sip_run with --once serves a single attempt.
THEOREM OneAttempt == Spec => []OnceIsOnce
  <1>1. IInv => OnceIsOnce
    BY DEF IInv, CallCounts, Running, OnceIsOnce
  <1> QED BY <1>1, Invariance, PTL

\* In every step that ends a call, or replaces it, the daemon is gone or the
\* step takes a BYE or a CANCEL of the call's own caller off the socket.
LEMMA EndedByOwnerStep == IInv /\ [Next]_vars => EndedByOwner
  <1> SUFFICES ASSUME IInv, [Next]_vars, call # NoCall, call' # call
               PROVE  \/ DaemonGone
                      \/ \E method \in {"BYE", "CANCEL"} :
                            Req(method, call) \in reqs \ reqs'
    BY DEF EndedByOwner
  <1>1. Bridge
    BY DEF Next, Child, ChildAnswers, ChildEnds, ChildTimesOut, World, Invite, Cancel,
           Bye, CallerSends, Talk, Vanish, Receive, LoseRequest, LoseDatagram,
           vars, bridgeVars
  <1>2. CASE PollDaemon \/ TickEnds
    BY <1>2 DEF PollDaemon, TickEnds
  <1>3. ASSUME NEW m \in reqs, PollSip(m)
        PROVE  \E method \in {"BYE", "CANCEL"} : Req(method, call) \in reqs \ reqs'
    <2>1. m \in Request
      BY DEF IInv, TypeOK
    <2>2. m.method # "INVITE"
      BY <1>3
      DEF PollSip, HandleInvite, InviteAgain, InviteBusy, InviteNoAudio, InviteFails,
          InviteAccepted, bridgeVars
    <2>3. m.method # "ACK"
      BY <1>3 DEF PollSip, HandleAck
    <2>4. m.method \in {"BYE", "CANCEL"} /\ call = m.id
      BY <1>3, <2>1, <2>2, <2>3
      DEF PollSip, HandleBye, HandleCancel, Mine, Request, bridgeVars
    <2>5. m = Req(m.method, call)
      BY <2>1, <2>2, <2>4 DEF IInv, RequestsPlain, Request, Req
    <2> QED BY <1>3, <2>4, <2>5 DEF PollSip
  <1>4. CASE Leave \/ PollRtp \/ PollTimeout \/ TickForwards \/ TickLate \/ TicksDone
    BY <1>4 DEF Leave, PollRtp, PollTimeout, TickForwards, TickLate, TicksDone, bridgeVars
  <1> QED BY <1>1, <1>2, <1>3, <1>4 DEF Bridge

\* No late, repeated or reordered message of another caller ends a call.
THEOREM OnlyOwnerEndsAlways == Spec => OnlyOwnerEnds
  BY Invariance, EndedByOwnerStep, PTL DEF Spec, OnlyOwnerEnds
=============================================================================
