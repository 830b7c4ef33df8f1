---------------------------- MODULE DaemonProofs ----------------------------
(***************************************************************************)
(* Who holds which descriptor when daemons and calls come and go, proved   *)
(* for any number of starts, calls and any backlog.  Whatever the order of *)
(* forks, signals, deaths and restarts: a caller is at one place only, a   *)
(* connection is with its own call, and a listening socket outlives its    *)
(* daemon no longer than a new call's first step.                          *)
(***************************************************************************)
EXTENDS Daemon, FiniteSetTheorems, SequenceTheorems, TLAPS

USE DaemonAssumption

-----------------------------------------------------------------------------
(* The inductive invariant.                                                *)

\* TypeOK by what it is about; backlog is a function of the daemons as well.
TypeOfWorld == /\ unix \in BOOLEAN /\ path \in Daemons \cup {None}
               /\ files \in [Process -> SUBSET File]

TypeOfDaemons ==
    /\ pc \in [Daemons -> {"off", "listen", "loop", "accept", "fork", "parent",
                           "shutdown", "exited"}]
    /\ g_run \in [Daemons -> BOOLEAN]
    /\ fd \in [Daemons -> Callers \cup {None}]
    /\ late \in [Daemons -> SUBSET Callers]

TypeOfNumbers == /\ call_seq \in [Daemons -> 0..Cardinality(Callers)]
                 /\ call_id \in [Callers -> 0..Cardinality(Callers)]

TypeOfCalls ==
    /\ call \in [Callers -> {"none", "forked", "running", "ended"}]
    /\ by \in [Callers -> Daemons \cup {None}]
    /\ pppd \in [Callers -> {"none", "running", "ended"}]

TypeOfQueues ==
    /\ backlog \in [Daemons -> Seq(Callers)]
    /\ \A d \in Daemons : Len(backlog[d]) <= Backlog
    /\ caller \in [Callers -> {"idle", "waiting", "left", "answered", "refused"}]

Types == /\ TypeOfWorld /\ TypeOfDaemons /\ TypeOfNumbers /\ TypeOfCalls /\ TypeOfQueues

\* A caller is at one place at most: in one queue, once; or the connection one
\* daemon has just accepted; or, by[c] telling whose, the caller of a call.
OnePlace ==
    /\ \A d, e \in Daemons : \A i \in 1..Len(backlog[d]), j \in 1..Len(backlog[e]) :
          backlog[d][i] = backlog[e][j] => d = e /\ i = j
    /\ \A d \in Daemons : \A i \in 1..Len(backlog[d]) :
          /\ caller[backlog[d][i]] # "idle"
          /\ by[backlog[d][i]] = None
          /\ \A e \in Daemons : fd[e] # backlog[d][i]
    /\ \A d, e \in Daemons : fd[d] = fd[e] /\ fd[d] # None => d = e
    /\ \A d \in Daemons : fd[d] # None => caller[fd[d]] # "idle"
    /\ \A c \in Callers : by[c] # None => caller[c] # "idle"

\* Where a daemon is tells what it has accepted, and whether it is forked yet.
Accepted ==
    \A d \in Daemons :
        /\ pc[d] \in {"fork", "parent"} <=> fd[d] # None
        /\ pc[d] = "fork" => by[fd[d]] = None
        /\ pc[d] = "parent" => by[fd[d]] = d

Forked == \A c \in Callers : call[c] = "none" <=> by[c] = None

\* A listening socket is held by its daemon while that has it, and by a call it
\* has forked until that call's first step.
ListenerHeld ==
    \A d \in Daemons, p \in Process :
        Listener(d) \in files[p] =>
            \/ p = Main(d) /\ pc[d] \in Serving \cup {"shutdown"}
            \/ \E c \in Callers : p = Call(c) /\ call[c] = "forked" /\ by[c] = d

\* Only the call has its end of the socket pair, from the start of pppd on.
PairHeld ==
    \A c \in Callers, p \in Process :
        Pair(c) \in files[p] => p = Call(c) /\ pppd[c] # "none"

\* A process that is not there holds nothing.
GoneHolds ==
    \A c \in Callers :
        /\ call[c] \in {"none", "ended"} => files[Call(c)] = {}
        /\ pppd[c] # "running" => files[Pppd(c)] = {}

\* A daemon has forked a late call only if it was in accept when it was told.
LateOnce ==
    \A d \in Daemons :
        late[d] # {} => /\ ~g_run[d]
                        /\ pc[d] \in {"parent", "loop", "shutdown", "exited"}
                        /\ \E c \in Callers : late[d] = {c}

\* call_seq counts the calls the daemon has forked, but for the one that it is
\* about to count.
CallsOf(d) == {c \in Callers : by[c] = d}
Counted(d) == call_seq[d] + (IF pc[d] = "parent" THEN 1 ELSE 0)
SeqCounts ==
    \A d \in Daemons :
        /\ pc[d] # "exited" => Counted(d) = Cardinality(CallsOf(d))
        /\ pc[d] # "exited" => \A c \in CallsOf(d) : call_id[c] < Counted(d)
        /\ \A b, c \in CallsOf(d) : call_id[b] = call_id[c] => b = c

IInv == /\ Types /\ OnePlace /\ Accepted /\ Forked
        /\ OnlyItsOwn /\ ListenerHeld /\ PairHeld /\ GoneHolds
        /\ LateOnce /\ SeqCounts

-----------------------------------------------------------------------------
(* Names.                                                                  *)

\* None is neither a daemon nor a caller.
LEMMA NoneIsNone == None \notin Daemons /\ None \notin Callers
  BY DEF None, Daemons, Callers

\* There are finitely many callers.
LEMMA CallersFinite == IsFiniteSet(Callers) /\ Cardinality(Callers) \in Nat
  BY FS_Interval, FS_CardinalityType DEF Callers

\* Every process has one name.
LEMMA ProcessNames ==
  /\ \A c \in Callers : Call(c) \in Process /\ Pppd(c) \in Process
  /\ \A d \in Daemons : Main(d) \in Process
  /\ \A b, c \in Callers : Call(b) = Call(c) => b = c
  /\ \A b, c \in Callers : Pppd(b) = Pppd(c) => b = c
  /\ \A d, e \in Daemons : Main(d) = Main(e) => d = e
  /\ \A b, c \in Callers : Call(b) # Pppd(c)
  /\ \A c \in Callers, d \in Daemons : Call(c) # Main(d) /\ Pppd(c) # Main(d)
  BY DEF Process, Call, Pppd, Main

\* Every descriptor has one name.
LEMMA FileNames ==
  /\ \A c \in Callers : Conn(c) \in File /\ Pair(c) \in File /\ ShimEnd(c) \in File
  /\ \A d \in Daemons : Listener(d) \in File
  /\ \A b, c \in Callers : Conn(b) = Conn(c) => b = c
  /\ \A b, c \in Callers : Pair(b) = Pair(c) => b = c
  /\ \A d, e \in Daemons : Listener(d) = Listener(e) => d = e
  /\ \A b, c \in Callers : /\ Conn(b) # Pair(c) /\ Conn(b) # ShimEnd(c)
                           /\ Pair(b) # ShimEnd(c)
  /\ \A c \in Callers, d \in Daemons : /\ Conn(c) # Listener(d) /\ Pair(c) # Listener(d)
                                       /\ ShimEnd(c) # Listener(d)
  BY DEF File, Conn, Pair, ShimEnd, Listener

-----------------------------------------------------------------------------
(* The start.                                                              *)

\* Nothing is started and nothing held.
LEMMA InitIInv == Init => IInv
  <1> SUFFICES ASSUME Init PROVE IInv
    OBVIOUS
  <1> USE DEF Init
  <1>1. TypeOfWorld
    BY DEF TypeOfWorld
  <1>2. TypeOfDaemons
    BY DEF TypeOfDaemons
  <1>3. TypeOfNumbers
    BY CallersFinite DEF TypeOfNumbers
  <1>4. TypeOfCalls
    BY DEF TypeOfCalls
  <1>5. TypeOfQueues
    <2>1. <<>> \in Seq(Callers) /\ Len(<<>>) = 0
      OBVIOUS
    <2> QED BY <2>1 DEF TypeOfQueues
  <1>6. OnePlace /\ Accepted /\ Forked
    BY DEF OnePlace, Accepted, Forked
  <1>7. OnlyItsOwn /\ ListenerHeld /\ PairHeld /\ GoneHolds /\ LateOnce
    BY ProcessNames DEF OnlyItsOwn, ListenerHeld, PairHeld, GoneHolds, LateOnce
  <1>8. SeqCounts
    <2>1. ASSUME NEW d \in Daemons
          PROVE  CallsOf(d) = {} /\ Counted(d) = 0
      BY NoneIsNone DEF CallsOf, Counted
    <2> QED BY <2>1, FS_EmptySet DEF SeqCounts
  <1> QED BY <1>1, <1>2, <1>3, <1>4, <1>5, <1>6, <1>7, <1>8 DEF IInv, Types

-----------------------------------------------------------------------------
(* The kernel's part.                                                      *)

\* Closing resets whole queues only, and makes nobody idle.
LEMMA SettleStep ==
  ASSUME TypeOfQueues, Settle
  PROVE  /\ TypeOfQueues'
         /\ \A d \in Daemons : backlog'[d] \in {backlog[d], <<>>}
         /\ \A c \in Callers : caller[c] # "idle" => caller'[c] # "idle"
  <1>1. \A d \in Daemons : backlog'[d] \in {backlog[d], <<>>}
    BY DEF Settle
  <1>2. backlog' \in [Daemons -> Seq(Callers)]
    <2>1. <<>> \in Seq(Callers)
      OBVIOUS
    <2> QED BY <2>1 DEF Settle, TypeOfQueues
  <1>3. \A d \in Daemons : Len(backlog'[d]) <= Backlog
    BY <1>1 DEF TypeOfQueues
  <1>4. \A c \in Callers : caller'[c] \in {caller[c], "refused"}
    BY DEF Settle
  <1>5. caller' \in [Callers -> {"idle", "waiting", "left", "answered", "refused"}]
    BY <1>4 DEF Settle, TypeOfQueues
  <1> QED BY <1>1, <1>2, <1>3, <1>4, <1>5 DEF TypeOfQueues

\* So no caller is at a new place.
LEMMA PlacesShrink ==
  ASSUME OnePlace, TypeOfQueues, TypeOfDaemons, UNCHANGED by,
         \A d \in Daemons : backlog'[d] \in {backlog[d], <<>>},
         \A d \in Daemons : fd'[d] \in {fd[d], None},
         \A c \in Callers : caller[c] # "idle" => caller'[c] # "idle"
  PROVE  OnePlace'
  <1>1. \A d \in Daemons : \A i \in 1..Len(backlog'[d]) :
           /\ i \in 1..Len(backlog[d])
           /\ backlog'[d][i] = backlog[d][i]
           /\ backlog[d][i] \in Callers
    BY DEF TypeOfQueues
  <1>2. \A d \in Daemons : fd[d] # None => fd[d] \in Callers
    BY DEF TypeOfDaemons
  <1>3. /\ \A d, e \in Daemons : \A i \in 1..Len(backlog'[d]), j \in 1..Len(backlog'[e]) :
              backlog'[d][i] = backlog'[e][j] => d = e /\ i = j
        /\ \A d \in Daemons : \A i \in 1..Len(backlog'[d]) :
              /\ caller'[backlog'[d][i]] # "idle"
              /\ by'[backlog'[d][i]] = None
              /\ \A e \in Daemons : fd'[e] # backlog'[d][i]
    BY <1>1, NoneIsNone DEF OnePlace
  <1>4. /\ \A d, e \in Daemons : fd'[d] = fd'[e] /\ fd'[d] # None => d = e
        /\ \A d \in Daemons : fd'[d] # None => caller'[fd'[d]] # "idle"
        /\ \A c \in Callers : by'[c] # None => caller'[c] # "idle"
    BY <1>2 DEF OnePlace
  <1> QED BY <1>3, <1>4 DEF OnePlace

-----------------------------------------------------------------------------
(* Types.                                                                  *)

\* The process that is told to close is there.
LEMMA Closers ==
  ASSUME Types
  PROVE  /\ \A c \in Callers : by[c] # None => by[c] \in Daemons
         /\ \A d \in Daemons : fd[d] # None => fd[d] \in Callers
  BY DEF Types, TypeOfCalls, TypeOfDaemons

\* What the processes of the world hold are descriptors.
LEMMA WorldTyped ==
  ASSUME IInv, Next
  PROVE  TypeOfWorld'
  <1> USE DEF IInv, Types, TypeOfWorld
  <1>1. ASSUME NEW d \in Daemons,
               Start(d) \/ Loop(d) \/ AcceptFails(d) \/ Term(d)
        PROVE  TypeOfWorld'
    BY <1>1 DEF Start, Loop, AcceptFails, Term
  <1>2. ASSUME NEW d \in Daemons, Listen(d)
        PROVE  TypeOfWorld'
    <2>1. Main(d) \in Process /\ {Listener(d)} \in SUBSET File
      BY ProcessNames, FileNames
    <2>2. files' \in [Process -> SUBSET File] /\ path' \in Daemons \cup {None} /\ unix' = unix
      BY <1>2, <2>1 DEF Listen, ListenTcp, ListenUnix
    <2> QED BY <2>2
  <1>3. ASSUME NEW d \in Daemons, Accept(d)
        PROVE  TypeOfWorld'
    <2>1. backlog[d] \in Seq(Callers) /\ backlog[d] # <<>>
      BY <1>3 DEF Accept, TypeOfQueues
    <2>2. Head(backlog[d]) \in Callers
      BY <2>1, HeadTailProperties
    <2>3. files' \in {files, [files EXCEPT ![Main(d)] = @ \cup {Conn(Head(backlog[d]))}]}
      BY <1>3 DEF Accept
    <2>4. files' \in [Process -> SUBSET File]
      BY <2>2, <2>3, ProcessNames, FileNames
    <2> QED BY <1>3, <2>4 DEF Accept
  <1>4. ASSUME NEW d \in Daemons, Fork(d) \/ ForkFails(d) \/ Parent(d)
        PROVE  TypeOfWorld'
    <2>1. fd[d] \in Callers /\ Main(d) \in Process
      BY <1>4, Closers, ProcessNames DEF Fork, ForkFails, Parent, From, Accepted
    <2>2. files' \in [Process -> SUBSET File]
      BY <1>4, <2>1, ProcessNames DEF Fork, ForkFails, Parent, ParentKeeps
    <2> QED BY <1>4, <2>2 DEF Fork, ForkFails, Parent
  <1>5. ASSUME NEW d \in Daemons, Shutdown(d) \/ Kill(d)
        PROVE  TypeOfWorld'
    BY <1>5, ProcessNames DEF Shutdown, Kill, Exit, Drop
  <1>6. ASSUME NEW c \in Callers, ChildBegins(c) \/ CallEnds(c) \/ PppdEnds(c) \/ RelayEnds(c)
        PROVE  TypeOfWorld'
    <2>1. files' \in [Process -> SUBSET File]
      BY <1>6, ProcessNames
      DEF ChildBegins, ChildCloses, CallEnds, PppdEnds, RelayEnds, PppdDrops, Drop
    <2> QED BY <1>6, <2>1
        DEF ChildBegins, CallEnds, PppdEnds, RelayEnds, PppdDrops, daemonVars
  <1>7. ASSUME NEW c \in Callers, StartPppd(c)
        PROVE  TypeOfWorld'
    <2>1. files' \in [Process -> SUBSET File]
      BY <1>7, ProcessNames, FileNames DEF StartPppd, Inherits
    <2> QED BY <1>7, <2>1 DEF StartPppd, daemonVars
  <1>8. ASSUME NEW c \in Callers, Connect(c) \/ Leaves(c)
        PROVE  TypeOfWorld'
    BY <1>8 DEF Connect, Leaves, daemonVars
  <1> QED BY <1>1, <1>2, <1>3, <1>4, <1>5, <1>6, <1>7, <1>8 DEF Next, Step

\* The daemons' places and flags.
LEMMA DaemonsTyped ==
  ASSUME IInv, Next
  PROVE  TypeOfDaemons'
  <1> USE DEF IInv, Types, TypeOfDaemons, Goto
  <1>1. ASSUME NEW d \in Daemons,
               Start(d) \/ Listen(d) \/ Loop(d) \/ AcceptFails(d) \/ Term(d)
        PROVE  TypeOfDaemons'
    BY <1>1 DEF Start, Listen, ListenTcp, ListenUnix, Loop, WhileRun, AcceptFails, Term
  <1>2. ASSUME NEW d \in Daemons, Accept(d)
        PROVE  TypeOfDaemons'
    <2>1. Head(backlog[d]) \in Callers
      BY <1>2, HeadTailProperties DEF Accept, TypeOfQueues
    <2> QED BY <1>2, <2>1 DEF Accept
  <1>3. ASSUME NEW d \in Daemons, Fork(d) \/ ForkFails(d) \/ Parent(d)
        PROVE  TypeOfDaemons'
    <2>1. fd[d] \in Callers
      BY <1>3, Closers DEF Fork, ForkFails, Parent, From, Accepted
    <2> QED BY <1>3, <2>1 DEF Fork, ForkFails, Parent
  <1>4. ASSUME NEW d \in Daemons, Shutdown(d) \/ Kill(d)
        PROVE  TypeOfDaemons'
    BY <1>4 DEF Shutdown, Kill, Exit
  <1>5. ASSUME NEW c \in Callers,
               \/ ChildBegins(c) \/ StartPppd(c) \/ CallEnds(c) \/ PppdEnds(c)
               \/ RelayEnds(c) \/ Connect(c) \/ Leaves(c)
        PROVE  TypeOfDaemons'
    BY <1>5
    DEF ChildBegins, StartPppd, CallEnds, PppdEnds, RelayEnds, PppdDrops, Connect, Leaves,
        daemonVars
  <1> QED BY <1>1, <1>2, <1>3, <1>4, <1>5 DEF Next, Step

\* The calls, and who forked them.
LEMMA CallsTyped ==
  ASSUME IInv, Next
  PROVE  TypeOfCalls'
  <1> USE DEF IInv, Types, TypeOfCalls
  <1>1. ASSUME NEW d \in Daemons, Fork(d)
        PROVE  TypeOfCalls'
    <2>1. fd[d] \in Callers
      BY <1>1, Closers DEF Fork, From, Accepted
    <2> QED BY <1>1, <2>1 DEF Fork
  <1>2. ASSUME NEW d \in Daemons,
               \/ Start(d) \/ Listen(d) \/ Loop(d) \/ Accept(d) \/ AcceptFails(d) \/ Term(d)
               \/ ForkFails(d) \/ Parent(d) \/ Shutdown(d) \/ Kill(d)
        PROVE  TypeOfCalls'
    BY <1>2
    DEF Start, Listen, ListenTcp, ListenUnix, Loop, Accept, AcceptFails, Term, ForkFails,
        Parent, Shutdown, Kill, Exit, callVars
  <1>3. ASSUME NEW c \in Callers,
               \/ ChildBegins(c) \/ StartPppd(c) \/ CallEnds(c) \/ PppdEnds(c)
               \/ RelayEnds(c) \/ Connect(c) \/ Leaves(c)
        PROVE  TypeOfCalls'
    BY <1>3
    DEF ChildBegins, StartPppd, CallEnds, PppdEnds, RelayEnds, PppdDrops, Connect, Leaves,
        callVars
  <1> QED BY <1>1, <1>2, <1>3 DEF Next, Step

\* The queues and what the callers have seen.
LEMMA QueuesTyped ==
  ASSUME IInv, Next
  PROVE  TypeOfQueues'
  <1> USE DEF IInv, Types
  <1>1. ASSUME NEW d \in Daemons,
               \/ Start(d) \/ Listen(d) \/ Loop(d) \/ AcceptFails(d) \/ Fork(d)
               \/ ForkFails(d) \/ Parent(d) \/ Term(d)
        PROVE  TypeOfQueues'
    BY <1>1
    DEF Start, Listen, ListenTcp, ListenUnix, Loop, AcceptFails, Fork, ForkFails, Parent,
        Term, TypeOfQueues
  <1>2. ASSUME NEW d \in Daemons, Accept(d)
        PROVE  TypeOfQueues'
    <2>1. backlog[d] \in Seq(Callers) /\ backlog[d] # <<>>
      BY <1>2 DEF Accept, TypeOfQueues
    <2>2. /\ Head(backlog[d]) \in Callers
          /\ Tail(backlog[d]) \in Seq(Callers)
          /\ Len(Tail(backlog[d])) = Len(backlog[d]) - 1
      BY <2>1, HeadTailProperties
    <2>3. backlog' \in [Daemons -> Seq(Callers)] /\ \A e \in Daemons : Len(backlog'[e]) <= Backlog
      <3> DEFINE q == Tail(backlog[d])
      <3>1. /\ backlog' = [backlog EXCEPT ![d] = q]
            /\ backlog \in [Daemons -> Seq(Callers)]
            /\ \A e \in Daemons : Len(backlog[e]) <= Backlog
        BY <1>2 DEF Accept, TypeOfQueues
      <3>2. q \in Seq(Callers) /\ Len(q) <= Backlog
        <4>1. Len(backlog[d]) \in Nat /\ Len(backlog[d]) <= Backlog /\ Backlog \in Nat
          BY <2>1, <3>1, DaemonAssumption
        <4> QED BY <2>2, <4>1
      <3> HIDE DEF q
      <3> QED BY <3>1, <3>2
    <2>4. caller' \in [Callers -> {"idle", "waiting", "left", "answered", "refused"}]
      BY <1>2, <2>2 DEF Accept, TypeOfQueues
    <2> QED BY <2>3, <2>4 DEF TypeOfQueues
  <1>3. ASSUME NEW d \in Daemons, Shutdown(d) \/ Kill(d)
        PROVE  TypeOfQueues'
    BY <1>3, SettleStep DEF Shutdown, Kill, Exit, Drop
  <1>4. ASSUME NEW c \in Callers, ChildBegins(c) \/ CallEnds(c) \/ PppdEnds(c) \/ RelayEnds(c)
        PROVE  TypeOfQueues'
    BY <1>4, SettleStep
    DEF ChildBegins, ChildCloses, CallEnds, PppdEnds, RelayEnds, PppdDrops, Drop
  <1>5. ASSUME NEW c \in Callers, Connect(c)
        PROVE  TypeOfQueues'
    <2>1. ASSUME NEW d \in Daemons
          PROVE  /\ Append(backlog[d], c) \in Seq(Callers)
                 /\ Len(Append(backlog[d], c)) = Len(backlog[d]) + 1
      BY AppendProperties DEF TypeOfQueues
    <2>2. CASE UNCHANGED backlog
      BY <1>5, <2>2 DEF Connect, TypeOfQueues
    <2>3. ASSUME NEW d \in Daemons, Len(backlog[d]) < Backlog,
                 backlog' = [backlog EXCEPT ![d] = Append(@, c)]
          PROVE  TypeOfQueues'
      <3>1. /\ backlog' \in [Daemons -> Seq(Callers)]
            /\ \A e \in Daemons : Len(backlog'[e]) <= Backlog
        BY <2>1, <2>3 DEF TypeOfQueues
      <3>2. caller' \in [Callers -> {"idle", "waiting", "left", "answered", "refused"}]
        BY <1>5 DEF Connect, TypeOfQueues
      <3> QED BY <3>1, <3>2 DEF TypeOfQueues
    <2> QED BY <1>5, <2>2, <2>3 DEF Connect
  <1>6. ASSUME NEW c \in Callers, StartPppd(c) \/ Leaves(c)
        PROVE  TypeOfQueues'
    BY <1>6 DEF StartPppd, Leaves, TypeOfQueues
  <1> QED BY <1>1, <1>2, <1>3, <1>4, <1>5, <1>6 DEF Next, Step

-----------------------------------------------------------------------------
(* Places.                                                                 *)

\* sm_ast_accept moves a caller from the queue to the daemon that took it.
LEMMA AcceptPlaces ==
  ASSUME IInv, NEW d \in Daemons, Accept(d)
  PROVE  OnePlace'
  <1> USE DEF IInv, Types
  <1> DEFINE c == Head(backlog[d])
  <1>1. backlog[d] \in Seq(Callers) /\ backlog[d] # <<>>
    BY DEF Accept, TypeOfQueues
  <1>2. /\ c \in Callers /\ c = backlog[d][1] /\ 1 \in 1..Len(backlog[d])
        /\ Len(Tail(backlog[d])) = Len(backlog[d]) - 1
        /\ \A i \in 1..Len(Tail(backlog[d])) :
              i + 1 \in 1..Len(backlog[d]) /\ Tail(backlog[d])[i] = backlog[d][i + 1]
    BY <1>1, HeadTailProperties
  <1>3. fd[d] = None
    BY DEF Accept, From, Accepted
  <1>4. /\ caller[c] # "idle" /\ by[c] = None
        /\ \A e \in Daemons : fd[e] # c
    BY <1>2 DEF OnePlace
  <1>5. /\ backlog' = [backlog EXCEPT ![d] = Tail(@)]
        /\ fd' \in {fd, [fd EXCEPT ![d] = c]}
        /\ by' = by
        /\ \A b \in Callers : caller[b] # "idle" => caller'[b] # "idle"
    BY <1>2 DEF Accept, callVars, TypeOfQueues
  <1>6. \A e \in Daemons : \A i \in 1..Len(backlog'[e]) :
           \E k \in 1..Len(backlog[e]) :
              /\ k = IF e = d THEN i + 1 ELSE i
              /\ backlog'[e][i] = backlog[e][k]
              /\ backlog[e][k] \in Callers
    BY <1>2, <1>5 DEF TypeOfQueues
  <1>7. \A e \in Daemons : \A i \in 1..Len(backlog'[e]) : backlog'[e][i] # c
    <2> SUFFICES ASSUME NEW e \in Daemons, NEW i \in 1..Len(backlog'[e]), backlog'[e][i] = c
                 PROVE  FALSE
      OBVIOUS
    <2>1. PICK k \in 1..Len(backlog[e]) : /\ k = IF e = d THEN i + 1 ELSE i
                                          /\ backlog'[e][i] = backlog[e][k]
      BY <1>6
    <2>2. backlog[e][k] = backlog[d][1]
      BY <1>2, <2>1
    <2>3. e = d /\ k = 1
      BY <1>2, <2>2 DEF OnePlace
    <2>4. i = 0 /\ i \in 1..Len(backlog'[e])
      BY <2>1, <2>3
    <2> QED BY <2>4
  <1>8. \A e, f \in Daemons : \A i \in 1..Len(backlog'[e]), j \in 1..Len(backlog'[f]) :
           backlog'[e][i] = backlog'[f][j] => e = f /\ i = j
    <2> SUFFICES ASSUME NEW e \in Daemons, NEW f \in Daemons,
                        NEW i \in 1..Len(backlog'[e]), NEW j \in 1..Len(backlog'[f]),
                        backlog'[e][i] = backlog'[f][j]
                 PROVE  e = f /\ i = j
      OBVIOUS
    <2>1. PICK k \in 1..Len(backlog[e]) : /\ k = IF e = d THEN i + 1 ELSE i
                                          /\ backlog'[e][i] = backlog[e][k]
      BY <1>6
    <2>2. PICK l \in 1..Len(backlog[f]) : /\ l = IF f = d THEN j + 1 ELSE j
                                          /\ backlog'[f][j] = backlog[f][l]
      BY <1>6
    <2>3. backlog[e][k] = backlog[f][l]
      BY <2>1, <2>2
    <2>4. e = f /\ k = l
      BY <2>3 DEF OnePlace
    <2> QED BY <2>1, <2>2, <2>4
  <1>9. \A e \in Daemons : \A i \in 1..Len(backlog'[e]) :
           /\ caller'[backlog'[e][i]] # "idle"
           /\ by'[backlog'[e][i]] = None
           /\ \A f \in Daemons : fd'[f] # backlog'[e][i]
    <2> SUFFICES ASSUME NEW e \in Daemons, NEW i \in 1..Len(backlog'[e])
                 PROVE  /\ caller'[backlog'[e][i]] # "idle"
                        /\ by'[backlog'[e][i]] = None
                        /\ \A f \in Daemons : fd'[f] # backlog'[e][i]
      OBVIOUS
    <2>1. PICK k \in 1..Len(backlog[e]) : /\ backlog'[e][i] = backlog[e][k]
                                          /\ backlog[e][k] \in Callers
      BY <1>6
    <2>2. /\ caller[backlog[e][k]] # "idle" /\ by[backlog[e][k]] = None
          /\ \A f \in Daemons : fd[f] # backlog[e][k]
      BY DEF OnePlace
    <2>3. \A f \in Daemons : fd'[f] \in {fd[f], c}
      BY <1>5 DEF TypeOfDaemons
    <2> QED BY <1>5, <1>7, <2>1, <2>2, <2>3
  <1>10. /\ \A e, f \in Daemons : fd'[e] = fd'[f] /\ fd'[e] # None => e = f
         /\ \A e \in Daemons : fd'[e] # None => caller'[fd'[e]] # "idle"
         /\ \A b \in Callers : by'[b] # None => caller'[b] # "idle"
    BY <1>2, <1>4, <1>5 DEF OnePlace, TypeOfDaemons
  <1> QED BY <1>8, <1>9, <1>10 DEF OnePlace

\* A caller that has not connected yet is nowhere, and joins one queue.
LEMMA ConnectPlaces ==
  ASSUME IInv, NEW c \in Callers, Connect(c)
  PROVE  OnePlace'
  <1> USE DEF IInv, Types
  <1>1. /\ \A d \in Daemons : fd[d] # c
        /\ \A d \in Daemons : \A i \in 1..Len(backlog[d]) : backlog[d][i] # c
        /\ by[c] = None
    BY NoneIsNone DEF Connect, OnePlace
  <1>2. /\ fd' = fd /\ by' = by
        /\ caller'[c] # "idle"
        /\ \A b \in Callers : caller[b] # "idle" => caller'[b] # "idle"
    BY DEF Connect, daemonVars, callVars, TypeOfQueues
  <1>3. CASE UNCHANGED backlog
    BY <1>2, <1>3, PlacesShrink
  <1>4. ASSUME NEW d \in Daemons, backlog' = [backlog EXCEPT ![d] = Append(@, c)]
        PROVE  OnePlace'
    <2>1. \A e \in Daemons : \A i \in 1..Len(backlog'[e]) :
             \/ i \in 1..Len(backlog[e]) /\ backlog'[e][i] = backlog[e][i]
             \/ e = d /\ i = Len(backlog[d]) + 1 /\ backlog'[e][i] = c
      BY <1>4, AppendProperties DEF TypeOfQueues
    <2>2. \A e \in Daemons : \A i \in 1..Len(backlog[e]) : backlog[e][i] \in Callers
      BY DEF TypeOfQueues
    <2>3. \A e, f \in Daemons : \A i \in 1..Len(backlog'[e]), j \in 1..Len(backlog'[f]) :
             backlog'[e][i] = backlog'[f][j] => e = f /\ i = j
      BY <1>1, <2>1 DEF OnePlace
    <2>4. \A e \in Daemons : \A i \in 1..Len(backlog'[e]) :
             /\ caller'[backlog'[e][i]] # "idle"
             /\ by'[backlog'[e][i]] = None
             /\ \A f \in Daemons : fd'[f] # backlog'[e][i]
      BY <1>1, <1>2, <2>1, <2>2 DEF OnePlace
    <2>5. /\ \A e, f \in Daemons : fd'[e] = fd'[f] /\ fd'[e] # None => e = f
          /\ \A e \in Daemons : fd'[e] # None => caller'[fd'[e]] # "idle"
          /\ \A b \in Callers : by'[b] # None => caller'[b] # "idle"
      BY <1>2, Closers DEF OnePlace
    <2> QED BY <2>3, <2>4, <2>5 DEF OnePlace
  <1> QED BY <1>3, <1>4 DEF Connect

\* fork gives the caller its call, while it is still the daemon's connection.
LEMMA ForkPlaces ==
  ASSUME IInv, NEW d \in Daemons, Fork(d)
  PROVE  OnePlace'
  <1> USE DEF IInv, Types
  <1>1. fd[d] \in Callers /\ fd[d] # None
    BY Closers DEF Fork, From, Accepted
  <1>2. UNCHANGED <<backlog, fd, caller>> /\ by' = [by EXCEPT ![fd[d]] = d]
    BY DEF Fork
  <1>3. \A e \in Daemons : \A i \in 1..Len(backlog[e]) :
           backlog[e][i] \in Callers /\ backlog[e][i] # fd[d]
    BY DEF OnePlace, TypeOfQueues
  <1>4. \A c \in Callers : by'[c] # None => caller[c] # "idle"
    BY <1>1, <1>2 DEF OnePlace, TypeOfCalls
  <1>5. \A e \in Daemons : \A i \in 1..Len(backlog[e]) : by'[backlog[e][i]] = None
    BY <1>2, <1>3 DEF OnePlace, TypeOfCalls
  <1> QED BY <1>2, <1>4, <1>5 DEF OnePlace

\* No step puts a caller at two places.
LEMMA PlacesKept ==
  ASSUME IInv, Next
  PROVE  OnePlace'
  <1> USE DEF IInv, Types
  <1>1. ASSUME NEW d \in Daemons,
               \/ Start(d) \/ Listen(d) \/ Loop(d) \/ AcceptFails(d) \/ Term(d)
               \/ ForkFails(d) \/ Parent(d)
        PROVE  OnePlace'
    <2>1. UNCHANGED <<backlog, caller, by>>
      BY <1>1 DEF Start, Listen, ListenTcp, ListenUnix, Loop, AcceptFails, Term, ForkFails,
                  Parent, callVars
    <2>2. \A e \in Daemons : fd'[e] \in {fd[e], None}
      BY <1>1 DEF Start, Listen, ListenTcp, ListenUnix, Loop, AcceptFails, Term, ForkFails,
                  Parent, TypeOfDaemons
    <2> QED BY <2>1, <2>2, PlacesShrink
  <1>2. ASSUME NEW d \in Daemons, Shutdown(d) \/ Kill(d)
        PROVE  OnePlace'
    <2>1. Settle /\ UNCHANGED by /\ \A e \in Daemons : fd'[e] \in {fd[e], None}
      BY <1>2 DEF Shutdown, Kill, Exit, Drop, callVars, TypeOfDaemons
    <2> QED BY <2>1, SettleStep, PlacesShrink
  <1>3. ASSUME NEW c \in Callers,
               \/ ChildBegins(c) \/ StartPppd(c) \/ CallEnds(c) \/ PppdEnds(c)
               \/ RelayEnds(c) \/ Leaves(c)
        PROVE  OnePlace'
    <2>1. fd' = fd /\ by' = by
      BY <1>3 DEF ChildBegins, StartPppd, CallEnds, PppdEnds, RelayEnds, PppdDrops, Leaves,
                  daemonVars, callVars
    <2>2. CASE Settle
      BY <2>1, <2>2, SettleStep, PlacesShrink
    <2>3. CASE StartPppd(c) \/ Leaves(c)
      <3>1. /\ backlog' = backlog
            /\ \A b \in Callers : caller[b] # "idle" => caller'[b] # "idle"
        BY <2>3 DEF StartPppd, Leaves, TypeOfQueues
      <3> QED BY <2>1, <3>1, PlacesShrink
    <2> QED BY <1>3, <2>2, <2>3
        DEF ChildBegins, ChildCloses, CallEnds, PppdEnds, RelayEnds, PppdDrops, Drop
  <1> QED BY <1>1, <1>2, <1>3, AcceptPlaces, ConnectPlaces, ForkPlaces DEF Next, Step

\* A daemon in fork or parent has a connection, and nobody else has.
LEMMA AcceptedKept ==
  ASSUME IInv, Next
  PROVE  Accepted' /\ Forked'
  <1> USE DEF IInv, Types
  <1>1. ASSUME NEW d \in Daemons, Accept(d)
        PROVE  Accepted' /\ Forked'
    <2>1. backlog[d] \in Seq(Callers) /\ backlog[d] # <<>>
      BY <1>1 DEF Accept, TypeOfQueues
    <2>2. /\ Head(backlog[d]) \in Callers /\ Head(backlog[d]) = backlog[d][1]
          /\ 1 \in 1..Len(backlog[d])
      BY <2>1, HeadTailProperties
    <2>3. by[Head(backlog[d])] = None /\ Head(backlog[d]) # None
      BY <2>2, NoneIsNone DEF OnePlace
    <2> QED BY <1>1, <2>2, <2>3
        DEF Accept, Accepted, Forked, From, Goto, TypeOfDaemons, callVars
  <1>2. ASSUME NEW d \in Daemons, Fork(d)
        PROVE  Accepted' /\ Forked'
    <2>1. /\ fd[d] \in Callers /\ fd[d] # None
          /\ \A e \in Daemons : e # d => fd[e] # fd[d]
      BY <1>2, Closers DEF Fork, From, Accepted, OnePlace
    <2>2. /\ fd' = fd /\ by' = [by EXCEPT ![fd[d]] = d]
          /\ call' = [call EXCEPT ![fd[d]] = "forked"]
          /\ pc' = [pc EXCEPT ![d] = "parent"] /\ pc[d] = "fork"
      BY <1>2 DEF Fork, Goto, From
    <2>3. Accepted'
      BY <2>1, <2>2, Closers DEF Accepted, TypeOfDaemons, TypeOfCalls
    <2>4. Forked'
      BY <2>1, <2>2, NoneIsNone DEF Forked, TypeOfCalls
    <2> QED BY <2>3, <2>4
  <1>3. ASSUME NEW d \in Daemons, ForkFails(d) \/ Parent(d) \/ Shutdown(d) \/ Kill(d)
        PROVE  Accepted' /\ Forked'
    <2>1. /\ UNCHANGED <<by, call>>
          /\ fd' = [fd EXCEPT ![d] = None]
          /\ pc' \in {[pc EXCEPT ![d] = "loop"], [pc EXCEPT ![d] = "exited"]}
      BY <1>3 DEF ForkFails, Parent, Shutdown, Kill, Exit, Goto, callVars
    <2> QED BY <2>1 DEF Accepted, Forked, TypeOfDaemons
  <1>4. ASSUME NEW d \in Daemons,
               Start(d) \/ Listen(d) \/ Loop(d) \/ AcceptFails(d) \/ Term(d)
        PROVE  Accepted' /\ Forked'
    <2>1. /\ UNCHANGED <<by, call, fd>>
          /\ \/ pc' = pc
             \/ /\ pc[d] \notin {"fork", "parent"}
                /\ \E l \in {"listen", "exited", "loop", "accept", "shutdown"} :
                      pc' = [pc EXCEPT ![d] = l]
      BY <1>4 DEF Start, Listen, ListenTcp, ListenUnix, Loop, WhileRun, AcceptFails, Term,
                  Goto, From, callVars
    <2> QED BY <2>1 DEF Accepted, Forked, TypeOfDaemons
  <1>5. ASSUME NEW c \in Callers,
               \/ ChildBegins(c) \/ StartPppd(c) \/ CallEnds(c) \/ PppdEnds(c)
               \/ RelayEnds(c) \/ Connect(c) \/ Leaves(c)
        PROVE  Accepted' /\ Forked'
    <2>1. UNCHANGED <<by, fd, pc>>
      BY <1>5 DEF ChildBegins, StartPppd, CallEnds, PppdEnds, RelayEnds, PppdDrops, Connect,
                  Leaves, daemonVars, callVars
    <2>2. \A b \in Callers : call'[b] = "none" <=> call[b] = "none"
      BY <1>5 DEF ChildBegins, StartPppd, CallEnds, PppdEnds, RelayEnds, PppdDrops, Connect,
                  Leaves, callVars, TypeOfCalls
    <2> QED BY <2>1, <2>2 DEF Accepted, Forked
  <1> QED BY <1>1, <1>2, <1>3, <1>4, <1>5 DEF Next, Step

-----------------------------------------------------------------------------
(* Descriptors.                                                            *)

\* A connection stays with its own.  The copies a process is given by fork are
\* of what its parent holds, and that is only the connection it forks for.
LEMMA ConnKept ==
  ASSUME IInv, Next
  PROVE  OnlyItsOwn'
  <1> USE DEF IInv, Types
  <1>1. ASSUME NEW d \in Daemons, Accept(d)
        PROVE  OnlyItsOwn'
    <2>1. Head(backlog[d]) \in Callers
      BY <1>1, HeadTailProperties DEF Accept, TypeOfQueues
    <2>2. fd[d] = None /\ \A c \in Callers : Conn(c) \notin files[Main(d)]
      BY <1>1, NoneIsNone, ProcessNames DEF Accept, From, Accepted, OnlyItsOwn
    <2>3. CASE UNCHANGED <<fd, files, pc>>
      BY <2>3 DEF OnlyItsOwn
    <2>4. CASE /\ fd' = [fd EXCEPT ![d] = Head(backlog[d])]
               /\ files' = [files EXCEPT ![Main(d)] = @ \cup {Conn(Head(backlog[d]))}]
               /\ pc' = [pc EXCEPT ![d] = "fork"]
      <3> SUFFICES ASSUME NEW c \in Callers, NEW p \in Process, Conn(c) \in files'[p]
                   PROVE  \/ p \in {Call(c), Pppd(c)}
                          \/ \E e \in Daemons : /\ p = Main(e) /\ fd'[e] = c
                                                /\ pc'[e] \in {"fork", "parent"}
        BY DEF OnlyItsOwn
      <3>1. CASE p = Main(d)
        <4>1. c = Head(backlog[d])
          BY <2>1, <2>2, <2>4, <3>1, ProcessNames, FileNames DEF TypeOfWorld
        <4> QED BY <2>4, <3>1, <4>1 DEF TypeOfDaemons
      <3>2. CASE p # Main(d)
        <4>1. Conn(c) \in files[p]
          BY <2>4, <3>2 DEF TypeOfWorld
        <4>2. \/ p \in {Call(c), Pppd(c)}
              \/ \E e \in Daemons : /\ p = Main(e) /\ e # d /\ fd[e] = c
                                    /\ pc[e] \in {"fork", "parent"}
          BY <3>2, <4>1 DEF OnlyItsOwn
        <4> QED BY <2>4, <4>2 DEF TypeOfDaemons
      <3> QED BY <3>1, <3>2
    <2> QED BY <1>1, <2>3, <2>4 DEF Accept, Goto
  <1>2. ASSUME NEW d \in Daemons, Fork(d)
        PROVE  OnlyItsOwn'
    <2>1. fd[d] \in Callers
      BY <1>2, Closers DEF Fork, From, Accepted
    <2>2. \A c \in Callers : Conn(c) \in files[Main(d)] => c = fd[d]
      BY ProcessNames DEF OnlyItsOwn
    <2>3. /\ files' = [files EXCEPT ![Call(fd[d])] = files[Main(d)]]
          /\ fd' = fd /\ pc' = [pc EXCEPT ![d] = "parent"]
      BY <1>2 DEF Fork, Goto
    <2> SUFFICES ASSUME NEW c \in Callers, NEW p \in Process, Conn(c) \in files'[p]
                 PROVE  \/ p \in {Call(c), Pppd(c)}
                        \/ \E e \in Daemons : /\ p = Main(e) /\ fd'[e] = c
                                              /\ pc'[e] \in {"fork", "parent"}
      BY DEF OnlyItsOwn
    <2>4. CASE p = Call(fd[d])
      BY <2>1, <2>2, <2>3, <2>4 DEF TypeOfWorld
    <2>5. CASE p # Call(fd[d])
      <3>1. Conn(c) \in files[p]
        BY <2>3, <2>5 DEF TypeOfWorld
      <3>2. \/ p \in {Call(c), Pppd(c)}
            \/ \E e \in Daemons : /\ p = Main(e) /\ fd[e] = c
                                  /\ pc[e] \in {"fork", "parent"}
        BY <3>1 DEF OnlyItsOwn
      <3> QED BY <2>3, <3>2 DEF TypeOfDaemons
    <2> QED BY <2>4, <2>5
  <1>3. ASSUME NEW d \in Daemons, ForkFails(d) \/ Parent(d) \/ Shutdown(d) \/ Kill(d)
        PROVE  OnlyItsOwn'
    <2>1. /\ \A p \in Process : files'[p] \subseteq files[p]
          /\ \A c \in Callers : fd[d] = c => Conn(c) \notin files'[Main(d)]
      BY <1>3, ProcessNames
      DEF ForkFails, Parent, ParentKeeps, Shutdown, Kill, Exit, Drop, TypeOfWorld
    <2>2. \A e \in Daemons : e # d => fd'[e] = fd[e] /\ pc'[e] = pc[e]
      BY <1>3 DEF ForkFails, Parent, Shutdown, Kill, Exit, Goto, TypeOfDaemons
    <2> QED BY <2>1, <2>2 DEF OnlyItsOwn
  <1>4. ASSUME NEW d \in Daemons,
               Start(d) \/ Listen(d) \/ Loop(d) \/ AcceptFails(d) \/ Term(d)
        PROVE  OnlyItsOwn'
    <2>1. /\ fd' = fd
          /\ \A p \in Process, c \in Callers : Conn(c) \in files'[p] => Conn(c) \in files[p]
      BY <1>4, ProcessNames, FileNames
      DEF Start, Listen, ListenTcp, ListenUnix, Loop, AcceptFails, Term, TypeOfWorld
    <2>2. pc' = pc \/ (pc[d] \notin {"fork", "parent"} /\ \A e \in Daemons : e # d => pc'[e] = pc[e])
      BY <1>4 DEF Start, Listen, ListenTcp, ListenUnix, Loop, WhileRun, AcceptFails, Term,
                  Goto, From, TypeOfDaemons
    <2> QED BY <2>1, <2>2 DEF OnlyItsOwn
  <1>5. ASSUME NEW c \in Callers, StartPppd(c)
        PROVE  OnlyItsOwn'
    <2>1. UNCHANGED <<fd, pc>>
      BY <1>5 DEF StartPppd, daemonVars
    <2>2. \A b \in Callers : Conn(b) \in files[Call(c)] => b = c
      BY ProcessNames DEF OnlyItsOwn
    <2>3. \A b \in Callers, p \in Process :
             Conn(b) \in files'[p] => Conn(b) \in files[p] \/ (p = Pppd(c) /\ b = c)
      BY <1>5, <2>2, ProcessNames, FileNames DEF StartPppd, Inherits, TypeOfWorld
    <2> QED BY <2>1, <2>3 DEF OnlyItsOwn
  <1>6. ASSUME NEW c \in Callers,
               \/ ChildBegins(c) \/ CallEnds(c) \/ PppdEnds(c) \/ RelayEnds(c)
               \/ Connect(c) \/ Leaves(c)
        PROVE  OnlyItsOwn'
    <2>1. UNCHANGED <<fd, pc>>
      BY <1>6 DEF ChildBegins, CallEnds, PppdEnds, RelayEnds, PppdDrops, Connect, Leaves,
                  daemonVars
    <2>2. \A p \in Process : files'[p] \subseteq files[p]
      BY <1>6
      DEF ChildBegins, ChildCloses, CallEnds, PppdEnds, RelayEnds, PppdDrops, Drop, Connect,
          Leaves, TypeOfWorld
    <2> QED BY <2>1, <2>2 DEF OnlyItsOwn
  <1> QED BY <1>1, <1>2, <1>3, <1>4, <1>5, <1>6 DEF Next, Step

\* A listening socket passes to a new call and no further: the call closes its
\* copy before it can start pppd.
LEMMA ListenerKept ==
  ASSUME IInv, Next
  PROVE  ListenerHeld'
  <1> USE DEF IInv, Types
  <1>1. ASSUME NEW d \in Daemons, Listen(d)
        PROVE  ListenerHeld'
    <2>1. /\ UNCHANGED <<call, by>>
          /\ pc[d] = "listen" /\ \A e \in Daemons : e # d => pc'[e] = pc[e]
          /\ \/ files' = files
             \/ pc'[d] = "loop" /\ files' = [files EXCEPT ![Main(d)] = {Listener(d)}]
      BY <1>1 DEF Listen, ListenTcp, ListenUnix, callVars, From, Goto, TypeOfDaemons
    <2>2. \A e \in Daemons, p \in Process :
             Listener(e) \in files'[p] =>
                \/ Listener(e) \in files[p]
                \/ e = d /\ p = Main(d) /\ pc'[d] = "loop"
      BY <2>1, FileNames, ProcessNames DEF TypeOfWorld
    <2> QED BY <2>1, <2>2 DEF ListenerHeld, Serving
  <1>2. ASSUME NEW d \in Daemons, Fork(d)
        PROVE  ListenerHeld'
    <2>1. fd[d] \in Callers /\ by[fd[d]] = None
      BY <1>2, Closers DEF Fork, From, Accepted
    <2>2. \A e \in Daemons : Listener(e) \in files[Main(d)] => e = d
      BY ProcessNames DEF ListenerHeld
    <2>3. /\ files' = [files EXCEPT ![Call(fd[d])] = files[Main(d)]]
          /\ pc' = [pc EXCEPT ![d] = "parent"] /\ pc[d] = "fork"
          /\ call' = [call EXCEPT ![fd[d]] = "forked"]
          /\ by' = [by EXCEPT ![fd[d]] = d]
      BY <1>2 DEF Fork, Goto, From
    <2> SUFFICES ASSUME NEW e \in Daemons, NEW p \in Process, Listener(e) \in files'[p]
                 PROVE  \/ p = Main(e) /\ pc'[e] \in Serving \cup {"shutdown"}
                        \/ \E c \in Callers : p = Call(c) /\ call'[c] = "forked" /\ by'[c] = e
      BY DEF ListenerHeld
    <2>4. CASE p = Call(fd[d])
      BY <2>1, <2>2, <2>3, <2>4, ProcessNames DEF TypeOfWorld, TypeOfCalls
    <2>5. CASE p # Call(fd[d])
      <3>1. Listener(e) \in files[p]
        BY <2>3, <2>5 DEF TypeOfWorld
      <3>2. \/ p = Main(e) /\ pc[e] \in Serving \cup {"shutdown"}
            \/ \E c \in Callers : p = Call(c) /\ call[c] = "forked" /\ by[c] = e
        BY <3>1 DEF ListenerHeld
      <3>3. pc'[e] \in {pc[e], "parent"}
        BY <2>3 DEF TypeOfDaemons
      <3>4. \A c \in Callers : p = Call(c) => call'[c] = call[c] /\ by'[c] = by[c]
        BY <2>1, <2>3, <2>5 DEF TypeOfCalls
      <3> QED BY <3>2, <3>3, <3>4 DEF Serving
    <2> QED BY <2>4, <2>5
  <1>3. ASSUME NEW d \in Daemons, Shutdown(d) \/ Kill(d)
        PROVE  ListenerHeld'
    <2>1. /\ UNCHANGED <<call, by>>
          /\ files' = [files EXCEPT ![Main(d)] = {}]
          /\ \A e \in Daemons : e # d => pc'[e] = pc[e]
      BY <1>3 DEF Shutdown, Kill, Exit, Drop, Goto, callVars, TypeOfDaemons
    <2>2. \A e \in Daemons, p \in Process :
             Listener(e) \in files'[p] => Listener(e) \in files[p] /\ p # Main(d)
      BY <2>1, ProcessNames DEF TypeOfWorld
    <2> QED BY <2>1, <2>2 DEF ListenerHeld
  <1>4. ASSUME NEW d \in Daemons,
               \/ Start(d) \/ Loop(d) \/ Accept(d) \/ AcceptFails(d) \/ Term(d)
               \/ ForkFails(d) \/ Parent(d)
        PROVE  ListenerHeld'
    <2>1. UNCHANGED <<call, by>>
      BY <1>4 DEF Start, Loop, Accept, AcceptFails, Term, ForkFails, Parent, callVars
    <2>2. \A e \in Daemons : \/ pc'[e] = pc[e]
                             \/ pc[e] = "off"
                             \/ pc'[e] \in Serving \cup {"shutdown"}
      BY <1>4 DEF Start, Loop, WhileRun, Accept, AcceptFails, Term, ForkFails, Parent, From,
                  Goto, Serving, TypeOfDaemons
    <2>3. \A e \in Daemons, p \in Process :
             Listener(e) \in files'[p] => Listener(e) \in files[p]
      <3>1. CASE UNCHANGED files
        BY <3>1
      <3>2. CASE Accept(d)
        <4>1. Head(backlog[d]) \in Callers
          BY <3>2, HeadTailProperties DEF Accept, TypeOfQueues
        <4> QED BY <3>2, <4>1, ProcessNames, FileNames DEF Accept, TypeOfWorld
      <3>3. CASE ForkFails(d) \/ Parent(d)
        BY <3>3, ProcessNames DEF ForkFails, Parent, ParentKeeps, TypeOfWorld
      <3> QED BY <1>4, <3>1, <3>2, <3>3 DEF Start, Loop, AcceptFails, Term
    <2> QED BY <2>1, <2>2, <2>3 DEF ListenerHeld, Serving
  <1>5. ASSUME NEW c \in Callers, ChildBegins(c)
        PROVE  ListenerHeld'
    <2>1. /\ pc' = pc /\ by' = by
          /\ \A b \in Callers : b # c => call'[b] = call[b]
      BY <1>5 DEF ChildBegins, daemonVars, TypeOfCalls
    <2>2. \A e \in Daemons : Listener(e) \in files[Call(c)] => by[c] = e
      BY ProcessNames DEF ListenerHeld
    <2>3. \A e \in Daemons, p \in Process :
             Listener(e) \in files'[p] => Listener(e) \in files[p] /\ p # Call(c)
      BY <1>5, <2>2, ProcessNames DEF ChildBegins, ChildCloses, Drop, TypeOfWorld
    <2> QED BY <2>1, <2>3 DEF ListenerHeld
  <1>6. ASSUME NEW c \in Callers, StartPppd(c) \/ CallEnds(c)
        PROVE  ListenerHeld'
    <2>1. call[c] = "running" /\ UNCHANGED <<pc, by>>
      BY <1>6 DEF StartPppd, CallEnds, daemonVars
    <2>2. \A e \in Daemons : Listener(e) \notin files[Call(c)]
      BY <2>1, ProcessNames DEF ListenerHeld
    <2>3. \A e \in Daemons, p \in Process :
             Listener(e) \in files'[p] => Listener(e) \in files[p]
      BY <1>6, <2>2, ProcessNames, FileNames
      DEF StartPppd, Inherits, CallEnds, Drop, TypeOfWorld
    <2>4. \A b \in Callers : call[b] = "forked" => call'[b] = "forked"
      BY <1>6, <2>1 DEF StartPppd, CallEnds, TypeOfCalls
    <2> QED BY <2>1, <2>3, <2>4 DEF ListenerHeld
  <1>7. ASSUME NEW c \in Callers, PppdEnds(c) \/ RelayEnds(c) \/ Connect(c) \/ Leaves(c)
        PROVE  ListenerHeld'
    <2>1. UNCHANGED <<pc, by, call>> /\ \A p \in Process : files'[p] \subseteq files[p]
      BY <1>7 DEF PppdEnds, RelayEnds, PppdDrops, Drop, Connect, Leaves, daemonVars, callVars,
                  TypeOfWorld
    <2> QED BY <2>1 DEF ListenerHeld
  <1> QED BY <1>1, <1>2, <1>3, <1>4, <1>5, <1>6, <1>7 DEF Next, Step

\* The call's end of the pair is made after pppd's process has its copies, so
\* it stays with the call.
LEMMA PairKept ==
  ASSUME IInv, Next
  PROVE  PairHeld'
  <1> USE DEF IInv, Types
  <1>1. ASSUME NEW c \in Callers, StartPppd(c)
        PROVE  PairHeld'
    <2>1. \A b \in Callers : Pair(b) \notin files[Call(c)]
      BY <1>1, ProcessNames DEF StartPppd, PairHeld
    <2>2. \A b \in Callers, p \in Process :
             Pair(b) \in files'[p] => Pair(b) \in files[p] \/ (p = Call(c) /\ b = c)
      BY <1>1, <2>1, ProcessNames, FileNames DEF StartPppd, Inherits, TypeOfWorld
    <2>3. \A b \in Callers : pppd[b] # "none" \/ b = c => pppd'[b] # "none"
      BY <1>1 DEF StartPppd, TypeOfCalls
    <2> QED BY <2>2, <2>3 DEF PairHeld
  <1>2. ASSUME NEW d \in Daemons, Fork(d)
        PROVE  PairHeld'
    <2>1. \A b \in Callers : Pair(b) \notin files[Main(d)]
      BY ProcessNames DEF PairHeld
    <2>2. \A b \in Callers, p \in Process : Pair(b) \in files'[p] => Pair(b) \in files[p]
      BY <1>2, <2>1 DEF Fork, TypeOfWorld
    <2> QED BY <1>2, <2>2 DEF PairHeld, Fork
  <1>3. ASSUME NEW d \in Daemons,
               \/ Start(d) \/ Listen(d) \/ Loop(d) \/ Accept(d) \/ AcceptFails(d) \/ Term(d)
               \/ ForkFails(d) \/ Parent(d) \/ Shutdown(d) \/ Kill(d)
        PROVE  PairHeld'
    <2>1. UNCHANGED pppd
      BY <1>3 DEF Start, Listen, ListenTcp, ListenUnix, Loop, Accept, AcceptFails, Term,
                  ForkFails, Parent, Shutdown, Kill, Exit, callVars
    <2>2. \A b \in Callers, p \in Process : Pair(b) \in files'[p] => Pair(b) \in files[p]
      <3>1. CASE Accept(d)
        <4>1. Head(backlog[d]) \in Callers
          BY <3>1, HeadTailProperties DEF Accept, TypeOfQueues
        <4> QED BY <3>1, <4>1, FileNames DEF Accept, TypeOfWorld
      <3>2. CASE Listen(d)
        BY <3>2, FileNames DEF Listen, ListenTcp, ListenUnix, TypeOfWorld
      <3>3. CASE ~Accept(d) /\ ~Listen(d)
        BY <1>3, <3>3
        DEF Start, Loop, AcceptFails, Term, ForkFails, Parent, ParentKeeps, Shutdown, Kill,
            Exit, Drop, TypeOfWorld
      <3> QED BY <3>1, <3>2, <3>3
    <2> QED BY <2>1, <2>2 DEF PairHeld
  <1>4. ASSUME NEW c \in Callers,
               \/ ChildBegins(c) \/ CallEnds(c) \/ PppdEnds(c) \/ RelayEnds(c)
               \/ Connect(c) \/ Leaves(c)
        PROVE  PairHeld'
    <2>1. \A p \in Process : files'[p] \subseteq files[p]
      BY <1>4
      DEF ChildBegins, ChildCloses, CallEnds, PppdEnds, RelayEnds, PppdDrops, Drop, Connect,
          Leaves, TypeOfWorld
    <2>2. \A b \in Callers : pppd[b] # "none" => pppd'[b] # "none"
      BY <1>4 DEF ChildBegins, CallEnds, PppdEnds, RelayEnds, PppdDrops, Connect, Leaves,
                  callVars, TypeOfCalls
    <2> QED BY <2>1, <2>2 DEF PairHeld
  <1> QED BY <1>1, <1>2, <1>3, <1>4 DEF Next, Step

\* A call or a pppd that is over, or that never was, has nothing.
LEMMA GoneKept ==
  ASSUME IInv, Next
  PROVE  GoneHolds'
  <1> USE DEF IInv, Types
  <1>1. ASSUME NEW d \in Daemons, Fork(d)
        PROVE  GoneHolds'
    <2>1. fd[d] \in Callers
      BY <1>1, Closers DEF Fork, From, Accepted
    <2> QED BY <1>1, <2>1, ProcessNames DEF Fork, GoneHolds, TypeOfWorld, TypeOfCalls
  <1>2. ASSUME NEW d \in Daemons,
               \/ Start(d) \/ Listen(d) \/ Loop(d) \/ Accept(d) \/ AcceptFails(d) \/ Term(d)
               \/ ForkFails(d) \/ Parent(d) \/ Shutdown(d) \/ Kill(d)
        PROVE  GoneHolds'
    <2>1. UNCHANGED <<call, pppd>>
      BY <1>2 DEF Start, Listen, ListenTcp, ListenUnix, Loop, Accept, AcceptFails, Term,
                  ForkFails, Parent, Shutdown, Kill, Exit, callVars
    <2>2. \A p \in Process : p # Main(d) => files'[p] = files[p]
      BY <1>2
      DEF Start, Listen, ListenTcp, ListenUnix, Loop, Accept, AcceptFails, Term, ForkFails,
          Parent, ParentKeeps, Shutdown, Kill, Exit, Drop, TypeOfWorld
    <2> QED BY <2>1, <2>2, ProcessNames DEF GoneHolds
  <1>3. ASSUME NEW c \in Callers, ChildBegins(c) \/ CallEnds(c)
        PROVE  GoneHolds'
    <2>1. /\ pppd' = pppd
          /\ \A b \in Callers : b # c => call'[b] = call[b]
          /\ \A p \in Process : p # Call(c) => files'[p] = files[p]
          /\ call'[c] = "running" \/ (call'[c] = "ended" /\ files'[Call(c)] = {})
      BY <1>3, ProcessNames
      DEF ChildBegins, ChildCloses, CallEnds, Drop, TypeOfWorld, TypeOfCalls
    <2> QED BY <2>1, ProcessNames DEF GoneHolds
  <1>4. ASSUME NEW c \in Callers, StartPppd(c)
        PROVE  GoneHolds'
    <2>1. /\ call' = call /\ call[c] = "running" /\ pppd'[c] = "running"
          /\ \A b \in Callers : b # c => pppd'[b] = pppd[b]
          /\ \A p \in Process : p \notin {Call(c), Pppd(c)} => files'[p] = files[p]
      BY <1>4, ProcessNames DEF StartPppd, TypeOfWorld, TypeOfCalls
    <2> QED BY <2>1, ProcessNames DEF GoneHolds
  <1>5. ASSUME NEW c \in Callers, PppdEnds(c) \/ RelayEnds(c)
        PROVE  GoneHolds'
    <2>1. /\ call' = call /\ files'[Pppd(c)] = {}
          /\ \A b \in Callers : b # c => pppd'[b] = pppd[b]
          /\ \A p \in Process : p # Pppd(c) => files'[p] = files[p]
      BY <1>5, ProcessNames DEF PppdEnds, RelayEnds, PppdDrops, Drop, TypeOfWorld, TypeOfCalls
    <2> QED BY <2>1, ProcessNames DEF GoneHolds
  <1>6. ASSUME NEW c \in Callers, Connect(c) \/ Leaves(c)
        PROVE  GoneHolds'
    BY <1>6 DEF Connect, Leaves, callVars, GoneHolds
  <1> QED BY <1>1, <1>2, <1>3, <1>4, <1>5, <1>6 DEF Next, Step

-----------------------------------------------------------------------------
(* Calls after SIGTERM, and their numbers.                                 *)

\* A daemon that was told to stop leaves its loop the next time round.
LEMMA LateKept ==
  ASSUME IInv, Next
  PROVE  LateOnce'
  <1> USE DEF IInv, Types
  <1>1. ASSUME NEW d \in Daemons, Fork(d)
        PROVE  LateOnce'
    <2>1. fd[d] \in Callers /\ late[d] = {}
      BY <1>1, Closers DEF Fork, From, Accepted, LateOnce
    <2>2. /\ g_run' = g_run /\ pc' = [pc EXCEPT ![d] = "parent"]
          /\ \/ late' = late
             \/ ~g_run[d] /\ late' = [late EXCEPT ![d] = @ \cup {fd[d]}]
      BY <1>1 DEF Fork, Goto
    <2>3. late'[d] # {} => ~g_run[d] /\ late'[d] = {fd[d]}
      BY <2>1, <2>2 DEF TypeOfDaemons
    <2>4. \A e \in Daemons : e # d => late'[e] = late[e] /\ pc'[e] = pc[e]
      BY <2>2 DEF TypeOfDaemons
    <2>5. pc'[d] = "parent"
      BY <2>2 DEF TypeOfDaemons
    <2> QED BY <2>1, <2>2, <2>3, <2>4, <2>5 DEF LateOnce
  <1>2. ASSUME NEW d \in Daemons,
               \/ Start(d) \/ Listen(d) \/ Loop(d) \/ Accept(d) \/ AcceptFails(d) \/ Term(d)
               \/ ForkFails(d) \/ Parent(d) \/ Shutdown(d) \/ Kill(d)
        PROVE  LateOnce'
    <2>1. late' = late
      BY <1>2 DEF Start, Listen, ListenTcp, ListenUnix, Loop, Accept, AcceptFails, Term,
                  ForkFails, Parent, Shutdown, Kill, Exit
    <2>2. /\ \A e \in Daemons : ~g_run[e] => ~g_run'[e]
          /\ \A e \in Daemons : e # d => pc'[e] = pc[e]
      BY <1>2 DEF Start, Listen, ListenTcp, ListenUnix, Loop, WhileRun, Accept, AcceptFails,
                  Term, ForkFails, Parent, Shutdown, Kill, Exit, Goto, TypeOfDaemons
    <2>3. ~g_run[d] /\ pc[d] \in {"parent", "loop", "shutdown", "exited"} =>
             pc'[d] \in {"parent", "loop", "shutdown", "exited"}
      BY <1>2 DEF Start, Listen, ListenTcp, ListenUnix, Loop, WhileRun, Accept, AcceptFails,
                  Term, ForkFails, Parent, Shutdown, Kill, Exit, Goto, From, TypeOfDaemons
    <2> QED BY <2>1, <2>2, <2>3 DEF LateOnce
  <1>3. ASSUME NEW c \in Callers,
               \/ ChildBegins(c) \/ StartPppd(c) \/ CallEnds(c) \/ PppdEnds(c)
               \/ RelayEnds(c) \/ Connect(c) \/ Leaves(c)
        PROVE  LateOnce'
    BY <1>3 DEF ChildBegins, StartPppd, CallEnds, PppdEnds, RelayEnds, PppdDrops, Connect,
                Leaves, daemonVars, LateOnce
  <1> QED BY <1>1, <1>2, <1>3 DEF Next, Step

\* The calls of a daemon are some of the callers.
LEMMA CallsOfFinite ==
  ASSUME NEW d \in Daemons
  PROVE  /\ IsFiniteSet(CallsOf(d))
         /\ Cardinality(CallsOf(d)) \in 0..Cardinality(Callers)
  <1>1. CallsOf(d) \in SUBSET Callers
    BY DEF CallsOf
  <1> QED BY <1>1, CallersFinite, FS_Subset, FS_CardinalityType

\* One fork more is one call more, under the number that comes next.
LEMMA NumbersKept ==
  ASSUME IInv, Next
  PROVE  TypeOfNumbers' /\ SeqCounts'
  <1> USE DEF IInv, Types
  <1>0. /\ \A d \in Daemons : call_seq[d] \in Nat
        /\ \A c \in Callers : call_id[c] \in Nat
    BY CallersFinite DEF TypeOfNumbers
  <1>1. ASSUME NEW d \in Daemons, Fork(d)
        PROVE  TypeOfNumbers' /\ SeqCounts'
    <2> DEFINE c == fd[d]
    <2>1. c \in Callers /\ by[c] = None /\ pc[d] = "fork"
      BY <1>1, Closers DEF Fork, From, Accepted
    <2>2. /\ call_seq' = call_seq /\ pc' = [pc EXCEPT ![d] = "parent"]
          /\ by' = [by EXCEPT ![c] = d]
          /\ call_id' = [call_id EXCEPT ![c] = call_seq[d]]
      BY <1>1 DEF Fork, Goto
    <2>3. TypeOfNumbers'
      BY <2>1, <2>2 DEF TypeOfNumbers
    <2>4. /\ CallsOf(d)' = CallsOf(d) \cup {c} /\ c \notin CallsOf(d)
          /\ \A e \in Daemons : e # d => CallsOf(e)' = CallsOf(e)
          /\ \A e \in Daemons : c \notin CallsOf(e)
      BY <2>1, <2>2, NoneIsNone DEF CallsOf, TypeOfCalls
    <2>5. /\ Counted(d) = call_seq[d] /\ Counted(d)' = call_seq[d] + 1
          /\ \A e \in Daemons : e # d => Counted(e)' = Counted(e) /\ pc'[e] = pc[e]
      BY <1>0, <2>1, <2>2 DEF Counted, TypeOfDaemons
    <2>6. Cardinality(CallsOf(d)') = Cardinality(CallsOf(d)) + 1
      BY <2>4, CallsOfFinite, FS_AddElement
    <2>7. \A b \in Callers : call_id'[b] = IF b = c THEN call_seq[d] ELSE call_id[b]
      BY <2>1, <2>2 DEF TypeOfNumbers
    <2>8. /\ Counted(d)' = Cardinality(CallsOf(d)')
          /\ \A b \in CallsOf(d)' : call_id'[b] < Counted(d)'
          /\ \A a, b \in CallsOf(d)' : call_id'[a] = call_id'[b] => a = b
      <3>1. /\ Counted(d) = Cardinality(CallsOf(d))
            /\ \A b \in CallsOf(d) : b \in Callers /\ call_id[b] < call_seq[d]
            /\ \A a, b \in CallsOf(d) : call_id[a] = call_id[b] => a = b
        BY <2>1, <2>5 DEF SeqCounts, CallsOf
      <3>2. Counted(d)' = Cardinality(CallsOf(d)')
        BY <2>5, <2>6, <3>1
      <3>3. \A b \in CallsOf(d)' :
               \/ b = c /\ call_id'[b] = call_seq[d]
               \/ b \in CallsOf(d) /\ b # c /\ call_id'[b] = call_id[b]
        BY <2>1, <2>4, <2>7, <3>1
      <3>4. \A b \in CallsOf(d)' : call_id'[b] < Counted(d)'
        <4> SUFFICES ASSUME NEW b \in CallsOf(d)'
                     PROVE  call_id'[b] < call_seq[d] + 1
          BY <2>5
        <4>1. CASE call_id'[b] = call_seq[d]
          BY <1>0, <4>1
        <4>2. CASE b \in CallsOf(d) /\ call_id'[b] = call_id[b]
          <5>1. call_id[b] \in Nat /\ call_id[b] < call_seq[d]
            BY <1>0, <3>1, <4>2
          <5> QED BY <1>0, <4>2, <5>1
        <4> QED BY <3>3, <4>1, <4>2
      <3>5. \A a, b \in CallsOf(d)' : call_id'[a] = call_id'[b] => a = b
        BY <1>0, <3>1, <3>3
      <3> QED BY <3>2, <3>4, <3>5
    <2>9. ASSUME NEW e \in Daemons, e # d
          PROVE  /\ pc'[e] # "exited" => Counted(e)' = Cardinality(CallsOf(e)')
                 /\ pc'[e] # "exited" => \A b \in CallsOf(e)' : call_id'[b] < Counted(e)'
                 /\ \A a, b \in CallsOf(e)' : call_id'[a] = call_id'[b] => a = b
      <3>1. \A b \in CallsOf(e) : call_id'[b] = call_id[b]
        BY <2>4, <2>7 DEF CallsOf
      <3> QED BY <2>4, <2>5, <2>9, <3>1 DEF SeqCounts
    <2> QED BY <2>3, <2>8, <2>9 DEF SeqCounts
  <1>2. ASSUME NEW d \in Daemons, Parent(d)
        PROVE  TypeOfNumbers' /\ SeqCounts'
    <2>1. /\ pc[d] = "parent" /\ pc' = [pc EXCEPT ![d] = "loop"]
          /\ call_seq' = [call_seq EXCEPT ![d] = @ + 1]
          /\ UNCHANGED <<by, call_id>>
      BY <1>2 DEF Parent, ParentKeeps, From, Goto, callVars
    <2>2. \A e \in Daemons : CallsOf(e)' = CallsOf(e)
      BY <2>1 DEF CallsOf
    <2>3. /\ \A e \in Daemons : Counted(e)' = Counted(e)
          /\ \A e \in Daemons : pc'[e] = "exited" <=> pc[e] = "exited"
      BY <1>0, <2>1 DEF Counted, TypeOfNumbers, TypeOfDaemons
    <2>4. call_seq[d] + 1 \in 0..Cardinality(Callers)
      BY <1>0, <2>1, CallsOfFinite, CallersFinite DEF SeqCounts, Counted
    <2>5. TypeOfNumbers'
      BY <2>1, <2>4 DEF TypeOfNumbers
    <2>6. SeqCounts'
      BY <2>1, <2>2, <2>3 DEF SeqCounts
    <2> QED BY <2>5, <2>6
  <1>3. ASSUME NEW d \in Daemons, Shutdown(d) \/ Kill(d)
        PROVE  TypeOfNumbers' /\ SeqCounts'
    <2>1. /\ pc' = [pc EXCEPT ![d] = "exited"]
          /\ call_seq' = [call_seq EXCEPT ![d] = 0]
          /\ UNCHANGED <<by, call_id>>
      BY <1>3 DEF Shutdown, Kill, Exit, Goto, callVars
    <2>2. \A e \in Daemons : /\ CallsOf(e)' = CallsOf(e)
                             /\ e # d => Counted(e)' = Counted(e) /\ pc'[e] = pc[e]
      BY <2>1 DEF CallsOf, Counted, TypeOfNumbers, TypeOfDaemons
    <2>3. pc'[d] = "exited"
      BY <2>1 DEF TypeOfDaemons
    <2>4. SeqCounts'
      BY <2>1, <2>2, <2>3 DEF SeqCounts
    <2> QED BY <2>1, <2>4, CallersFinite DEF TypeOfNumbers
  <1>4. ASSUME NEW d \in Daemons,
               \/ Start(d) \/ Listen(d) \/ Loop(d) \/ Accept(d) \/ AcceptFails(d) \/ Term(d)
               \/ ForkFails(d)
        PROVE  TypeOfNumbers' /\ SeqCounts'
    <2>1. /\ UNCHANGED <<call_seq, by, call_id>>
          /\ \A e \in Daemons : /\ pc'[e] = "parent" <=> pc[e] = "parent"
                                /\ pc[e] = "exited" => pc'[e] = "exited"
      BY <1>4 DEF Start, Listen, ListenTcp, ListenUnix, Loop, WhileRun, Accept, AcceptFails,
                  Term, ForkFails, From, Goto, callVars, TypeOfDaemons
    <2>2. \A e \in Daemons : CallsOf(e)' = CallsOf(e) /\ Counted(e)' = Counted(e)
      BY <2>1 DEF CallsOf, Counted
    <2> QED BY <2>1, <2>2 DEF SeqCounts, TypeOfNumbers
  <1>5. ASSUME NEW c \in Callers,
               \/ ChildBegins(c) \/ StartPppd(c) \/ CallEnds(c) \/ PppdEnds(c)
               \/ RelayEnds(c) \/ Connect(c) \/ Leaves(c)
        PROVE  TypeOfNumbers' /\ SeqCounts'
    <2>1. UNCHANGED <<pc, call_seq, by, call_id>>
      BY <1>5 DEF ChildBegins, StartPppd, CallEnds, PppdEnds, RelayEnds, PppdDrops, Connect,
                  Leaves, daemonVars, callVars
    <2>2. \A e \in Daemons : CallsOf(e)' = CallsOf(e) /\ Counted(e)' = Counted(e)
      BY <2>1 DEF CallsOf, Counted
    <2> QED BY <2>1, <2>2 DEF SeqCounts, TypeOfNumbers
  <1> QED BY <1>1, <1>2, <1>3, <1>4, <1>5 DEF Next, Step

\* Every step keeps the invariant.
LEMMA NextIInv == IInv /\ [Next]_vars => IInv'
  <1> SUFFICES ASSUME IInv, [Next]_vars PROVE IInv'
    OBVIOUS
  <1>1. CASE Next
    BY <1>1, WorldTyped, DaemonsTyped, CallsTyped, QueuesTyped, PlacesKept, AcceptedKept,
       ConnKept, ListenerKept, PairKept, GoneKept, LateKept, NumbersKept DEF IInv, Types
  <1>2. CASE UNCHANGED vars
    <2> USE <1>2 DEF IInv, Types, vars, daemonVars, callVars
    <2>1. Types'
      BY DEF TypeOfWorld, TypeOfDaemons, TypeOfNumbers, TypeOfCalls, TypeOfQueues
    <2>2. OnePlace' /\ Accepted' /\ Forked'
      BY DEF OnePlace, Accepted, Forked
    <2>3. OnlyItsOwn' /\ ListenerHeld' /\ PairHeld' /\ GoneHolds' /\ LateOnce'
      BY DEF OnlyItsOwn, ListenerHeld, PairHeld, GoneHolds, LateOnce
    <2>4. SeqCounts'
      BY DEF SeqCounts, CallsOf, Counted
    <2> QED BY <2>1, <2>2, <2>3, <2>4
  <1> QED BY <1>1, <1>2

-----------------------------------------------------------------------------
(* The theorems.                                                           *)

\* The invariant holds in every state daemons, calls and callers can reach.
THEOREM Invariance == Spec => []IInv
  BY InitIInv, NextIInv, PTL DEF Spec

\* Every variable keeps its type: no queue is longer than the backlog, and no
\* call gets a number that is not below the number of callers.
THEOREM TypeCorrect == Spec => []TypeOK
  <1>1. IInv => TypeOK
    BY DEF IInv, Types, TypeOK, TypeOfWorld, TypeOfDaemons, TypeOfNumbers, TypeOfCalls,
           TypeOfQueues
  <1> QED BY <1>1, Invariance, PTL

\* A caller's connection is never with another's call or pppd, and with a daemon
\* only while it forks for that caller.
THEOREM OnlyItsOwnAlways == Spec => []OnlyItsOwn
  <1>1. IInv => OnlyItsOwn
    BY DEF IInv
  <1> QED BY <1>1, Invariance, PTL

\* A daemon that is gone leaves the port free as soon as its newest call has
\* taken its first step.
THEOREM PortIsFreeAlways == Spec => []PortIsFree
  <1>1. IInv => PortIsFree
    BY DEF IInv, ListenerHeld, PortIsFree, Held, HeldIn, Serving
  <1> QED BY <1>1, Invariance, PTL

\* A daemon told to stop takes at most the call its accept was waiting for.
THEOREM AtMostOneMoreAlways == Spec => []AtMostOneMore
  <1>1. ASSUME IInv
        PROVE  AtMostOneMore
    <2>1. ASSUME NEW d \in Daemons
          PROVE  Cardinality(late[d]) <= 1
      <3>1. CASE late[d] = {}
        BY <3>1, FS_EmptySet
      <3>2. CASE late[d] # {}
        <4>1. PICK c \in Callers : late[d] = {c}
          BY <1>1, <3>2 DEF IInv, LateOnce
        <4>2. Cardinality({c}) = 1
          BY FS_Singleton
        <4> QED BY <4>1, <4>2
      <3> QED BY <3>1, <3>2
    <2> QED BY <2>1 DEF AtMostOneMore
  <1> QED BY <1>1, Invariance, PTL

\* A call that has ended can be heard by nobody but its own relay: no process
\* has its end of the pair, so the relay finds the end of its socket, and only
\* pppd, which ends with the relay, or the daemon that is just forking it still
\* has the caller's connection.
HangupWaitsForRelay ==
    \A c \in Callers : call[c] = "ended" =>
        /\ ~Held(Pair(c))
        /\ \A p \in Process : Conn(c) \in files[p] =>
              \/ p = Pppd(c) /\ pppd[c] = "running"
              \/ p = Main(by[c]) /\ pc[by[c]] = "parent"

\* The safety half of HangupSeen, for any number of calls that share daemons.
THEOREM HangupWaitsForRelayAlways == Spec => []HangupWaitsForRelay
  <1>1. ASSUME IInv
        PROVE  HangupWaitsForRelay
    <2> USE <1>1 DEF IInv, Types
    <2> SUFFICES ASSUME NEW c \in Callers, call[c] = "ended"
                 PROVE  /\ ~Held(Pair(c))
                        /\ \A p \in Process : Conn(c) \in files[p] =>
                              \/ p = Pppd(c) /\ pppd[c] = "running"
                              \/ p = Main(by[c]) /\ pc[by[c]] = "parent"
      BY DEF HangupWaitsForRelay
    <2>1. files[Call(c)] = {}
      BY DEF GoneHolds
    <2>2. ~Held(Pair(c))
      BY <2>1 DEF Held, HeldIn, PairHeld
    <2>3. by[c] # None
      BY DEF Forked
    <2>4. ASSUME NEW p \in Process, Conn(c) \in files[p]
          PROVE  \/ p = Pppd(c) /\ pppd[c] = "running"
                 \/ p = Main(by[c]) /\ pc[by[c]] = "parent"
      <3>1. p # Call(c)
        BY <2>1, <2>4
      <3>2. CASE p = Pppd(c)
        BY <2>4, <3>2 DEF GoneHolds
      <3>3. ASSUME NEW d \in Daemons, p = Main(d), fd[d] = c, pc[d] \in {"fork", "parent"}
            PROVE  p = Main(by[c]) /\ pc[by[c]] = "parent"
        BY <2>3, <3>3 DEF Accepted
      <3> QED BY <2>4, <3>1, <3>2, <3>3 DEF OnlyItsOwn
    <2> QED BY <2>2, <2>4
  <1> QED BY <1>1, Invariance, PTL

\* Two calls of one daemon never have the same number, which names a call in the
\* log and names its pppd's own log file (sm_call.c:950).
NumbersDiffer ==
    \A b, c \in Callers : by[b] = by[c] /\ by[b] # None /\ call_id[b] = call_id[c] => b = c

\* The number is given before the fork and counted after it, and a signal in
\* between changes neither.
THEOREM NumbersDifferAlways == Spec => []NumbersDiffer
  <1>1. IInv => NumbersDiffer
    BY DEF IInv, Types, TypeOfCalls, SeqCounts, CallsOf, NumbersDiffer
  <1> QED BY <1>1, Invariance, PTL

=============================================================================
