-------------------------------- MODULE Daemon --------------------------------
(***************************************************************************)
(* The daemon around the calls: main of src/src/main/sm_daemon.c, which    *)
(* listens, forks one process per connection and may be stopped and        *)
(* started again while calls go on (scripts/bench/restart.sh, which signals*)
(* the calls as well); and who holds which descriptor, because a socket is *)
(* closed only when the last process that inherited it closes it.          *)
(*                                                                         *)
(* The processes are the daemons themselves (an old one and its            *)
(* replacement), one call per caller, and one pppd with its relay per call.*)
(* What goes on inside a call is module Call; here it begins, may start    *)
(* pppd, and ends.                                                         *)
(***************************************************************************)
EXTENDS Integers, Sequences, FiniteSets, SequencesExt

CONSTANTS
    Starts,    \* how often the program is started
    Calls,     \* how many connections are made, one per call
    Backlog    \* listen(fd, 4)

ASSUME DaemonAssumption == Starts \in Nat /\ Calls \in Nat /\ Backlog \in Nat \ {0}

Daemons == 1..Starts   \* in the order they are started
Callers == 1..Calls    \* in the order they connect
None == 0

\* Processes, and the descriptors they may hold.
Call(c) == <<"call", c>>
Pppd(c) == <<"pppd", c>>
Main(d) == <<"main", d>>
Process == {Call(c) : c \in Callers} \cup {Pppd(c) : c \in Callers} \cup {Main(d) : d \in Daemons}

Listener(d) == <<"listener", d>>   \* listen_fd
Conn(c)     == <<"conn", c>>       \* the daemon's end of the caller's connection
Pair(c)     == <<"pair", c>>       \* ppp_fd, the call's end of the socket pair
ShimEnd(c)  == <<"shim", c>>       \* SHIM_FD, the other end
File == {Listener(d) : d \in Daemons} \cup {Conn(c) : c \in Callers}
        \cup {Pair(c) : c \in Callers} \cup {ShimEnd(c) : c \in Callers}

VARIABLES
    unix,      \* --unix PATH rather than --port N
    path,      \* whose socket PATH names
    pc,        \* where each daemon has got to
    g_run,
    fd,        \* the connection accept returned
    call_seq,
    files,     \* the descriptors of each process
    backlog,   \* connections waiting at each listening socket
    caller,    \* what each caller has seen
    call,      \* the process of each call
    by,        \* the daemon that forked it
    call_id,   \* the number it got
    pppd,      \* "none", "running" (it or its relay) or "ended"
    late       \* calls each daemon has forked after it was told to stop

daemonVars == <<unix, path, pc, g_run, fd, call_seq, late>>
callVars   == <<call, by, call_id, pppd>>
vars == <<daemonVars, callVars, files, backlog, caller>>

TypeOK ==
    /\ unix \in BOOLEAN /\ path \in Daemons \cup {None}
    /\ pc \in [Daemons -> {"off", "listen", "loop", "accept", "fork", "parent",
                           "shutdown", "exited"}]
    /\ g_run \in [Daemons -> BOOLEAN]
    /\ fd \in [Daemons -> Callers \cup {None}]
    /\ call_seq \in [Daemons -> 0..Cardinality(Callers)]
    /\ files \in [Process -> SUBSET File]
    /\ \A d \in Daemons : backlog[d] \in Seq(Callers) /\ Len(backlog[d]) <= Backlog
    /\ caller \in [Callers -> {"idle", "waiting", "left", "answered", "refused"}]
    /\ call \in [Callers -> {"none", "forked", "running", "ended"}]
    /\ by \in [Callers -> Daemons \cup {None}]
    /\ call_id \in [Callers -> 0..Cardinality(Callers)]
    /\ pppd \in [Callers -> {"none", "running", "ended"}]
    /\ late \in [Daemons -> SUBSET Callers]

Init ==
    /\ unix \in BOOLEAN /\ path = None
    /\ pc = [d \in Daemons |-> "off"]
    /\ g_run = [d \in Daemons |-> TRUE]
    /\ fd = [d \in Daemons |-> None]
    /\ call_seq = [d \in Daemons |-> 0]
    /\ files = [p \in Process |-> {}]
    /\ backlog = [d \in Daemons |-> <<>>]
    /\ caller = [c \in Callers |-> "idle"]
    /\ call = [c \in Callers |-> "none"]
    /\ by = [c \in Callers |-> None]
    /\ call_id = [c \in Callers |-> 0]
    /\ pppd = [c \in Callers |-> "none"]
    /\ late = [d \in Daemons |-> {}]

-----------------------------------------------------------------------------
(* The kernel's part.                                                      *)

HeldIn(table, f) == \E p \in Process : f \in table[p]
Held(f) == HeldIn(files, f)

\* When the last process closes a listening socket, who waits there is reset.
Settle ==
    /\ backlog' = [d \in Daemons |-> IF HeldIn(files', Listener(d)) THEN backlog[d] ELSE <<>>]
    /\ caller' = [c \in Callers |->
                     IF \E d \in Daemons : c \in ToSet(backlog[d]) /\ backlog'[d] = <<>>
                     THEN "refused" ELSE caller[c]]

\* A process ends or closes everything it has.
Drop(p) == files' = [files EXCEPT ![p] = {}] /\ Settle

\* A connection reaches the socket PATH names, or the one that owns the port.
Listens(d) == Held(Listener(d)) /\ (unix => path = d)

Goto(d, label) == pc' = [pc EXCEPT ![d] = label]
From(d, label) == pc[d] = label

-----------------------------------------------------------------------------
(* main.                                                                   *)

\* The process starts; an old daemon may still be there.  The options are read
\* before anything is opened: --help and a bad option leave its socket alone.
Start(d) ==
    /\ From(d, "off") /\ \A e \in 1..d - 1 : ~From(e, "off")
    /\ Goto(d, "listen") \/ Goto(d, "exited")
    /\ UNCHANGED <<unix, path, g_run, fd, call_seq, late, callVars, files, backlog, caller>>

\* sm_ast_listen.  SO_REUSEADDR lets a port be bound again while its connections
\* live on, but not while anything listens on it.
ListenTcp(d) ==
    /\ From(d, "listen") /\ ~unix
    /\ \/ /\ \A e \in Daemons : ~Held(Listener(e))
          /\ files' = [files EXCEPT ![Main(d)] = {Listener(d)}]
          /\ Goto(d, "loop")
       \/ /\ Goto(d, "exited") /\ UNCHANGED files
    /\ UNCHANGED <<unix, path, g_run, fd, call_seq, late, callVars, backlog, caller>>

\* sm_ast_listen_unix removes the path first, whoever listens behind it.
ListenUnix(d) ==
    /\ From(d, "listen") /\ unix
    /\ \/ /\ path' = d
          /\ files' = [files EXCEPT ![Main(d)] = {Listener(d)}]
          /\ Goto(d, "loop")
       \/ /\ path' = None
          /\ Goto(d, "exited") /\ UNCHANGED files
    /\ UNCHANGED <<unix, g_run, fd, call_seq, late, callVars, backlog, caller>>

\* Mutant: the loop does not end.
WhileRun_Forever(d) == Goto(d, "accept")

\* while (g_run).
WhileRun(d) == Goto(d, IF g_run[d] THEN "accept" ELSE "shutdown")

Loop(d) ==
    /\ From(d, "loop")
    /\ WhileRun(d)
    /\ UNCHANGED <<unix, path, g_run, fd, call_seq, late, callVars, files, backlog, caller>>

\* sm_ast_accept takes the first that waits.  A signal does not wake it, the
\* handler having SA_RESTART; one that has left may be returned all the same.
Accept(d) ==
    /\ From(d, "accept") /\ backlog[d] # <<>>
    /\ LET c == Head(backlog[d]) IN
       /\ backlog' = [backlog EXCEPT ![d] = Tail(@)]
       /\ \/ /\ fd' = [fd EXCEPT ![d] = c]
             /\ files' = [files EXCEPT ![Main(d)] = @ \cup {Conn(c)}]
             /\ caller' = [caller EXCEPT ![c] = IF @ = "left" THEN @ ELSE "answered"]
             /\ Goto(d, "fork")
          \/ /\ caller[c] = "left"   \* ECONNABORTED
             /\ UNCHANGED <<fd, files, caller, pc>>
    /\ UNCHANGED <<unix, path, g_run, call_seq, late, callVars>>

\* Any other error of accept, too many descriptors included, ends the loop.
AcceptFails(d) ==
    /\ From(d, "accept") /\ Goto(d, "shutdown")
    /\ UNCHANGED <<unix, path, g_run, fd, call_seq, late, callVars, files, backlog, caller>>

\* The child has a copy of every descriptor of the daemon.
Fork(d) ==
    /\ From(d, "fork")
    /\ LET c == fd[d] IN
       /\ call' = [call EXCEPT ![c] = "forked"]
       /\ by' = [by EXCEPT ![c] = d]
       /\ call_id' = [call_id EXCEPT ![c] = call_seq[d]]
       /\ files' = [files EXCEPT ![Call(c)] = files[Main(d)]]
       /\ late' = IF g_run[d] THEN late ELSE [late EXCEPT ![d] = @ \cup {c}]
    /\ Goto(d, "parent")
    /\ UNCHANGED <<unix, path, g_run, fd, call_seq, pppd, backlog, caller>>

ForkFails(d) ==
    /\ From(d, "fork")
    /\ files' = [files EXCEPT ![Main(d)] = @ \ {Conn(fd[d])}]
    /\ Goto(d, "loop") /\ fd' = [fd EXCEPT ![d] = None]
    /\ UNCHANGED <<unix, path, g_run, call_seq, late, callVars, backlog, caller>>

\* Mutant: the daemon keeps its copy.
Parent_KeepsConn(d) ==
    /\ UNCHANGED files
    /\ call_seq' = [call_seq EXCEPT ![d] = @ + 1]

ParentKeeps(d) ==
    /\ files' = [files EXCEPT ![Main(d)] = @ \ {Conn(fd[d])}]
    /\ call_seq' = [call_seq EXCEPT ![d] = @ + 1]

\* The connection is the child's now.  waitpid finds nothing: SIGCHLD is ignored
\* and the kernel reaps the calls.
Parent(d) ==
    /\ From(d, "parent")
    /\ ParentKeeps(d)
    /\ Goto(d, "loop") /\ fd' = [fd EXCEPT ![d] = None]
    /\ UNCHANGED <<unix, path, g_run, late, callVars, backlog, caller>>

\* The daemon's process is gone, its descriptors and its variables with it.
Exit(d) ==
    /\ Goto(d, "exited")
    /\ Drop(Main(d))
    /\ fd' = [fd EXCEPT ![d] = None] /\ call_seq' = [call_seq EXCEPT ![d] = 0]
    /\ UNCHANGED <<unix, path, g_run, late, callVars>>

Shutdown(d) == From(d, "shutdown") /\ Exit(d)

\* The daemon has its socket and its handlers.
Serving == {"loop", "accept", "fork", "parent"}

\* SIGTERM or SIGINT: on_term.  One before the loop is seen by its first test.
Term(d) ==
    /\ pc[d] \in Serving /\ g_run[d]
    /\ g_run' = [g_run EXCEPT ![d] = FALSE]
    /\ UNCHANGED <<unix, path, pc, fd, call_seq, late, callVars, files, backlog, caller>>

\* restart.sh gives it three seconds, then SIGKILL.
Kill(d) == pc[d] \in Serving /\ Exit(d)

-----------------------------------------------------------------------------
(* The child, and its pppd.                                                *)

\* Mutant: the child keeps the listening socket.
ChildCloses_Nothing(c) == UNCHANGED <<files, backlog, caller>>

ChildCloses(c) ==
    /\ files' = [files EXCEPT ![Call(c)] = @ \ {Listener(by[c])}]
    /\ Settle

\* close(listen_fd), the signals, calloc: sm_call_run, or _exit(1).
ChildBegins(c) ==
    /\ call[c] = "forked"
    /\ \/ call' = [call EXCEPT ![c] = "running"] /\ ChildCloses(c)
       \/ call' = [call EXCEPT ![c] = "ended"] /\ Drop(Call(c))
    /\ UNCHANGED <<daemonVars, by, call_id, pppd>>

\* Mutant: the forked pppd keeps the call's end of the pair as well.
Inherits_Pair(c) == files[Call(c)] \cup {Pair(c)}

\* What pppd may have from the call besides its end of the pair: no descriptor
\* is marked close-on-exec, and only sv[1] is closed by hand (sm_pppd.c:44).
Inherits(c) == files[Call(c)]

\* sm_pppd_spawn; pppd itself may close what it did not ask for.
StartPppd(c) ==
    /\ call[c] = "running" /\ pppd[c] = "none"
    /\ pppd' = [pppd EXCEPT ![c] = "running"]
    /\ \E kept \in {{}, Inherits(c)} :
          files' = [files EXCEPT ![Pppd(c)] = kept \cup {ShimEnd(c)},
                                 ![Call(c)] = @ \cup {Pair(c)}]
    /\ UNCHANGED <<daemonVars, call, by, call_id, backlog, caller>>

\* The call ends: sm_call_run closes the pair and the connection; or a signal,
\* whose default action is back, ends it where it is.
CallEnds(c) ==
    /\ call[c] = "running"
    /\ call' = [call EXCEPT ![c] = "ended"]
    /\ Drop(Call(c))
    /\ UNCHANGED <<daemonVars, by, call_id, pppd>>

PppdDrops(c) ==
    /\ pppd[c] = "running"
    /\ pppd' = [pppd EXCEPT ![c] = "ended"]
    /\ Drop(Pppd(c))
    /\ UNCHANGED <<daemonVars, call, by, call_id>>

\* pppd and its relay end of themselves, or because the relay's socket has no
\* other end any more (sm_pppd.c:235).
PppdEnds(c)  == Held(Pair(c)) /\ PppdDrops(c)
RelayEnds(c) == ~Held(Pair(c)) /\ PppdDrops(c)

-----------------------------------------------------------------------------
(* The callers.                                                            *)

Connect(c) ==
    /\ caller[c] = "idle" /\ \A b \in 1..c - 1 : caller[b] # "idle"
    /\ \/ \E d \in Daemons :
            /\ Listens(d) /\ Len(backlog[d]) < Backlog
            /\ backlog' = [backlog EXCEPT ![d] = Append(@, c)]
            /\ caller' = [caller EXCEPT ![c] = "waiting"]
       \/ /\ ~ \E d \in Daemons : Listens(d)
          /\ caller' = [caller EXCEPT ![c] = "refused"]
          /\ UNCHANGED backlog
    /\ UNCHANGED <<daemonVars, callVars, files>>

Leaves(c) ==
    /\ caller[c] = "waiting"
    /\ caller' = [caller EXCEPT ![c] = "left"]
    /\ UNCHANGED <<daemonVars, callVars, files, backlog>>

-----------------------------------------------------------------------------

Listen(d) == ListenTcp(d) \/ ListenUnix(d)
Step(d) == \/ Listen(d) \/ Loop(d) \/ Accept(d) \/ Fork(d)
           \/ ForkFails(d) \/ Parent(d) \/ Shutdown(d)

Next == \/ \E d \in Daemons : Start(d) \/ Step(d) \/ AcceptFails(d) \/ Term(d) \/ Kill(d)
        \/ \E c \in Callers : \/ ChildBegins(c) \/ StartPppd(c) \/ CallEnds(c)
                              \/ PppdEnds(c) \/ RelayEnds(c) \/ Connect(c) \/ Leaves(c)

Spec == Init /\ [][Next]_vars

\* Processes run.  Nothing makes a call or a daemon end.
FairSpec ==
    /\ Spec
    /\ \A d \in Daemons : WF_vars(Step(d))
    /\ \A c \in Callers : WF_vars(ChildBegins(c)) /\ WF_vars(RelayEnds(c))

-----------------------------------------------------------------------------
(* Properties.                                                             *)

\* "Child: one call, fully independent" (sm_daemon.c:254): a caller's connection
\* is held by its own call and pppd only, and by the daemon while it forks.  A
\* copy anywhere else would keep it open when the call is over.
OnlyItsOwn ==
    \A c \in Callers, p \in Process :
        Conn(c) \in files[p] =>
            \/ p \in {Call(c), Pppd(c)}
            \/ \E d \in Daemons : p = Main(d) /\ fd[d] = c /\ pc[d] \in {"fork", "parent"}

\* With no daemon running and no call at its first steps, nothing holds the
\* port: the next daemon can bind it, however many calls and pppds of the old
\* one go on (sm_daemon.c:258, restart.sh).
PortIsFree ==
    (/\ \A d \in Daemons : pc[d] \in {"off", "listen", "exited"}
     /\ \A c \in Callers : call[c] # "forked")
        => \A d \in Daemons : ~Held(Listener(d))

\* A daemon told to stop takes one more call at most: the one its accept was
\* waiting for (sm_daemon.c:198, 226).
AtMostOneMore == \A d \in Daemons : Cardinality(late[d]) <= 1

\* A caller that waits is answered or reset; none waits at a socket that a call
\* of a daemon no longer there keeps open.
EveryCallerHeard == \A c \in Callers : caller[c] = "waiting" ~> caller[c] # "waiting"

\* The caller of a call that has ended sees its connection closed, although pppd
\* has a copy of it: the call's end of the pair closes with the call, the relay
\* ends, and pppd with it.
HangupSeen == \A c \in Callers : call[c] = "ended" ~> ~Held(Conn(c))

\* "EINTR: check g_run" (sm_daemon.c:235): a daemon told to stop stops.
TermEndsDaemon == \A d \in Daemons : ~g_run[d] ~> pc[d] = "exited"

=============================================================================
