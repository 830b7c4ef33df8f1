------------------------------- MODULE MCCall -------------------------------
(***************************************************************************)
(* Model checking Call: the configurations of each run, and bounds of two  *)
(* or three messages for what the code counts in samples.                  *)
(***************************************************************************)
EXTENDS Call

\* One PPP call per way of answering, for the runs about pppd's death.
PppCalls == {c \in Config : /\ c.enable_ppp /\ ~c.echo_data /\ ~c.tone
                            /\ c.use_v34 => c.use_v8}

\* Every way sm_daemon.c can configure a call.
DaemonCalls == {c \in Config : c.sigchld_ignored}

\* And the PPP calls of a process that leaves SIGCHLD alone.
AllConfigs == DaemonCalls \cup PppCalls

DaemonPppCalls == DaemonCalls \cap PppCalls
=============================================================================
