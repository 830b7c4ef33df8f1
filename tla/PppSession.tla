----------------------------- MODULE PppSession -----------------------------
(***************************************************************************)
(* What a call promises the PPP daemon it carries, whatever engine answers *)
(* the line: the link may come up, drop for a retrain and come up again;   *)
(* pppd is started at most once, and only while the link is up; once the   *)
(* call is over the link never comes back; and the call is not left before *)
(* pppd is gone.  Session in module Call is the mapping that shows it.     *)
(***************************************************************************)

VARIABLES
    link,   \* "down", "up", "over" (being torn down), "released"
    pppd    \* "none", "alive", "exited"

svars == <<link, pppd>>

STypeOK ==
    /\ link \in {"down", "up", "over", "released"}
    /\ pppd \in {"none", "alive", "exited"}

SInit == link = "down" /\ pppd = "none"

LinkUp   == link = "down" /\ link' = "up" /\ UNCHANGED pppd
LinkDown == link = "up" /\ link' = "down" /\ UNCHANGED pppd
HangUp   == link \in {"down", "up"} /\ link' = "over" /\ UNCHANGED pppd

StartPppd == link = "up" /\ pppd = "none" /\ pppd' = "alive" /\ UNCHANGED link
PppdGoes  == pppd = "alive" /\ pppd' = "exited" /\ UNCHANGED link

\* Leaving the call: pppd was never started, has exited, or is killed now.
Release ==
    /\ link # "released" /\ link' = "released"
    /\ \/ pppd # "alive" /\ UNCHANGED pppd
       \/ link = "over" /\ pppd = "alive" /\ pppd' = "exited"

SNext == LinkUp \/ LinkDown \/ HangUp \/ StartPppd \/ PppdGoes \/ Release

SSpec == SInit /\ [][SNext]_svars

\* A call that is over is released.
SFairSpec == SSpec /\ WF_svars(link = "over" /\ Release)

=============================================================================
