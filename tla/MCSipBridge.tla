---------------------------- MODULE MCSipBridge ----------------------------
(***************************************************************************)
(* Model checking SipBridge: two callers for one line, a receive queue of  *)
(* two frames, and a daemon that may fall a frame behind.                  *)
(***************************************************************************)
EXTENDS SipBridge, TLC

CONSTANTS a, b  \* the callers

OneCaller == {a}
TwoCallers == {a, b}
AnyLimit == {-1, 1}
Unlimited == {-1}
Symmetry == Permutations(TwoCallers)
=============================================================================
