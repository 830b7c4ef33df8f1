------------------------------ MODULE MCV22bis ------------------------------
(***************************************************************************)
(* Model checking V22bis with the symbol counts of the code: every pair of *)
(* rates, no delay and a delay of one 20 ms frame or of six, a caller that *)
(* is there from the start or half a second late.                          *)
(***************************************************************************)
EXTENDS V22bis

AnyRate == {1200, 2400}
AnyDelay == {0, 12, 72}
AnyStart == {0, 300}
=============================================================================
