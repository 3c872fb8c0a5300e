----------------------------- MODULE MCRuntime -----------------------------
(***************************************************************************)
(* Instance of Runtime for TLC: two presses, two releases after the first  *)
(* image, one reload, one job at a time that a failed save took out of the *)
(* list.                                                                   *)
(***************************************************************************)
EXTENDS Runtime

CONSTANTS b1, b2

MCPress == {b1, b2}

=============================================================================
