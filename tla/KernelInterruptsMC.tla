------------------------- MODULE KernelInterruptsMC --------------------------
(* Two resident operators for TLC.  Deadlock is not checked: when all runs  *)
(* have ended and everything is decided, nothing is left to do.             *)
EXTENDS KernelInterrupts

CONSTANTS w1, w2
=============================================================================
