------------------------------ MODULE MCToken -------------------------------
(* The token manager for TLC: three callers, so that one may wait behind   *)
(* another's wait, one of whom calls again and again, and a lifetime that  *)
(* lets a token go stale in the run.                                       *)
EXTENDS TokenManager

CONSTANTS c1, c2, c3

ThreeCallers == {c1, c2, c3}
OneCaller == {c1}
Lifetime == {2}
==============================================================================
