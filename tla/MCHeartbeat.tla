---------------------------- MODULE MCHeartbeat ----------------------------
(* The heartbeat for TLC: the cfg gives the intervals in units of time     *)
(* that keep the order of the defaults (120 s and 180 s).                  *)
EXTENDS Heartbeat
==============================================================================
