---------------------------- MODULE MCWebSocket ----------------------------
(* The connection lifecycle for TLC: two sockets are enough for one that   *)
(* is lost while another is opened.                                        *)
EXTENDS FeishuWebSocket

CONSTANTS s1, s2

TwoSockets == {s1, s2}
==============================================================================
