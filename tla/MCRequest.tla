----------------------------- MODULE MCRequest ------------------------------
(* API operations for TLC: two that share the token service and the        *)
(* server, one retry, and a token that is revoked and replaced.            *)
EXTENDS ApiRequest, TLC

CONSTANTS c1, c2

TwoCalls == {c1, c2}

\* The calls are interchangeable.
Symmetry == Permutations(TwoCalls)
==============================================================================
