----------------------------- MODULE MCChannel -----------------------------
(* The event channel for TLC: three events of both kinds, two workers,     *)
(* room for fewer events than there are.                                   *)
EXTENDS EventChannel, TLC

CONSTANTS m1, m2, k1, k2, w1, w2

OneMessage == {m1}
TwoMessages == {m1, m2}
OneCard == {k1}
TwoCards == {k1, k2}
OneWorker == {w1}
TwoWorkers == {w1, w2}
AllFaults == {"swallow", "cancel"}
NoFaults == {}
OnlyCancel == {"cancel"}

\* Card actions are interchangeable, and so are workers; only runs without
\* liveness properties use it.
Symmetry == Permutations(TwoCards) \cup Permutations(TwoWorkers)
==============================================================================
