----------------------------- MODULE MCDelivery ------------------------------
(* Deliveries for TLC: a message that is sent up to twice and a card action *)
(* that is sent once, two workers, and room for one event behind them.      *)
EXTENDS Delivery

CONSTANTS e1, e2, w1, w2

TwoEvents == {e1, e2}
TwoWorkers == {w1, w2}
TwiceTheMessage == {<<e1, 1>>, <<e1, 2>>}
OnceTheCard == {<<e2, 1>>}
None == {}
==============================================================================
