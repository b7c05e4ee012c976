----------------------------- MODULE Dispatcher ------------------------------
(***************************************************************************)
(* What the event channel of src/feishulib/channel.py promises, apart from *)
(* how it keeps the promise: an event that was accepted goes once, and     *)
(* never back, from waiting over at most one handling to done, and its     *)
(* caller gets one answer, before the event is done.  There is no queue    *)
(* and no worker here.  EventChannel implements this specification.        *)
(***************************************************************************)
CONSTANT Calls        \* the events that may be offered

VARIABLES
  serving,  \* whether events are accepted: not yet, now, or no more
  place,    \* per event: outside, waiting, being handled, or done with
  answer    \* per event: what its caller was or will be told

dispatcherVars == <<serving, place, answer>>

DispatcherInit ==
  /\ serving = "not yet"
  /\ place = [c \in Calls |-> "outside"]
  /\ answer = [c \in Calls |-> "none"]

Moves(c, from, to) ==
  /\ place[c] = from
  /\ place' = [place EXCEPT ![c] = to]

\* Whoever answers first answers for good.
Told(c, outcome) ==
  answer' = [answer EXCEPT ![c] = IF @ = "pending" THEN outcome ELSE @]

Opens ==
  /\ serving = "not yet" /\ serving' = "now"
  /\ UNCHANGED <<place, answer>>

Closes ==
  /\ serving # "no more" /\ serving' = "no more"
  /\ UNCHANGED <<place, answer>>

\* Nothing is accepted before the opening or after the closing.
Accept(c) ==
  /\ serving = "now"
  /\ Moves(c, "outside", "waiting")
  /\ answer[c] = "none" /\ answer' = [answer EXCEPT ![c] = "pending"]
  /\ UNCHANGED serving

BeginHandling(c) ==
  /\ Moves(c, "waiting", "handled")
  /\ UNCHANGED <<serving, answer>>

\* An event nobody has a handler for.
PassBy(c) ==
  /\ Moves(c, "waiting", "done")
  /\ Told(c, "ok")
  /\ UNCHANGED serving

FinishHandling(c) ==
  /\ Moves(c, "handled", "done")
  /\ \E outcome \in {"ok", "handler", "shutdown"} : Told(c, outcome)
  /\ UNCHANGED serving

\* The caller leaves; its event goes its way.
Leave(c) ==
  /\ place[c] \in {"waiting", "handled"}
  /\ answer[c] = "pending" /\ Told(c, "cancelled")
  /\ UNCHANGED <<serving, place>>

\* What waits when the dispatcher has closed is thrown away, with an answer.
Discard ==
  /\ serving = "no more"
  /\ place' = [c \in Calls |-> IF place[c] = "waiting" THEN "done" ELSE place[c]]
  /\ answer' = [c \in Calls |->
                 IF place[c] = "waiting" /\ answer[c] = "pending"
                 THEN "shutdown" ELSE answer[c]]
  /\ UNCHANGED serving

DispatcherNext ==
  \/ Opens \/ Closes \/ Discard
  \/ \E c \in Calls :
       \/ Accept(c) \/ BeginHandling(c) \/ PassBy(c) \/ FinishHandling(c)
       \/ Leave(c)

DispatcherSpec == DispatcherInit /\ [][DispatcherNext]_dispatcherVars
==============================================================================
