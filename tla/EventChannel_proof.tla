------------------------- MODULE EventChannel_proof -------------------------
(***************************************************************************)
(* The safety properties of the event channel for any number of events and *)
(* workers, any queue size, and handlers that may do anything.             *)
(***************************************************************************)
EXTENDS EventChannel, TLAPS

Phases == {"absent", "idle", "running", "stopped", "lost"}

\* The items in the queue are those of different calls.
QueueDistinct ==
  \A i, j \in 1..Len(queue) : queue[i] = queue[j] => i = j

\* The item of a pending future is queued or held.
PendingInHands ==
  \A c \in Calls :
    future[c] = "pending" => Queued(c) \/ \E w \in Workers : Holds(w, c)

\* A call that has not been made has left no trace.
NewIsUntouched ==
  \A c \in Calls : call[c] = "new" =>
    /\ future[c] = "none"
    /\ ~Queued(c)
    /\ \A w \in Workers : ~Holds(w, c)

\* Workers exist exactly once the channel is started; before that nothing has
\* been accepted.
StartedOK ==
  /\ started => \A w \in Workers : worker[w].phase # "absent"
  /\ ~started => /\ \A w \in Workers : worker[w].phase = "absent"
                 /\ queue = <<>>
                 /\ \A c \in Calls : future[c] = "none"

\* A close that has come to an end has seen every worker end.
ClosingOK ==
  closing \in {"drained", "abandoned"} =>
    \A w \in Workers : worker[w].phase \in {"absent", "stopped", "lost"}

\* What a caller was told is what the future says; "ok" needs every handler
\* that was registered when the call was accepted.
OutcomeOK ==
  \A c \in Calls :
    /\ call[c] = "ok" => future[c] = "ok"
    /\ future[c] = "ok" => handled[c] >= owed[c]
    /\ owed[c] <= Registered(c)

IInv == /\ TypeOK
        /\ QueueDistinct
        /\ NewIsUntouched
        /\ HandledByOne
        /\ PendingInHands
        /\ StartedOK
        /\ ClosingOK
        /\ DrainedLeavesNothing
        /\ OutcomeOK

------------------------------------------------------------------------------
(* The queue                                                               *)

\* Taking the first item removes exactly that item.
LEMMA TakeFirst ==
  ASSUME queue \in Seq(Calls), queue # <<>>, QueueDistinct, queue' = Tail(queue)
  PROVE  /\ Head(queue) \in Calls
         /\ Queued(Head(queue))
         /\ queue' \in Seq(Calls)
         /\ Len(queue') <= Len(queue)
         /\ QueueDistinct'
         /\ \A c \in Calls : Queued(c)' <=> (Queued(c) /\ c # Head(queue))
<1>1. Len(queue) \in Nat \ {0} /\ Head(queue) = queue[1] /\ queue[1] \in Calls
  OBVIOUS
<1>2. /\ queue' \in Seq(Calls) /\ Len(queue') = Len(queue) - 1
      /\ \A i \in 1..Len(queue') : queue'[i] = queue[i + 1]
  OBVIOUS
<1>3. QueueDistinct'
  BY <1>1, <1>2 DEF QueueDistinct
<1>4. ASSUME NEW c \in Calls
      PROVE  Queued(c)' <=> (Queued(c) /\ c # Head(queue))
  <2>1. ASSUME Queued(c)' PROVE Queued(c) /\ c # Head(queue)
    <3>1. PICK i \in 1..Len(queue') : queue'[i] = c
      BY <2>1 DEF Queued
    <3>. QED
      BY <1>1, <1>2, <3>1 DEF Queued, QueueDistinct
  <2>2. ASSUME Queued(c), c # Head(queue) PROVE Queued(c)'
    <3>1. PICK i \in 1..Len(queue) : queue[i] = c
      BY <2>2 DEF Queued
    <3>2. i - 1 \in 1..Len(queue') /\ queue'[i - 1] = c
      BY <1>1, <1>2, <2>2, <3>1
    <3>. QED
      BY <3>2 DEF Queued
  <2>. QED
    BY <2>1, <2>2
<1>. QED
  BY <1>1, <1>2, <1>3, <1>4 DEF Queued

\* Appending an item adds exactly that item.
LEMMA AddLast ==
  ASSUME queue \in Seq(Calls), QueueDistinct, NEW c \in Calls, ~Queued(c),
         queue' = Append(queue, c)
  PROVE  /\ queue' \in Seq(Calls)
         /\ Len(queue') = Len(queue) + 1
         /\ QueueDistinct'
         /\ \A d \in Calls : Queued(d)' <=> (Queued(d) \/ d = c)
<1>1. /\ queue' \in Seq(Calls) /\ Len(queue) \in Nat /\ Len(queue') = Len(queue) + 1
      /\ \A i \in 1..Len(queue) : queue'[i] = queue[i]
      /\ queue'[Len(queue) + 1] = c
  OBVIOUS
<1>2. QueueDistinct'
  BY <1>1 DEF QueueDistinct, Queued
<1>3. \A d \in Calls : Queued(d)' <=> (Queued(d) \/ d = c)
  BY <1>1 DEF Queued
<1>. QED
  BY <1>1, <1>2, <1>3

\* An item that no step touches stays queued, and no other appears.
LEMMA SameQueue ==
  ASSUME UNCHANGED queue
  PROVE  /\ QueueDistinct' <=> QueueDistinct
         /\ \A c \in Calls : Queued(c)' <=> Queued(c)
BY DEF QueueDistinct, Queued

------------------------------------------------------------------------------
\* The channel before it is started satisfies the invariant.
LEMMA InitInv == Init => IInv
<1> SUFFICES ASSUME Init PROVE IInv
  OBVIOUS
<1> USE ChannelAssumption DEF ChannelAssumption, Init
<1>1. TypeOK
  <2>1. queue \in Seq(Calls) /\ Len(queue) <= QueueSize
    OBVIOUS
  <2>2. \A w \in Workers : worker[w] = [phase |-> "absent", item |-> Nothing]
    OBVIOUS
  <2>3. worker \in [Workers -> [phase : Phases, item : Calls \cup {Nothing}]]
    BY DEF Phases
  <2>4. \A w \in Workers : worker[w].phase = "running" <=> worker[w].item # Nothing
    BY <2>2
  <2>5. /\ started \in BOOLEAN /\ cardHandler \in BOOLEAN
        /\ closing \in {"open", "joining", "interrupted", "drained", "abandoned"}
        /\ cancelled \subseteq Workers
    BY Zenon
  <2>7. handlers \in 0..MaxHandlers
    OBVIOUS
  <2>6. /\ future \in [Calls -> {"none", "pending", "cancelled"} \cup Outcomes]
        /\ call \in [Calls -> {"new", "waiting", "cancelled", "refused", "unparsed",
                               "full"} \cup Outcomes]
        /\ handled \in [Calls -> Nat] /\ owed \in [Calls -> Nat]
    OBVIOUS
  <2>. QED
    BY <2>1, <2>3, <2>4, <2>5, <2>6, <2>7 DEF TypeOK, Phases
<1>2. \A c \in Calls : ~Queued(c)
  BY DEF Queued
<1>3. \A w \in Workers, c \in Calls : ~Holds(w, c)
  BY DEF Holds
<1>4. QueueDistinct
  BY DEF QueueDistinct
<1>5. NewIsUntouched /\ HandledByOne /\ PendingInHands
  BY <1>2, <1>3 DEF NewIsUntouched, HandledByOne, PendingInHands
<1>6. StartedOK /\ ClosingOK /\ DrainedLeavesNothing
  BY DEF StartedOK, ClosingOK, DrainedLeavesNothing
<1>7. OutcomeOK
  BY DEF OutcomeOK, Registered
<1>. QED
  BY <1>1, <1>4, <1>5, <1>6, <1>7 DEF IInv

------------------------------------------------------------------------------
(* One lemma per group of actions.                                         *)

\* Registering a handler only raises what later events owe.
LEMMA RegisterInv == IInv /\ (OnMessage \/ OnCardAction) => IInv'
<1> SUFFICES ASSUME IInv, OnMessage \/ OnCardAction PROVE IInv'
  OBVIOUS
<1> USE ChannelAssumption DEF ChannelAssumption
<1>0. TypeOK /\ QueueDistinct /\ NewIsUntouched /\ HandledByOne /\ PendingInHands
      /\ StartedOK /\ ClosingOK /\ DrainedLeavesNothing /\ OutcomeOK
  BY DEF IInv
<1>1. UNCHANGED <<started, closing, queue, worker, cancelled, future, call, handled, owed>>
  BY DEF OnMessage, OnCardAction
<1>2. TypeOK'
  <2>1. handlers' \in 0..MaxHandlers
    BY <1>0 DEF TypeOK, OnMessage, OnCardAction
  <2>2. cardHandler' \in BOOLEAN
    BY <1>0 DEF TypeOK, OnMessage, OnCardAction
  <2>. QED
    BY <1>0, <1>1, <2>1, <2>2 DEF TypeOK
<1>3. QueueDistinct' /\ \A c \in Calls : Queued(c)' <=> Queued(c)
  BY <1>0, <1>1, SameQueue
<1>4. NewIsUntouched' /\ HandledByOne' /\ PendingInHands'
  BY <1>0, <1>1, <1>3 DEF NewIsUntouched, HandledByOne, PendingInHands, Holds
<1>5. StartedOK' /\ ClosingOK' /\ DrainedLeavesNothing'
  BY <1>0, <1>1 DEF StartedOK, ClosingOK, DrainedLeavesNothing, Alive
<1>6. \A c \in Calls : Registered(c) <= Registered(c)' /\ Registered(c) \in Nat /\ Registered(c)' \in Nat
  BY <1>0, <1>2 DEF TypeOK, Registered, OnMessage, OnCardAction
<1>7. OutcomeOK'
  BY <1>0, <1>1, <1>6 DEF OutcomeOK, TypeOK
<1>. QED
  BY <1>2, <1>3, <1>4, <1>5, <1>7 DEF IInv

\* start creates idle workers.
LEMMA StartInv == IInv /\ Start => IInv'
<1> SUFFICES ASSUME IInv, Start PROVE IInv'
  OBVIOUS
<1> USE ChannelAssumption DEF ChannelAssumption
<1>0. TypeOK /\ QueueDistinct /\ NewIsUntouched /\ HandledByOne /\ PendingInHands
      /\ StartedOK /\ ClosingOK /\ DrainedLeavesNothing /\ OutcomeOK
  BY DEF IInv
<1>1. UNCHANGED <<closing, handlers, cardHandler, queue, cancelled, future, call, handled, owed>>
      /\ started' /\ ~started /\ closing = "open"
      /\ \A w \in Workers : worker'[w] = Idle
  BY DEF Start, closed
<1>2. TypeOK'
  BY <1>0 DEF TypeOK, Start, Idle
<1>3. QueueDistinct' /\ \A c \in Calls : Queued(c)' <=> Queued(c)
  BY <1>0, <1>1, SameQueue
<1>4. \A w \in Workers, c \in Calls : ~Holds(w, c)'
  BY <1>1 DEF Holds, Idle
<1>5. NewIsUntouched' /\ HandledByOne'
  BY <1>0, <1>1, <1>3, <1>4 DEF NewIsUntouched, HandledByOne
<1>6. PendingInHands'
  BY <1>0, <1>1 DEF PendingInHands, StartedOK
<1>7. StartedOK' /\ ClosingOK' /\ DrainedLeavesNothing'
  BY <1>1 DEF StartedOK, ClosingOK, DrainedLeavesNothing, Idle
<1>8. OutcomeOK'
  BY <1>0, <1>1 DEF OutcomeOK, Registered
<1>. QED
  BY <1>2, <1>3, <1>5, <1>6, <1>7, <1>8 DEF IInv

\* A call that ends without being accepted, or that reads its outcome.
LEMMA CallEndsInv ==
  ASSUME NEW c \in Calls, IInv,
         DispatchRefused(c) \/ DispatchUnparsed(c) \/ Resume(c)
  PROVE  IInv'
<1> USE ChannelAssumption DEF ChannelAssumption
<1>0. TypeOK /\ QueueDistinct /\ NewIsUntouched /\ HandledByOne /\ PendingInHands
      /\ StartedOK /\ ClosingOK /\ DrainedLeavesNothing /\ OutcomeOK
  BY DEF IInv
<1>1. UNCHANGED <<started, closing, handlers, cardHandler, queue, worker, cancelled, future, handled, owed>>
  BY DEF DispatchRefused, DispatchUnparsed, Resume, poolVars
<1>2. /\ call' \in [Calls -> {"new", "waiting", "cancelled", "refused", "unparsed",
                              "full"} \cup Outcomes]
      /\ \A d \in Calls : d # c => call'[d] = call[d]
      /\ call'[c] # "new"
      /\ call'[c] = "ok" => future[c] = "ok"
  BY <1>0 DEF TypeOK, Outcomes, DispatchRefused, DispatchUnparsed, Resume
<1>3. TypeOK'
  BY <1>0, <1>1, <1>2 DEF TypeOK
<1>4. QueueDistinct' /\ \A d \in Calls : Queued(d)' <=> Queued(d)
  BY <1>0, <1>1, SameQueue
<1>5. NewIsUntouched' /\ HandledByOne' /\ PendingInHands'
  BY <1>0, <1>1, <1>2, <1>4 DEF NewIsUntouched, HandledByOne, PendingInHands, Holds
<1>6. StartedOK' /\ ClosingOK' /\ DrainedLeavesNothing'
  BY <1>0, <1>1 DEF StartedOK, ClosingOK, DrainedLeavesNothing, Alive
<1>7. OutcomeOK'
  BY <1>0, <1>1, <1>2 DEF OutcomeOK, Registered
<1>. QED
  BY <1>3, <1>4, <1>5, <1>6, <1>7 DEF IInv

\* dispatch hands its future to the queue, or leaves no trace of it.
LEMMA DispatchInv ==
  ASSUME NEW c \in Calls, IInv, Dispatch(c)
  PROVE  IInv'
<1> USE ChannelAssumption DEF ChannelAssumption
<1>0. TypeOK /\ QueueDistinct /\ NewIsUntouched /\ HandledByOne /\ PendingInHands
      /\ StartedOK /\ ClosingOK /\ DrainedLeavesNothing /\ OutcomeOK
  BY DEF IInv
<1>1. /\ UNCHANGED <<started, closing, handlers, cardHandler, worker, cancelled, handled>>
      /\ call[c] = "new" /\ started /\ closing = "open"
  BY DEF Dispatch, poolVars, closed
<1>2. future[c] = "none" /\ ~Queued(c) /\ \A w \in Workers : ~Holds(w, c)
  BY <1>0, <1>1 DEF NewIsUntouched
<1>3. CASE /\ Len(queue) < QueueSize
           /\ queue' = Append(queue, c)
           /\ future' = [future EXCEPT ![c] = "pending"]
           /\ call' = [call EXCEPT ![c] = "waiting"]
           /\ owed' = [owed EXCEPT ![c] = Registered(c)]
  <2>1. /\ queue' \in Seq(Calls) /\ Len(queue') = Len(queue) + 1 /\ QueueDistinct'
        /\ \A d \in Calls : Queued(d)' <=> (Queued(d) \/ d = c)
    BY <1>0, <1>2, <1>3, AddLast DEF TypeOK
  <2>2. Registered(c) \in Nat /\ \A d \in Calls : Registered(d)' = Registered(d)
    BY <1>0, <1>1 DEF TypeOK, Registered
  <2>3. TypeOK'
    <3>1. Len(queue') <= QueueSize
      BY <1>0, <1>3, <2>1 DEF TypeOK
    <3>2. future' \in [Calls -> {"none", "pending", "cancelled"} \cup Outcomes]
      BY <1>0, <1>3 DEF TypeOK
    <3>3. call' \in [Calls -> {"new", "waiting", "cancelled", "refused", "unparsed",
                               "full"} \cup Outcomes]
      BY <1>0, <1>3 DEF TypeOK
    <3>4. owed' \in [Calls -> Nat]
      BY <1>0, <1>3, <2>2 DEF TypeOK
    <3>. QED
      BY <1>0, <1>1, <2>1, <3>1, <3>2, <3>3, <3>4 DEF TypeOK
  <2>4. \A d \in Calls : d # c => /\ future'[d] = future[d] /\ call'[d] = call[d]
                                  /\ owed'[d] = owed[d]
    BY <1>0, <1>3 DEF TypeOK
  <2>5. future'[c] = "pending" /\ call'[c] = "waiting" /\ owed'[c] = Registered(c)
    BY <1>0, <1>3 DEF TypeOK
  <2>6. NewIsUntouched' /\ HandledByOne' /\ PendingInHands'
    BY <1>0, <1>1, <1>2, <2>1, <2>4, <2>5
       DEF NewIsUntouched, HandledByOne, PendingInHands, Holds
  <2>7. StartedOK' /\ ClosingOK' /\ DrainedLeavesNothing'
    BY <1>0, <1>1 DEF StartedOK, ClosingOK, DrainedLeavesNothing
  <2>8. OutcomeOK'
    BY <1>0, <1>1, <2>2, <2>4, <2>5 DEF OutcomeOK
  <2>. QED
    BY <2>1, <2>3, <2>6, <2>7, <2>8 DEF IInv
<1>4. CASE /\ call' = [call EXCEPT ![c] = "full"]
           /\ UNCHANGED <<queue, future, owed>>
  <2>1. QueueDistinct' /\ \A d \in Calls : Queued(d)' <=> Queued(d)
    BY <1>0, <1>4, SameQueue
  <2>2. TypeOK'
    BY <1>0, <1>1, <1>4 DEF TypeOK
  <2>3. call'[c] = "full" /\ \A d \in Calls : d # c => call'[d] = call[d]
    BY <1>0, <1>4 DEF TypeOK
  <2>4. NewIsUntouched' /\ HandledByOne' /\ PendingInHands'
    BY <1>0, <1>1, <1>4, <2>1, <2>3
       DEF NewIsUntouched, HandledByOne, PendingInHands, Holds
  <2>5. StartedOK' /\ ClosingOK' /\ DrainedLeavesNothing'
    BY <1>0, <1>1, <1>4 DEF StartedOK, ClosingOK, DrainedLeavesNothing
  <2>6. OutcomeOK'
    BY <1>0, <1>1, <1>4, <2>3 DEF OutcomeOK, Registered
  <2>. QED
    BY <2>1, <2>2, <2>4, <2>5, <2>6 DEF IInv
<1>. QED
  BY <1>3, <1>4 DEF Dispatch

\* A caller that gives up cancels its future; the item stays where it is.
LEMMA CancelCallerInv ==
  ASSUME NEW c \in Calls, IInv, CancelCaller(c)
  PROVE  IInv'
<1> USE ChannelAssumption DEF ChannelAssumption
<1>0. TypeOK /\ QueueDistinct /\ NewIsUntouched /\ HandledByOne /\ PendingInHands
      /\ StartedOK /\ ClosingOK /\ DrainedLeavesNothing /\ OutcomeOK
  BY DEF IInv
<1>1. UNCHANGED <<started, closing, handlers, cardHandler, queue, worker, cancelled, handled, owed>>
  BY DEF CancelCaller, poolVars
<1>2. /\ call[c] = "waiting" /\ call'[c] = "cancelled"
      /\ \A d \in Calls : d # c => call'[d] = call[d] /\ future'[d] = future[d]
      /\ future'[c] = IF future[c] = "pending" THEN "cancelled" ELSE future[c]
  BY <1>0 DEF TypeOK, CancelCaller, Settle
<1>3. TypeOK'
  BY <1>0, <1>1 DEF TypeOK, CancelCaller, Settle
<1>4. QueueDistinct' /\ \A d \in Calls : Queued(d)' <=> Queued(d)
  BY <1>0, <1>1, SameQueue
<1>5. NewIsUntouched' /\ HandledByOne' /\ PendingInHands'
  BY <1>0, <1>1, <1>2, <1>4 DEF NewIsUntouched, HandledByOne, PendingInHands, Holds
<1>6. StartedOK'
  <2>1. \A d \in Calls : future[d] = "none" => future'[d] = "none"
    BY <1>2
  <2>. QED
    BY <1>0, <1>1, <2>1 DEF StartedOK
<1>7. ClosingOK' /\ DrainedLeavesNothing'
  BY <1>0, <1>1, <1>2 DEF ClosingOK, DrainedLeavesNothing, Alive
<1>8. OutcomeOK'
  BY <1>0, <1>1, <1>2 DEF OutcomeOK, Registered
<1>. QED
  BY <1>3, <1>4, <1>5, <1>6, <1>7, <1>8 DEF IInv

------------------------------------------------------------------------------
(* The workers                                                             *)

\* A worker lets go of the item c it holds and settles it: with an outcome
\* other than "ok", or after every handler owed has completed.
LEMMA LetGo ==
  ASSUME IInv, NEW w \in Workers, NEW c \in Calls, Holds(w, c),
         NEW outcome \in Outcomes, NEW phase \in {"idle", "stopped", "lost"},
         worker' = [worker EXCEPT ![w] = [phase |-> phase, item |-> Nothing]],
         Settle(c, outcome),
         \/ UNCHANGED handled
         \/ handled' = [handled EXCEPT ![c] = @ + 1],
         outcome = "ok" => handled'[c] >= owed[c],
         cancelled' \subseteq cancelled,
         UNCHANGED <<poolVars, queue, call, owed>>
  PROVE  IInv'
<1> USE ChannelAssumption DEF ChannelAssumption
<1>0. TypeOK /\ QueueDistinct /\ NewIsUntouched /\ HandledByOne /\ PendingInHands
      /\ StartedOK /\ ClosingOK /\ DrainedLeavesNothing /\ OutcomeOK
  BY DEF IInv
<1>1. UNCHANGED <<started, closing, handlers, cardHandler, queue, call, owed>>
  BY DEF poolVars
<1>2. /\ future' \in [Calls -> {"none", "pending", "cancelled"} \cup Outcomes]
      /\ \A d \in Calls : d # c => future'[d] = future[d]
      /\ future'[c] = IF future[c] = "pending" THEN outcome ELSE future[c]
  BY <1>0 DEF TypeOK, Settle
<1>3. /\ worker' \in [Workers -> [phase : Phases, item : Calls \cup {Nothing}]]
      /\ \A v \in Workers : worker'[v] = IF v = w THEN [phase |-> phase, item |-> Nothing]
                                                  ELSE worker[v]
  BY <1>0 DEF TypeOK, Phases
<1>4. /\ handled' \in [Calls -> Nat]
      /\ \A d \in Calls : handled'[d] >= handled[d]
  <2>1. handled \in [Calls -> Nat]
    BY <1>0 DEF TypeOK
  <2>2. CASE UNCHANGED handled
    BY <2>1, <2>2
  <2>3. CASE handled' = [handled EXCEPT ![c] = @ + 1]
    BY <2>1, <2>3
  <2>. QED
    BY <2>2, <2>3
<1>5. TypeOK'
  <2>1. \A v \in Workers : worker'[v].phase = "running" <=> worker'[v].item # Nothing
    BY <1>0, <1>3 DEF TypeOK
  <2>. QED
    BY <1>0, <1>1, <1>2, <1>3, <1>4, <2>1 DEF TypeOK, Phases
<1>6. QueueDistinct' /\ \A d \in Calls : Queued(d)' <=> Queued(d)
  BY <1>0, <1>1, SameQueue
<1>7. \A v \in Workers, d \in Calls : Holds(v, d)' <=> (v # w /\ Holds(v, d))
  BY <1>3 DEF Holds
<1>8. worker[w].phase = "running" /\ call[c] # "new" /\ started
      /\ closing \notin {"drained", "abandoned"}
  BY <1>0 DEF Holds, NewIsUntouched, StartedOK, ClosingOK
<1>9. NewIsUntouched'
  BY <1>0, <1>1, <1>2, <1>6, <1>7, <1>8 DEF NewIsUntouched
<1>10. HandledByOne'
  BY <1>0, <1>6, <1>7 DEF HandledByOne
<1>11. PendingInHands'
  <2>. SUFFICES ASSUME NEW d \in Calls, future'[d] = "pending"
                PROVE  Queued(d)' \/ \E v \in Workers : Holds(v, d)'
    BY DEF PendingInHands
  <2>1. d # c /\ future[d] = "pending"
    BY <1>2 DEF Outcomes
  <2>2. ~Holds(w, d)
    BY <2>1 DEF Holds
  <2>. QED
    BY <1>0, <1>6, <1>7, <2>1, <2>2 DEF PendingInHands
<1>12. StartedOK' /\ ClosingOK' /\ DrainedLeavesNothing'
  BY <1>0, <1>1, <1>3, <1>8 DEF StartedOK, ClosingOK, DrainedLeavesNothing
<1>13. OutcomeOK'
  <2>. SUFFICES ASSUME NEW d \in Calls
                PROVE  /\ call[d] = "ok" => future'[d] = "ok"
                       /\ future'[d] = "ok" => handled'[d] >= owed[d]
                       /\ owed[d] <= Registered(d)
    BY <1>1 DEF OutcomeOK, Registered
  <2>1. /\ call[d] = "ok" => future[d] = "ok"
        /\ future[d] = "ok" => handled[d] >= owed[d]
        /\ owed[d] <= Registered(d)
        /\ handled[d] \in Nat /\ handled'[d] \in Nat /\ owed[d] \in Nat
    BY <1>0, <1>4 DEF OutcomeOK, TypeOK
  <2>. QED
    BY <1>2, <1>4, <2>1
<1>. QED
  BY <1>5, <1>6, <1>9, <1>10, <1>11, <1>12, <1>13 DEF IInv

\* A handler completes and the next one of the live list starts: nothing but
\* the position changes.
LEMMA NextHandler ==
  ASSUME IInv, NEW w \in Workers, NEW c \in Calls, Holds(w, c),
         worker' = [worker EXCEPT ![w] = [phase |-> "running", item |-> c]],
         handled' = [handled EXCEPT ![c] = @ + 1],
         UNCHANGED <<poolVars, queue, cancelled, future, call, owed>>
  PROVE  IInv'
<1>0. TypeOK /\ QueueDistinct /\ NewIsUntouched /\ HandledByOne /\ PendingInHands
      /\ StartedOK /\ ClosingOK /\ DrainedLeavesNothing /\ OutcomeOK
  BY DEF IInv
<1>1. UNCHANGED <<started, closing, handlers, cardHandler, queue, future, call, owed, cancelled>>
  BY DEF poolVars
<1>2. \A v \in Workers : /\ worker'[v].phase = worker[v].phase
                         /\ worker'[v].item = worker[v].item
  BY <1>0 DEF TypeOK, Holds
<1>3. handled' \in [Calls -> Nat] /\ \A d \in Calls : handled'[d] >= handled[d]
  BY <1>0 DEF TypeOK
<1>4. TypeOK'
  <2>1. worker' \in [Workers -> [phase : Phases, item : Calls \cup {Nothing}]]
    BY <1>0 DEF TypeOK, Phases
  <2>. QED
    BY <1>0, <1>1, <1>2, <1>3, <2>1 DEF TypeOK, Phases
<1>5. QueueDistinct' /\ \A d \in Calls : Queued(d)' <=> Queued(d)
  BY <1>0, <1>1, SameQueue
<1>6. \A v \in Workers, d \in Calls : Holds(v, d)' <=> Holds(v, d)
  BY <1>2 DEF Holds
<1>7. NewIsUntouched' /\ HandledByOne' /\ PendingInHands'
  BY <1>0, <1>1, <1>5, <1>6 DEF NewIsUntouched, HandledByOne, PendingInHands
<1>8. StartedOK' /\ ClosingOK' /\ DrainedLeavesNothing'
  BY <1>0, <1>1, <1>2 DEF StartedOK, ClosingOK, DrainedLeavesNothing, Alive
<1>9. OutcomeOK'
  <2>1. \A d \in Calls : handled[d] \in Nat /\ handled'[d] \in Nat /\ owed[d] \in Nat
    BY <1>0, <1>3 DEF TypeOK
  <2>. QED
    BY <1>0, <1>1, <1>3, <2>1 DEF OutcomeOK, Registered
<1>. QED
  BY <1>4, <1>5, <1>7, <1>8, <1>9 DEF IInv

\* _queue.get() hands the first item to an idle worker, which starts its
\* first handler or settles it at once.
LEMMA WorkerGetInv ==
  ASSUME NEW w \in Workers, IInv, WorkerGet(w)
  PROVE  IInv'
<1> USE ChannelAssumption DEF ChannelAssumption
<1>0. TypeOK /\ QueueDistinct /\ NewIsUntouched /\ HandledByOne /\ PendingInHands
      /\ StartedOK /\ ClosingOK /\ DrainedLeavesNothing /\ OutcomeOK
  BY DEF IInv
<1> DEFINE c == Head(queue)
<1>1. /\ UNCHANGED <<started, closing, handlers, cardHandler, cancelled, call, handled, owed>>
      /\ queue \in Seq(Calls) /\ queue # <<>> /\ queue' = Tail(queue)
      /\ worker[w].phase = "idle"
  BY <1>0 DEF WorkerGet, poolVars, TypeOK
<1>2. /\ c \in Calls /\ Queued(c)
      /\ queue' \in Seq(Calls) /\ Len(queue') <= Len(queue) /\ QueueDistinct'
      /\ \A d \in Calls : Queued(d)' <=> (Queued(d) /\ d # c)
  BY <1>0, <1>1, TakeFirst
<1>3. /\ call[c] # "new" /\ started /\ closing \notin {"drained", "abandoned"}
      /\ \A v \in Workers : ~Holds(v, c)
      /\ \A d \in Calls : ~Holds(w, d)
  BY <1>0, <1>1, <1>2 DEF NewIsUntouched, HandledByOne, StartedOK, ClosingOK, Holds
<1>4. Proceed(w, c, 0)
  BY DEF WorkerGet
<1> HIDE DEF c
<1>5. Len(queue') <= QueueSize
  BY <1>0, <1>1, <1>2 DEF TypeOK
<1>6. CASE /\ worker' = [worker EXCEPT ![w] = [phase |-> "running", item |-> c]]
           /\ UNCHANGED future
  <2>1. /\ worker' \in [Workers -> [phase : Phases, item : Calls \cup {Nothing}]]
        /\ \A v \in Workers : worker'[v] = IF v = w THEN [phase |-> "running", item |-> c]
                                                    ELSE worker[v]
    BY <1>0, <1>2, <1>6 DEF TypeOK, Phases
  <2>2. TypeOK'
    <3>1. c # Nothing
      BY <1>2
    <3>2. \A v \in Workers : worker'[v].phase = "running" <=> worker'[v].item # Nothing
      BY <1>0, <2>1, <3>1 DEF TypeOK
    <3>. QED
      BY <1>0, <1>1, <1>2, <1>5, <1>6, <2>1, <3>2 DEF TypeOK, Phases
  <2>3. \A v \in Workers, d \in Calls : Holds(v, d)' <=> (IF v = w THEN d = c ELSE Holds(v, d))
    BY <2>1 DEF Holds
  <2>4. NewIsUntouched' /\ HandledByOne'
    BY <1>0, <1>1, <1>2, <1>3, <1>6, <2>3 DEF NewIsUntouched, HandledByOne
  <2>5. PendingInHands'
    BY <1>0, <1>2, <1>3, <1>6, <2>3 DEF PendingInHands
  <2>6. StartedOK' /\ ClosingOK' /\ DrainedLeavesNothing'
    BY <1>0, <1>1, <1>3, <2>1 DEF StartedOK, ClosingOK, DrainedLeavesNothing
  <2>7. OutcomeOK'
    BY <1>0, <1>1, <1>6 DEF OutcomeOK, Registered
  <2>. QED
    BY <1>2, <2>2, <2>4, <2>5, <2>6, <2>7 DEF IInv
<1>7. CASE 0 >= Registered(c) /\ worker' = [worker EXCEPT ![w] = Idle] /\ Settle(c, "ok")
  <2>1. \A v \in Workers : worker'[v] = worker[v]
    <3>1. worker[w].item = Nothing
      BY <1>0, <1>1 DEF TypeOK
    <3>2. worker[w] = Idle
      BY <1>0, <1>1, <3>1 DEF TypeOK, Idle
    <3>. QED
      BY <1>0, <1>7, <3>2 DEF TypeOK
  <2>2. worker' = worker
    BY <1>0, <1>7, <2>1 DEF TypeOK
  <2>3. /\ future' \in [Calls -> {"none", "pending", "cancelled"} \cup Outcomes]
        /\ \A d \in Calls : d # c => future'[d] = future[d]
        /\ future'[c] = IF future[c] = "pending" THEN "ok" ELSE future[c]
    BY <1>0, <1>2, <1>7 DEF TypeOK, Settle, Outcomes
  <2>4. TypeOK'
    BY <1>0, <1>1, <1>2, <1>5, <2>2, <2>3 DEF TypeOK
  <2>5. NewIsUntouched' /\ HandledByOne' /\ PendingInHands'
    BY <1>0, <1>1, <1>2, <1>3, <2>2, <2>3
       DEF NewIsUntouched, HandledByOne, PendingInHands, Holds
  <2>6. StartedOK' /\ ClosingOK' /\ DrainedLeavesNothing'
    BY <1>0, <1>1, <1>3, <2>2 DEF StartedOK, ClosingOK, DrainedLeavesNothing
  <2>7. OutcomeOK'
    <3>1. handled[c] >= owed[c]
      BY <1>0, <1>2, <1>7 DEF OutcomeOK, TypeOK, Registered
    <3>. QED
      BY <1>0, <1>1, <2>3, <3>1 DEF OutcomeOK, Registered
  <2>. QED
    BY <1>2, <2>4, <2>5, <2>6, <2>7 DEF IInv
<1>. QED
  <2>1. Registered(c) \in Nat
    BY <1>0 DEF Registered, TypeOK
  <2>. QED
    BY <1>4, <1>6, <1>7, <2>1 DEF Proceed

\* A handler completes: the next one starts, or the item is settled with "ok"
\* after as many handlers as it is owed.
LEMMA HandlerReturnsInv ==
  ASSUME NEW w \in Workers, IInv, HandlerReturns(w)
  PROVE  IInv'
<1> USE ChannelAssumption DEF ChannelAssumption
<1>0. TypeOK /\ OutcomeOK
  BY DEF IInv
<1> DEFINE c == worker[w].item
<1>1. c \in Calls /\ Holds(w, c)
  BY <1>0 DEF TypeOK, HandlerReturns, Holds
<1>2. /\ UNCHANGED <<poolVars, queue, cancelled, call, owed>>
      /\ handled' = [handled EXCEPT ![c] = @ + 1]
      /\ Proceed(w, c, handled[c] + 1)
  BY DEF HandlerReturns
<1> HIDE DEF c
<1>3. CASE /\ worker' = [worker EXCEPT ![w] = [phase |-> "running", item |-> c]]
           /\ UNCHANGED future
  BY <1>1, <1>2, <1>3, NextHandler DEF poolVars
<1>4. CASE /\ handled[c] + 1 >= Registered(c)
           /\ worker' = [worker EXCEPT ![w] = Idle]
           /\ Settle(c, "ok")
  <2>1. handled'[c] = handled[c] + 1 /\ handled[c] \in Nat
    BY <1>0, <1>1, <1>2 DEF TypeOK
  <2>2. handled'[c] >= owed[c]
    BY <1>0, <1>1, <1>4, <2>1 DEF OutcomeOK, TypeOK, Registered
  <2>3. "ok" \in Outcomes /\ "idle" \in {"idle", "stopped", "lost"}
    BY DEF Outcomes
  <2>4. worker' = [worker EXCEPT ![w] = [phase |-> "idle", item |-> Nothing]]
    BY <1>4 DEF Idle
  <2>5. cancelled' \subseteq cancelled /\ UNCHANGED <<poolVars, queue, call, owed>>
    BY <1>2
  <2>. QED
    BY <1>1, <1>2, <1>4, <2>2, <2>3, <2>4, <2>5, LetGo
<1>. QED
  <2>1. Registered(c) \in Nat /\ handled[c] \in Nat
    BY <1>0, <1>1 DEF Registered, TypeOK
  <2>. QED
    BY <1>2, <1>3, <1>4, <2>1 DEF Proceed

\* A handler raises: the item is settled with the error and the worker goes on.
LEMMA HandlerRaisesInv ==
  ASSUME NEW w \in Workers, IInv, HandlerRaises(w)
  PROVE  IInv'
<1> DEFINE c == worker[w].item
<1>1. c \in Calls /\ Holds(w, c)
  BY DEF IInv, TypeOK, HandlerRaises, Holds
<1>2. /\ worker' = [worker EXCEPT ![w] = [phase |-> "idle", item |-> Nothing]]
      /\ Settle(c, "handler") /\ UNCHANGED handled
      /\ cancelled' \subseteq cancelled /\ UNCHANGED <<poolVars, queue, call, owed>>
  BY DEF HandlerRaises, Idle
<1>3. "handler" \in Outcomes /\ "idle" \in {"idle", "stopped", "lost"} /\ "handler" # "ok"
  BY DEF Outcomes
<1> HIDE DEF c
<1>. QED
  BY <1>1, <1>2, <1>3, LetGo

\* A worker's task ends while it holds an item, for either reason.
Dies(w) == \E end \in {Stopped, Lost} : WorkerDies(w, end)

\* The item is settled, and nothing else disturbed.
LEMMA WorkerDiesInv ==
  ASSUME NEW w \in Workers, IInv, worker[w].phase = "running", Dies(w)
  PROVE  IInv'
<1> DEFINE c == worker[w].item
<1>1. c \in Calls /\ Holds(w, c)
  BY DEF IInv, TypeOK, Holds
<1>2. /\ Settle(c, "shutdown") /\ UNCHANGED handled
      /\ cancelled' \subseteq cancelled /\ UNCHANGED <<poolVars, queue, call, owed>>
  BY DEF Dies, WorkerDies
<1>3. PICK phase \in {"idle", "stopped", "lost"} :
        worker' = [worker EXCEPT ![w] = [phase |-> phase, item |-> Nothing]]
  BY DEF Dies, WorkerDies, Stopped, Lost
<1>4. "shutdown" \in Outcomes /\ "shutdown" # "ok"
  BY DEF Outcomes
<1> HIDE DEF c
<1>. QED
  BY <1>1, <1>2, <1>3, <1>4, LetGo

\* A handler that catches the cancellation only loses it.
LEMMA HandlerSwallowsInv ==
  ASSUME NEW w \in Workers, IInv, HandlerSwallowsCancel(w)
  PROVE  IInv'
<1>0. TypeOK /\ QueueDistinct /\ NewIsUntouched /\ HandledByOne /\ PendingInHands
      /\ StartedOK /\ ClosingOK /\ DrainedLeavesNothing /\ OutcomeOK
  BY DEF IInv
<1>1. UNCHANGED <<started, closing, handlers, cardHandler, queue, worker, future, call, handled, owed>>
      /\ cancelled' \subseteq cancelled
  BY DEF HandlerSwallowsCancel, poolVars
<1>2. TypeOK'
  BY <1>0, <1>1 DEF TypeOK
<1>3. QueueDistinct' /\ \A d \in Calls : Queued(d)' <=> Queued(d)
  BY <1>0, <1>1, SameQueue
<1>4. NewIsUntouched' /\ HandledByOne' /\ PendingInHands'
  BY <1>0, <1>1, <1>3 DEF NewIsUntouched, HandledByOne, PendingInHands, Holds
<1>5. StartedOK' /\ ClosingOK' /\ DrainedLeavesNothing' /\ OutcomeOK'
  BY <1>0, <1>1 DEF StartedOK, ClosingOK, DrainedLeavesNothing, Alive, OutcomeOK, Registered
<1>. QED
  BY <1>2, <1>3, <1>4, <1>5 DEF IInv

\* An idle worker that is cancelled holds nothing, and takes nothing along.
LEMMA IdleCancelledInv ==
  ASSUME NEW w \in Workers, IInv, IdleWorkerCancelled(w)
  PROVE  IInv'
<1>0. TypeOK /\ QueueDistinct /\ NewIsUntouched /\ HandledByOne /\ PendingInHands
      /\ StartedOK /\ ClosingOK /\ DrainedLeavesNothing /\ OutcomeOK
  BY DEF IInv
<1>1. /\ UNCHANGED <<started, closing, handlers, cardHandler, queue, future, call, handled, owed>>
      /\ cancelled' \subseteq cancelled /\ worker[w].phase = "idle"
  BY DEF IdleWorkerCancelled, poolVars
<1>2. /\ worker' \in [Workers -> [phase : Phases, item : Calls \cup {Nothing}]]
      /\ \A v \in Workers : worker'[v] = IF v = w THEN Stopped ELSE worker[v]
  BY <1>0 DEF TypeOK, Phases, IdleWorkerCancelled, Stopped
<1>3. TypeOK'
  <2>0. Stopped.phase # "running" /\ Stopped.item = Nothing
    BY DEF Stopped
  <2>2. \A v \in Workers : worker[v].phase = "running" <=> worker[v].item # Nothing
    BY <1>0 DEF TypeOK
  <2>1. \A v \in Workers : worker'[v].phase = "running" <=> worker'[v].item # Nothing
    BY <1>2, <2>0, <2>2
  <2>. QED
    BY <1>0, <1>1, <1>2, <2>1 DEF TypeOK, Phases
<1>4. QueueDistinct' /\ \A d \in Calls : Queued(d)' <=> Queued(d)
  BY <1>0, <1>1, SameQueue
<1>5. \A v \in Workers, d \in Calls : Holds(v, d)' <=> Holds(v, d)
  BY <1>1, <1>2 DEF Holds, Stopped
<1>6. NewIsUntouched' /\ HandledByOne' /\ PendingInHands'
  BY <1>0, <1>1, <1>4, <1>5 DEF NewIsUntouched, HandledByOne, PendingInHands
<1>7. started /\ closing \notin {"drained", "abandoned"}
  BY <1>0, <1>1 DEF StartedOK, ClosingOK
<1>8. StartedOK' /\ ClosingOK' /\ DrainedLeavesNothing'
  BY <1>0, <1>1, <1>2, <1>7 DEF StartedOK, ClosingOK, DrainedLeavesNothing, Stopped
<1>9. OutcomeOK'
  BY <1>0, <1>1 DEF OutcomeOK, Registered
<1>. QED
  BY <1>3, <1>4, <1>6, <1>8, <1>9 DEF IInv

------------------------------------------------------------------------------
(* close                                                                   *)

\* The drain empties the queue and settles what was in it; with no worker
\* alive, that is everything that was pending.
LEMMA DrainInv ==
  ASSUME IInv, Alive = {}, Drain, closing' = "drained",
         UNCHANGED <<started, handlers, cardHandler, worker, cancelled, call, handled, owed>>
  PROVE  IInv'
<1> USE ChannelAssumption DEF ChannelAssumption
<1>0. TypeOK /\ QueueDistinct /\ NewIsUntouched /\ HandledByOne /\ PendingInHands
      /\ StartedOK /\ ClosingOK /\ DrainedLeavesNothing /\ OutcomeOK
  BY DEF IInv
<1>1. queue' = <<>>
  BY DEF Drain
<1>2. \A c \in Calls : future'[c] = IF Queued(c) /\ future[c] = "pending"
                                    THEN "shutdown" ELSE future[c]
  BY DEF Drain
<1>3. TypeOK'
  <2>1. queue' \in Seq(Calls) /\ Len(queue') <= QueueSize
    BY <1>1
  <2>2. future' \in [Calls -> {"none", "pending", "cancelled"} \cup Outcomes]
    BY <1>0 DEF TypeOK, Drain, Outcomes
  <2>. QED
    BY <1>0, <2>1, <2>2 DEF TypeOK
<1>4. QueueDistinct' /\ \A c \in Calls : ~Queued(c)'
  BY <1>1 DEF QueueDistinct, Queued
<1>5. \A w \in Workers : worker[w].phase \in {"absent", "stopped", "lost"}
  BY <1>0 DEF Alive, TypeOK
<1>6. \A w \in Workers, c \in Calls : ~Holds(w, c) /\ ~Holds(w, c)'
  BY <1>5 DEF Holds
<1>7. \A c \in Calls : future'[c] # "pending" /\ (future[c] = "none" => future'[c] = "none")
  BY <1>0, <1>2, <1>6 DEF PendingInHands
<1>8. NewIsUntouched' /\ HandledByOne' /\ PendingInHands'
  BY <1>0, <1>4, <1>6, <1>7 DEF NewIsUntouched, HandledByOne, PendingInHands
<1>9. StartedOK' /\ ClosingOK'
  BY <1>0, <1>1, <1>5, <1>7 DEF StartedOK, ClosingOK
<1>10. DrainedLeavesNothing'
  BY <1>1, <1>7 DEF DrainedLeavesNothing, Alive
<1>11. OutcomeOK'
  BY <1>0, <1>2 DEF OutcomeOK, Registered
<1>. QED
  BY <1>3, <1>4, <1>8, <1>9, <1>10, <1>11 DEF IInv

\* close moves on to waiting for the workers, is interrupted there, or gives up.
LEMMA ClosingInv ==
  ASSUME IInv, closing' \in {"joining", "interrupted", "abandoned"},
         closing' = "abandoned" => Alive = {},
         cancelled' \subseteq Workers,
         UNCHANGED <<started, handlers, cardHandler, queue, worker, future, call, handled, owed>>
  PROVE  IInv'
<1>0. TypeOK /\ QueueDistinct /\ NewIsUntouched /\ HandledByOne /\ PendingInHands
      /\ StartedOK /\ ClosingOK /\ DrainedLeavesNothing /\ OutcomeOK
  BY DEF IInv
<1>1. TypeOK'
  BY <1>0 DEF TypeOK
<1>2. QueueDistinct' /\ \A d \in Calls : Queued(d)' <=> Queued(d)
  BY <1>0, SameQueue
<1>3. NewIsUntouched' /\ HandledByOne' /\ PendingInHands'
  BY <1>0, <1>2 DEF NewIsUntouched, HandledByOne, PendingInHands, Holds
<1>4. ClosingOK'
  BY <1>0 DEF ClosingOK, Alive, TypeOK
<1>5. StartedOK' /\ DrainedLeavesNothing' /\ OutcomeOK'
  BY <1>0 DEF StartedOK, DrainedLeavesNothing, OutcomeOK, Registered
<1>. QED
  BY <1>1, <1>2, <1>3, <1>4, <1>5 DEF IInv

\* The three steps of close.
LEMMA CloseInv == IInv /\ (CloseBegin \/ CloseInterrupted \/ CloseJoined) => IInv'
<1> SUFFICES ASSUME IInv, CloseBegin \/ CloseInterrupted \/ CloseJoined PROVE IInv'
  OBVIOUS
<1>0. TypeOK /\ StartedOK
  BY DEF IInv
<1>1. Alive \subseteq Workers /\ cancelled \subseteq Workers
  BY <1>0 DEF Alive, TypeOK
<1>2. CASE CloseBegin /\ started
  BY <1>1, <1>2, ClosingInv DEF CloseBegin
<1>3. CASE CloseBegin /\ ~started
  <2>1. Alive = {}
    BY <1>0, <1>3 DEF Alive, StartedOK
  <2>. QED
    BY <1>3, <2>1, DrainInv DEF CloseBegin
<1>4. CASE CloseInterrupted
  BY <1>1, <1>4, ClosingInv DEF CloseInterrupted
<1>5. CASE CloseJoined /\ closing = "joining"
  BY <1>5, DrainInv DEF CloseJoined
<1>6. CASE CloseJoined /\ closing # "joining"
  BY <1>1, <1>6, ClosingInv DEF CloseJoined
<1>. QED
  BY <1>2, <1>3, <1>4, <1>5, <1>6

------------------------------------------------------------------------------
(* The invariant holds in every reachable state, and what follows from it. *)

\* Every step keeps the invariant.
LEMMA NextInv == IInv /\ [Next]_vars => IInv'
<1> SUFFICES ASSUME IInv, [Next]_vars PROVE IInv'
  OBVIOUS
<1>1. CASE OnMessage \/ OnCardAction
  BY <1>1, RegisterInv
<1>2. CASE Start
  BY <1>2, StartInv
<1>3. ASSUME NEW c \in Calls, CallStep(c) PROVE IInv'
  BY <1>3, CallEndsInv, DispatchInv, CancelCallerInv DEF CallStep
<1>4. ASSUME NEW w \in Workers, WorkerStep(w) PROVE IInv'
  <2>1. CASE CancelDelivered(w) \/ HandlerCancelsItself(w)
    BY <2>1, WorkerDiesInv DEF CancelDelivered, HandlerCancelsItself, Dies
  <2>. QED
    BY <1>4, <2>1, WorkerGetInv, HandlerReturnsInv, HandlerRaisesInv,
       HandlerSwallowsInv, IdleCancelledInv DEF WorkerStep
<1>5. CASE CloseBegin \/ CloseInterrupted \/ CloseJoined
  BY <1>5, CloseInv
<1>6. CASE UNCHANGED vars
  <2>0. TypeOK /\ QueueDistinct /\ NewIsUntouched /\ HandledByOne /\ PendingInHands
        /\ StartedOK /\ ClosingOK /\ DrainedLeavesNothing /\ OutcomeOK
    BY DEF IInv
  <2>1. UNCHANGED <<started, closing, handlers, cardHandler, queue, worker, cancelled,
                    future, call, handled, owed>>
    BY <1>6 DEF vars
  <2>2. TypeOK'
    BY <2>0, <2>1 DEF TypeOK
  <2>3. QueueDistinct' /\ \A d \in Calls : Queued(d)' <=> Queued(d)
    BY <2>0, <2>1, SameQueue
  <2>4. NewIsUntouched' /\ HandledByOne' /\ PendingInHands'
    BY <2>0, <2>1, <2>3 DEF NewIsUntouched, HandledByOne, PendingInHands, Holds
  <2>5. StartedOK' /\ ClosingOK' /\ DrainedLeavesNothing' /\ OutcomeOK'
    BY <2>0, <2>1 DEF StartedOK, ClosingOK, DrainedLeavesNothing, Alive, OutcomeOK, Registered
  <2>. QED
    BY <2>2, <2>3, <2>4, <2>5 DEF IInv
<1>. QED
  BY <1>1, <1>2, <1>3, <1>4, <1>5, <1>6 DEF Next

\* The inductive invariant holds throughout.
THEOREM Invariance == Spec => []IInv
BY InitInv, NextInv, PTL DEF Spec

\* The state keeps its shape, and the queue its bound.
THEOREM TypeCorrect == Spec => []TypeOK
<1>1. IInv => TypeOK
  BY DEF IInv
<1>. QED
  BY <1>1, Invariance, PTL

\* While the channel is open nobody is cancelled, and only an error of its own
\* ends a worker.
OpenPool ==
  ~closed => /\ cancelled = {}
             /\ \A w \in Workers : worker[w].phase # "stopped"

\* Nothing but close cancels a worker.
LEMMA OpenPoolInv == IInv /\ OpenPool /\ [Next]_vars => OpenPool'
<1> SUFFICES ASSUME IInv, OpenPool, [Next]_vars PROVE OpenPool'
  OBVIOUS
<1>0. worker \in [Workers -> [phase : Phases, item : Calls \cup {Nothing}]]
  BY DEF IInv, TypeOK, Phases
<1>1. CASE \/ OnMessage \/ OnCardAction \/ UNCHANGED vars
           \/ \E c \in Calls : CallStep(c)
  <2>1. UNCHANGED <<closing, worker, cancelled>>
    BY <1>1 DEF OnMessage, OnCardAction, vars, CallStep, DispatchRefused,
                DispatchUnparsed, Dispatch, Resume, CancelCaller, poolVars
  <2>. QED
    BY <2>1 DEF OpenPool, closed
<1>2. CASE Start
  BY <1>2 DEF Start, OpenPool, Idle, closed
<1>3. CASE CloseBegin \/ CloseInterrupted \/ CloseJoined
  <2>1. closed'
    BY <1>3 DEF CloseBegin, CloseInterrupted, CloseJoined, closed
  <2>. QED
    BY <2>1 DEF OpenPool
<1>4. ASSUME NEW w \in Workers, WorkerStep(w)
      PROVE  OpenPool'
  <2>1. UNCHANGED closing
    BY <1>4 DEF WorkerStep, WorkerGet, HandlerReturns, HandlerRaises, CancelDelivered,
                HandlerCancelsItself, WorkerDies, HandlerSwallowsCancel, IdleWorkerCancelled,
                poolVars
  <2>2. CASE closed
    BY <2>1, <2>2 DEF OpenPool, closed
  <2>3. CASE ~closed
    <3>1. \/ WorkerGet(w) \/ HandlerReturns(w) \/ HandlerRaises(w)
          \/ HandlerCancelsItself(w)
      BY <1>4, <2>3 DEF WorkerStep, CancelDelivered, HandlerSwallowsCancel,
                        IdleWorkerCancelled, OpenPool
    <3>2. /\ cancelled' \subseteq cancelled
          /\ \A v \in Workers : \/ worker'[v] = worker[v]
                                \/ worker'[v].phase \in {"idle", "running", "lost"}
      BY <1>0, <3>1 DEF WorkerGet, HandlerReturns, HandlerRaises, Proceed, Idle,
                        HandlerCancelsItself, WorkerDies, Lost
    <3>. QED
      BY <2>1, <2>3, <3>2 DEF OpenPool, closed
  <2>. QED
    BY <2>2, <2>3
<1>. QED
  BY <1>1, <1>2, <1>3, <1>4 DEF Next

\* An open pool can only lose its workers, so that what is queued has a living
\* one, unless all of them are lost.
LEMMA QueuedIsServed ==
  ASSUME IInv, OpenPool
  PROVE  NoOrphanedCaller
<1>0. /\ TypeOK /\ PendingInHands /\ StartedOK /\ DrainedLeavesNothing
      /\ \A w \in Workers : worker[w].phase \in Phases
  BY DEF IInv, TypeOK, Phases
<1> SUFFICES ASSUME NEW c \in Calls, future[c] = "pending",
                    ~\E w \in Workers : Holds(w, c)
             PROVE  Queued(c) /\ (Served(c) \/ LeftBehind)
  BY DEF NoOrphanedCaller, Served
<1>1. Queued(c) /\ started /\ closing # "drained"
  BY <1>0 DEF PendingInHands, StartedOK, DrainedLeavesNothing
<1>2. CASE closed
  <2>1. closing \in {"joining", "interrupted", "abandoned"}
    BY <1>0, <1>1, <1>2 DEF TypeOK, closed
  <2>. QED
    BY <1>1, <1>2, <2>1 DEF Served, LeftBehind
<1>3. CASE ~closed
  <2>1. \A w \in Workers : worker[w].phase \in {"idle", "running", "lost"}
    BY <1>0, <1>1, <1>3 DEF OpenPool, StartedOK, Phases
  <2>2. Alive # {} \/ \A w \in Workers : worker[w].phase = "lost"
    BY <2>1 DEF Alive
  <2>. QED
    BY <1>1, <1>3, <2>2 DEF Served, LeftBehind
<1>. QED
  BY <1>2, <1>3

\* Whoever may still wait is served, or was left behind by one of the two
\* causes the property names.
THEOREM NobodyIsOrphaned == Spec => []NoOrphanedCaller
<1>1. Init => OpenPool
  BY DEF Init, OpenPool
<1>2. IInv /\ OpenPool => NoOrphanedCaller
  BY QueuedIsServed
<1>. QED
  BY <1>1, <1>2, OpenPoolInv, Invariance, PTL DEF Spec

\* Without those two causes nobody is ever left behind: a caller that may
\* still wait is always served.
THEOREM EveryoneIsServed ==
  ASSUME "cancel" \notin HandlerFaults, MayInterruptClose = FALSE
  PROVE  Spec => [](\A c \in Calls : future[c] = "pending" => Served(c))
<1> DEFINE NoCause == /\ closing \notin {"interrupted", "abandoned"}
                      /\ \A w \in Workers : worker[w].phase # "lost"
<1>1. Init => NoCause
  BY DEF Init
<1>2. IInv /\ NoCause /\ [Next]_vars => NoCause'
  <2> SUFFICES ASSUME IInv, NoCause, [Next]_vars PROVE NoCause'
    OBVIOUS
  <2>0. worker \in [Workers -> [phase : Phases, item : Calls \cup {Nothing}]]
    BY DEF IInv, TypeOK, Phases
  <2>1. CASE \/ OnMessage \/ OnCardAction \/ UNCHANGED vars
             \/ \E c \in Calls : CallStep(c)
    <3>1. UNCHANGED <<closing, worker>>
      BY <2>1 DEF OnMessage, OnCardAction, vars, CallStep, DispatchRefused,
                  DispatchUnparsed, Dispatch, Resume, CancelCaller, poolVars
    <3>. QED
      BY <3>1
  <2>2. CASE Start
    BY <2>2 DEF Start, Idle
  <2>3. CASE CloseBegin \/ CloseJoined
    <3>1. closing' \in {"joining", "drained"} /\ UNCHANGED worker
      BY <2>3 DEF CloseBegin, CloseJoined
    <3>. QED
      BY <3>1
  <2>4. ~CloseInterrupted
    BY DEF CloseInterrupted
  <2>5. ASSUME NEW w \in Workers, WorkerStep(w)
        PROVE  NoCause'
    <3>1. ~HandlerCancelsItself(w)
      BY DEF HandlerCancelsItself
    <3>2. UNCHANGED closing
      BY <2>5 DEF WorkerStep, WorkerGet, HandlerReturns, HandlerRaises, CancelDelivered,
                  HandlerCancelsItself, WorkerDies, HandlerSwallowsCancel,
                  IdleWorkerCancelled, poolVars
    <3>3. \A v \in Workers : \/ worker'[v] = worker[v]
                             \/ worker'[v].phase \in {"idle", "running", "stopped"}
      BY <2>0, <2>5, <3>1 DEF WorkerStep, WorkerGet, HandlerReturns, HandlerRaises, Proceed,
                  Idle, CancelDelivered, WorkerDies, HandlerSwallowsCancel,
                  IdleWorkerCancelled, Stopped
    <3>. QED
      BY <3>2, <3>3
  <2>. QED
    BY <2>1, <2>2, <2>3, <2>4, <2>5 DEF Next
<1>3. NoOrphanedCaller /\ NoCause => \A c \in Calls : future[c] = "pending" => Served(c)
  BY ChannelAssumption DEF ChannelAssumption, NoOrphanedCaller, LeftBehind
<1>. QED
  BY <1>1, <1>2, <1>3, Invariance, NobodyIsOrphaned, PTL DEF Spec

\* An event is in the hands of one worker at most, and of none while queued.
THEOREM HandledOnce == Spec => []HandledByOne
<1>1. IInv => HandledByOne
  BY DEF IInv
<1>. QED
  BY <1>1, Invariance, PTL

\* A close that ran to its end leaves no worker, no item and no waiting future.
THEOREM CloseLeavesNothing == Spec => []DrainedLeavesNothing
<1>1. IInv => DrainedLeavesNothing
  BY DEF IInv
<1>. QED
  BY <1>1, Invariance, PTL

\* A caller that is told "ok" had its event go through every handler that was
\* registered when it was accepted.
THEOREM OkIsTruthful == Spec => []OkMeansHandled
<1>1. IInv => OkMeansHandled
  BY DEF IInv, OutcomeOK, OkMeansHandled
<1>. QED
  BY <1>1, Invariance, PTL

\* A future is settled once, whatever comes second.
THEOREM FuturesAreSettledOnce == Spec => SettledOnce
<1> DEFINE Once == \A c \in Calls : future[c] \notin {"none", "pending"} => future'[c] = future[c]
<1>1. IInv /\ [Next]_vars => [Once]_vars
  <2> SUFFICES ASSUME IInv, Next,
                      NEW c \in Calls, future[c] \notin {"none", "pending"}
               PROVE  future'[c] = future[c]
    BY Zenon
  <2>0. /\ future \in [Calls -> {"none", "pending", "cancelled"} \cup Outcomes]
        /\ worker \in [Workers -> [phase : Phases, item : Calls \cup {Nothing}]]
        /\ NewIsUntouched
    BY DEF IInv, TypeOK, Phases
  <2>1. ASSUME NEW d, NEW o, Settle(d, o) PROVE future'[c] = future[c]
    BY <2>0, <2>1 DEF Settle
  <2>2. CASE OnMessage \/ OnCardAction \/ Start \/ CloseInterrupted
    BY <2>2 DEF OnMessage, OnCardAction, Start, CloseInterrupted
  <2>3. ASSUME NEW d \in Calls, CallStep(d) PROVE future'[c] = future[c]
    <3>1. CASE DispatchRefused(d) \/ DispatchUnparsed(d) \/ Resume(d)
      BY <3>1 DEF DispatchRefused, DispatchUnparsed, Resume
    <3>2. CASE Dispatch(d)
      <4>1. call[c] # "new"
        BY <2>0 DEF NewIsUntouched
      <4>2. call[d] = "new"
        BY <3>2 DEF Dispatch
      <4>3. UNCHANGED future \/ future' = [future EXCEPT ![d] = "pending"]
        BY <3>2 DEF Dispatch
      <4>. QED
        BY <2>0, <4>1, <4>2, <4>3
    <3>3. CASE CancelCaller(d)
      BY <2>1, <3>3 DEF CancelCaller
    <3>. QED
      BY <2>3, <3>1, <3>2, <3>3 DEF CallStep
  <2>4. ASSUME NEW w \in Workers, WorkerStep(w) PROVE future'[c] = future[c]
    <3>1. CASE WorkerGet(w)
      BY <2>1, <3>1 DEF WorkerGet, Proceed
    <3>2. CASE HandlerReturns(w)
      BY <2>1, <3>2 DEF HandlerReturns, Proceed
    <3>3. CASE HandlerRaises(w)
      BY <2>1, <3>3 DEF HandlerRaises
    <3>4. CASE CancelDelivered(w) \/ HandlerCancelsItself(w)
      BY <2>1, <3>4 DEF CancelDelivered, HandlerCancelsItself, WorkerDies
    <3>5. CASE HandlerSwallowsCancel(w) \/ IdleWorkerCancelled(w)
      BY <3>5 DEF HandlerSwallowsCancel, IdleWorkerCancelled
    <3>. QED
      BY <2>4, <3>1, <3>2, <3>3, <3>4, <3>5 DEF WorkerStep
  <2>5. CASE CloseBegin \/ CloseJoined
    BY <2>5 DEF CloseBegin, CloseJoined, Drain
  <2>. QED
    BY <2>2, <2>3, <2>4, <2>5 DEF Next
<1>. QED
  BY <1>1, Invariance, PTL DEF Spec, SettledOnce

------------------------------------------------------------------------------
(***************************************************************************)
(* What close and the workers promise when handlers behave.  The two ways  *)
(* a handler may misbehave, HandlerFaults, are exactly what the next two   *)
(* theorems exclude, one each.                                             *)
(***************************************************************************)

\* Cancellations are sent by close; from then on every worker that is alive
\* has one that it has not received yet.
CancelledOK ==
  /\ ~closed => cancelled = {}
  /\ closed => Alive \subseteq cancelled

\* Without a handler that swallows its cancellation, nobody gets rid of one
\* but by ending.
LEMMA CancelledInv ==
  ASSUME "swallow" \notin HandlerFaults, IInv, CancelledOK, [Next]_vars
  PROVE  CancelledOK'
<1>0. /\ worker \in [Workers -> [phase : Phases, item : Calls \cup {Nothing}]]
      /\ cancelled \subseteq Workers
      /\ StartedOK
  BY DEF IInv, TypeOK, Phases
<1>1. CASE \/ OnMessage \/ OnCardAction \/ UNCHANGED vars
           \/ \E c \in Calls : CallStep(c)
  BY <1>1 DEF OnMessage, OnCardAction, vars, CallStep, DispatchRefused, DispatchUnparsed,
              Dispatch, Resume, CancelCaller, poolVars, CancelledOK, Alive, closed
<1>2. CASE Start
  BY <1>2 DEF Start, CancelledOK, closed
<1>3. CASE CloseBegin
  <2>1. CASE started
    BY <1>0, <1>3, <2>1 DEF CloseBegin, CancelledOK, Alive, closed
  <2>2. CASE ~started
    <3>1. Alive = {} /\ UNCHANGED worker /\ closing' = "drained"
      BY <1>0, <1>3, <2>2 DEF CloseBegin, StartedOK, Alive
    <3>2. Alive' = {} /\ closed'
      BY <3>1 DEF Alive, closed
    <3>. QED
      BY <3>2 DEF CancelledOK
  <2>. QED
    BY <2>1, <2>2
<1>4. CASE CloseInterrupted \/ CloseJoined
  <2>1. closed /\ closed' /\ cancelled \subseteq cancelled' /\ UNCHANGED worker
    BY <1>4 DEF CloseInterrupted, CloseJoined, closed
  <2>. QED
    BY <2>1 DEF CancelledOK, Alive
<1>5. ASSUME NEW w \in Workers, WorkerStep(w)
      PROVE  CancelledOK'
  <2>1. UNCHANGED closing
    BY <1>5 DEF WorkerStep, WorkerGet, HandlerReturns, HandlerRaises, CancelDelivered,
                HandlerCancelsItself, WorkerDies, HandlerSwallowsCancel, IdleWorkerCancelled,
                poolVars
  <2>2. CASE WorkerGet(w) \/ HandlerReturns(w) \/ HandlerRaises(w)
    <3>1. /\ w \notin cancelled /\ w \in Alive /\ UNCHANGED cancelled
          /\ \A v \in Workers \ {w} : worker'[v] = worker[v]
      BY <1>0, <2>2 DEF WorkerGet, HandlerReturns, HandlerRaises, Proceed, Alive
    <3>. QED
      BY <2>1, <3>1 DEF CancelledOK, closed
  <2>3. CASE CancelDelivered(w) \/ HandlerCancelsItself(w) \/ IdleWorkerCancelled(w)
    <3>1. /\ \E end \in {Stopped, Lost} : worker' = [worker EXCEPT ![w] = end]
          /\ cancelled' = cancelled \ {w}
      BY <2>3 DEF CancelDelivered, HandlerCancelsItself, WorkerDies, IdleWorkerCancelled
    <3>2. Alive' = Alive \ {w}
      BY <1>0, <3>1 DEF Alive, Stopped, Lost
    <3>. QED
      BY <2>1, <3>1, <3>2 DEF CancelledOK, closed
  <2>4. ~HandlerSwallowsCancel(w)
    BY DEF HandlerSwallowsCancel
  <2>. QED
    BY <1>5, <2>2, <2>3, <2>4 DEF WorkerStep
<1>. QED
  BY <1>1, <1>2, <1>3, <1>4, <1>5 DEF Next

\* No queued event reaches a handler once close has begun, if handlers let
\* the cancellation through: no worker that is alive is free to take one.
THEOREM NothingStartsAfterClose ==
  ASSUME "swallow" \notin HandlerFaults
  PROVE  Spec => NoEventStartsAfterClose
<1> DEFINE Stays == \A c \in Calls : closed /\ Queued(c) =>
              \A w \in Workers : ~(worker'[w].phase = "running" /\ worker'[w].item = c)
<1>1. Init => CancelledOK
  BY DEF Init, CancelledOK, closed
<1>2. IInv /\ CancelledOK /\ [Next]_vars => [Stays]_vars
  <2> SUFFICES ASSUME IInv, CancelledOK, Next,
                      NEW c \in Calls, closed, Queued(c), NEW w \in Workers
               PROVE  ~(worker'[w].phase = "running" /\ worker'[w].item = c)
    BY Zenon
  <2>0. /\ worker \in [Workers -> [phase : Phases, item : Calls \cup {Nothing}]]
        /\ ~Holds(w, c)
    BY DEF IInv, TypeOK, Phases, HandledByOne
  <2>1. ~Start /\ ~CloseBegin
    BY DEF Start, CloseBegin
  <2>2. CASE \/ OnMessage \/ OnCardAction \/ CloseInterrupted \/ CloseJoined
             \/ \E d \in Calls : CallStep(d)
    <3>1. UNCHANGED worker
      BY <2>2 DEF OnMessage, OnCardAction, CloseInterrupted, CloseJoined, CallStep,
                  DispatchRefused, DispatchUnparsed, Dispatch, Resume, CancelCaller
    <3>. QED
      BY <2>0, <3>1 DEF Holds
  <2>3. ASSUME NEW v \in Workers, WorkerStep(v)
        PROVE  ~(worker'[w].phase = "running" /\ worker'[w].item = c)
    <3>1. ~WorkerGet(v)
      BY DEF WorkerGet, CancelledOK, Alive
    <3>2. CASE HandlerReturns(v)
      BY <2>0, <3>2 DEF HandlerReturns, Proceed, Idle, Holds
    <3>3. CASE HandlerRaises(v)
      BY <2>0, <3>3 DEF HandlerRaises, Idle, Holds
    <3>4. CASE \/ CancelDelivered(v) \/ HandlerCancelsItself(v)
               \/ HandlerSwallowsCancel(v) \/ IdleWorkerCancelled(v)
      <4>1. \/ UNCHANGED worker
            \/ \E end \in {Stopped, Lost} : worker' = [worker EXCEPT ![v] = end]
        BY <3>4 DEF CancelDelivered, HandlerCancelsItself, WorkerDies,
                    HandlerSwallowsCancel, IdleWorkerCancelled
      <4>. QED
        BY <2>0, <4>1 DEF Stopped, Lost, Holds
    <3>. QED
      BY <2>3, <3>1, <3>2, <3>3, <3>4 DEF WorkerStep
  <2>. QED
    BY <2>1, <2>2, <2>3 DEF Next
<1>3. IInv /\ CancelledOK /\ [Next]_vars => CancelledOK'
  BY CancelledInv
<1>. QED
  BY <1>1, <1>2, <1>3, Invariance, PTL DEF Spec, NoEventStartsAfterClose

\* An error of a handler stays with its event, and the pool keeps its size, if
\* no handler ends with a CancelledError of its own.  With such a handler it
\* does not: the run channel_worker_lost.
THEOREM WorkersSurviveErrors ==
  ASSUME "cancel" \notin HandlerFaults
  PROVE  Spec => []HandlerErrorsStayPerEvent
<1> DEFINE Kept == (~closed => cancelled = {}) /\ HandlerErrorsStayPerEvent
<1>1. Init => Kept
  BY DEF Init, HandlerErrorsStayPerEvent
<1>2. IInv /\ Kept /\ [Next]_vars => Kept'
  <2> SUFFICES ASSUME IInv, Kept, [Next]_vars PROVE Kept'
    OBVIOUS
  <2>0. worker \in [Workers -> [phase : Phases, item : Calls \cup {Nothing}]]
    BY DEF IInv, TypeOK, Phases
  <2>1. CASE \/ OnMessage \/ OnCardAction \/ UNCHANGED vars
             \/ \E c \in Calls : CallStep(c)
    <3>1. UNCHANGED <<started, closing, worker, cancelled>>
      BY <2>1 DEF OnMessage, OnCardAction, vars, CallStep, DispatchRefused,
                  DispatchUnparsed, Dispatch, Resume, CancelCaller, poolVars
    <3>. QED
      BY <3>1 DEF HandlerErrorsStayPerEvent, Alive, closed
  <2>2. CASE Start
    <3>1. \A w \in Workers : worker'[w] = Idle
      BY <2>2 DEF Start
    <3>. QED
      BY <2>2, <3>1 DEF Start, HandlerErrorsStayPerEvent, Alive, Idle, closed
  <2>3. CASE CloseBegin \/ CloseInterrupted \/ CloseJoined
    <3>1. closed'
      BY <2>3 DEF CloseBegin, CloseInterrupted, CloseJoined, closed
    <3>. QED
      BY <3>1 DEF HandlerErrorsStayPerEvent
  <2>4. ASSUME NEW w \in Workers, WorkerStep(w)
        PROVE  Kept'
    <3>1. UNCHANGED <<started, closing>>
      BY <2>4 DEF WorkerStep, WorkerGet, HandlerReturns, HandlerRaises, CancelDelivered,
                  HandlerCancelsItself, WorkerDies, HandlerSwallowsCancel,
                  IdleWorkerCancelled, poolVars
    <3>2. CASE closed
      BY <3>1, <3>2 DEF HandlerErrorsStayPerEvent, closed
    <3>3. CASE ~closed
      <4>1. WorkerGet(w) \/ HandlerReturns(w) \/ HandlerRaises(w)
        BY <2>4, <3>3 DEF WorkerStep, CancelDelivered, HandlerCancelsItself,
                          HandlerSwallowsCancel, IdleWorkerCancelled
      <4>2. /\ UNCHANGED cancelled
            /\ \A v \in Workers : \/ worker'[v] = worker[v]
                                  \/ worker'[v].phase \in {"idle", "running"}
        BY <2>0, <4>1 DEF WorkerGet, HandlerReturns, HandlerRaises, Proceed, Idle
      <4>3. Alive = Workers => Alive' = Workers
        BY <4>2 DEF Alive
      <4>. QED
        BY <3>1, <4>2, <4>3 DEF HandlerErrorsStayPerEvent, closed
    <3>. QED
      BY <3>2, <3>3
  <2>. QED
    BY <2>1, <2>2, <2>3, <2>4 DEF Next
<1>. QED
  BY <1>1, <1>2, Invariance, PTL DEF Spec
==============================================================================
