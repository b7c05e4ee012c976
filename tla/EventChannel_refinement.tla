----------------------- MODULE EventChannel_refinement -----------------------
(***************************************************************************)
(* The event channel implements the dispatcher, for any number of events   *)
(* and workers and any queue size: every step of the channel changes one   *)
(* event's place and answer as the dispatcher allows, or nothing it sees.  *)
(***************************************************************************)
EXTENDS EventChannel_proof

Held(c) == \E w \in Workers : Holds(w, c)

\* Whatever is queued or held has a future that no worker has settled.
AcceptedOnly ==
  \A c \in Calls : Queued(c) \/ Held(c) => future[c] \in {"pending", "cancelled"}

\* What the channel's invariant says of places.
LEMMA PlaceFacts ==
  ASSUME IInv
  PROVE  /\ future \in [Calls -> {"none", "pending", "cancelled"} \cup Outcomes]
         /\ worker \in [Workers -> [phase : Phases, item : Calls \cup {Nothing}]]
         /\ \A c \in Calls : future[c] = "pending" => Place(c) \in {"waiting", "handled"}
         /\ \A c \in Calls : call[c] = "new" => Place(c) = "outside" /\ future[c] = "none"
         /\ \A c \in Calls : Held(c) => ~Queued(c)
BY DEF IInv, TypeOK, Phases, PendingInHands, NewIsUntouched, HandledByOne, Place, Held

\* An event nothing happened to is where it was.
LEMMA SamePlace ==
  ASSUME NEW c \in Calls, Queued(c)' <=> Queued(c), Held(c)' <=> Held(c),
         (future[c] = "none")' <=> future[c] = "none"
  PROVE  Place(c)' = Place(c)
BY DEF Place, Held

\* One event moves.
LEMMA OneMoves ==
  ASSUME NEW c \in Calls, NEW from, NEW to, Place(c) = from, Place(c)' = to,
         \A d \in Calls \ {c} : Place(d)' = Place(d)
  PROVE  Abstract!Moves(c, from, to)
BY DEF Abstract!Moves

\* No event moves.
LEMMA NoneMoves ==
  ASSUME \A c \in Calls : Place(c)' = Place(c)
  PROVE  [c \in Calls |-> Place(c)]' = [c \in Calls |-> Place(c)]
OBVIOUS

\* A future is settled for one call, without making another one's "none".
LEMMA Settles ==
  ASSUME IInv, NEW c \in Calls, NEW o \in {"ok", "handler", "shutdown", "cancelled"},
         Settle(c, o)
  PROVE  /\ Abstract!Told(c, o)
         /\ \A d \in Calls : (future[d] = "none")' <=> future[d] = "none"
BY PlaceFacts DEF Settle, Abstract!Told, Outcomes

------------------------------------------------------------------------------
\* A worker takes the first item and leaves the others.
LEMMA GetTakes ==
  ASSUME IInv, NEW w \in Workers, WorkerGet(w), NEW h, h = Head(queue)
  PROVE  /\ h \in Calls /\ Queued(h)
         /\ \A c \in Calls : Queued(c)' <=> (Queued(c) /\ c # h)
         /\ \A c \in Calls \ {h} : Held(c)' <=> Held(c)
         /\ \/ Held(h)' /\ UNCHANGED future
            \/ ~Held(h)' /\ Settle(h, "ok")
<1>1. /\ queue \in Seq(Calls) /\ QueueDistinct /\ HandledByOne
      /\ worker \in [Workers -> [phase : Phases, item : Calls \cup {Nothing}]]
  BY DEF IInv, TypeOK, Phases
<1>2. queue # <<>> /\ queue' = Tail(queue) /\ worker[w].phase = "idle"
  BY DEF WorkerGet
<1>3. /\ h \in Calls /\ Queued(h)
      /\ \A c \in Calls : Queued(c)' <=> (Queued(c) /\ c # h)
  BY <1>1, <1>2, TakeFirst
<1>4. ~Held(h)
  BY <1>1, <1>3 DEF Held, HandledByOne
<1>5. CASE /\ worker' = [worker EXCEPT ![w] = [phase |-> "running", item |-> h]]
           /\ UNCHANGED future
  <2>1. \A c \in Calls \ {h} : Held(c)' <=> Held(c)
    BY <1>1, <1>2, <1>5 DEF Held, Holds
  <2>2. Held(h)'
    BY <1>1, <1>5 DEF Held, Holds
  <2>. QED
    BY <1>3, <1>5, <2>1, <2>2
<1>6. CASE worker' = [worker EXCEPT ![w] = Idle] /\ Settle(h, "ok")
  <2>1. \A c \in Calls : Held(c)' <=> Held(c)
    BY <1>1, <1>2, <1>6 DEF Held, Holds, Idle
  <2>. QED
    BY <1>3, <1>4, <1>6, <2>1
<1>. QED
  BY <1>5, <1>6 DEF WorkerGet, Proceed

\* A worker that leaves its item, or goes on with it, holds no other.
LEMMA LeavesItem ==
  ASSUME IInv, NEW w \in Workers, worker[w].phase = "running",
         HandlerReturns(w) \/ HandlerRaises(w) \/ Dies(w)
  PROVE  /\ worker[w].item \in Calls
         /\ UNCHANGED <<queue, started, closing>>
         /\ \/ UNCHANGED <<worker, future>>
            \/ /\ \E n \in {Idle, Stopped, Lost} : worker' = [worker EXCEPT ![w] = n]
               /\ \E o \in {"ok", "handler", "shutdown"} : Settle(worker[w].item, o)
<1>1. /\ worker \in [Workers -> [phase : Phases, item : Calls \cup {Nothing}]]
      /\ worker[w].item \in Calls
  BY DEF IInv, TypeOK, Phases
<1>2. CASE HandlerReturns(w)
  <2>1. \/ /\ worker' = [worker EXCEPT ![w] = [phase |-> "running", item |-> worker[w].item]]
           /\ UNCHANGED future
        \/ worker' = [worker EXCEPT ![w] = Idle] /\ Settle(worker[w].item, "ok")
    BY <1>2 DEF HandlerReturns, Proceed
  <2>2. [worker EXCEPT ![w] = [phase |-> "running", item |-> worker[w].item]] = worker
    BY <1>1
  <2>. QED
    BY <1>1, <1>2, <2>1, <2>2 DEF HandlerReturns, poolVars
<1>3. CASE HandlerRaises(w)
  BY <1>1, <1>3 DEF HandlerRaises, poolVars
<1>4. CASE Dies(w)
  BY <1>1, <1>4 DEF Dies, WorkerDies, poolVars
<1>. QED
  BY <1>2, <1>3, <1>4

\* ... and no other item is gained or lost by it.
LEMMA OneLetsGo ==
  ASSUME IInv, NEW w \in Workers, worker[w].phase = "running", NEW c, c = worker[w].item,
         NEW n \in {Idle, Stopped, Lost}, worker' = [worker EXCEPT ![w] = n]
  PROVE  /\ c \in Calls /\ Held(c) /\ ~Queued(c) /\ ~Held(c)'
         /\ \A d \in Calls \ {c} : Held(d)' <=> Held(d)
<1>1. /\ worker \in [Workers -> [phase : Phases, item : Calls \cup {Nothing}]]
      /\ c \in Calls /\ HandledByOne
  BY DEF IInv, TypeOK, Phases
<1>2. Holds(w, c)
  BY DEF Holds
<1>3. \A v \in Workers : Holds(v, c) => v = w
  BY <1>1, <1>2 DEF HandledByOne
<1>4. \A v \in Workers, d \in Calls : Holds(v, d)' <=> (Holds(v, d) /\ v # w)
  BY <1>1 DEF Holds, Idle, Stopped, Lost
<1>5. \A d \in Calls : Holds(w, d) => d = c
  BY DEF Holds
<1>6. \A d \in Calls \ {c} : Held(d)' <=> Held(d)
  BY <1>4, <1>5 DEF Held
<1>7. ~Held(c)'
  BY <1>1, <1>3, <1>4 DEF Held
<1>8. ~Queued(c) /\ Held(c)
  BY <1>1, <1>2 DEF HandledByOne, Held
<1>. QED
  BY <1>1, <1>6, <1>7, <1>8

\* Registration, the ends of calls, and workers without an item.
LEMMA QuietSteps ==
  ASSUME IInv,
         \/ OnMessage \/ OnCardAction \/ CloseInterrupted \/ UNCHANGED vars
         \/ \E c \in Calls : DispatchRefused(c) \/ DispatchUnparsed(c) \/ Resume(c)
         \/ \E w \in Workers : HandlerSwallowsCancel(w) \/ IdleWorkerCancelled(w)
  PROVE  /\ UNCHANGED <<queue, future>>
         /\ Serving' = Serving
         /\ \A c \in Calls : Held(c)' <=> Held(c)
<1>0. worker \in [Workers -> [phase : Phases, item : Calls \cup {Nothing}]]
  BY DEF IInv, TypeOK, Phases
<1>1. UNCHANGED <<queue, future>>
  BY DEF OnMessage, OnCardAction, CloseInterrupted, vars, DispatchRefused,
         DispatchUnparsed, Resume, HandlerSwallowsCancel, IdleWorkerCancelled
<1>2. \/ UNCHANGED <<started, closing>>
      \/ started' = started /\ closing # "open" /\ closing' # "open"
  BY DEF OnMessage, OnCardAction, CloseInterrupted, vars, DispatchRefused,
         DispatchUnparsed, Resume, HandlerSwallowsCancel, IdleWorkerCancelled, poolVars
<1>3. Serving' = Serving
  <2>1. CASE UNCHANGED <<started, closing>>
    BY <2>1 DEF Serving, closed
  <2>2. CASE closing # "open" /\ closing' # "open"
    BY <2>2 DEF Serving, closed
  <2>. QED
    BY <1>2, <2>1, <2>2
<1>4. \/ UNCHANGED worker
      \/ \E w \in Workers : worker[w].phase = "idle" /\ worker' = [worker EXCEPT ![w] = Stopped]
  BY DEF OnMessage, OnCardAction, CloseInterrupted, vars, DispatchRefused,
         DispatchUnparsed, Resume, HandlerSwallowsCancel, IdleWorkerCancelled
<1>5. CASE UNCHANGED worker
  BY <1>1, <1>3, <1>5 DEF Held, Holds
<1>6. CASE \E w \in Workers : worker[w].phase = "idle" /\ worker' = [worker EXCEPT ![w] = Stopped]
  <2>1. PICK w \in Workers : worker[w].phase = "idle" /\ worker' = [worker EXCEPT ![w] = Stopped]
    BY <1>6
  <2>2. \A v \in Workers, c \in Calls : Holds(v, c)' <=> Holds(v, c)
    BY <1>0, <2>1 DEF Holds, Stopped
  <2>. QED
    BY <1>1, <1>3, <2>2 DEF Held
<1>. QED
  BY <1>4, <1>5, <1>6

\* Only Dispatch puts an event into the hands of the channel.
LEMMA OnlyDispatchAdds ==
  ASSUME IInv, [Next]_vars, ~\E c \in Calls : Dispatch(c)
  PROVE  \A c \in Calls : (Queued(c) \/ Held(c))' => (Queued(c) \/ Held(c))
<1>1. CASE \/ OnMessage \/ OnCardAction \/ CloseInterrupted \/ UNCHANGED vars
           \/ \E c \in Calls : DispatchRefused(c) \/ DispatchUnparsed(c) \/ Resume(c)
           \/ \E w \in Workers : HandlerSwallowsCancel(w) \/ IdleWorkerCancelled(w)
  BY <1>1, QuietSteps, SameQueue
<1>2. CASE Start
  <2>1. UNCHANGED queue /\ \A w \in Workers : worker'[w].phase = "idle"
    BY <1>2 DEF Start, Idle
  <2>. QED
    BY <2>1, SameQueue DEF Held, Holds
<1>3. ASSUME NEW c \in Calls, CancelCaller(c)
      PROVE  \A d \in Calls : (Queued(d) \/ Held(d))' => (Queued(d) \/ Held(d))
  <2>1. UNCHANGED <<queue, worker>>
    BY <1>3 DEF CancelCaller
  <2>. QED
    BY <2>1, SameQueue DEF Held, Holds
<1>4. ASSUME NEW w \in Workers, WorkerGet(w)
      PROVE  \A d \in Calls : (Queued(d) \/ Held(d))' => (Queued(d) \/ Held(d))
  <2>1. PICK h : h = Head(queue)
    OBVIOUS
  <2>. QED
    BY <1>4, <2>1, GetTakes
<1>5. ASSUME NEW w \in Workers, worker[w].phase = "running",
             HandlerReturns(w) \/ HandlerRaises(w) \/ Dies(w)
      PROVE  \A d \in Calls : (Queued(d) \/ Held(d))' => (Queued(d) \/ Held(d))
  <2>0. UNCHANGED queue
    BY <1>5, LeavesItem
  <2>1. CASE UNCHANGED worker
    BY <2>0, <2>1, SameQueue DEF Held, Holds
  <2>2. CASE \E n \in {Idle, Stopped, Lost} : worker' = [worker EXCEPT ![w] = n]
    <3>1. PICK c : c = worker[w].item
      OBVIOUS
    <3>. QED
      BY <1>5, <2>0, <2>2, <3>1, OneLetsGo, SameQueue
  <2>. QED
    BY <1>5, <2>1, <2>2, LeavesItem
<1>6. CASE CloseBegin \/ CloseJoined
  <2>1. UNCHANGED worker /\ (queue' = <<>> \/ UNCHANGED queue)
    BY <1>6 DEF CloseBegin, CloseJoined, Drain
  <2>. QED
    BY <2>1, SameQueue DEF Held, Holds, Queued
<1>. QED
  BY <1>1, <1>2, <1>3, <1>4, <1>5, <1>6
  DEF Next, CallStep, WorkerStep, CancelDelivered, HandlerCancelsItself, Dies,
      HandlerReturns, HandlerRaises

\* Whoever settles a future takes its event out of the channel.
LEMMA AcceptedOnlyInv == IInv /\ AcceptedOnly /\ [Next]_vars => AcceptedOnly'
<1> SUFFICES ASSUME IInv, AcceptedOnly, [Next]_vars PROVE AcceptedOnly'
  OBVIOUS
<1>0. /\ future \in [Calls -> {"none", "pending", "cancelled"} \cup Outcomes]
      /\ queue \in Seq(Calls) /\ QueueDistinct
  BY DEF IInv, TypeOK
<1>1. ASSUME ~\E c \in Calls : Dispatch(c),
             \A c \in Calls : (Queued(c) \/ Held(c))' =>
               future'[c] = future[c] \/ future'[c] = "cancelled"
      PROVE  AcceptedOnly'
  BY <1>1, OnlyDispatchAdds DEF AcceptedOnly
<1>4. ASSUME NEW c \in Calls, Dispatch(c) PROVE AcceptedOnly'
  <2>1. UNCHANGED worker /\ ~Queued(c)
    BY <1>4 DEF Dispatch, IInv, NewIsUntouched
  <2>2. \A d \in Calls : Held(d)' <=> Held(d)
    BY <2>1 DEF Held, Holds
  <2>3. CASE queue' = Append(queue, c) /\ future' = [future EXCEPT ![c] = "pending"]
    <3>1. \A d \in Calls : Queued(d)' <=> (Queued(d) \/ d = c)
      BY <1>0, <2>1, <2>3, AddLast
    <3>. QED
      BY <1>0, <2>2, <2>3, <3>1 DEF AcceptedOnly
  <2>4. CASE UNCHANGED <<queue, future>>
    BY <2>2, <2>4, SameQueue DEF AcceptedOnly
  <2>. QED
    BY <1>4, <2>3, <2>4 DEF Dispatch
<1> SUFFICES ASSUME ~\E c \in Calls : Dispatch(c)
             PROVE  \A c \in Calls : (Queued(c) \/ Held(c))' =>
                      future'[c] = future[c] \/ future'[c] = "cancelled"
  BY <1>1, <1>4
<1>2. CASE \/ OnMessage \/ OnCardAction \/ CloseInterrupted \/ UNCHANGED vars
           \/ \E c \in Calls : DispatchRefused(c) \/ DispatchUnparsed(c) \/ Resume(c)
           \/ \E w \in Workers : HandlerSwallowsCancel(w) \/ IdleWorkerCancelled(w)
  BY <1>2, QuietSteps
<1>3. CASE Start
  BY <1>3 DEF Start
<1>5. ASSUME NEW c \in Calls, CancelCaller(c), NEW d \in Calls
      PROVE  future'[d] = future[d] \/ future'[d] = "cancelled"
  BY <1>0, <1>5 DEF CancelCaller, Settle
<1>6. ASSUME NEW w \in Workers, WorkerGet(w), NEW d \in Calls, (Queued(d) \/ Held(d))'
      PROVE  future'[d] = future[d]
  <2>1. PICK h : h = Head(queue)
    OBVIOUS
  <2>2. /\ ~Queued(h)'
        /\ UNCHANGED future \/ (~Held(h)' /\ Settle(h, "ok"))
    BY <1>6, <2>1, GetTakes
  <2>. QED
    BY <1>0, <1>6, <2>2 DEF Settle
<1>7. ASSUME NEW w \in Workers, worker[w].phase = "running",
             HandlerReturns(w) \/ HandlerRaises(w) \/ Dies(w),
             NEW d \in Calls, (Queued(d) \/ Held(d))'
      PROVE  future'[d] = future[d]
  <2>1. CASE UNCHANGED future
    BY <2>1
  <2>2. CASE /\ \E n \in {Idle, Stopped, Lost} : worker' = [worker EXCEPT ![w] = n]
             /\ \E o \in {"ok", "handler", "shutdown"} : Settle(worker[w].item, o)
    <3>1. PICK c : c = worker[w].item
      OBVIOUS
    <3>2. ~Queued(c) /\ ~Held(c)' /\ c \in Calls
      BY <1>7, <2>2, <3>1, OneLetsGo
    <3>3. ~Queued(c)'
      BY <1>7, <3>2, LeavesItem, SameQueue
    <3>. QED
      BY <1>0, <1>7, <2>2, <3>1, <3>2, <3>3 DEF Settle
  <2>. QED
    BY <1>7, <2>1, <2>2, LeavesItem
<1>8. ASSUME CloseBegin \/ CloseJoined, NEW d \in Calls, (Queued(d) \/ Held(d))'
      PROVE  future'[d] = future[d]
  <2>1. UNCHANGED worker /\ (Drain \/ UNCHANGED <<queue, future>>)
    BY <1>8 DEF CloseBegin, CloseJoined
  <2>2. CASE Drain
    <3>1. queue' = <<>>
      BY <2>2 DEF Drain
    <3>2. ~Queued(d)'
      BY <3>1 DEF Queued
    <3>3. ~Queued(d)
      BY <1>8, <2>1, <3>2, PlaceFacts DEF Held, Holds
    <3>. QED
      BY <2>2, <3>3 DEF Drain
  <2>. QED
    BY <2>1, <2>2
<1>. QED
  BY <1>2, <1>3, <1>5, <1>6, <1>7, <1>8
  DEF Next, CallStep, WorkerStep, CancelDelivered, HandlerCancelsItself, Dies,
      HandlerReturns, HandlerRaises

------------------------------------------------------------------------------
\* Steps after which queue, held items and futures are the same show nothing,
\* unless the channel starts or begins to close.
LEMMA NothingSeen ==
  ASSUME UNCHANGED <<queue, future>>, \A c \in Calls : Held(c)' <=> Held(c)
  PROVE  UNCHANGED <<[c \in Calls |-> Place(c)], future>>
BY SameQueue, SamePlace, NoneMoves

\* Start opens the dispatcher: nobody holds an item yet.
LEMMA StartOpens ==
  ASSUME IInv, Start
  PROVE  Abstract!Opens
<1>1. UNCHANGED <<queue, future>>
  BY DEF Start
<1>2. \A c \in Calls : Held(c)' <=> Held(c)
  BY DEF Start, IInv, StartedOK, Held, Holds, Idle
<1>3. Serving = "not yet" /\ Serving' = "now"
  BY DEF Start, Serving, closed
<1>. QED
  BY <1>1, <1>2, <1>3, NothingSeen DEF Abstract!Opens

\* An event is accepted, or the queue is full.
LEMMA DispatchAccepts ==
  ASSUME IInv, NEW c \in Calls, Dispatch(c)
  PROVE  Abstract!Accept(c) \/ UNCHANGED Abstract!dispatcherVars
<1>1. /\ Place(c) = "outside" /\ future[c] = "none" /\ ~Queued(c)
      /\ queue \in Seq(Calls) /\ QueueDistinct
  BY PlaceFacts DEF Dispatch, IInv, TypeOK, Place
<1>2. Serving = "now" /\ Serving' = "now" /\ UNCHANGED worker
  BY DEF Dispatch, Serving, poolVars, closed
<1>3. \A d \in Calls : Held(d)' <=> Held(d)
  BY <1>2 DEF Held, Holds
<1>4. CASE queue' = Append(queue, c) /\ future' = [future EXCEPT ![c] = "pending"]
  <2>1. \A d \in Calls : Queued(d)' <=> (Queued(d) \/ d = c)
    BY <1>1, <1>4, AddLast
  <2>2. \A d \in Calls \ {c} : Place(d)' = Place(d)
    BY <1>3, <1>4, <2>1, PlaceFacts, SamePlace
  <2>3. Place(c)' = "waiting"
    BY <2>1 DEF Place
  <2>4. Abstract!Moves(c, "outside", "waiting")
    BY <1>1, <2>2, <2>3, OneMoves
  <2>. QED
    BY <1>1, <1>2, <1>4, <2>4 DEF Abstract!Accept
<1>5. CASE UNCHANGED <<queue, future>>
  BY <1>2, <1>3, <1>5, NothingSeen DEF Abstract!dispatcherVars
<1>. QED
  BY <1>4, <1>5 DEF Dispatch

\* A caller leaves its event where it is.
LEMMA CallerLeaves ==
  ASSUME IInv, NEW c \in Calls, CancelCaller(c)
  PROVE  Abstract!Leave(c) \/ UNCHANGED Abstract!dispatcherVars
<1>1. Settle(c, "cancelled") /\ UNCHANGED <<queue, worker>> /\ Serving' = Serving
  BY DEF CancelCaller, poolVars, Serving, closed
<1>2. \A d \in Calls : (Held(d)' <=> Held(d)) /\ (Queued(d)' <=> Queued(d))
  BY <1>1, SameQueue DEF Held, Holds
<1>3. /\ Abstract!Told(c, "cancelled")
      /\ \A d \in Calls : (future[d] = "none")' <=> future[d] = "none"
  BY <1>1, Settles
<1>4. [d \in Calls |-> Place(d)]' = [d \in Calls |-> Place(d)]
  BY <1>2, <1>3, SamePlace, NoneMoves
<1>5. CASE future[c] = "pending"
  BY <1>1, <1>3, <1>4, <1>5, PlaceFacts DEF Abstract!Leave
<1>6. CASE future[c] # "pending"
  BY <1>1, <1>4, <1>6, PlaceFacts DEF Abstract!dispatcherVars, Settle
<1>. QED
  BY <1>5, <1>6

------------------------------------------------------------------------------
(* Workers                                                                 *)

\* A worker takes an item, which is handled or done at once.
LEMMA GetMoves ==
  ASSUME IInv, AcceptedOnly, NEW w \in Workers, WorkerGet(w)
  PROVE  \E c \in Calls : Abstract!BeginHandling(c) \/ Abstract!PassBy(c)
<1>1. PICK h : h = Head(queue)
  OBVIOUS
<1>2. /\ h \in Calls /\ Queued(h)
      /\ \A c \in Calls : Queued(c)' <=> (Queued(c) /\ c # h)
      /\ \A c \in Calls \ {h} : Held(c)' <=> Held(c)
      /\ \/ Held(h)' /\ UNCHANGED future
         \/ ~Held(h)' /\ Settle(h, "ok")
  BY <1>1, GetTakes
<1>3. Serving' = Serving
  BY DEF WorkerGet, poolVars, Serving, closed
<1>4. Place(h) = "waiting" /\ future[h] # "none"
  BY <1>2 DEF Place, AcceptedOnly
<1>5. CASE Held(h)' /\ UNCHANGED future
  <2>1. Place(h)' = "handled" /\ \A c \in Calls \ {h} : Place(c)' = Place(c)
    BY <1>2, <1>5, SamePlace DEF Place, Held
  <2>. QED
    BY <1>2, <1>3, <1>4, <1>5, <2>1, OneMoves DEF Abstract!BeginHandling
<1>6. CASE ~Held(h)' /\ Settle(h, "ok")
  <2>1. /\ Abstract!Told(h, "ok")
        /\ \A d \in Calls : (future[d] = "none")' <=> future[d] = "none"
    BY <1>2, <1>6, Settles
  <2>2. \A c \in Calls \ {h} : Place(c)' = Place(c)
    BY <1>2, <2>1, SamePlace
  <2>3. Place(h)' = "done"
    BY <1>2, <1>4, <1>6, <2>1 DEF Place, Held
  <2>. QED
    BY <1>2, <1>3, <1>4, <2>1, <2>2, <2>3, OneMoves DEF Abstract!PassBy
<1>. QED
  BY <1>2, <1>5, <1>6

\* A worker goes on with its item, or lets go of it with an outcome: that item
\* alone is done.
LEMMA WorkerFinishes ==
  ASSUME IInv, AcceptedOnly, NEW w \in Workers, worker[w].phase = "running",
         HandlerReturns(w) \/ HandlerRaises(w) \/ Dies(w)
  PROVE  \/ \E c \in Calls : Abstract!FinishHandling(c)
         \/ UNCHANGED Abstract!dispatcherVars
<1>1. UNCHANGED <<queue, started, closing>>
  BY LeavesItem
<1>2. Serving' = Serving
  BY <1>1 DEF Serving, closed
<1>3. CASE UNCHANGED <<worker, future>>
  BY <1>1, <1>2, <1>3, NothingSeen DEF Held, Holds, Abstract!dispatcherVars
<1>4. CASE /\ \E n \in {Idle, Stopped, Lost} : worker' = [worker EXCEPT ![w] = n]
           /\ \E o \in {"ok", "handler", "shutdown"} : Settle(worker[w].item, o)
  <2>1. PICK c : c = worker[w].item
    OBVIOUS
  <2>2. PICK o \in {"ok", "handler", "shutdown"} : Settle(c, o)
    BY <1>4, <2>1
  <2>3. /\ c \in Calls /\ Held(c) /\ ~Queued(c) /\ ~Held(c)'
        /\ \A d \in Calls \ {c} : Held(d)' <=> Held(d)
    BY <1>4, <2>1, OneLetsGo
  <2>4. \A d \in Calls : Queued(d)' <=> Queued(d)
    BY <1>1, SameQueue
  <2>5. /\ Abstract!Told(c, o)
        /\ \A d \in Calls : (future[d] = "none")' <=> future[d] = "none"
    BY <2>2, <2>3, Settles
  <2>6. \A d \in Calls \ {c} : Place(d)' = Place(d)
    BY <2>3, <2>4, <2>5, SamePlace
  <2>7. Place(c) = "handled" /\ Place(c)' = "done"
    BY <2>3, <2>4, <2>5 DEF Place, Held, AcceptedOnly
  <2>. QED
    BY <1>2, <2>3, <2>5, <2>6, <2>7, OneMoves DEF Abstract!FinishHandling
<1>. QED
  BY <1>3, <1>4, LeavesItem

\* Closing, and the drain that follows when the workers have ended.
LEMMA CloseShows ==
  ASSUME IInv, AcceptedOnly, CloseBegin \/ CloseJoined
  PROVE  \/ Abstract!Closes \/ Abstract!Discard \/ UNCHANGED Abstract!dispatcherVars
<1>1. UNCHANGED worker /\ \A c \in Calls : Held(c)' <=> Held(c)
  BY DEF CloseBegin, CloseJoined, Held, Holds
<1>2. future \in [Calls -> {"none", "pending", "cancelled"} \cup Outcomes]
  BY PlaceFacts
<1>3. CASE CloseBegin /\ started
  <2>1. UNCHANGED <<queue, future>> /\ Serving = "now" /\ Serving' = "no more"
    BY <1>3 DEF CloseBegin, Serving, closed
  <2>. QED
    BY <1>1, <2>1, NothingSeen DEF Abstract!Closes
<1>4. CASE CloseBegin /\ ~started
  <2>1. queue = <<>> /\ queue' = <<>> /\ Serving = "not yet" /\ Serving' = "no more"
    BY <1>4 DEF CloseBegin, Drain, Serving, closed, IInv, StartedOK
  <2>2. \A c \in Calls : future[c] = "none"
    BY <1>4 DEF IInv, StartedOK
  <2>3. UNCHANGED future
    BY <1>2, <1>4, <2>2 DEF CloseBegin, Drain
  <2>. QED
    BY <1>1, <2>1, <2>3, NothingSeen DEF Abstract!Closes
<1>5. CASE CloseJoined /\ closing = "joining"
  <2>1. Drain /\ Serving = "no more" /\ Serving' = "no more"
    BY <1>5 DEF CloseJoined, Serving, closed
  <2>0. \A c \in Calls : (future[c] = "none")' <=> future[c] = "none"
    BY <1>2, <2>1 DEF Drain
  <2>2. \A c \in Calls : ~Queued(c)' /\ ((future[c] = "none")' <=> future[c] = "none")
    <3>1. queue' = <<>>
      BY <2>1 DEF Drain
    <3>. QED
      BY <2>0, <3>1 DEF Queued
  <2>3. \A c \in Calls : Queued(c) <=> Place(c) = "waiting"
    BY DEF Place
  <2>4. \A c \in Calls : Place(c)' = IF Place(c) = "waiting" THEN "done" ELSE Place(c)
    BY <1>1, <2>2, PlaceFacts DEF Place, Held, AcceptedOnly
  <2>5. future' = [c \in Calls |-> IF Place(c) = "waiting" /\ future[c] = "pending"
                                   THEN "shutdown" ELSE future[c]]
    BY <2>1, <2>3 DEF Drain
  <2>. QED
    BY <2>1, <2>4, <2>5 DEF Abstract!Discard
<1>6. CASE CloseJoined /\ closing # "joining"
  <2>1. UNCHANGED <<queue, future>> /\ Serving' = Serving
    BY <1>6 DEF CloseJoined, Serving, closed
  <2>. QED
    BY <1>1, <2>1, NothingSeen DEF Abstract!dispatcherVars
<1>. QED
  BY <1>3, <1>4, <1>5, <1>6

------------------------------------------------------------------------------
\* The channel starts where the dispatcher starts.
LEMMA InitImplements == Init => Abstract!DispatcherInit /\ AcceptedOnly
BY DEF Init, Abstract!DispatcherInit, Serving, closed, Place, Queued, Holds, AcceptedOnly, Held

\* Every step of the channel is one of the dispatcher, or shows nothing.
LEMMA StepImplements ==
  IInv /\ AcceptedOnly /\ [Next]_vars
    => [Abstract!DispatcherNext]_(Abstract!dispatcherVars)
<1> SUFFICES ASSUME IInv, AcceptedOnly, [Next]_vars
             PROVE  Abstract!DispatcherNext \/ UNCHANGED Abstract!dispatcherVars
  OBVIOUS
<1>1. CASE \/ OnMessage \/ OnCardAction \/ CloseInterrupted \/ UNCHANGED vars
           \/ \E c \in Calls : DispatchRefused(c) \/ DispatchUnparsed(c) \/ Resume(c)
           \/ \E w \in Workers : HandlerSwallowsCancel(w) \/ IdleWorkerCancelled(w)
  <2>1. /\ UNCHANGED <<queue, future>> /\ Serving' = Serving
        /\ \A c \in Calls : Held(c)' <=> Held(c)
    BY <1>1, QuietSteps
  <2>. QED
    BY <2>1, NothingSeen DEF Abstract!dispatcherVars
<1>2. CASE Start
  BY <1>2, StartOpens DEF Abstract!DispatcherNext
<1>3. ASSUME NEW c \in Calls, Dispatch(c) \/ CancelCaller(c)
      PROVE  Abstract!DispatcherNext \/ UNCHANGED Abstract!dispatcherVars
  BY <1>3, DispatchAccepts, CallerLeaves DEF Abstract!DispatcherNext
<1>4. ASSUME NEW w \in Workers, WorkerGet(w) PROVE Abstract!DispatcherNext
  BY <1>4, GetMoves DEF Abstract!DispatcherNext
<1>5. ASSUME NEW w \in Workers, worker[w].phase = "running",
             HandlerReturns(w) \/ HandlerRaises(w) \/ Dies(w)
      PROVE  Abstract!DispatcherNext \/ UNCHANGED Abstract!dispatcherVars
  BY <1>5, WorkerFinishes DEF Abstract!DispatcherNext
<1>6. CASE CloseBegin \/ CloseJoined
  BY <1>6, CloseShows DEF Abstract!DispatcherNext
<1>. QED
  BY <1>1, <1>2, <1>3, <1>4, <1>5, <1>6
  DEF Next, CallStep, WorkerStep, CancelDelivered, HandlerCancelsItself, Dies,
      HandlerReturns, HandlerRaises

\* The event channel implements the dispatcher: in every behaviour of the
\* channel each event goes once from waiting to done, over one handling at
\* most, and its caller is answered once, before it is done.
THEOREM Refinement == Spec => ImplementsDispatcher
<1>1. Spec => [](IInv /\ AcceptedOnly)
  <2>1. Init => AcceptedOnly
    BY InitImplements
  <2>. QED
    BY <2>1, Invariance, AcceptedOnlyInv, PTL DEF Spec
<1>. QED
  BY <1>1, InitImplements, StepImplements, PTL
  DEF Spec, ImplementsDispatcher, Abstract!DispatcherSpec
==============================================================================
