---------------------------- MODULE EventChannel ----------------------------
(***************************************************************************)
(* The bounded worker dispatch of src/feishulib/channel.py.                *)
(*                                                                         *)
(* asyncio runs one task at a time and switches only at an await, so every *)
(* action below is the code a task runs from one await to the next.  The   *)
(* tasks are the callers of dispatch, the workers, and the one task that   *)
(* runs close to its end (a second close returns at once, changing         *)
(* nothing).  Handlers belong to the application: when they return, raise, *)
(* or how they react to a cancellation is nondeterministic.                *)
(***************************************************************************)
EXTENDS Naturals, Sequences

CONSTANTS
  Messages,           \* calls of dispatch that carry a message event
  Cards,              \* calls of dispatch that carry a card_action event
  Workers,            \* event_worker_count tasks
  QueueSize,          \* event_queue_size
  MaxHandlers,        \* bound: message handlers that get registered
  HandlerFaults,      \* what handlers do with CancelledError, see below
  MayInterruptClose,  \* the task running close may itself be cancelled
  Nothing             \* a worker that holds no item

Calls == Messages \cup Cards

(***************************************************************************)
(* "swallow": a handler may catch the CancelledError thrown into it and go *)
(* on.  "cancel": a handler may end with a CancelledError nobody sent to   *)
(* the worker, for instance by awaiting a task that was cancelled.         *)
(***************************************************************************)
ASSUME ChannelAssumption ==
  /\ QueueSize \in Nat \ {0}
  /\ MaxHandlers \in Nat
  /\ Workers # {}
  /\ HandlerFaults \subseteq {"swallow", "cancel"}
  /\ MayInterruptClose \in BOOLEAN
  /\ Nothing \notin Calls

VARIABLES
  started,      \* _started
  closing,      \* _closed, and where the task running close is
  handlers,     \* Len(_message_handlers)
  cardHandler,  \* _card_handler is set
  queue,        \* _queue
  worker,       \* per worker: its phase and the item it holds
  cancelled,    \* workers with a cancellation that is not delivered yet
  future,       \* per call: the future of its _DispatchItem
  call,         \* per call: where dispatch is, or how it ended
  handled,      \* per call: handlers that have completed (the loop's position)
  owed          \* history: handlers registered when the call was accepted

vars == <<started, closing, handlers, cardHandler, queue, worker, cancelled,
          future, call, handled, owed>>
poolVars == <<started, closing, handlers, cardHandler>>

Outcomes == {"ok", "handler", "shutdown"}

closed == closing # "open"
Ended(c) == call[c] \notin {"new", "waiting"}
Idle == [phase |-> "idle", item |-> Nothing]

\* The two ways a worker's task is over.  The code does not tell them apart;
\* the phase remembers, for the properties, whose CancelledError ended it:
\* that of close, or one of a handler's own.
Stopped == [phase |-> "stopped", item |-> Nothing]
Lost == [phase |-> "lost", item |-> Nothing]

Holds(w, c) == worker[w].phase = "running" /\ worker[w].item = c
Queued(c) == \E i \in 1..Len(queue) : queue[i] = c

\* Handlers an event goes through: every message handler, or the card handler.
Registered(c) == IF c \in Messages THEN handlers ELSE IF cardHandler THEN 1 ELSE 0

\* Mutant of Settle: without the check for done().
SettleUnchecked(c, outcome) == future' = [future EXCEPT ![c] = outcome]

\* "if not item.result.done(): item.result.set_...(outcome)"
Settle(c, outcome) ==
  future' = [future EXCEPT ![c] = IF @ = "pending" THEN outcome ELSE @]

Init ==
  /\ started = FALSE
  /\ closing = "open"
  /\ handlers = 0
  /\ cardHandler = FALSE
  /\ queue = <<>>
  /\ worker = [w \in Workers |-> [phase |-> "absent", item |-> Nothing]]
  /\ cancelled = {}
  /\ future = [c \in Calls |-> "none"]
  /\ call = [c \in Calls |-> "new"]
  /\ handled = [c \in Calls |-> 0]
  /\ owed = [c \in Calls |-> 0]

------------------------------------------------------------------------------
(* Registration and start                                                  *)

OnMessage ==
  /\ ~closed /\ handlers < MaxHandlers
  /\ handlers' = handlers + 1
  /\ UNCHANGED <<started, closing, cardHandler, queue, worker, cancelled,
                 future, call, handled, owed>>

OnCardAction ==
  /\ ~closed /\ ~cardHandler
  /\ cardHandler' = TRUE
  /\ UNCHANGED <<started, closing, handlers, queue, worker, cancelled,
                 future, call, handled, owed>>

Start ==
  /\ ~closed /\ ~started
  /\ started' = TRUE
  /\ worker' = [w \in Workers |-> Idle]
  /\ UNCHANGED <<closing, handlers, cardHandler, queue, cancelled,
                 future, call, handled, owed>>

------------------------------------------------------------------------------
(* dispatch                                                                *)

\* RuntimeError: the channel is not running.
DispatchRefused(c) ==
  /\ call[c] = "new"
  /\ ~started \/ closed
  /\ call' = [call EXCEPT ![c] = "refused"]
  /\ UNCHANGED <<poolVars, queue, worker, cancelled, future, handled, owed>>

\* FeishuEventParseError: nothing is enqueued.
DispatchUnparsed(c) ==
  /\ call[c] = "new"
  /\ started /\ ~closed
  /\ call' = [call EXCEPT ![c] = "unparsed"]
  /\ UNCHANGED <<poolVars, queue, worker, cancelled, future, handled, owed>>

\* Mutant of Dispatch: a queue without event_queue_size.
DispatchUnbounded(c) ==
  /\ call[c] = "new"
  /\ started /\ ~closed
  /\ queue' = Append(queue, c)
  /\ future' = [future EXCEPT ![c] = "pending"]
  /\ call' = [call EXCEPT ![c] = "waiting"]
  /\ owed' = [owed EXCEPT ![c] = Registered(c)]
  /\ UNCHANGED <<poolVars, worker, cancelled, handled>>

\* The event is parsed and enqueued, or the queue is full.
Dispatch(c) ==
  /\ call[c] = "new"
  /\ started /\ ~closed
  /\ \/ /\ Len(queue) < QueueSize
        /\ queue' = Append(queue, c)
        /\ future' = [future EXCEPT ![c] = "pending"]
        /\ call' = [call EXCEPT ![c] = "waiting"]
        /\ owed' = [owed EXCEPT ![c] = Registered(c)]
     \/ /\ Len(queue) = QueueSize
        /\ call' = [call EXCEPT ![c] = "full"]
        /\ UNCHANGED <<queue, future, owed>>
  /\ UNCHANGED <<poolVars, worker, cancelled, handled>>

\* "return await result": the caller runs again once its future is done.
Resume(c) ==
  /\ call[c] = "waiting"
  /\ future[c] \in Outcomes
  /\ call' = [call EXCEPT ![c] = future[c]]
  /\ UNCHANGED <<poolVars, queue, worker, cancelled, future, handled, owed>>

\* The caller is cancelled, or its timeout expires.  A future that is still
\* pending is cancelled with it; the item stays where it is.  A future that
\* is already done keeps its result, which nobody reads.
CancelCaller(c) ==
  /\ call[c] = "waiting"
  /\ call' = [call EXCEPT ![c] = "cancelled"]
  /\ Settle(c, "cancelled")
  /\ UNCHANGED <<poolVars, queue, worker, cancelled, handled, owed>>

------------------------------------------------------------------------------
(* _worker                                                                 *)

\* Mutant of Proceed: the result is set inside of the loop over the handlers.
ProceedAfterFirst(w, c, completed) ==
  IF completed = 0 /\ Registered(c) > 0
  THEN /\ worker' = [worker EXCEPT ![w] = [phase |-> "running", item |-> c]]
       /\ UNCHANGED future
  ELSE /\ worker' = [worker EXCEPT ![w] = Idle]
       /\ Settle(c, "ok")

\* What follows the handler that has just completed, or the get: the next
\* handler of the live list, or the result and the next get.
Proceed(w, c, completed) ==
  IF completed < Registered(c)
  THEN /\ worker' = [worker EXCEPT ![w] = [phase |-> "running", item |-> c]]
       /\ UNCHANGED future
  ELSE /\ worker' = [worker EXCEPT ![w] = Idle]
       /\ Settle(c, "ok")

\* Mutant of WorkerGet: the item is taken off the queue after its handling.
WorkerPeek(w) ==
  /\ worker[w].phase = "idle" /\ w \notin cancelled
  /\ queue # <<>>
  /\ Proceed(w, Head(queue), 0)
  /\ UNCHANGED <<poolVars, queue, cancelled, call, handled, owed>>

WorkerGet(w) ==
  /\ worker[w].phase = "idle" /\ w \notin cancelled
  /\ queue # <<>>
  /\ queue' = Tail(queue)
  /\ Proceed(w, Head(queue), 0)
  /\ UNCHANGED <<poolVars, cancelled, call, handled, owed>>

HandlerReturns(w) ==
  /\ worker[w].phase = "running" /\ w \notin cancelled
  /\ LET c == worker[w].item IN
       /\ handled' = [handled EXCEPT ![c] = @ + 1]
       /\ Proceed(w, c, handled[c] + 1)
  /\ UNCHANGED <<poolVars, queue, cancelled, call, owed>>

\* Mutant of HandlerRaises: the error is logged, the future forgotten.
HandlerRaisesUnseen(w) ==
  /\ worker[w].phase = "running" /\ w \notin cancelled
  /\ worker' = [worker EXCEPT ![w] = Idle]
  /\ UNCHANGED <<poolVars, queue, cancelled, future, call, handled, owed>>

\* Mutant of HandlerRaises: an error of a handler ends the worker as well.
HandlerRaisesFatal(w) ==
  /\ worker[w].phase = "running" /\ w \notin cancelled
  /\ Settle(worker[w].item, "handler")
  /\ worker' = [worker EXCEPT ![w] = Stopped]
  /\ UNCHANGED <<poolVars, queue, cancelled, call, handled, owed>>

\* An Exception of the handler, or a card handler's result of another type.
HandlerRaises(w) ==
  /\ worker[w].phase = "running" /\ w \notin cancelled
  /\ Settle(worker[w].item, "handler")
  /\ worker' = [worker EXCEPT ![w] = Idle]
  /\ UNCHANGED <<poolVars, queue, cancelled, call, handled, owed>>

\* CancelledError leaves the handler: settle the item, re-raise, and the
\* worker's task is over.
WorkerDies(w, end) ==
  /\ worker' = [worker EXCEPT ![w] = end]
  /\ Settle(worker[w].item, "shutdown")
  /\ cancelled' = cancelled \ {w}
  /\ UNCHANGED <<poolVars, queue, call, handled, owed>>

CancelDelivered(w) ==
  /\ w \in cancelled /\ worker[w].phase = "running"
  /\ WorkerDies(w, Stopped)

HandlerCancelsItself(w) ==
  /\ "cancel" \in HandlerFaults
  /\ worker[w].phase = "running" /\ w \notin cancelled
  /\ WorkerDies(w, Lost)

HandlerSwallowsCancel(w) ==
  /\ "swallow" \in HandlerFaults
  /\ w \in cancelled /\ worker[w].phase = "running"
  /\ cancelled' = cancelled \ {w}
  /\ UNCHANGED <<poolVars, queue, worker, future, call, handled, owed>>

\* Cancelled in _queue.get(), outside of the try: no item is taken.
IdleWorkerCancelled(w) ==
  /\ w \in cancelled /\ worker[w].phase = "idle"
  /\ worker' = [worker EXCEPT ![w] = Stopped]
  /\ cancelled' = cancelled \ {w}
  /\ UNCHANGED <<poolVars, queue, future, call, handled, owed>>

------------------------------------------------------------------------------
(* close                                                                   *)

Alive == {w \in Workers : worker[w].phase \in {"idle", "running"}}

\* Mutant of Drain: the items are thrown away with their futures.
DrainUnseen == queue' = <<>> /\ UNCHANGED future

\* The loop of lines 76-79: everything still queued is settled.
Drain ==
  /\ queue' = <<>>
  /\ future' = [c \in Calls |-> IF Queued(c) /\ future[c] = "pending"
                                THEN "shutdown" ELSE future[c]]

\* Mutant of CloseBegin: only the workers that run a handler are cancelled.
CloseBeginSparesIdle ==
  /\ ~closed
  /\ IF started
     THEN /\ closing' = "joining"
          /\ cancelled' = cancelled \cup {w \in Alive : worker[w].phase = "running"}
          /\ UNCHANGED <<queue, future>>
     ELSE /\ closing' = "drained"
          /\ Drain
          /\ UNCHANGED cancelled
  /\ UNCHANGED <<started, handlers, cardHandler, worker, call, handled, owed>>

\* Up to the gather.  Without workers there is nothing to wait for.
CloseBegin ==
  /\ ~closed
  /\ IF started
     THEN /\ closing' = "joining"
          /\ cancelled' = cancelled \cup Alive
          /\ UNCHANGED <<queue, future>>
     ELSE /\ closing' = "drained"
          /\ Drain
          /\ UNCHANGED cancelled
  /\ UNCHANGED <<started, handlers, cardHandler, worker, call, handled, owed>>

\* Cancelling the gather cancels its workers again and waits for them still.
CloseInterrupted ==
  /\ MayInterruptClose
  /\ closing = "joining"
  /\ closing' = "interrupted"
  /\ cancelled' = cancelled \cup Alive
  /\ UNCHANGED <<started, handlers, cardHandler, queue, worker, future, call,
                 handled, owed>>

\* Every worker has ended: drain, unless CancelledError leaves the gather.
CloseJoined ==
  /\ closing \in {"joining", "interrupted"}
  /\ Alive = {}
  /\ IF closing = "joining"
     THEN closing' = "drained" /\ Drain
     ELSE closing' = "abandoned" /\ UNCHANGED <<queue, future>>
  /\ UNCHANGED <<started, handlers, cardHandler, worker, cancelled, call,
                 handled, owed>>

------------------------------------------------------------------------------
WorkerStep(w) ==
  \/ WorkerGet(w)
  \/ HandlerReturns(w)
  \/ HandlerRaises(w)
  \/ CancelDelivered(w)
  \/ HandlerCancelsItself(w)
  \/ HandlerSwallowsCancel(w)
  \/ IdleWorkerCancelled(w)

CallStep(c) ==
  \/ DispatchRefused(c)
  \/ DispatchUnparsed(c)
  \/ Dispatch(c)
  \/ Resume(c)
  \/ CancelCaller(c)

Next ==
  \/ OnMessage
  \/ OnCardAction
  \/ Start
  \/ \E c \in Calls : CallStep(c)
  \/ \E w \in Workers : WorkerStep(w)
  \/ CloseBegin
  \/ CloseInterrupted
  \/ CloseJoined

(***************************************************************************)
(* The event loop runs every task that is ready: a caller whose future is  *)
(* done, a worker with an item to take or a cancellation to receive, the   *)
(* closer whose workers have ended.  Nothing makes an application register,*)
(* dispatch, close or cancel, and a handler may run for ever.              *)
(***************************************************************************)
Fairness ==
  /\ \A c \in Calls : WF_vars(Resume(c))
  /\ \A w \in Workers : /\ WF_vars(WorkerGet(w))
                        /\ WF_vars(CancelDelivered(w))
                        /\ WF_vars(IdleWorkerCancelled(w))
  /\ WF_vars(CloseJoined)

Spec == Init /\ [][Next]_vars
FairSpec == Spec /\ Fairness

------------------------------------------------------------------------------
(***************************************************************************)
(* Where an event is, for the abstract dispatcher: in the queue, with a    *)
(* worker, or neither; its future tells whether it has ever been accepted. *)
(***************************************************************************)
Place(c) ==
  IF Queued(c) THEN "waiting"
  ELSE IF \E w \in Workers : Holds(w, c) THEN "handled"
  ELSE IF future[c] = "none" THEN "outside" ELSE "done"

Serving == IF closed THEN "no more" ELSE IF started THEN "now" ELSE "not yet"

Abstract == INSTANCE Dispatcher WITH
  serving <- Serving,
  place <- [c \in Calls |-> Place(c)],
  answer <- future

------------------------------------------------------------------------------
(* Properties                                                              *)

\* The shape of the state; the queue never exceeds event_queue_size
\* (channel.py:28).
TypeOK ==
  /\ started \in BOOLEAN
  /\ closing \in {"open", "joining", "interrupted", "drained", "abandoned"}
  /\ handlers \in 0..MaxHandlers
  /\ cardHandler \in BOOLEAN
  /\ queue \in Seq(Calls) /\ Len(queue) <= QueueSize
  /\ worker \in [Workers -> [phase : {"absent", "idle", "running", "stopped", "lost"},
                             item : Calls \cup {Nothing}]]
  /\ \A w \in Workers : worker[w].phase = "running" <=> worker[w].item # Nothing
  /\ cancelled \subseteq Workers
  /\ future \in [Calls -> {"none", "pending", "cancelled"} \cup Outcomes]
  /\ call \in [Calls -> {"new", "waiting", "cancelled", "refused", "unparsed",
                         "full"} \cup Outcomes]
  /\ handled \in [Calls -> Nat]
  /\ owed \in [Calls -> Nat]

\* Somebody is going to settle the item of c: the worker that holds it, one
\* that is alive to take it, or the drain of a close that waits for workers.
Served(c) ==
  \/ \E w \in Workers : Holds(w, c)
  \/ Queued(c) /\ IF closed THEN closing = "joining" ELSE Alive # {}

\* The two ways to leave what is queued behind: every worker was lost to a
\* CancelledError of a handler's own, or the task running close was cancelled.
LeftBehind ==
  \/ ~closed /\ \A w \in Workers : worker[w].phase = "lost"
  \/ closing \in {"interrupted", "abandoned"}

\* A future that somebody may still wait for is in the hands of a worker, or
\* queued where a living worker or the drain gets to it (lines 75-107).  A
\* queued caller is only left behind by the two causes of LeftBehind: errors
\* of handlers, callers that give up and handlers that swallow their
\* cancellation are none.
NoOrphanedCaller ==
  \A c \in Calls :
    future[c] = "pending" => Served(c) \/ (Queued(c) /\ LeftBehind)

\* A run of close that reaches its end leaves nothing running and nobody
\* waiting (lines 67-79).
DrainedLeavesNothing ==
  closing = "drained" =>
    /\ Alive = {}
    /\ queue = <<>>
    /\ \A c \in Calls : future[c] # "pending"

\* "200" is only said of an event that went through every handler that was
\* registered when it was accepted, although handlers may be registered, and
\* other events dispatched, while it waits or is handled (lines 86-98).
OkMeansHandled ==
  \A c \in Calls : call[c] = "ok" => handled[c] >= owed[c]

\* A future is settled once: whoever comes second (a worker finishing after
\* its caller gave up, the drain after a worker's shutdown) leaves it alone.
SettledOnce ==
  [][\A c \in Calls : future[c] \notin {"none", "pending"} => future'[c] = future[c]]_vars

\* The channel keeps the dispatcher's promise, whatever its tasks, handlers
\* and callers do: no event is lost, handled twice or put back, accepted before
\* start or after close, or done with while its caller still waits
\* (channel.py:55-107).
ImplementsDispatcher == Abstract!DispatcherSpec

\* Two workers never run handlers of the same event, and an event a worker
\* holds is not queued for another: it is handled once.
HandledByOne ==
  \A c \in Calls : \A w \in Workers :
    Holds(w, c) => /\ ~Queued(c)
                   /\ \A v \in Workers : Holds(v, c) => v = w

\* Once close has begun no queued event reaches a handler, not even when the
\* handler that was running ends first (lines 71-75), provided that handlers
\* let their cancellation through: a worker whose handler swallows it takes
\* the next event.
NoEventStartsAfterClose ==
  [][\A c \in Calls : closed /\ Queued(c) =>
       \A w \in Workers : ~(worker'[w].phase = "running" /\ worker'[w].item = c)]_vars

\* Every worker of a started, open channel is alive: an error of a handler
\* stays with the event it was handling ("handler errors are user-defined and
\* must be surfaced per event", line 103).
HandlerErrorsStayPerEvent ==
  started /\ ~closed => Alive = Workers

\* close releases every caller, those of queued events and those whose
\* handler is interrupted, however long handlers run that let the cancellation
\* through.
CloseReleasesCallers ==
  \A c \in Calls : (closed /\ call[c] = "waiting") ~> Ended(c)

\* While handlers end, every dispatched event is answered: no caller waits
\* for ever behind others, behind a closing channel, or for a worker that
\* lost its item.
HandlersEnd ==
  \A w \in Workers : WF_vars(HandlerReturns(w) \/ HandlerRaises(w))

EveryCallerAnswered ==
  HandlersEnd => \A c \in Calls : (call[c] = "waiting") ~> Ended(c)
==============================================================================
