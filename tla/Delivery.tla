------------------------------ MODULE Delivery -------------------------------
(***************************************************************************)
(* The way of an event from the server to a handler and of its status code *)
(* back: the receive loop of FeishuWebSocket (src/feishulib/websocket.py)  *)
(* composed with the event channel, over a connection that may break and   *)
(* under a server that sends an event again until it is told 200.          *)
(*                                                                         *)
(* The loop handles a data frame before it receives the next one, but it   *)
(* waits for a handler no longer than card_action_timeout_seconds, and     *)
(* giving up does not stop the handler.  A call of dispatch is a delivery, *)
(* <<event, n>> for the n-th time the event is sent.  What befalls the     *)
(* loop apart from its frames is in FeishuWebSocket.                       *)
(***************************************************************************)
EXTENDS EventChannel

CONSTANT Events   \* the server's events

\* The deliveries there may be bound how often each event is sent.
ASSUME DeliveryAssumption == Calls \subseteq Events \X (Nat \ {0})

VARIABLES
  loop,          \* where run_forever is
  frame,         \* the delivery that _handle_data works on, or Nothing
  clientClosed,  \* FeishuWebSocket._closed
  link,          \* the connection: up, broken unnoticed, or none
  inbox,         \* frames the connection has for the loop
  sent,          \* deliveries the server has made
  status,        \* per delivery: the status code of its answer, or 0
  acked          \* events the server was told 200 of

deliveryVars == <<vars, loop, frame, clientClosed, link, inbox, sent, status, acked>>
loopVars == <<loop, frame, clientClosed, link, inbox, sent, status, acked>>

DeliveryInit ==
  /\ Init
  /\ loop = "connecting"
  /\ frame = Nothing
  /\ clientClosed = FALSE
  /\ link = "none"
  /\ inbox = <<>>
  /\ sent = {}
  /\ status = [d \in Calls |-> 0]
  /\ acked = {}

------------------------------------------------------------------------------
(* The server and the network                                              *)

\* An event is sent, or sent again as long as no 200 has arrived.
Send(d) ==
  /\ link = "up"
  /\ d \notin sent /\ d[1] \notin acked
  /\ d[2] > 1 => <<d[1], d[2] - 1>> \in sent
  /\ sent' = sent \cup {d}
  /\ inbox' = Append(inbox, d)
  /\ UNCHANGED <<vars, loop, frame, clientClosed, link, status, acked>>

Break ==
  /\ link = "up"
  /\ link' = "broken" /\ inbox' = <<>>
  /\ UNCHANGED <<vars, loop, frame, clientClosed, sent, status, acked>>

------------------------------------------------------------------------------
(* The receive loop                                                        *)

\* start: the channel's workers first, then the connection.
Connect ==
  /\ loop = "connecting" /\ ~clientClosed
  /\ IF started THEN UNCHANGED vars ELSE Start
  /\ loop' = "receiving" /\ link' = "up"
  /\ UNCHANGED <<frame, clientClosed, inbox, sent, status, acked>>

\* Mutant of StatusCode: what timed out will be handled, so it is a success.
StatusCodeOptimistic(how) ==
  CASE how \in {"ok", "unparsed", "cancelled"} -> 200
    [] how \in {"handler", "shutdown", "full"} -> 503

\* How a dispatch ended, as a status code.
StatusCode(how) ==
  CASE how \in {"ok", "unparsed"} -> 200
    [] how \in {"handler", "shutdown", "full"} -> 503
    [] how = "cancelled" -> 500

\* After an error of the connection.
GiveUpConnection ==
  /\ loop' = IF clientClosed THEN "ended" ELSE "connecting"
  /\ link' = "none" /\ inbox' = <<>>

\* Mutant of Reply: the loop keeps the frame it has answered.
ReplyKeepsFrame(d, code, rest) ==
  /\ status' = [status EXCEPT ![d] = code]
  /\ UNCHANGED <<frame, clientClosed, sent>>
  /\ loop' = "receiving" /\ inbox' = rest
  /\ acked' = IF code = 200 THEN acked \cup {d[1]} ELSE acked
  /\ UNCHANGED link

\* make_data_response and _send.  The answer arrives, is lost with the
\* connection behind the loop's back, or cannot be sent.
Reply(d, code, rest) ==
  /\ status' = [status EXCEPT ![d] = code]
  /\ frame' = Nothing
  /\ UNCHANGED <<clientClosed, sent>>
  /\ \/ /\ link = "up"
        /\ loop' = "receiving" /\ inbox' = rest
        /\ acked' = IF code = 200 THEN acked \cup {d[1]} ELSE acked
        /\ UNCHANGED link
     \/ /\ link = "up"
        /\ loop' = "receiving" /\ link' = "broken" /\ inbox' = <<>>
        /\ UNCHANGED acked
     \/ /\ link # "up"
        /\ GiveUpConnection
        /\ UNCHANGED acked

\* Mutant of ReceiveFrame: the loop does not wait for the frame it handles.
ReceiveFrameConcurrently(d) ==
  /\ loop \in {"receiving", "handling"}
  /\ inbox # <<>> /\ d = Head(inbox)
  /\ Dispatch(d)
  /\ call'[d] = "waiting"
  /\ loop' = "handling" /\ frame' = d /\ inbox' = Tail(inbox)
  /\ UNCHANGED <<clientClosed, link, sent, status, acked>>

\* A data frame: dispatch it up to its first await, and answer at once if it
\* does not get that far.
ReceiveFrame(d) ==
  /\ loop = "receiving"
  /\ inbox # <<>> /\ d = Head(inbox)
  /\ \/ /\ Dispatch(d)
        /\ IF call'[d] = "waiting"
           THEN /\ loop' = "handling" /\ frame' = d /\ inbox' = Tail(inbox)
                /\ UNCHANGED <<clientClosed, link, sent, status, acked>>
           ELSE Reply(d, StatusCode(call'[d]), Tail(inbox))
     \/ DispatchUnparsed(d) /\ Reply(d, StatusCode("unparsed"), Tail(inbox))

\* A frame that is received after the channel has closed: the RuntimeError of
\* dispatch leaves run_forever.
ReceiveFrameTooLate(d) ==
  /\ loop = "receiving"
  /\ inbox # <<>> /\ d = Head(inbox)
  /\ DispatchRefused(d)
  /\ loop' = "crashed" /\ inbox' = Tail(inbox)
  /\ UNCHANGED <<frame, clientClosed, link, sent, status, acked>>

\* The dispatch returns or raises.
Answer(d) ==
  /\ loop = "handling" /\ frame = d
  /\ Resume(d)
  /\ Reply(d, StatusCode(future[d]), inbox)

\* Mutant of TimeoutExpires: only the wait in the queue is limited.
TimeoutExpiresInQueue(d) ==
  /\ loop = "handling" /\ frame = d
  /\ Queued(d)
  /\ CancelCaller(d)
  /\ Reply(d, StatusCode("cancelled"), inbox)

\* card_action_timeout_seconds have passed.
TimeoutExpires(d) ==
  /\ loop = "handling" /\ frame = d
  /\ CancelCaller(d)
  /\ Reply(d, StatusCode("cancelled"), inbox)

\* recv raises: the connection is broken, or closed by close.
ReceiveFails ==
  /\ loop = "receiving" /\ link # "up"
  /\ GiveUpConnection
  /\ UNCHANGED <<vars, frame, clientClosed, sent, status, acked>>

\* The loop condition, after the sleep between two attempts.
StopConnecting ==
  /\ loop = "connecting" /\ clientClosed
  /\ loop' = "ended"
  /\ UNCHANGED <<vars, frame, clientClosed, link, inbox, sent, status, acked>>

------------------------------------------------------------------------------
(* close: the flag and the connection first, then the channel              *)

CloseClient ==
  /\ ~clientClosed
  /\ clientClosed' = TRUE /\ link' = "none"
  /\ UNCHANGED <<vars, loop, frame, inbox, sent, status, acked>>

CloseChannel ==
  /\ clientClosed
  /\ CloseBegin \/ CloseJoined
  /\ UNCHANGED loopVars

------------------------------------------------------------------------------
\* The channel's own steps, apart from its callers: handlers are registered at
\* any time, and workers run them.
ChannelStep ==
  /\ OnMessage \/ OnCardAction \/ \E w \in Workers : WorkerStep(w)
  /\ UNCHANGED loopVars

LoopStep ==
  \/ Connect \/ ReceiveFails \/ StopConnecting
  \/ \E d \in Calls :
       ReceiveFrame(d) \/ ReceiveFrameTooLate(d) \/ Answer(d) \/ TimeoutExpires(d)

DeliveryNext ==
  \/ \E d \in Calls : Send(d)
  \/ Break
  \/ LoopStep
  \/ ChannelStep
  \/ CloseClient
  \/ CloseChannel

\* The timer of asyncio.timeout fires; a dispatch that is done is resumed.
\* Nothing is asked of handlers, of the server or of the network.
DeliveryFairness ==
  \A d \in Calls : WF_deliveryVars(Answer(d)) /\ WF_deliveryVars(TimeoutExpires(d))

DeliverySpec == DeliveryInit /\ [][DeliveryNext]_deliveryVars /\ DeliveryFairness

------------------------------------------------------------------------------
(* Properties                                                              *)

\* The shape of the loop's state.
DeliveryTypeOK ==
  /\ TypeOK
  /\ loop \in {"connecting", "receiving", "handling", "ended", "crashed"}
  /\ frame \in Calls \cup {Nothing} /\ (loop = "handling" <=> frame # Nothing)
  /\ clientClosed \in BOOLEAN
  /\ link \in {"up", "broken", "none"}
  /\ inbox \in Seq(Calls)
  /\ sent \subseteq Calls
  /\ status \in [Calls -> {0, 200, 500, 503}]
  /\ acked \subseteq Events

InProgress(d) == Queued(d) \/ \E w \in Workers : Holds(w, d)

\* Whatever is queued or handled is what the loop waits for, or was answered
\* 500.  So two handlings overlap, and the queue fills up, only behind events
\* that timed out (websocket.py:203-211), and an event that was answered 200
\* or 503 is never handled after its answer.
OverlapOnlyAfterTimeout ==
  \A d \in Calls : InProgress(d) => d = frame \/ status[d] = 500

\* An event the server stops sending was unreadable, or went through every
\* handler that was registered when it was accepted, in a delivery whose own
\* answer was 200: the 200 is never that of a delivery that only timed out,
\* failed, or was handled too late (README.md, "Event ACK").
AckedMeansHandled ==
  \A e \in acked : \E d \in Calls :
    /\ d[1] = e /\ status[d] = 200
    /\ call[d] = "unparsed" \/ (call[d] = "ok" /\ handled[d] >= owed[d])

\* The loop gets on with every frame, though handlers may run for ever, the
\* connection may break and close may come in between.
EveryFrameAnswered == \A d \in Calls : (frame = d) ~> (status[d] # 0)
==============================================================================
