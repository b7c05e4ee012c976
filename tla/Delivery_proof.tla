--------------------------- MODULE Delivery_proof ----------------------------
(***************************************************************************)
(* The delivery of events, for any events, deliveries and workers: the     *)
(* channel's invariant, composed with what the receive loop knows.         *)
(***************************************************************************)
EXTENDS Delivery, EventChannel_refinement

\* The one call of dispatch that is under way is that of the loop's frame.
FrameWaits ==
  /\ loop = "handling" <=> frame # Nothing
  /\ \A d \in Calls : call[d] = "waiting" <=> d = frame

\* An answer of 200 that arrived belongs to a delivery that ended well.
AckBelongs ==
  \A e \in acked : \E d \in Calls :
    d[1] = e /\ status[d] = 200 /\ call[d] \in {"ok", "unparsed"}

DInv ==
  /\ IInv
  /\ AcceptedOnly
  /\ status \in [Calls -> {0, 200, 500, 503}]
  /\ FrameWaits
  /\ OverlapOnlyAfterTimeout
  /\ AckBelongs

\* What is in progress, in the words of the refinement.
LEMMA InProgressIs == \A d \in Calls : InProgress(d) <=> (Queued(d) \/ Held(d))
BY DEF InProgress, Held

\* What a call may be.
LEMMA CallType ==
  ASSUME IInv
  PROVE  /\ call \in [Calls -> {"new", "waiting", "cancelled", "refused", "unparsed",
                                "full"} \cup Outcomes]
         /\ Nothing \notin Calls
BY ChannelAssumption DEF IInv, TypeOK, ChannelAssumption

\* A step of the channel that is not a dispatch adds nothing to it.
LEMMA AddsNothing ==
  ASSUME IInv, [Next]_vars, ~\E c \in Calls : Dispatch(c)
  PROVE  \A d \in Calls : InProgress(d)' => InProgress(d)
BY OnlyDispatchAdds, InProgressIs DEF InProgress, Held

\* A dispatch adds the call it is for, if that call is then waiting.
LEMMA DispatchAddsOne ==
  ASSUME IInv, NEW c \in Calls, Dispatch(c)
  PROVE  /\ call[c] = "new" /\ ~InProgress(c)
         /\ \/ call' = [call EXCEPT ![c] = "waiting"]
            \/ call' = [call EXCEPT ![c] = "full"] /\ ~InProgress(c)'
         /\ \A d \in Calls \ {c} : InProgress(d)' => InProgress(d)
<1>1. call[c] = "new" /\ UNCHANGED worker /\ queue \in Seq(Calls) /\ QueueDistinct
  BY DEF Dispatch, IInv, TypeOK
<1>2. ~Queued(c) /\ ~InProgress(c)
  BY <1>1 DEF IInv, NewIsUntouched, InProgress
<1>3. CASE queue' = Append(queue, c) /\ call' = [call EXCEPT ![c] = "waiting"]
  <2>1. \A d \in Calls : Queued(d)' <=> (Queued(d) \/ d = c)
    BY <1>1, <1>2, <1>3, AddLast
  <2>. QED
    BY <1>1, <1>2, <1>3, <2>1 DEF InProgress, Holds
<1>4. CASE UNCHANGED queue /\ call' = [call EXCEPT ![c] = "full"]
  <2>1. \A d \in Calls : InProgress(d)' <=> InProgress(d)
    BY <1>1, <1>4, SameQueue DEF InProgress, Holds
  <2>. QED
    BY <1>1, <1>2, <1>4, <2>1
<1>. QED
  BY <1>3, <1>4 DEF Dispatch

\* The channel's own steps leave the calls, and so its callers, alone.
LEMMA ChannelSteps ==
  ASSUME IInv,
         \/ OnMessage \/ OnCardAction \/ Start \/ CloseBegin \/ CloseJoined \/ UNCHANGED vars
         \/ \E w \in Workers : WorkerStep(w)
  PROVE  [Next]_vars /\ UNCHANGED call /\ ~\E c \in Calls : Dispatch(c)
<1>1. [Next]_vars
  BY DEF Next
<1>2. UNCHANGED call
  BY DEF OnMessage, OnCardAction, Start, CloseBegin, CloseJoined, vars, WorkerStep, WorkerGet,
         HandlerReturns, HandlerRaises, CancelDelivered, HandlerCancelsItself,
         WorkerDies, HandlerSwallowsCancel, IdleWorkerCancelled
<1>3. ASSUME NEW c \in Calls, Dispatch(c) PROVE FALSE
  BY <1>2, <1>3, CallType, DispatchAddsOne
<1>. QED
  BY <1>1, <1>2, <1>3

------------------------------------------------------------------------------
\* Nothing the loop knows changes while only the channel, the server or the
\* network moves.
LEMMA OthersKeep ==
  ASSUME DInv,
         \/ OnMessage \/ OnCardAction \/ Start \/ CloseBegin \/ CloseJoined \/ UNCHANGED vars
         \/ \E w \in Workers : WorkerStep(w),
         UNCHANGED <<frame, status, acked>>,
         loop = "handling" <=> loop' = "handling"
  PROVE  DInv'
<1>0. IInv /\ AcceptedOnly /\ FrameWaits /\ OverlapOnlyAfterTimeout /\ AckBelongs
  BY DEF DInv
<1>1. [Next]_vars /\ UNCHANGED call /\ ~\E c \in Calls : Dispatch(c)
  BY <1>0, ChannelSteps
<1>2. IInv' /\ AcceptedOnly'
  BY <1>0, <1>1, NextInv, AcceptedOnlyInv
<1>3. FrameWaits' /\ AckBelongs'
  BY <1>0, <1>1 DEF FrameWaits, AckBelongs
<1>4. OverlapOnlyAfterTimeout'
  BY <1>0, <1>1, AddsNothing DEF OverlapOnlyAfterTimeout
<1>. QED
  BY <1>2, <1>3, <1>4 DEF DInv

\* The loop answers: the delivery's own status is set, and 200 may arrive.
LEMMA ReplyKeeps ==
  ASSUME DInv, NEW d \in Calls, NEW how, NEW rest,
         how \in {"unparsed", "full", "cancelled"} \cup Outcomes,
         call[d] \in {"new", "waiting"}, loop = "handling" => d = frame,
         call' = [call EXCEPT ![d] = how],
         IInv', AcceptedOnly',
         \A c \in Calls : InProgress(c)' => InProgress(c),
         how # "cancelled" => ~InProgress(d)',
         Reply(d, StatusCode(how), rest)
  PROVE  DInv'
<1>0. /\ IInv /\ FrameWaits /\ OverlapOnlyAfterTimeout /\ AckBelongs
      /\ status \in [Calls -> {0, 200, 500, 503}]
  BY DEF DInv
<1>1. /\ how \in {"ok", "unparsed"} => StatusCode(how) = 200
      /\ how \in {"handler", "shutdown", "full"} => StatusCode(how) = 503
      /\ how = "cancelled" => StatusCode(how) = 500
  BY DEF StatusCode
<1>2. how \in {"ok", "unparsed", "handler", "shutdown", "full", "cancelled"}
  BY DEF Outcomes
<1>3. /\ status' = [status EXCEPT ![d] = StatusCode(how)]
      /\ frame' = Nothing /\ loop' # "handling"
      /\ acked' = acked \/ (StatusCode(how) = 200 /\ acked' = acked \cup {d[1]})
  BY DEF Reply, GiveUpConnection
<1>4. status' \in [Calls -> {0, 200, 500, 503}]
  BY <1>0, <1>1, <1>2, <1>3
<1>5. call \in [Calls -> {"new", "waiting", "cancelled", "refused", "unparsed",
                          "full"} \cup Outcomes]
      /\ Nothing \notin Calls
  BY <1>0, CallType
<1>6. how # "waiting" /\ \A c \in Calls \ {d} : c # frame
  BY <1>0, <1>2, <1>5 DEF FrameWaits
<1>7. FrameWaits'
  BY <1>0, <1>3, <1>5, <1>6 DEF FrameWaits
<1>8. OverlapOnlyAfterTimeout'
  <2> SUFFICES ASSUME NEW c \in Calls, InProgress(c)' PROVE status'[c] = 500
    BY DEF OverlapOnlyAfterTimeout
  <2>1. CASE c = d
    BY <1>0, <1>1, <1>3, <2>1
  <2>2. CASE c # d
    BY <1>0, <1>3, <1>6, <2>2 DEF OverlapOnlyAfterTimeout
  <2>. QED
    BY <2>1, <2>2
<1>9. AckBelongs'
  <2> SUFFICES ASSUME NEW e \in acked'
               PROVE  \E c \in Calls : c[1] = e /\ status'[c] = 200 /\ call'[c] \in {"ok", "unparsed"}
    BY DEF AckBelongs
  <2>1. CASE e \in acked
    <3>1. PICK c \in Calls : c[1] = e /\ status[c] = 200 /\ call[c] \in {"ok", "unparsed"}
      BY <1>0, <2>1 DEF AckBelongs
    <3>2. c # d
      BY <3>1
    <3>. QED
      BY <1>0, <1>3, <1>5, <3>1, <3>2
  <2>2. CASE e = d[1] /\ StatusCode(how) = 200
    BY <1>0, <1>1, <1>2, <1>3, <1>5, <2>2
  <2>. QED
    BY <1>3, <2>1, <2>2
<1>. QED
  BY <1>4, <1>7, <1>8, <1>9 DEF DInv

\* A frame is received: its dispatch waits, or is answered at once.
LEMMA ReceiveKeeps ==
  ASSUME DInv, NEW d \in Calls, ReceiveFrame(d)
  PROVE  DInv'
<1>0. IInv /\ AcceptedOnly /\ FrameWaits /\ OverlapOnlyAfterTimeout /\ AckBelongs
  BY DEF DInv
<1>1. loop = "receiving" /\ frame = Nothing
  BY <1>0 DEF ReceiveFrame, FrameWaits
<1>2. /\ call \in [Calls -> {"new", "waiting", "cancelled", "refused", "unparsed",
                             "full"} \cup Outcomes]
      /\ Nothing \notin Calls
  BY <1>0, CallType
<1>3. CASE Dispatch(d)
  <2>1. IInv' /\ AcceptedOnly'
    BY <1>0, <1>3, NextInv, AcceptedOnlyInv DEF Next, CallStep
  <2>2. /\ call[d] = "new" /\ ~InProgress(d)
        /\ \/ call' = [call EXCEPT ![d] = "waiting"]
           \/ call' = [call EXCEPT ![d] = "full"] /\ ~InProgress(d)'
        /\ \A c \in Calls \ {d} : InProgress(c)' => InProgress(c)
    BY <1>0, <1>3, DispatchAddsOne
  <2>3. CASE call' = [call EXCEPT ![d] = "waiting"]
    <3>1. loop' = "handling" /\ frame' = d /\ UNCHANGED <<status, acked>>
      BY <1>2, <1>3, <2>3 DEF ReceiveFrame, DispatchUnparsed
    <3>2. FrameWaits'
      BY <1>0, <1>1, <1>2, <2>3, <3>1 DEF FrameWaits
    <3>3. OverlapOnlyAfterTimeout'
      BY <1>0, <1>1, <1>2, <2>2, <3>1 DEF OverlapOnlyAfterTimeout
    <3>4. AckBelongs'
      BY <1>0, <1>2, <2>2, <2>3, <3>1 DEF AckBelongs
    <3>. QED
      BY <2>1, <3>1, <3>2, <3>3, <3>4 DEF DInv
  <2>4. CASE call' = [call EXCEPT ![d] = "full"] /\ ~InProgress(d)'
    <3>1. Reply(d, StatusCode("full"), Tail(inbox))
      BY <1>2, <1>3, <2>4 DEF ReceiveFrame, DispatchUnparsed
    <3>. QED
      BY <1>1, <2>1, <2>2, <2>4, <3>1, ReplyKeeps
  <2>. QED
    BY <2>2, <2>3, <2>4
<1>4. CASE DispatchUnparsed(d) /\ Reply(d, StatusCode("unparsed"), Tail(inbox))
  <2>1. IInv' /\ AcceptedOnly'
    BY <1>0, <1>4, NextInv, AcceptedOnlyInv DEF Next, CallStep
  <2>2. /\ call[d] = "new" /\ call' = [call EXCEPT ![d] = "unparsed"]
        /\ UNCHANGED <<queue, worker>>
    BY <1>4 DEF DispatchUnparsed
  <2>3. \A c \in Calls : InProgress(c)' <=> InProgress(c)
    BY <2>2, SameQueue DEF InProgress, Holds
  <2>4. ~InProgress(d)
    BY <1>0, <2>2 DEF IInv, NewIsUntouched, InProgress
  <2>. QED
    BY <1>1, <1>4, <2>1, <2>2, <2>3, <2>4, ReplyKeeps
<1>. QED
  BY <1>3, <1>4 DEF ReceiveFrame

\* A dispatch that was refused is answered by nobody.
LEMMA TooLateKeeps ==
  ASSUME DInv, NEW d \in Calls, ReceiveFrameTooLate(d)
  PROVE  DInv'
<1>0. IInv /\ AcceptedOnly /\ FrameWaits /\ OverlapOnlyAfterTimeout /\ AckBelongs
  BY DEF DInv
<1>1. /\ loop = "receiving" /\ loop' = "crashed" /\ UNCHANGED <<frame, status, acked>>
      /\ call[d] = "new" /\ call' = [call EXCEPT ![d] = "refused"]
      /\ UNCHANGED <<queue, worker>>
  BY DEF ReceiveFrameTooLate, DispatchRefused
<1>2. /\ call \in [Calls -> {"new", "waiting", "cancelled", "refused", "unparsed",
                             "full"} \cup Outcomes]
      /\ Nothing \notin Calls
  BY <1>0, CallType
<1>3. IInv' /\ AcceptedOnly'
  BY <1>0, NextInv, AcceptedOnlyInv DEF Next, CallStep, ReceiveFrameTooLate
<1>4. \A c \in Calls : InProgress(c)' <=> InProgress(c)
  BY <1>1, SameQueue DEF InProgress, Holds
<1>5. FrameWaits' /\ AckBelongs' /\ OverlapOnlyAfterTimeout'
  BY <1>0, <1>1, <1>2, <1>4 DEF FrameWaits, AckBelongs, OverlapOnlyAfterTimeout
<1>. QED
  BY <1>1, <1>3, <1>5 DEF DInv

\* The dispatch ends, or the loop gives it up.
LEMMA AnswerKeeps ==
  ASSUME DInv, NEW d \in Calls, Answer(d) \/ TimeoutExpires(d)
  PROVE  DInv'
<1>0. IInv /\ AcceptedOnly /\ FrameWaits
  BY DEF DInv
<1>1. IInv' /\ AcceptedOnly'
  BY <1>0, NextInv, AcceptedOnlyInv DEF Next, CallStep, Answer, TimeoutExpires
<1>2. /\ loop = "handling" /\ frame = d /\ call[d] = "waiting"
      /\ UNCHANGED <<queue, worker>>
  BY DEF Answer, TimeoutExpires, Resume, CancelCaller
<1>3. \A c \in Calls : InProgress(c)' <=> InProgress(c)
  BY <1>2, SameQueue DEF InProgress, Holds
<1>4. CASE Answer(d)
  <2>1. PICK how : how = future[d]
    OBVIOUS
  <2>2. how \in Outcomes /\ call' = [call EXCEPT ![d] = how]
        /\ Reply(d, StatusCode(how), inbox)
    BY <1>4, <2>1 DEF Answer, Resume
  <2>3. ~InProgress(d)
    BY <1>0, <2>1, <2>2, InProgressIs DEF AcceptedOnly, Outcomes
  <2>. QED
    BY <1>1, <1>2, <1>3, <2>2, <2>3, ReplyKeeps
<1>5. CASE TimeoutExpires(d)
  BY <1>1, <1>2, <1>3, <1>5, ReplyKeeps DEF TimeoutExpires, CancelCaller
<1>. QED
  BY <1>4, <1>5

------------------------------------------------------------------------------
\* Nothing has been sent when the client is made.
LEMMA DeliveryInitInv == DeliveryInit => DInv
<1> SUFFICES ASSUME DeliveryInit PROVE DInv
  OBVIOUS
<1>1. IInv /\ AcceptedOnly
  BY InitInv, InitImplements DEF DeliveryInit
<1>2. /\ \A c \in Calls : call[c] = "new" /\ ~InProgress(c)
      /\ loop = "connecting" /\ frame = Nothing /\ acked = {}
      /\ status = [d \in Calls |-> 0]
  BY DEF DeliveryInit, Init, InProgress, Queued, Holds
<1>3. Nothing \notin Calls
  BY <1>1, CallType
<1>. QED
  BY <1>1, <1>2, <1>3 DEF DInv, FrameWaits, OverlapOnlyAfterTimeout, AckBelongs

\* Every step of loop, channel, server and network keeps the invariant.
LEMMA DeliveryNextInv == DInv /\ [DeliveryNext]_deliveryVars => DInv'
<1> SUFFICES ASSUME DInv, [DeliveryNext]_deliveryVars PROVE DInv'
  OBVIOUS
<1>1. CASE \/ Break \/ Connect \/ ReceiveFails \/ StopConnecting \/ CloseClient
           \/ UNCHANGED deliveryVars \/ \E d \in Calls : Send(d)
  <2>1. UNCHANGED vars \/ Start
    BY <1>1 DEF Break, Connect, ReceiveFails, StopConnecting, CloseClient,
                deliveryVars, Send
  <2>2. UNCHANGED <<frame, status, acked>>
    BY <1>1 DEF Break, Connect, ReceiveFails, StopConnecting, CloseClient,
                deliveryVars, Send
  <2>3. loop = "handling" <=> loop' = "handling"
    BY <1>1 DEF Break, Connect, ReceiveFails, StopConnecting, CloseClient,
                deliveryVars, Send, GiveUpConnection
  <2>. QED
    BY <2>1, <2>2, <2>3, OthersKeep
<1>2. CASE ChannelStep \/ CloseChannel
  <2>1. UNCHANGED <<frame, status, acked, loop>>
    BY <1>2 DEF ChannelStep, CloseChannel, loopVars
  <2>. QED
    BY <1>2, <2>1, OthersKeep DEF ChannelStep, CloseChannel
<1>3. ASSUME NEW d \in Calls,
             ReceiveFrame(d) \/ ReceiveFrameTooLate(d) \/ Answer(d) \/ TimeoutExpires(d)
      PROVE  DInv'
  BY <1>3, ReceiveKeeps, TooLateKeeps, AnswerKeeps
<1>. QED
  BY <1>1, <1>2, <1>3 DEF DeliveryNext, LoopStep

\* The composed invariant holds throughout.
THEOREM DeliveryInvariance == DeliverySpec => []DInv
BY DeliveryInitInv, DeliveryNextInv, PTL DEF DeliverySpec

\* An event that was answered 200 or 503 is out of the channel; what overlaps
\* with the frame the loop waits for has timed out.
THEOREM OverlapsAreTimeouts == DeliverySpec => []OverlapOnlyAfterTimeout
<1>1. DInv => OverlapOnlyAfterTimeout
  BY DEF DInv
<1>. QED
  BY <1>1, DeliveryInvariance, PTL

\* The server stops sending an event only once it was handled, or was found
\* unreadable.
THEOREM AcknowledgedIsHandled == DeliverySpec => []AckedMeansHandled
<1>1. DInv => AckedMeansHandled
  BY DEF DInv, AckBelongs, IInv, OutcomeOK, AckedMeansHandled
<1>. QED
  BY <1>1, DeliveryInvariance, PTL

------------------------------------------------------------------------------
(* The channel within the composition                                      *)

\* Whatever the loop, the server, the network or close does is a step of the
\* channel, or none of its business.
LEMMA ChannelNext == [DeliveryNext]_deliveryVars => [Next]_vars
<1> SUFFICES ASSUME [DeliveryNext]_deliveryVars PROVE [Next]_vars
  OBVIOUS
<1>1. CASE \/ Break \/ ReceiveFails \/ StopConnecting \/ CloseClient
           \/ UNCHANGED deliveryVars \/ \E d \in Calls : Send(d)
  <2>1. UNCHANGED vars
    BY <1>1 DEF Break, ReceiveFails, StopConnecting, CloseClient, deliveryVars, Send
  <2>. QED
    BY <2>1
<1>2. CASE Connect
  BY <1>2 DEF Connect, Next
<1>3. CASE ChannelStep \/ CloseChannel
  BY <1>3 DEF ChannelStep, CloseChannel, Next
<1>4. ASSUME NEW d \in Calls,
             ReceiveFrame(d) \/ ReceiveFrameTooLate(d) \/ Answer(d) \/ TimeoutExpires(d)
      PROVE  [Next]_vars
  <2>1. CallStep(d)
    BY <1>4 DEF ReceiveFrame, ReceiveFrameTooLate, Answer, TimeoutExpires, CallStep
  <2>. QED
    BY <2>1 DEF Next
<1>. QED
  BY <1>1, <1>2, <1>3, <1>4 DEF DeliveryNext, LoopStep

\* Seen from the channel, the delivery is one of its behaviours: whatever the
\* channel promises by itself it promises under this loop, server and close.
THEOREM ChannelWithin == DeliverySpec => Spec
BY ChannelNext, PTL DEF DeliverySpec, DeliveryInit, Spec

\* The composition keeps the promise of the abstract dispatcher for every
\* delivery, whether or not the loop still waits for it.
THEOREM DeliveryRefinement == DeliverySpec => ImplementsDispatcher
BY ChannelWithin, Refinement, PTL

------------------------------------------------------------------------------
(* The shape of the loop's state                                           *)

\* DeliveryTypeOK without what the channel and the invariant say already.
LoopShape ==
  /\ loop \in {"connecting", "receiving", "handling", "ended", "crashed"}
  /\ frame \in Calls \cup {Nothing}
  /\ clientClosed \in BOOLEAN
  /\ link \in {"up", "broken", "none"}
  /\ inbox \in Seq(Calls)
  /\ sent \subseteq Calls
  /\ acked \subseteq Events

\* An inbox without frames.
LEMMA NoFrames == <<>> \in Seq(Calls)
OBVIOUS

\* A reply leaves the loop in one of its states, with what is left in the
\* inbox, and acknowledges an event of the server.
LEMMA ReplyShape ==
  ASSUME LoopShape, NEW d \in Calls, NEW code, NEW rest \in Seq(Calls), Reply(d, code, rest)
  PROVE  LoopShape'
<1>1. d[1] \in Events
  BY DeliveryAssumption DEF DeliveryAssumption
<1>2. inbox' \in Seq(Calls)
  <2>1. inbox' = rest \/ inbox' = <<>>
    BY DEF Reply, GiveUpConnection
  <2>. QED
    BY <2>1, NoFrames
<1>3. acked' \subseteq Events
  BY <1>1 DEF Reply, LoopShape
<1>4. /\ loop' \in {"connecting", "receiving", "handling", "ended", "crashed"}
      /\ link' \in {"up", "broken", "none"}
  BY DEF Reply, GiveUpConnection, LoopShape
<1>5. frame' = Nothing /\ UNCHANGED <<clientClosed, sent>>
  BY DEF Reply
<1>. QED
  BY <1>2, <1>3, <1>4, <1>5 DEF LoopShape

\* Every step keeps the shape.
LEMMA ShapeNext == LoopShape /\ [DeliveryNext]_deliveryVars => LoopShape'
<1> SUFFICES ASSUME LoopShape, [DeliveryNext]_deliveryVars PROVE LoopShape'
  OBVIOUS
<1>1. CASE \/ UNCHANGED deliveryVars \/ ChannelStep \/ CloseChannel \/ CloseClient
  BY <1>1 DEF deliveryVars, ChannelStep, CloseChannel, CloseClient, loopVars, LoopShape
<1>2. CASE Break \/ Connect \/ ReceiveFails \/ StopConnecting
  <2>1. /\ inbox' = inbox \/ inbox' = <<>>
        /\ UNCHANGED <<frame, clientClosed, sent, acked>>
    BY <1>2 DEF Break, Connect, ReceiveFails, StopConnecting, GiveUpConnection, LoopShape
  <2>2. /\ loop' \in {"connecting", "receiving", "handling", "ended", "crashed"}
        /\ link' \in {"up", "broken", "none"}
    BY <1>2 DEF Break, Connect, ReceiveFails, StopConnecting, GiveUpConnection, LoopShape
  <2>. QED
    BY <2>1, <2>2, NoFrames DEF LoopShape
<1>3. ASSUME NEW d \in Calls, Send(d)
      PROVE  LoopShape'
  BY <1>3 DEF Send, LoopShape
<1>4. ASSUME NEW d \in Calls, ReceiveFrame(d) \/ ReceiveFrameTooLate(d)
      PROVE  LoopShape'
  <2>1. Tail(inbox) \in Seq(Calls)
    BY <1>4 DEF ReceiveFrame, ReceiveFrameTooLate, LoopShape
  <2>2. CASE \E code : Reply(d, code, Tail(inbox))
    BY <2>1, <2>2, ReplyShape
  <2>3. CASE /\ loop' \in {"handling", "crashed"}
             /\ frame' \in {d, frame}
             /\ inbox' = Tail(inbox)
             /\ UNCHANGED <<clientClosed, link, sent, acked>>
    BY <2>1, <2>3 DEF LoopShape
  <2>. QED
    BY <1>4, <2>2, <2>3 DEF ReceiveFrame, ReceiveFrameTooLate
<1>5. ASSUME NEW d \in Calls, Answer(d) \/ TimeoutExpires(d)
      PROVE  LoopShape'
  BY <1>5, ReplyShape DEF Answer, TimeoutExpires, LoopShape
<1>. QED
  BY <1>1, <1>2, <1>3, <1>4, <1>5 DEF DeliveryNext, LoopStep

\* The state of the composition keeps its shape: the loop handles a frame
\* exactly while it has one, and answers with one of the three codes.
THEOREM DeliveryTypeCorrect == DeliverySpec => []DeliveryTypeOK
<1>1. DeliveryInit => LoopShape
  BY NoFrames DEF DeliveryInit, LoopShape
<1>2. DInv /\ LoopShape => DeliveryTypeOK
  BY DEF DInv, IInv, FrameWaits, LoopShape, DeliveryTypeOK
<1>. QED
  BY <1>1, <1>2, ShapeNext, DeliveryInvariance, PTL DEF DeliverySpec
==============================================================================
