-------------------------- MODULE Heartbeat_proof ---------------------------
(***************************************************************************)
(* The bounds of the heartbeat for all intervals and timeouts.             *)
(***************************************************************************)
EXTENDS Heartbeat, TLAPS

Slack == IF PongTimeout >= HandlerTime THEN PongTimeout ELSE HandlerTime

(***************************************************************************)
(* The inductive invariant.  recv is restarted by a frame, by the end of a *)
(* handler or by its own timeout; each time at most Slack has passed since *)
(* the last frame, the third time because the last pong was recent enough. *)
(* After a timeout the ping it sent is still unanswered, unless its pong   *)
(* has arrived and is about to be read.                                    *)
(***************************************************************************)
Waiting ==
  phase = "recv" => /\ now <= recvSince + PingInterval
                    /\ recvSince <= lastFrame + Slack
Handling == phase = "handle" => now <= lastFrame + HandlerTime
Restarts ==
  phase = "recv" =>
    /\ resumed = "frame" => recvSince = lastPong
    /\ resumed = "timeout" => recvSince \in awaited \/ inbox # <<>>

IInv == /\ TypeOK
        /\ lastPong <= lastFrame
        /\ Waiting
        /\ Handling
        /\ Restarts
        /\ DropExplained

\* A connection that has just opened satisfies the invariant.
LEMMA InitInv == Init => IInv
BY HeartbeatAssumption
   DEF Init, IInv, TypeOK, Waiting, Handling, Restarts, DropExplained, Slack,
       HeartbeatAssumption

\* Every step keeps the invariant.
LEMMA NextInv == IInv /\ [Next]_vars => IInv'
<1> SUFFICES ASSUME IInv, [Next]_vars PROVE IInv'
  OBVIOUS
<1> USE HeartbeatAssumption DEF HeartbeatAssumption
<1>0. TypeOK /\ lastPong <= lastFrame /\ Waiting /\ Handling /\ Restarts /\ DropExplained
  BY DEF IInv
<1>1. CASE PongArrives
  <2>1. TypeOK' /\ lastPong' <= lastFrame'
    BY <1>0, <1>1 DEF TypeOK, PongArrives
  <2>2. Waiting' /\ Handling'
    BY <1>0, <1>1 DEF PongArrives, Waiting, Handling
  <2>3. inbox' # <<>>
    BY <1>0, <1>1 DEF TypeOK, PongArrives
  <2>4. Restarts' /\ DropExplained'
    BY <1>0, <1>1, <2>3 DEF PongArrives, Restarts, DropExplained
  <2>. QED
    BY <2>1, <2>2, <2>4 DEF IInv
<1>2. CASE DataArrives
  <2>1. TypeOK' /\ lastPong' <= lastFrame' /\ inbox' # <<>>
    BY <1>0, <1>2 DEF TypeOK, DataArrives
  <2>2. Waiting' /\ Handling' /\ Restarts' /\ DropExplained'
    BY <1>0, <1>2, <2>1 DEF DataArrives, Waiting, Handling, Restarts, DropExplained
  <2>. QED
    BY <2>1, <2>2 DEF IInv
<1>3. CASE PeerVanishes
  BY <1>0, <1>3 DEF IInv, TypeOK, PeerVanishes, Waiting, Handling, Restarts, DropExplained
<1>4. CASE ReadPong
  <2>1. TypeOK' /\ lastPong' <= lastFrame'
    BY <1>0, <1>4 DEF TypeOK, ReadPong
  <2>2. Waiting' /\ Handling' /\ Restarts' /\ DropExplained'
    BY <1>0, <1>4 DEF TypeOK, ReadPong, Waiting, Handling, Restarts, DropExplained, Slack
  <2>. QED
    BY <2>1, <2>2 DEF IInv
<1>5. CASE ReadData
  <2>1. TypeOK' /\ lastPong' <= lastFrame'
    BY <1>0, <1>5 DEF TypeOK, ReadData
  <2>2. Waiting' /\ Handling' /\ Restarts' /\ DropExplained'
    BY <1>0, <1>5 DEF TypeOK, ReadData, Waiting, Handling, Restarts, DropExplained
  <2>. QED
    BY <2>1, <2>2 DEF IInv
<1>6. CASE HandleEnds
  <2>1. TypeOK' /\ lastPong' <= lastFrame'
    BY <1>0, <1>6 DEF TypeOK, HandleEnds
  <2>2. Waiting' /\ Handling' /\ Restarts' /\ DropExplained'
    BY <1>0, <1>6 DEF TypeOK, HandleEnds, Waiting, Handling, Restarts, DropExplained, Slack
  <2>. QED
    BY <2>1, <2>2 DEF IInv
<1>7. CASE RecvTimesOut
  <2>1. TypeOK' /\ lastPong' <= lastFrame'
    BY <1>0, <1>7 DEF TypeOK, RecvTimesOut
  <2>2. phase = "recv" /\ inbox = <<>> /\ now = recvSince + PingInterval
    BY <1>0, <1>7 DEF TypeOK, RecvTimesOut, TimeoutDue, Waiting
  <2>3. Waiting' /\ Handling' /\ Restarts'
    BY <1>0, <1>7, <2>2 DEF TypeOK, RecvTimesOut, PongOverdue, Waiting, Handling, Restarts, Slack
  <2>4. DropExplained'
    <3>. SUFFICES ASSUME phase' = "dropped", PingInterval <= PongTimeout
                  PROVE  \/ \E t \in awaited' : t + PingInterval <= now'
                         \/ resumed' = "data" /\ recvSince' + PingInterval > lastPong' + PongTimeout
      BY DEF DropExplained
    <3>1. /\ now > lastPong + PongTimeout
          /\ UNCHANGED <<now, resumed, recvSince, lastPong>>
          /\ awaited' = awaited \cup {now}
      BY <1>7, <2>2 DEF RecvTimesOut, PongOverdue
    <3>2. CASE resumed = "timeout"
      BY <1>0, <2>2, <3>1, <3>2 DEF TypeOK, Restarts
    <3>3. CASE resumed = "frame"
      BY <1>0, <2>2, <3>1, <3>3 DEF TypeOK, Restarts
    <3>4. CASE resumed = "data"
      BY <2>2, <3>1, <3>4
    <3>. QED
      BY <1>0, <3>2, <3>3, <3>4 DEF TypeOK
  <2>. QED
    BY <2>1, <2>3, <2>4 DEF IInv
<1>8. CASE Tick
  <2>1. TypeOK' /\ lastPong' <= lastFrame'
    BY <1>0, <1>8 DEF TypeOK, Tick
  <2>2. Waiting' /\ Handling'
    BY <1>0, <1>8 DEF TypeOK, Tick, TimeoutDue, Waiting, Handling
  <2>3. Restarts' /\ DropExplained'
    BY <1>0, <1>8 DEF Tick, Restarts, DropExplained
  <2>. QED
    BY <2>1, <2>2, <2>3 DEF IInv
<1>9. CASE UNCHANGED vars
  BY <1>0, <1>9 DEF vars, IInv, TypeOK, Waiting, Handling, Restarts, DropExplained
<1>. QED
  BY <1>1, <1>2, <1>3, <1>4, <1>5, <1>6, <1>7, <1>8, <1>9 DEF Next

\* The invariant holds in every reachable state.
THEOREM Invariance == Spec => []IInv
BY InitInv, NextInv, PTL DEF Spec

------------------------------------------------------------------------------
\* The shape of the state, for all values of the constants.
THEOREM TypeCorrect == Spec => []TypeOK
<1>1. IInv => TypeOK
  BY DEF IInv
<1>. QED
  BY <1>1, Invariance, PTL

\* A silent connection is given up within one ping interval plus the longer
\* of the pong timeout and the handler timeout.
THEOREM SilenceIsBounded == Spec => []SilenceBound
<1>1. IInv => SilenceBound
  BY HeartbeatAssumption
     DEF IInv, TypeOK, Waiting, SilenceBound, Slack, HeartbeatAssumption
<1>. QED
  BY <1>1, Invariance, PTL

\* A connection is given up for an unanswered ping, or because a data frame
\* was the last thing handled, late in the pong timeout.
THEOREM DropsAreExplained == Spec => []DropExplained
<1>1. IInv => DropExplained
  BY DEF IInv
<1>. QED
  BY <1>1, Invariance, PTL

------------------------------------------------------------------------------
\* Time only passes in recv while a responsive peer owes nothing that is late.
Prompt ==
  responsive /\ phase = "recv" /\ now > recvSince =>
    \A t \in awaited : now <= t + Latency

\* Promptness is kept, and with it nobody who answers in time is given up.
LEMMA PromptKeeps ==
  IInv /\ Prompt /\ NoDropWhilePinging /\ [Next]_vars => Prompt' /\ NoDropWhilePinging'
<1> SUFFICES ASSUME IInv, Prompt, NoDropWhilePinging, [Next]_vars
             PROVE  Prompt' /\ NoDropWhilePinging'
  OBVIOUS
<1> USE HeartbeatAssumption DEF HeartbeatAssumption
<1>0. TypeOK /\ Waiting /\ Restarts
  BY DEF IInv
<1>1. CASE PongArrives \/ DataArrives \/ PeerVanishes
  BY <1>0, <1>1
  DEF TypeOK, PongArrives, DataArrives, PeerVanishes, Prompt, NoDropWhilePinging
<1>2. CASE ReadPong \/ ReadData \/ HandleEnds
  BY <1>0, <1>2 DEF TypeOK, ReadPong, ReadData, HandleEnds, Prompt, NoDropWhilePinging
<1>3. CASE RecvTimesOut
  <2>1. phase = "recv" /\ inbox = <<>> /\ now = recvSince + PingInterval
    BY <1>0, <1>3 DEF TypeOK, RecvTimesOut, TimeoutDue, Waiting
  <2>2. CASE PongOverdue
    <3>1. now > lastPong + PongTimeout /\ phase' = "dropped"
          /\ UNCHANGED <<now, resumed, responsive>>
      BY <1>3, <2>2 DEF RecvTimesOut, PongOverdue
    <3>2. SUFFICES ASSUME responsive, PingInterval <= PongTimeout, Latency < PingInterval
                   PROVE  resumed = "data"
      BY <3>1 DEF Prompt, NoDropWhilePinging
    <3>3. resumed # "frame"
      BY <1>0, <2>1, <3>1, <3>2 DEF TypeOK, Restarts
    <3>4. resumed # "timeout"
      <4>1. now > recvSince
        BY <1>0, <2>1 DEF TypeOK
      <4>2. recvSince \in awaited => now <= recvSince + Latency
        BY <2>1, <3>2, <4>1 DEF Prompt
      <4> QED
        BY <1>0, <2>1, <3>2, <4>2 DEF TypeOK, Restarts
    <3> QED
      BY <1>0, <3>3, <3>4 DEF TypeOK
  <2>3. CASE ~PongOverdue
    BY <1>0, <1>3, <2>1, <2>3 DEF TypeOK, RecvTimesOut, Prompt, NoDropWhilePinging
  <2> QED
    BY <2>2, <2>3
<1>4. CASE Tick
  <2>1. responsive /\ phase = "recv" => \A t \in awaited : now + 1 <= t + Latency
    <3>1. inbox = <<>> => Len(inbox) < MaxInbox
      OBVIOUS
    <3> QED
      BY <1>0, <1>4, <3>1 DEF TypeOK, Tick, PongDue
  <2> QED
    BY <1>4, <2>1 DEF Tick, Prompt, NoDropWhilePinging
<1>5. CASE UNCHANGED vars
  BY <1>5 DEF vars, Prompt, NoDropWhilePinging
<1> QED
  BY <1>1, <1>2, <1>3, <1>4, <1>5 DEF Next

\* A peer that answers every ping in time, and sends nothing else, is kept.
THEOREM PingersAreKept == Spec => []NoDropWhilePinging
<1>1. Init => Prompt /\ NoDropWhilePinging
  BY DEF Init, Prompt, NoDropWhilePinging
<1> QED
  BY <1>1, Invariance, PromptKeeps, PTL DEF Spec
==============================================================================
