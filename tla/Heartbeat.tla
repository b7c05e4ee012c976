----------------------------- MODULE Heartbeat ------------------------------
(***************************************************************************)
(* The heartbeat of one connection: the clock of _receive_loop             *)
(* (src/feishulib/websocket.py:174-192).  The loop has no timer of its own *)
(* for pings: it sends one when recv has waited for a whole ping interval, *)
(* and looks at the age of the last pong only then.                        *)
(*                                                                         *)
(* Time is discrete and passes in Tick, which no pending obligation lets   *)
(* pass: a frame that can be read, a timeout that is due, a pong that a    *)
(* responsive peer owes.  Sends take no time.                              *)
(***************************************************************************)
EXTENDS Naturals, Sequences

CONSTANTS
  PingInterval,   \* _ping_interval
  PongTimeout,    \* ws_ping_timeout_seconds
  HandlerTime,    \* card_action_timeout_seconds: the longest _handle_data
  Latency,        \* a responsive peer's pong arrives within this time
  MaxInbox,       \* bound: frames that have arrived and are not read
  MaxTime         \* bound: how long the connection is observed

ASSUME HeartbeatAssumption ==
  /\ PingInterval \in Nat \ {0}
  /\ PongTimeout \in Nat /\ HandlerTime \in Nat /\ Latency \in Nat
  /\ MaxInbox \in Nat \ {0} /\ MaxTime \in Nat

VARIABLES
  now,
  phase,       \* "recv", "handle" (in _handle_data) or "dropped"
  recvSince,   \* when the current recv began
  lastPong,    \* _last_pong
  inbox,       \* frames that have arrived
  awaited,     \* when the pings were sent whose pong has not arrived
  responsive,  \* the peer still answers
  lastFrame,   \* history: when a frame was read last
  resumed      \* history: what the current recv followed

vars == <<now, phase, recvSince, lastPong, inbox, awaited, responsive,
          lastFrame, resumed>>

\* _open_connection: lastPong is the time of connecting, a ping is sent.
Init ==
  /\ now = 0
  /\ phase = "recv"
  /\ recvSince = 0
  /\ lastPong = 0
  /\ inbox = <<>>
  /\ awaited = {0}
  /\ responsive = TRUE
  /\ lastFrame = 0
  /\ resumed = "frame"

------------------------------------------------------------------------------
(* The peer                                                                *)

\* The oldest ping is answered.
PongArrives ==
  /\ responsive /\ phase # "dropped"
  /\ Len(inbox) < MaxInbox
  /\ \E t \in awaited : /\ \A u \in awaited : t <= u
                        /\ awaited' = awaited \ {t}
  /\ inbox' = Append(inbox, "pong")
  /\ UNCHANGED <<now, phase, recvSince, lastPong, responsive, lastFrame, resumed>>

DataArrives ==
  /\ responsive /\ phase # "dropped"
  /\ Len(inbox) < MaxInbox
  /\ inbox' = Append(inbox, "data")
  /\ UNCHANGED <<now, phase, recvSince, lastPong, awaited, responsive, lastFrame,
                 resumed>>

\* The peer, or the path to it, is gone without closing the connection.
PeerVanishes ==
  /\ responsive
  /\ responsive' = FALSE
  /\ UNCHANGED <<now, phase, recvSince, lastPong, inbox, awaited, lastFrame, resumed>>

------------------------------------------------------------------------------
(* _receive_loop                                                           *)

\* Mutant of ReadPong: a deadline is stored where a time is expected.
ReadPongDeadline ==
  /\ phase = "recv" /\ inbox # <<>> /\ Head(inbox) = "pong"
  /\ inbox' = Tail(inbox)
  /\ lastPong' = now + PongTimeout
  /\ recvSince' = now
  /\ lastFrame' = now
  /\ resumed' = "frame"
  /\ UNCHANGED <<now, phase, awaited, responsive>>

\* Mutant of ReadPong: a pong is read like any other control frame.
ReadPongForgotten ==
  /\ phase = "recv" /\ inbox # <<>> /\ Head(inbox) = "pong"
  /\ inbox' = Tail(inbox)
  /\ recvSince' = now
  /\ lastFrame' = now
  /\ resumed' = "frame"
  /\ UNCHANGED <<now, phase, lastPong, awaited, responsive>>

ReadPong ==
  /\ phase = "recv" /\ inbox # <<>> /\ Head(inbox) = "pong"
  /\ inbox' = Tail(inbox)
  /\ lastPong' = now
  /\ recvSince' = now
  /\ lastFrame' = now
  /\ resumed' = "frame"
  /\ UNCHANGED <<now, phase, awaited, responsive>>

ReadData ==
  /\ phase = "recv" /\ inbox # <<>> /\ Head(inbox) = "data"
  /\ inbox' = Tail(inbox)
  /\ phase' = "handle"
  /\ lastFrame' = now
  /\ UNCHANGED <<now, recvSince, lastPong, awaited, responsive, resumed>>

\* _handle_data ends and the loop receives again.
HandleEnds ==
  /\ phase = "handle"
  /\ phase' = "recv"
  /\ recvSince' = now
  /\ resumed' = "data"
  /\ UNCHANGED <<now, lastPong, inbox, awaited, responsive, lastFrame>>

TimeoutDue == phase = "recv" /\ inbox = <<>> /\ now >= recvSince + PingInterval

\* Mutants of PongOverdue: the age of the wait instead of the pong's, and the
\* ping interval instead of the timeout.
WaitOverdue == now > recvSince + PongTimeout
PongOlderThanInterval == now >= lastPong + PingInterval

\* "time.monotonic() - self._last_pong > ws_ping_timeout_seconds"
PongOverdue == now > lastPong + PongTimeout

\* TimeoutError: send a ping, then either give up or receive again.
RecvTimesOut ==
  /\ TimeoutDue
  /\ awaited' = awaited \cup {now}
  /\ IF PongOverdue
     THEN phase' = "dropped" /\ UNCHANGED <<recvSince, resumed>>
     ELSE recvSince' = now /\ resumed' = "timeout" /\ UNCHANGED phase
  /\ UNCHANGED <<now, lastPong, inbox, responsive, lastFrame>>

------------------------------------------------------------------------------
\* A responsive peer's pong is due, and there is room for it.
PongDue ==
  responsive /\ Len(inbox) < MaxInbox /\ \E t \in awaited : now >= t + Latency

Tick ==
  /\ now < MaxTime
  /\ phase # "dropped"
  /\ ~(phase = "recv" /\ inbox # <<>>)
  /\ ~TimeoutDue
  /\ ~(phase = "handle" /\ now >= lastFrame + HandlerTime)
  /\ ~PongDue
  /\ now' = now + 1
  /\ UNCHANGED <<phase, recvSince, lastPong, inbox, awaited, responsive,
                 lastFrame, resumed>>

Next ==
  \/ PongArrives
  \/ DataArrives
  \/ PeerVanishes
  \/ ReadPong
  \/ ReadData
  \/ HandleEnds
  \/ RecvTimesOut
  \/ Tick

Spec == Init /\ [][Next]_vars

------------------------------------------------------------------------------
(* Properties                                                              *)

\* The shape of the state.
TypeOK ==
  /\ now \in Nat
  /\ phase \in {"recv", "handle", "dropped"}
  /\ recvSince \in Nat /\ recvSince <= now
  /\ lastPong \in Nat /\ lastPong <= now
  /\ inbox \in Seq({"pong", "data"})
  /\ awaited \subseteq 0..now
  /\ responsive \in BOOLEAN
  /\ lastFrame \in Nat /\ lastFrame <= now
  /\ resumed \in {"frame", "data", "timeout"}

\* A silent connection is given up in bounded time: while recv waits, the
\* last frame was read at most one ping interval plus the longer of the pong
\* timeout and the handler timeout ago, although data frames, handlers and
\* the loop's own timeouts keep restarting recv (lines 178-186).
SilenceBound ==
  LET slack == IF PongTimeout >= HandlerTime THEN PongTimeout ELSE HandlerTime
  IN  phase = "recv" => now <= lastFrame + slack + PingInterval

\* Why a connection is ever given up, if pings are more frequent than the
\* timeout: a ping has gone unanswered for a whole interval, or the last
\* thing read was a data frame whose handling ended when the pong timeout
\* had less than an interval to run.
DropExplained ==
  (phase = "dropped" /\ PingInterval <= PongTimeout) =>
    \/ \E t \in awaited : t + PingInterval <= now
    \/ resumed = "data" /\ recvSince + PingInterval > lastPong + PongTimeout

\* A connection whose peer answers every ping in time is kept as long as the
\* peer sends nothing else, at the defaults' order of intervals.
NoDropWhilePinging ==
  (phase = "dropped" /\ responsive /\ PingInterval <= PongTimeout /\ Latency < PingInterval)
     => resumed = "data"

\* What the comment in the except clause says: "The elapsed ping interval is
\* expected control flow, not the cause" (line 184) of a pong timeout: the
\* cause is a ping that was sent before this interval elapsed and that the
\* peer left unanswered.
PongTimeoutMeansNoPong ==
  phase = "dropped" => \E t \in awaited : t < now
==============================================================================
