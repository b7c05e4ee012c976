-------------------------- MODULE FeishuWebSocket ---------------------------
(***************************************************************************)
(* The connection lifecycle of src/feishulib/websocket.py: one application *)
(* task that calls start and run_forever, one task that calls close, and   *)
(* the sockets they open and close.                                        *)
(*                                                                         *)
(* pc names the await the application's task is suspended at.  An action   *)
(* is the code from the completion of that await to the next one, with the *)
(* outcome of the await chosen nondeterministically among those the peer,  *)
(* the network and the event channel can produce.                          *)
(***************************************************************************)
EXTENDS Naturals, FiniteSets

CONSTANTS
  Sockets,          \* identities of sockets; one that is closed may be reused
  NoSocket,         \* _connection is None
  MaxOutage,        \* bound: consecutive connections that fail without a frame
  MaxExponent,      \* largest attempt whose 2**attempt converts to a float
  CloseMayFail,  \* connection.close() may time out, or raise another error
  MayCancelRunner   \* the application may cancel the task in run_forever

ASSUME WebSocketAssumption ==
  /\ NoSocket \notin Sockets
  /\ MaxOutage \in Nat /\ MaxExponent \in Nat
  /\ CloseMayFail \in BOOLEAN /\ MayCancelRunner \in BOOLEAN

VARIABLES
  pc,           \* where the application's task is
  looping,      \* it is in run_forever, not in a start of its own
  attempt,      \* run_forever's local
  state,        \* _state
  connection,   \* _connection
  received,     \* _received_frame_since_connect
  closer,       \* where the task in close is; _closed is set when it begins
  socket,       \* what became of each socket
  silent,       \* history: connections lost or not made since the last frame
  openingAtClose, \* history: close began while _open_connection was awaiting
  escaped       \* history: the error that left run_forever

vars == <<pc, looping, attempt, state, connection, received, closer, socket,
          silent, openingAtClose, escaped>>
closeVars == <<closer, openingAtClose>>

closed == closer # "idle"
channelClosed == closer \in {"channel", "session", "done"}
sessionClosed == closer \in {"session", "done"}

Awaiting == {"discover", "dial", "hello", "recv", "handle", "ack", "ping",
             "drop", "sleep"}

Init ==
  /\ pc = "idle" /\ looping = FALSE /\ attempt = 0
  /\ state = "stopped" /\ connection = NoSocket /\ received = FALSE
  /\ closer = "idle"
  /\ socket = [s \in Sockets |-> "unused"]
  /\ silent = 0 /\ openingAtClose = FALSE /\ escaped = "none"

------------------------------------------------------------------------------
(* Pieces of code that several awaits lead to                              *)

\* An error leaves start or run_forever.
Escape(error) ==
  IF looping THEN pc' = "ended" /\ escaped' = error
             ELSE pc' = "idle" /\ UNCHANGED escaped

\* "await self._sleep(self._reconnect_delay(attempt))", with attempt = n
SleepAfter(n) ==
  IF n <= MaxExponent THEN pc' = "sleep" /\ UNCHANGED escaped
                      ELSE Escape("overflow")

\* Mutant of NextAttempt: the backoff is never reset.
NextAttemptNeverReset == attempt

\* The attempt the delay is computed from: a frame since connecting resets it.
NextAttempt == IF received THEN 0 ELSE attempt

\* Mutant of Retry: the connection is closed and stays in _connection.
RetryKeepsConnection ==
  /\ silent < MaxOutage
  /\ silent' = silent + 1
  /\ attempt' = NextAttempt
  /\ state' = "reconnecting"
  /\ UNCHANGED connection
  /\ IF connection = NoSocket
     THEN SleepAfter(NextAttempt) /\ UNCHANGED socket
     ELSE /\ pc' = "drop"
          /\ socket' = [socket EXCEPT ![connection] = "closing"]
          /\ UNCHANGED escaped

\* Drop the connection and back off (lines 119-124, 222-229).
Retry ==
  /\ silent < MaxOutage
  /\ silent' = silent + 1
  /\ attempt' = NextAttempt
  /\ state' = "reconnecting"
  /\ connection' = NoSocket
  /\ IF connection = NoSocket
     THEN SleepAfter(NextAttempt) /\ UNCHANGED socket
     ELSE /\ pc' = "drop"
          /\ socket' = [socket EXCEPT ![connection] = "closing"]
          /\ UNCHANGED escaped

\* Mutant of Reconnect: without the check for _closed.
ReconnectUnchecked ==
  IF ~looping
  THEN pc' = "idle" /\ UNCHANGED <<attempt, state, connection, socket, silent, escaped>>
  ELSE Retry

\* A reconnectable error: run_forever's except clause up to its next await.
\* In a start of the application's own the error is the application's.
Reconnect ==
  IF ~looping
  THEN pc' = "idle" /\ UNCHANGED <<attempt, state, connection, socket, silent, escaped>>
  ELSE IF closed
  THEN pc' = "ended" /\ UNCHANGED <<attempt, state, connection, socket, silent, escaped>>
  ELSE Retry

\* Mutant of NextFrame: "while True".
NextFrameForever ==
  /\ pc' = "recv"
  /\ UNCHANGED <<attempt, state, connection, socket, escaped>>

\* The head of _receive_loop's while: an orderly end once closed.
NextFrame ==
  /\ pc' = IF closed THEN "ended" ELSE "recv"
  /\ UNCHANGED <<attempt, state, connection, socket, escaped>>

Fails ==
  /\ Reconnect
  /\ UNCHANGED <<looping, received, closeVars>>

\* "raise": an error that is not in _RECONNECTABLE_ERRORS
Breaks(error) ==
  /\ Escape(error)
  /\ UNCHANGED <<looping, attempt, state, connection, received, socket, silent,
                 closeVars>>

\* _receive_loop as far as its first await.
EnterReceiveLoop ==
  IF connection = NoSocket
  THEN Fails
  ELSE /\ NextFrame
       /\ UNCHANGED <<looping, received, silent, closeVars>>

------------------------------------------------------------------------------
(* start, run_forever and _open_connection                                 *)

\* Mutant of BeginStart: start connects although there is a connection.
BeginStartAlways ==
  /\ pc' = "discover"
  /\ state' = "connecting"
  /\ received' = FALSE
  /\ UNCHANGED <<attempt, connection, socket, silent, escaped>>

\* start(): nothing to do while there is a connection.
BeginStart ==
  IF connection = NoSocket
  THEN /\ pc' = "discover"
       /\ state' = "connecting"
       /\ received' = FALSE
       /\ UNCHANGED <<attempt, connection, socket, silent, escaped>>
  ELSE IF looping
  THEN /\ pc' = "recv"
       /\ UNCHANGED <<attempt, state, connection, received, socket, silent, escaped>>
  ELSE UNCHANGED <<pc, attempt, state, connection, received, socket, silent, escaped>>

CallStart ==
  /\ pc = "idle" /\ ~closed
  /\ connection = NoSocket
  /\ BeginStart
  /\ UNCHANGED <<looping, closeVars>>

CallRunForever ==
  /\ pc = "idle"
  /\ looping' = TRUE
  /\ pc' = "top"
  /\ UNCHANGED <<attempt, state, connection, received, socket, silent, escaped,
                 closeVars>>

\* Mutant of LoopTop: "while True", and start does not look at _closed either.
LoopTopUnchecked ==
  /\ pc = "top"
  /\ BeginStart
  /\ UNCHANGED <<looping, closeVars>>

\* "while not self._closed", then start
LoopTop ==
  /\ pc = "top"
  /\ IF closed
     THEN /\ pc' = "ended"
          /\ UNCHANGED <<attempt, state, connection, received, socket, silent, escaped>>
     ELSE BeginStart
  /\ UNCHANGED <<looping, closeVars>>

\* request_json answers with a usable endpoint.
DiscoverOk ==
  /\ pc = "discover" /\ ~sessionClosed
  /\ pc' = "dial"
  /\ UNCHANGED <<looping, attempt, state, connection, received, socket, silent,
                 escaped, closeVars>>

DiscoverFails == pc = "discover" /\ Fails

\* An API error, a status that is not retried, an endpoint that is not wss,
\* or a session that was closed meanwhile.
DiscoverBreaks == pc = "discover" /\ Breaks("endpoint")

\* Mutant of DialOk: opening a connection counts as hearing from the peer.
DialOkResets ==
  /\ pc = "dial"
  /\ \E s \in {t \in Sockets : socket[t] \in {"unused", "closed"}} :
       /\ connection' = s
       /\ socket' = [socket EXCEPT ![s] = "open"]
  /\ state' = "connected"
  /\ received' = TRUE
  /\ pc' = "hello"
  /\ UNCHANGED <<looping, attempt, silent, escaped, closeVars>>

\* The connector returns: lines 169-172, whatever happened meanwhile.
DialOk ==
  /\ pc = "dial"
  /\ \E s \in {t \in Sockets : socket[t] \in {"unused", "closed"}} :
       /\ connection' = s
       /\ socket' = [socket EXCEPT ![s] = "open"]
  /\ state' = "connected"
  /\ pc' = "hello"
  /\ UNCHANGED <<looping, attempt, received, silent, escaped, closeVars>>

DialFails == pc = "dial" /\ Fails

\* The first ping is sent: start returns, and run_forever goes on to receive.
HelloSent ==
  /\ pc = "hello"
  /\ IF looping
     THEN EnterReceiveLoop
     ELSE /\ pc' = "idle"
          /\ UNCHANGED <<looping, attempt, state, connection, received, socket,
                         silent, escaped, closeVars>>

HelloFails == pc = "hello" /\ Fails

------------------------------------------------------------------------------
(* _receive_loop and _handle_data                                          *)

\* A frame can still come from a socket whose closing has not completed.
SocketAlive == \E s \in Sockets : socket[s] \in {"open", "closing"}

\* A control frame, pong or not.
RecvControl ==
  /\ pc = "recv" /\ SocketAlive
  /\ NextFrame
  /\ received' = TRUE
  /\ silent' = 0
  /\ UNCHANGED <<looping, closeVars>>

\* A data frame is dispatched; a closed channel refuses it (RuntimeError).
RecvData ==
  /\ pc = "recv" /\ SocketAlive
  /\ received' = TRUE
  /\ silent' = 0
  /\ IF channelClosed THEN Escape("channel") ELSE pc' = "handle" /\ UNCHANGED escaped
  /\ UNCHANGED <<looping, attempt, state, connection, socket, closeVars>>

\* decode_frame or _handle_data rejects the frame: FeishuProtocolError.
RecvBadFrame ==
  /\ pc = "recv" /\ SocketAlive
  /\ received' = TRUE
  /\ silent' = 0
  /\ Escape("protocol")
  /\ UNCHANGED <<looping, attempt, state, connection, socket, closeVars>>

RecvFails == pc = "recv" /\ Fails

\* The ping interval elapses: send a ping, unless close took the connection.
RecvTimesOut ==
  /\ pc = "recv"
  /\ IF connection = NoSocket
     THEN Fails
     ELSE /\ pc' = "ping"
          /\ UNCHANGED <<looping, attempt, state, connection, received, socket,
                         silent, escaped, closeVars>>

\* The ping is out and the last pong is recent enough.
PingSent ==
  /\ pc = "ping"
  /\ NextFrame
  /\ UNCHANGED <<looping, received, silent, closeVars>>

\* The send fails, or the last pong is too old.
PingFails == pc = "ping" /\ Fails

\* dispatch ended, whatever its outcome: the status is sent.
HandleEnds ==
  /\ pc = "handle"
  /\ IF connection = NoSocket
     THEN Fails
     ELSE /\ pc' = "ack"
          /\ UNCHANGED <<looping, attempt, state, connection, received, socket,
                         silent, escaped, closeVars>>

AckSent ==
  /\ pc = "ack"
  /\ NextFrame
  /\ UNCHANGED <<looping, received, silent, closeVars>>

AckFails == pc = "ack" /\ Fails

------------------------------------------------------------------------------
(* The rest of run_forever's except clause                                 *)

SocketClosed(s) == socket' = [socket EXCEPT ![s] = "closed"]

\* _close_connection returns: go to sleep.
Dropped ==
  /\ pc = "drop"
  /\ \E s \in Sockets : socket[s] = "closing" /\ SocketClosed(s)
  /\ SleepAfter(attempt)
  /\ UNCHANGED <<looping, attempt, state, connection, received, silent, closeVars>>

\* _close_connection raises inside the except clause: FeishuWebSocketError when
\* connection.close() times out, or whatever else that raises.
DropFails ==
  /\ CloseMayFail
  /\ pc = "drop"
  /\ Breaks("close failed")

Woken ==
  /\ pc = "sleep"
  /\ attempt' = attempt + 1
  /\ pc' = "top"
  /\ UNCHANGED <<looping, state, connection, received, socket, silent, escaped,
                 closeVars>>

\* CancelledError at any await of run_forever.
RunnerCancelled ==
  /\ MayCancelRunner
  /\ looping /\ pc \in Awaiting
  /\ Breaks("cancelled")

------------------------------------------------------------------------------
(* close                                                                   *)

\* Mutant of CloseBegin: _connection is cleared only after its close.
CloseBeginKeepsConnection ==
  /\ closer = "idle"
  /\ state' = "closing"
  /\ openingAtClose' = (pc \in {"discover", "dial"})
  /\ IF connection = NoSocket
     THEN closer' = "channel" /\ UNCHANGED socket
     ELSE /\ closer' = "socket"
          /\ socket' = [socket EXCEPT ![connection] = "closing"]
  /\ UNCHANGED <<pc, looping, attempt, connection, received, silent, escaped>>

CloseBegin ==
  /\ closer = "idle"
  /\ state' = "closing"
  /\ openingAtClose' = (pc \in {"discover", "dial"})
  /\ connection' = NoSocket
  /\ IF connection = NoSocket
     THEN closer' = "channel" /\ UNCHANGED socket
     ELSE /\ closer' = "socket"
          /\ socket' = [socket EXCEPT ![connection] = "closing"]
  /\ UNCHANGED <<pc, looping, attempt, received, silent, escaped>>

CloseSocketDone ==
  /\ closer = "socket"
  /\ \E s \in Sockets : socket[s] = "closing" /\ SocketClosed(s)
  /\ closer' = "channel"
  /\ UNCHANGED <<pc, looping, attempt, state, connection, received, silent,
                 openingAtClose, escaped>>

\* connection.close() times out, raises another error or is cancelled, which is
\* raised after the finally clauses have run.
CloseSocketFails ==
  /\ CloseMayFail
  /\ closer = "socket"
  /\ closer' = "channel"
  /\ UNCHANGED <<pc, looping, attempt, state, connection, received, socket,
                 silent, openingAtClose, escaped>>

\* The channel is closed, or that wait is cancelled: the session is next.
CloseChannelDone ==
  /\ closer = "channel"
  /\ closer' = "session"
  /\ UNCHANGED <<pc, looping, attempt, state, connection, received, socket,
                 silent, openingAtClose, escaped>>

\* Or closing the session fails: the state is assigned all the same.
CloseSessionDone ==
  /\ closer = "session"
  /\ closer' = "done"
  /\ state' = "stopped"
  /\ UNCHANGED <<pc, looping, attempt, connection, received, socket, silent,
                 openingAtClose, escaped>>

------------------------------------------------------------------------------
RunnerStep ==
  \/ LoopTop
  \/ DiscoverOk \/ DiscoverFails \/ DiscoverBreaks
  \/ DialOk \/ DialFails
  \/ HelloSent \/ HelloFails
  \/ RecvControl \/ RecvData \/ RecvBadFrame \/ RecvFails \/ RecvTimesOut
  \/ PingSent \/ PingFails
  \/ HandleEnds
  \/ AckSent \/ AckFails
  \/ Dropped \/ DropFails
  \/ Woken

CloserStep ==
  \/ CloseSocketDone \/ CloseSocketFails
  \/ CloseChannelDone
  \/ CloseSessionDone

Next ==
  \/ CallStart
  \/ CallRunForever
  \/ RunnerStep
  \/ RunnerCancelled
  \/ CloseBegin
  \/ CloserStep

(***************************************************************************)
(* Every await of the runner and of close completes: recv by the ping      *)
(* interval's timeout, dispatch by the card action timeout, closing a      *)
(* socket and connecting by their timeouts, sends by TCP's own, sleep by   *)
(* its clock.  With which outcome is open.  Nothing makes the application  *)
(* call anything.                                                          *)
(***************************************************************************)
Spec == Init /\ [][Next]_vars
FairSpec == Spec /\ WF_vars(RunnerStep) /\ WF_vars(CloserStep)

------------------------------------------------------------------------------
(* Properties                                                              *)

\* The shape of the state.
TypeOK ==
  /\ pc \in Awaiting \cup {"idle", "top", "ended"}
  /\ looping \in BOOLEAN
  /\ attempt \in 0..MaxOutage
  /\ state \in {"stopped", "connecting", "connected", "reconnecting", "closing"}
  /\ connection \in Sockets \cup {NoSocket}
  /\ received \in BOOLEAN
  /\ closer \in {"idle", "socket", "channel", "session", "done"}
  /\ socket \in [Sockets -> {"unused", "open", "closing", "closed"}]
  /\ silent \in 0..MaxOutage
  /\ openingAtClose \in BOOLEAN
  /\ escaped \in {"none", "endpoint", "channel", "protocol", "cancelled",
                  "close failed", "overflow"}

\* No socket is ever lost: one that nobody has begun to close is the one
\* _connection names, so that the next failure or close reaches it
\* (websocket.py:103, 222-231).
NoSocketLost == \A s \in Sockets : socket[s] = "open" => connection = s

\* The state the application reads is "connected" exactly while there is a
\* connection to send on, across every failure and a concurrent close, unless
\* that close overtook _open_connection (lines 121-122, 133-135, 169-171).
StateMatchesConnection ==
  ~openingAtClose => ((state = "connected") <=> (connection # NoSocket))

\* The exponent of the delay is the number of connections in a row that
\* brought no frame before this one failed: a connection that only opened
\* does not reset the backoff, one frame does (lines 109, 119-124, 148, 180).
BackoffMatchesOutage == looping /\ pc = "sleep" => attempt + 1 = silent

\* After close has begun no new attempt to connect begins (lines 101, 110).
NoAttemptAfterClose ==
  [][closed /\ pc # "discover" => pc' # "discover"]_vars

\* close closes the socket for good: once it has ended the state stays
\* "stopped" and no socket is open, provided no connection was being opened
\* when it began (lines 128-144).
CloseIsFinalWhenSettled ==
  closer = "done" /\ ~openingAtClose =>
    state = "stopped" /\ \A s \in Sockets : socket[s] # "open"

\* What the docstring of close promises without that proviso: "Close the
\* socket, workers, and any internally-owned HTTP session" (line 129).
CloseIsFinal ==
  closer = "done" /\ pc \in {"idle", "ended"} =>
    state = "stopped" /\ \A s \in Sockets : socket[s] # "open"

\* run_forever is left by an error only if that is not one of a transient
\* connection failure: it is to "retry transient connection failures until
\* closed" (line 108).
RetriesUntilClosed ==
  ~closed => escaped \in {"none", "endpoint", "channel", "protocol", "cancelled"}

\* close makes run_forever end, wherever it was.
CloseEndsRunForever == (closed /\ looping) ~> (pc = "ended")

\* An outage of at most MaxOutage failures is survived: run_forever
\* reconnects, unless it is closed, or an error it does not retry ends it.
Recovers == (state = "reconnecting") ~> (state = "connected" \/ closed \/ pc = "ended")
==============================================================================
