----------------------- MODULE FeishuWebSocket_proof ------------------------
(***************************************************************************)
(* Proofs about FeishuWebSocket, for any sockets, any length of outages    *)
(* and any largest exponent, with closes that fail and with cancellation.  *)
(***************************************************************************)
EXTENDS FeishuWebSocket, TLAPS

Opening == {"discover", "dial"}
Connected == {"hello", "recv", "handle", "ack", "ping"}

\* There is no connection while one is opened, or after one was dropped.
Unconnected == pc \in Opening \cup {"drop", "sleep"} => connection = NoSocket

\* A close that overtook no opening leaves nothing that could undo it.
Settled ==
  /\ closed /\ ~openingAtClose =>
       /\ pc \notin Opening
       /\ connection = NoSocket
       /\ state = IF closer = "done" THEN "stopped" ELSE "closing"
  /\ ~closed => ~openingAtClose

\* attempt counts the outage, at every await of run_forever.
Counted ==
  /\ ~looping => /\ attempt = 0 /\ silent = 0 /\ ~received
                 /\ pc \in Opening \cup {"idle", "hello"}
  /\ looping => pc # "idle"
  /\ pc \in {"drop", "sleep"} => attempt + 1 = silent
  /\ pc = "top" => attempt = silent /\ (connection # NoSocket => ~received)
  /\ pc \in Opening => ~received
  /\ pc \in Opening \cup Connected =>
       IF received THEN silent = 0 ELSE attempt = silent

IInv ==
  TypeOK /\ NoSocketLost /\ Unconnected /\ Settled /\ StateMatchesConnection
         /\ Counted
\* TypeOK in three parts.
Flags ==
  /\ looping \in BOOLEAN
  /\ received \in BOOLEAN
  /\ openingAtClose \in BOOLEAN
Places ==
  /\ pc \in Awaiting \cup {"idle", "top", "ended"}
  /\ state \in {"stopped", "connecting", "connected", "reconnecting", "closing"}
  /\ connection \in Sockets \cup {NoSocket}
  /\ closer \in {"idle", "socket", "channel", "session", "done"}
  /\ socket \in [Sockets -> {"unused", "open", "closing", "closed"}]
  /\ escaped \in {"none", "endpoint", "channel", "protocol", "cancelled",
                  "close failed", "overflow"}
Counts == attempt \in 0..MaxOutage /\ silent \in 0..MaxOutage

\* The shape of the state, part by part.
LEMMA TypeParts == TypeOK <=> Flags /\ Places /\ Counts
BY DEF TypeOK, Flags, Places, Counts

------------------------------------------------------------------------------
\* The initial state satisfies the invariant.
LEMMA InitInv == Init => IInv
<1> SUFFICES ASSUME Init PROVE IInv
  OBVIOUS
<1>1. TypeOK
  <2>1. Flags
    BY DEF Init, Flags
  <2>2. Places /\ Counts
    BY WebSocketAssumption DEF WebSocketAssumption, Init, Places, Counts
  <2> QED
    BY <2>1, <2>2, TypeParts
<1>2. NoSocketLost /\ Unconnected
  BY DEF Init, NoSocketLost, Unconnected, Opening
<1>3. Settled /\ StateMatchesConnection
  BY DEF Init, Settled, StateMatchesConnection, closed
<1>4. Counted
  BY DEF Init, Counted, Opening, Connected
<1> QED
  BY <1>1, <1>2, <1>3, <1>4 DEF IInv

\* Where start or run_forever may fail, and what it knows there.
Attempting == Opening \cup Connected

\* A failure keeps the invariant, wherever it strikes.
LEMMA FailsKeeps ==
  ASSUME IInv, Fails, pc \in Attempting
  PROVE  IInv'
<1>1. TypeOK'
  <2>1. CASE ~looping \/ closed
    BY <2>1 DEF IInv, TypeOK, Fails, Reconnect, closeVars, Awaiting
  <2>2. CASE looping /\ ~closed
    <3>1. Flags /\ Places /\ Counts
      BY TypeParts DEF IInv
    <3>2. Retry /\ UNCHANGED <<looping, received, closer, openingAtClose>>
      BY <2>2 DEF Fails, Reconnect, closeVars
    <3>3. Flags'
      BY <3>1, <3>2 DEF Flags
    <3>4. Places'
      BY <3>1, <3>2 DEF Retry, SleepAfter, Escape, Places, Awaiting
    <3>5. NextAttempt \in 0..MaxOutage
      BY <3>1, WebSocketAssumption DEF NextAttempt, Counts, WebSocketAssumption
    <3>6. Counts'
      BY <3>1, <3>2, <3>5, WebSocketAssumption DEF Retry, Counts, WebSocketAssumption
    <3> QED
      BY <3>3, <3>4, <3>6 DEF TypeOK, Flags, Places, Counts
  <2> QED
    BY <2>1, <2>2
<1>2. NoSocketLost'
  BY DEF IInv, TypeOK, NoSocketLost, Fails, Reconnect, Retry, SleepAfter, Escape,
      closeVars
<1>3. Unconnected' /\ Settled' /\ StateMatchesConnection'
  BY DEF IInv, Unconnected, Settled, StateMatchesConnection, closed, Fails, Reconnect,
      Retry, SleepAfter, Escape, closeVars, Attempting, Opening, Connected
<1>4. Counted'
  BY DEF IInv, TypeOK, Counted, Fails, Reconnect, Retry, SleepAfter, Escape, NextAttempt,
      closeVars, Attempting, Opening, Connected
<1> QED
  BY <1>1, <1>2, <1>3, <1>4 DEF IInv

\* An error that is not retried keeps it.
LEMMA BreaksKeeps ==
  ASSUME IInv, NEW error, Breaks(error), pc \in Awaiting,
         error \in {"endpoint", "cancelled", "close failed"}
  PROVE  IInv'
<1>1. TypeOK'
  BY DEF Breaks, Escape, closeVars, IInv, TypeOK, Awaiting
<1>2. NoSocketLost'
  BY DEF Breaks, Escape, closeVars, IInv, TypeOK, NoSocketLost
<1>3. Unconnected'
  BY DEF Breaks, Escape, closeVars, IInv, Unconnected, Opening
<1>4. Settled'
  BY DEF Breaks, Escape, closeVars, IInv, Settled, closed, Opening
<1>5. StateMatchesConnection'
  BY DEF Breaks, Escape, closeVars, IInv, Settled, StateMatchesConnection, closed
<1>6. Counted'
  BY DEF Breaks, Escape, closeVars, IInv, Unconnected, Counted, Opening, Connected
<1> QED
  BY <1>1, <1>2, <1>3, <1>4, <1>5, <1>6 DEF IInv

\* The steps of the application's task keep it.
LEMMA RunnerKeeps == IInv /\ RunnerStep => IInv'
<1> SUFFICES ASSUME IInv, RunnerStep PROVE IInv'
  OBVIOUS
<1>1. CASE LoopTop
  <2>1. TypeOK'
    <3>1. Flags /\ Places /\ Counts
      BY TypeParts DEF IInv
    <3>2. Flags'
      BY <1>1, <3>1 DEF LoopTop, BeginStart, closeVars, Flags
    <3>3. Places'
      BY <1>1, <3>1 DEF LoopTop, BeginStart, closeVars, Places, Awaiting
    <3>4. Counts'
      BY <1>1, <3>1 DEF LoopTop, BeginStart, closeVars, Counts
    <3> QED
      BY <3>2, <3>3, <3>4 DEF TypeOK, Flags, Places, Counts
  <2>2. NoSocketLost'
    BY <1>1 DEF LoopTop, BeginStart, closeVars, IInv, TypeOK, NoSocketLost
  <2>3. Unconnected'
    BY <1>1 DEF LoopTop, BeginStart, closeVars, IInv, Unconnected, Opening
  <2>4. Settled'
    BY <1>1 DEF LoopTop, BeginStart, closeVars, IInv, Settled, closed, Opening
  <2>5. StateMatchesConnection'
    BY <1>1 DEF LoopTop, BeginStart, closeVars, IInv, Settled, StateMatchesConnection,
       closed
  <2>6. Counted'
    BY <1>1 DEF LoopTop, BeginStart, closeVars, IInv, Unconnected, Counted, Opening,
       Connected
  <2> QED
    BY <2>1, <2>2, <2>3, <2>4, <2>5, <2>6 DEF IInv
<1>2. CASE DiscoverOk
  <2>1. TypeOK'
    <3>1. Flags /\ Places /\ Counts
      BY TypeParts DEF IInv
    <3>2. Flags'
      BY <1>2, <3>1 DEF DiscoverOk, closeVars, Flags
    <3>3. Places'
      BY <1>2, <3>1 DEF DiscoverOk, closeVars, Places, Awaiting
    <3>4. Counts'
      BY <1>2, <3>1 DEF DiscoverOk, closeVars, Counts
    <3> QED
      BY <3>2, <3>3, <3>4 DEF TypeOK, Flags, Places, Counts
  <2>2. NoSocketLost'
    BY <1>2 DEF DiscoverOk, closeVars, IInv, TypeOK, NoSocketLost
  <2>3. Unconnected'
    BY <1>2 DEF DiscoverOk, closeVars, IInv, Unconnected, Opening
  <2>4. Settled'
    BY <1>2 DEF DiscoverOk, closeVars, IInv, Settled, closed, Opening
  <2>5. StateMatchesConnection'
    BY <1>2 DEF DiscoverOk, closeVars, IInv, Settled, StateMatchesConnection, closed
  <2>6. Counted'
    BY <1>2 DEF DiscoverOk, closeVars, IInv, Unconnected, Counted, Opening, Connected
  <2> QED
    BY <2>1, <2>2, <2>3, <2>4, <2>5, <2>6 DEF IInv
<1>3. CASE DiscoverFails \/ DialFails \/ HelloFails \/ RecvFails \/ PingFails \/ AckFails
  BY <1>3, FailsKeeps
  DEF DiscoverFails, DialFails, HelloFails, RecvFails, PingFails, AckFails,
      Attempting, Opening, Connected
<1>4. CASE DiscoverBreaks
  BY <1>4, BreaksKeeps DEF DiscoverBreaks, Awaiting
<1>5. CASE DialOk
  <2>1. PICK s \in Sockets : /\ connection' = s
                             /\ socket' = [socket EXCEPT ![s] = "open"]
    BY <1>5 DEF DialOk
  <2>2. TypeOK'
    <3>1. Flags /\ Places /\ Counts
      BY TypeParts DEF IInv
    <3>2. Flags'
      BY <1>5, <2>1, <3>1 DEF DialOk, closeVars, Flags
    <3>3. Places'
      BY <1>5, <2>1, <3>1 DEF DialOk, closeVars, Places, Awaiting
    <3>4. Counts'
      BY <1>5, <2>1, <3>1 DEF DialOk, closeVars, Counts
    <3> QED
      BY <3>2, <3>3, <3>4 DEF TypeOK, Flags, Places, Counts
  <2>3. NoSocketLost'
    <3>1. \A t \in Sockets : socket[t] # "open"
      BY <1>5, WebSocketAssumption
      DEF WebSocketAssumption, DialOk, IInv, NoSocketLost, Unconnected, Opening
    <3>2. socket' \in [Sockets -> {"unused", "open", "closing", "closed"}]
          /\ \A t \in Sockets \ {s} : socket'[t] = socket[t]
      BY <2>1 DEF IInv, TypeOK
    <3> QED
      BY <2>1, <3>1, <3>2 DEF NoSocketLost
  <2>4. s # NoSocket
    BY <2>1, WebSocketAssumption DEF WebSocketAssumption
  <2>5. Unconnected' /\ Settled' /\ StateMatchesConnection'
    BY <1>5, <2>1, <2>4
    DEF DialOk, closeVars, IInv, Unconnected, Settled, StateMatchesConnection, closed,
        Opening
  <2>6. Counted'
    BY <1>5 DEF DialOk, closeVars, IInv, Counted, Opening, Connected
  <2> QED
    BY <2>2, <2>3, <2>5, <2>6 DEF IInv
<1>6. CASE HelloSent
  <2>1. CASE looping /\ connection = NoSocket
    BY <1>6, <2>1, FailsKeeps
    DEF HelloSent, EnterReceiveLoop, Attempting, Opening, Connected
  <2>2. CASE ~(looping /\ connection = NoSocket)
    <3>1. TypeOK'
      <4>1. Flags /\ Places /\ Counts
        BY TypeParts DEF IInv
      <4>2. Flags'
        BY <1>6, <2>2, <4>1 DEF HelloSent, EnterReceiveLoop, NextFrame, closeVars,
           Flags
      <4>3. Places'
        BY <1>6, <2>2, <4>1 DEF HelloSent, EnterReceiveLoop, NextFrame, closeVars,
           Places, Awaiting
      <4>4. Counts'
        BY <1>6, <2>2, <4>1 DEF HelloSent, EnterReceiveLoop, NextFrame, closeVars,
           Counts
      <4> QED
        BY <4>2, <4>3, <4>4 DEF TypeOK, Flags, Places, Counts
    <3>2. NoSocketLost'
      BY <1>6, <2>2 DEF HelloSent, EnterReceiveLoop, NextFrame, closeVars, IInv,
         TypeOK, NoSocketLost
    <3>3. Unconnected'
      BY <1>6, <2>2 DEF HelloSent, EnterReceiveLoop, NextFrame, closeVars, IInv,
         Unconnected, Opening
    <3>4. Settled'
      BY <1>6, <2>2 DEF HelloSent, EnterReceiveLoop, NextFrame, closeVars, IInv,
         Settled, closed, Opening
    <3>5. StateMatchesConnection'
      BY <1>6, <2>2 DEF HelloSent, EnterReceiveLoop, NextFrame, closeVars, IInv,
         Settled, StateMatchesConnection, closed
    <3>6. Counted'
      BY <1>6, <2>2 DEF HelloSent, EnterReceiveLoop, NextFrame, closeVars, IInv,
         Unconnected, Counted, Opening, Connected
    <3> QED
      BY <3>1, <3>2, <3>3, <3>4, <3>5, <3>6 DEF IInv
  <2> QED
    BY <2>1, <2>2
<1>7. CASE RecvControl \/ RecvData \/ RecvBadFrame
  <2>1. TypeOK'
    <3>1. Flags /\ Places /\ Counts
      BY TypeParts DEF IInv
    <3>2. Flags'
      BY <1>7, <3>1 DEF RecvControl, RecvData, RecvBadFrame, closeVars, Flags
    <3>3. Places'
      BY <1>7, <3>1
      DEF RecvControl, RecvData, RecvBadFrame, NextFrame, Escape, closeVars, Places,
          Awaiting
    <3>4. Counts'
      BY <1>7, <3>1, WebSocketAssumption
      DEF RecvControl, RecvData, RecvBadFrame, NextFrame, Counts, WebSocketAssumption
    <3> QED
      BY <3>2, <3>3, <3>4 DEF TypeOK, Flags, Places, Counts
  <2>2. NoSocketLost'
    BY <1>7 DEF RecvControl, RecvData, RecvBadFrame, NextFrame, Escape, closeVars,
       IInv, TypeOK, NoSocketLost
  <2>3. Unconnected'
    BY <1>7 DEF RecvControl, RecvData, RecvBadFrame, NextFrame, Escape, closeVars,
       IInv, Unconnected, Opening
  <2>4. Settled'
    BY <1>7 DEF RecvControl, RecvData, RecvBadFrame, NextFrame, Escape, closeVars,
       IInv, Settled, closed, Opening
  <2>5. StateMatchesConnection'
    BY <1>7 DEF RecvControl, RecvData, RecvBadFrame, NextFrame, Escape, closeVars,
       IInv, Settled, StateMatchesConnection, closed
  <2>6. Counted'
    BY <1>7 DEF RecvControl, RecvData, RecvBadFrame, NextFrame, Escape, closeVars,
       IInv, Unconnected, Counted, Opening, Connected
  <2> QED
    BY <2>1, <2>2, <2>3, <2>4, <2>5, <2>6 DEF IInv
<1>8. CASE RecvTimesOut \/ HandleEnds
  <2>1. CASE connection = NoSocket
    BY <1>8, <2>1, FailsKeeps
    DEF RecvTimesOut, HandleEnds, Attempting, Opening, Connected
  <2>2. CASE connection # NoSocket
    <3>1. TypeOK'
      <4>1. Flags /\ Places /\ Counts
        BY TypeParts DEF IInv
      <4>2. Flags'
        BY <1>8, <2>2, <4>1 DEF RecvTimesOut, HandleEnds, closeVars, Flags
      <4>3. Places'
        BY <1>8, <2>2, <4>1 DEF RecvTimesOut, HandleEnds, closeVars, Places, Awaiting
      <4>4. Counts'
        BY <1>8, <2>2, <4>1 DEF RecvTimesOut, HandleEnds, closeVars, Counts
      <4> QED
        BY <4>2, <4>3, <4>4 DEF TypeOK, Flags, Places, Counts
    <3>2. NoSocketLost'
      BY <1>8, <2>2 DEF RecvTimesOut, HandleEnds, closeVars, IInv, TypeOK,
         NoSocketLost
    <3>3. Unconnected'
      BY <1>8, <2>2 DEF RecvTimesOut, HandleEnds, closeVars, IInv, Unconnected,
         Opening
    <3>4. Settled'
      BY <1>8, <2>2 DEF RecvTimesOut, HandleEnds, closeVars, IInv, Settled, closed,
         Opening
    <3>5. StateMatchesConnection'
      BY <1>8, <2>2 DEF RecvTimesOut, HandleEnds, closeVars, IInv, Settled,
         StateMatchesConnection, closed
    <3>6. Counted'
      BY <1>8, <2>2 DEF RecvTimesOut, HandleEnds, closeVars, IInv, Unconnected,
         Counted, Opening, Connected
    <3> QED
      BY <3>1, <3>2, <3>3, <3>4, <3>5, <3>6 DEF IInv
  <2> QED
    BY <2>1, <2>2
<1>9. CASE PingSent \/ AckSent
  <2>1. TypeOK'
    <3>1. Flags /\ Places /\ Counts
      BY TypeParts DEF IInv
    <3>2. Flags'
      BY <1>9, <3>1 DEF PingSent, AckSent, NextFrame, closeVars, Flags
    <3>3. Places'
      BY <1>9, <3>1 DEF PingSent, AckSent, NextFrame, closeVars, Places, Awaiting
    <3>4. Counts'
      BY <1>9, <3>1 DEF PingSent, AckSent, NextFrame, closeVars, Counts
    <3> QED
      BY <3>2, <3>3, <3>4 DEF TypeOK, Flags, Places, Counts
  <2>2. NoSocketLost'
    BY <1>9 DEF PingSent, AckSent, NextFrame, closeVars, IInv, TypeOK, NoSocketLost
  <2>3. Unconnected'
    BY <1>9 DEF PingSent, AckSent, NextFrame, closeVars, IInv, Unconnected, Opening
  <2>4. Settled'
    BY <1>9 DEF PingSent, AckSent, NextFrame, closeVars, IInv, Settled, closed,
       Opening
  <2>5. StateMatchesConnection'
    BY <1>9 DEF PingSent, AckSent, NextFrame, closeVars, IInv, Settled,
       StateMatchesConnection, closed
  <2>6. Counted'
    BY <1>9 DEF PingSent, AckSent, NextFrame, closeVars, IInv, Unconnected, Counted,
       Opening, Connected
  <2> QED
    BY <2>1, <2>2, <2>3, <2>4, <2>5, <2>6 DEF IInv
<1>10. CASE Dropped
  <2>1. PICK s \in Sockets : socket[s] = "closing" /\ SocketClosed(s)
    BY <1>10 DEF Dropped
  <2>2. TypeOK'
    <3>1. Flags /\ Places /\ Counts
      BY TypeParts DEF IInv
    <3>2. Flags'
      BY <1>10, <2>1, <3>1 DEF Dropped, SocketClosed, SleepAfter, Escape, closeVars,
         Flags
    <3>3. Places'
      BY <1>10, <2>1, <3>1 DEF Dropped, SocketClosed, SleepAfter, Escape, closeVars,
         Places, Awaiting
    <3>4. Counts'
      BY <1>10, <2>1, <3>1 DEF Dropped, SocketClosed, SleepAfter, Escape, closeVars,
         Counts
    <3> QED
      BY <3>2, <3>3, <3>4 DEF TypeOK, Flags, Places, Counts
  <2>3. NoSocketLost'
    BY <1>10, <2>1 DEF Dropped, SocketClosed, SleepAfter, Escape, closeVars, IInv,
       TypeOK, NoSocketLost
  <2>4. Unconnected'
    BY <1>10, <2>1 DEF Dropped, SocketClosed, SleepAfter, Escape, closeVars, IInv,
       Unconnected, Opening
  <2>5. Settled'
    BY <1>10, <2>1 DEF Dropped, SocketClosed, SleepAfter, Escape, closeVars, IInv,
       Settled, closed, Opening
  <2>6. StateMatchesConnection'
    BY <1>10, <2>1 DEF Dropped, SocketClosed, SleepAfter, Escape, closeVars, IInv,
       Settled, StateMatchesConnection, closed
  <2>7. Counted'
    BY <1>10, <2>1 DEF Dropped, SocketClosed, SleepAfter, Escape, closeVars, IInv,
       Unconnected, Counted, Opening, Connected
  <2> QED
    BY <2>2, <2>3, <2>4, <2>5, <2>6, <2>7 DEF IInv
<1>11. CASE DropFails
  BY <1>11, BreaksKeeps DEF DropFails, Awaiting
<1>12. CASE Woken
  <2>1. TypeOK'
    <3>1. Flags /\ Places /\ Counts /\ attempt + 1 = silent
      BY <1>12, TypeParts DEF IInv, Woken, Counted
    <3>2. Flags'
      BY <1>12, <3>1 DEF Woken, closeVars, Flags
    <3>3. Places' /\ Counts'
      BY <1>12, <3>1 DEF Woken, closeVars, Places, Counts
    <3> QED
      BY <3>2, <3>3 DEF TypeOK, Flags, Places, Counts
  <2>2. NoSocketLost'
    BY <1>12 DEF Woken, closeVars, IInv, TypeOK, NoSocketLost
  <2>3. Unconnected'
    BY <1>12 DEF Woken, closeVars, IInv, Unconnected, Opening
  <2>4. Settled'
    BY <1>12 DEF Woken, closeVars, IInv, Settled, closed, Opening
  <2>5. StateMatchesConnection'
    BY <1>12 DEF Woken, closeVars, IInv, Settled, StateMatchesConnection, closed
  <2>6. Counted'
    BY <1>12 DEF Woken, closeVars, IInv, Unconnected, Counted, Opening, Connected
  <2> QED
    BY <2>1, <2>2, <2>3, <2>4, <2>5, <2>6 DEF IInv
<1> QED
  BY <1>1, <1>2, <1>3, <1>4, <1>5, <1>6, <1>7, <1>8, <1>9, <1>10, <1>11, <1>12
  DEF RunnerStep

\* So do close and the application's calls.
LEMMA NextInv == IInv /\ [Next]_vars => IInv'
<1> SUFFICES ASSUME IInv, [Next]_vars PROVE IInv'
  OBVIOUS
<1>1. CASE CallStart \/ CallRunForever
  <2>1. TypeOK'
    <3>1. Flags /\ Places /\ Counts
      BY TypeParts DEF IInv
    <3>2. Flags'
      BY <1>1, <3>1 DEF CallStart, CallRunForever, BeginStart, closeVars, Flags
    <3>3. Places'
      BY <1>1, <3>1 DEF CallStart, CallRunForever, BeginStart, closeVars, Places,
         Awaiting
    <3>4. Counts'
      BY <1>1, <3>1 DEF CallStart, CallRunForever, BeginStart, closeVars, Counts
    <3> QED
      BY <3>2, <3>3, <3>4 DEF TypeOK, Flags, Places, Counts
  <2>2. NoSocketLost'
    BY <1>1 DEF CallStart, CallRunForever, BeginStart, closeVars, IInv, TypeOK,
       NoSocketLost
  <2>3. Unconnected'
    BY <1>1 DEF CallStart, CallRunForever, BeginStart, closeVars, IInv, Unconnected,
       Opening
  <2>4. Settled'
    BY <1>1 DEF CallStart, CallRunForever, BeginStart, closeVars, IInv, Settled,
       closed, Opening
  <2>5. StateMatchesConnection'
    BY <1>1 DEF CallStart, CallRunForever, BeginStart, closeVars, IInv, Settled,
       StateMatchesConnection, closed
  <2>6. Counted'
    BY <1>1 DEF CallStart, CallRunForever, BeginStart, closeVars, IInv, Unconnected,
       Counted, Opening, Connected
  <2> QED
    BY <2>1, <2>2, <2>3, <2>4, <2>5, <2>6 DEF IInv
<1>2. CASE RunnerCancelled
  BY <1>2, BreaksKeeps DEF RunnerCancelled
<1>3. CASE CloseBegin
  <2>1. TypeOK'
    <3>1. openingAtClose' \in BOOLEAN
      <4>1. CASE pc \in {"discover", "dial"}
        BY <1>3, <4>1 DEF CloseBegin
      <4>2. CASE pc \notin {"discover", "dial"}
        BY <1>3, <4>2 DEF CloseBegin
      <4> QED
        BY <4>1, <4>2
    <3> QED
      BY <1>3, <3>1 DEF CloseBegin, IInv, TypeOK
  <2>2. NoSocketLost'
    BY <1>3 DEF CloseBegin, IInv, TypeOK, NoSocketLost
  <2>3. Unconnected' /\ Settled' /\ StateMatchesConnection' /\ Counted'
    BY <1>3
    DEF CloseBegin, IInv, Unconnected, Settled, StateMatchesConnection, Counted, closed,
        Opening, Connected
  <2> QED
    BY <2>1, <2>2, <2>3 DEF IInv
<1>4. CASE CloserStep
  <2>1. TypeOK'
    <3>1. Flags /\ Places /\ Counts
      BY TypeParts DEF IInv
    <3>2. Flags'
      BY <1>4, <3>1 DEF CloserStep, CloseSocketDone, CloseSocketFails,
         CloseChannelDone, CloseSessionDone, SocketClosed, Flags
    <3>3. Places'
      BY <1>4, <3>1 DEF CloserStep, CloseSocketDone, CloseSocketFails,
         CloseChannelDone, CloseSessionDone, SocketClosed, Places, Awaiting
    <3>4. Counts'
      BY <1>4, <3>1 DEF CloserStep, CloseSocketDone, CloseSocketFails,
         CloseChannelDone, CloseSessionDone, SocketClosed, Counts
    <3> QED
      BY <3>2, <3>3, <3>4 DEF TypeOK, Flags, Places, Counts
  <2>2. NoSocketLost'
    BY <1>4 DEF CloserStep, CloseSocketDone, CloseSocketFails, CloseChannelDone,
       CloseSessionDone, SocketClosed, IInv, TypeOK, NoSocketLost
  <2>3. Unconnected'
    BY <1>4 DEF CloserStep, CloseSocketDone, CloseSocketFails, CloseChannelDone,
       CloseSessionDone, SocketClosed, IInv, Unconnected, Opening
  <2>4. Settled'
    BY <1>4 DEF CloserStep, CloseSocketDone, CloseSocketFails, CloseChannelDone,
       CloseSessionDone, SocketClosed, IInv, Settled, closed, Opening
  <2>5. StateMatchesConnection'
    BY <1>4 DEF CloserStep, CloseSocketDone, CloseSocketFails, CloseChannelDone,
       CloseSessionDone, SocketClosed, IInv, Settled, StateMatchesConnection, closed
  <2>6. Counted'
    BY <1>4 DEF CloserStep, CloseSocketDone, CloseSocketFails, CloseChannelDone,
       CloseSessionDone, SocketClosed, IInv, Unconnected, Counted, Opening, Connected
  <2> QED
    BY <2>1, <2>2, <2>3, <2>4, <2>5, <2>6 DEF IInv
<1>5. CASE UNCHANGED vars
  <2>1. TypeOK'
    <3>1. Flags /\ Places /\ Counts
      BY TypeParts DEF IInv
    <3>2. Flags'
      BY <1>5, <3>1 DEF vars, Flags
    <3>3. Places' /\ Counts'
      BY <1>5, <3>1 DEF vars, Places, Counts
    <3> QED
      BY <3>2, <3>3 DEF TypeOK, Flags, Places, Counts
  <2>2. NoSocketLost'
    BY <1>5 DEF vars, IInv, TypeOK, NoSocketLost
  <2>3. Unconnected'
    BY <1>5 DEF vars, IInv, Unconnected, Opening
  <2>4. Settled'
    BY <1>5 DEF vars, IInv, Settled, closed, Opening
  <2>5. StateMatchesConnection'
    BY <1>5 DEF vars, IInv, Settled, StateMatchesConnection, closed
  <2>6. Counted'
    BY <1>5 DEF vars, IInv, Unconnected, Counted, Opening, Connected
  <2> QED
    BY <2>1, <2>2, <2>3, <2>4, <2>5, <2>6 DEF IInv
<1> QED
  BY <1>1, <1>2, <1>3, <1>4, <1>5, RunnerKeeps DEF Next

------------------------------------------------------------------------------
\* The lifecycle's invariant holds throughout.
THEOREM Invariance == Spec => []IInv
BY InitInv, NextInv, PTL DEF Spec

\* The state of the connection keeps its shape; the outage bounds the attempts.
THEOREM TypeCorrect == Spec => []TypeOK
<1>1. IInv => TypeOK
  BY DEF IInv
<1> QED
  BY <1>1, Invariance, PTL

\* No error path and no close loses a socket (websocket.py:222-231).
THEOREM SocketsAreKept == Spec => []NoSocketLost
<1>1. IInv => NoSocketLost
  BY DEF IInv
<1> QED
  BY <1>1, Invariance, PTL

\* The state the application reads is the connection's.
THEOREM StateIsTruthful == Spec => []StateMatchesConnection
<1>1. IInv => StateMatchesConnection
  BY DEF IInv
<1> QED
  BY <1>1, Invariance, PTL

\* The backoff's exponent follows the outage, however long.
THEOREM BackoffFollowsOutage == Spec => []BackoffMatchesOutage
<1>1. IInv => BackoffMatchesOutage
  BY DEF IInv, Counted, BackoffMatchesOutage
<1> QED
  BY <1>1, Invariance, PTL

\* A close that overtook no opening is final.
THEOREM SettledCloseIsFinal == Spec => []CloseIsFinalWhenSettled
<1>1. IInv => CloseIsFinalWhenSettled
  BY WebSocketAssumption
  DEF WebSocketAssumption, IInv, NoSocketLost, Settled, CloseIsFinalWhenSettled, closed
<1> QED
  BY <1>1, Invariance, PTL

\* Nothing connects after close has begun (lines 101, 110).
THEOREM ClosedStaysUnconnected == Spec => NoAttemptAfterClose
<1>1. [Next]_vars => [closed /\ pc # "discover" => pc' # "discover"]_vars
  <2> SUFFICES ASSUME Next, closed, pc # "discover" PROVE pc' # "discover"
    BY DEF vars, closed
  <2> QED
    BY DEF Next, CallStart, CallRunForever, RunnerStep, RunnerCancelled, CloseBegin,
       CloserStep, LoopTop, BeginStart, DiscoverOk, DiscoverFails, DiscoverBreaks,
       DialOk, DialFails, HelloSent, HelloFails, RecvControl, RecvData, RecvBadFrame,
       RecvFails, RecvTimesOut, PingSent, PingFails, HandleEnds, AckSent, AckFails,
       Dropped, DropFails, Woken, CloseSocketDone, CloseSocketFails,
       CloseChannelDone, CloseSessionDone, Fails, Reconnect, Retry, SleepAfter, Escape,
       Breaks, NextFrame, EnterReceiveLoop
<1> QED
  BY <1>1, PTL DEF Spec, NoAttemptAfterClose

\* The exponent of every delay converts to a float, if outages are no longer.
LEMMA DelaysAreFinite ==
  ASSUME IInv, MaxOutage <= MaxExponent + 1
  PROVE  /\ pc = "drop" => attempt <= MaxExponent
         /\ pc \in Opening \cup Connected /\ silent < MaxOutage =>
              NextAttempt <= MaxExponent
<1>1. /\ attempt \in 0..MaxOutage /\ silent \in 0..MaxOutage
      /\ MaxOutage \in Nat /\ MaxExponent \in Nat
  BY WebSocketAssumption, TypeParts DEF IInv, Counts, WebSocketAssumption
<1>2. ASSUME pc = "drop" PROVE attempt <= MaxExponent
  <2>1. attempt + 1 = silent
    BY <1>2 DEF IInv, Counted
  <2> QED
    BY <1>1, <2>1
<1>3. ASSUME pc \in Opening \cup Connected, silent < MaxOutage
      PROVE  NextAttempt <= MaxExponent
  <2>1. CASE received
    BY <1>1, <2>1 DEF NextAttempt
  <2>2. CASE ~received
    <3>1. attempt = silent
      BY <1>3, <2>2 DEF IInv, Counted
    <3>2. attempt <= MaxExponent
      BY <1>1, <1>3, <3>1
    <3> QED
      BY <2>2, <3>2 DEF NextAttempt
  <2> QED
    BY <2>1, <2>2
<1> QED
  BY <1>2, <1>3

\* run_forever retries every transient failure until it is closed, if closing
\* a broken connection never fails and outages end before 2**attempt outgrows
\* a float: what the run websocket_long_outage shows, and that failure, are the
\* only causes that end it (lines 108, 122, 252).
THEOREM OutagesAreRetried ==
  ASSUME CloseMayFail = FALSE, MaxOutage <= MaxExponent + 1
  PROVE  Spec => []RetriesUntilClosed
<1> DEFINE Named == escaped \notin {"close failed", "overflow"}
<1>1. Init => Named
  BY DEF Init
<1>2. IInv /\ Named /\ [Next]_vars => Named'
  <2> SUFFICES ASSUME IInv, Named, [Next]_vars PROVE Named'
    OBVIOUS
  <2>1. ASSUME pc \in Opening \cup Connected, Fails PROVE Named'
    <3>1. CASE Retry
      <4>1. NextAttempt <= MaxExponent
        BY <2>1, <3>1, DelaysAreFinite DEF Retry
      <4> QED
        BY <3>1, <4>1 DEF Retry, SleepAfter
    <3>2. CASE escaped' = escaped
      BY <3>2
    <3> QED
      BY <2>1, <3>1, <3>2 DEF Fails, Reconnect
  <2>7. ~DropFails
    BY DEF DropFails
  <2>2. CASE Dropped
    <3>1. attempt <= MaxExponent
      BY <2>2, DelaysAreFinite DEF Dropped
    <3> QED
      BY <2>2, <3>1 DEF Dropped, SleepAfter
  <2>3. ASSUME NEW error \in {"endpoint", "channel", "protocol", "cancelled"},
               Escape(error)
        PROVE  Named'
    BY <2>3 DEF Escape
  <2>4. CASE /\ RunnerStep /\ ~Dropped /\ escaped' # escaped
             /\ ~(pc \in Opening \cup Connected /\ Fails)
    <3>1. \/ DiscoverBreaks \/ RecvData \/ RecvBadFrame
      BY <2>4, <2>7 DEF RunnerStep, LoopTop, BeginStart, DiscoverOk, DiscoverFails, DialOk,
         DialFails, HelloSent, HelloFails, RecvControl, RecvFails, RecvTimesOut,
         PingSent, PingFails, HandleEnds, AckSent, AckFails, Woken,
         EnterReceiveLoop, NextFrame, Opening, Connected
    <3> QED
      BY <2>3, <2>4, <3>1 DEF DiscoverBreaks, RecvData, RecvBadFrame, Breaks
  <2>5. CASE RunnerCancelled
    BY <2>3, <2>5 DEF RunnerCancelled, Breaks
  <2>6. CASE CallStart \/ CallRunForever \/ CloseBegin \/ CloserStep \/ UNCHANGED vars
    BY <2>6 DEF CallStart, BeginStart, CallRunForever, CloseBegin, CloserStep, vars,
       CloseSocketDone, CloseSocketFails, CloseChannelDone, CloseSessionDone
  <2> QED
    BY <2>1, <2>2, <2>4, <2>5, <2>6 DEF Next
<1>3. IInv /\ Named => RetriesUntilClosed
  BY DEF IInv, TypeOK, RetriesUntilClosed
<1> QED
  BY <1>1, <1>2, <1>3, Invariance, PTL DEF Spec
=============================================================================
