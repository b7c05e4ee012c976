------------------------- MODULE TokenManager_proof -------------------------
(***************************************************************************)
(* What TokenManager promises for any number of calls, any lifetimes and   *)
(* any latency the skew covers: proofs of its safety properties.           *)
(***************************************************************************)
EXTENDS TokenManager, TLAPS

(***************************************************************************)
(* The inductive invariant.  The lock makes a refresh exclusive, so the    *)
(* only grant under way is newer than the cached one; a grant under way is *)
(* at most MaxLatency old, so expiresAt is at most that late.              *)
(***************************************************************************)

\* TypeOK without the lock's queue, which no property depends on.
Shape ==
  /\ now \in Nat
  /\ token \in 0..MaxTokens
  /\ expiresAt \in Nat
  /\ holder \in Calls \cup {Nobody}
  /\ pc \in [Calls -> {"new", "waiting", "refresh", "returned", "failed", "cancelled"}]
  /\ force \in [Calls -> BOOLEAN]
  /\ observed \in [Calls -> 0..MaxTokens]
  /\ result \in [Calls -> 0..MaxTokens]
  /\ flight \in [Calls -> 0..MaxTokens]
  /\ granted \in 0..MaxTokens
  /\ grant \in [1..MaxTokens -> [at : Nat, life : Nat]]

\* The call in _refresh is the one that holds the lock.
RefreshHoldsLock == \A c \in Calls : pc[c] = "refresh" <=> holder = c

\* A grant under way belongs to a call in _refresh, is newer than the cached
\* token and has not travelled longer than MaxLatency.
FlightOK ==
  \A c \in Calls : flight[c] # 0 =>
    /\ pc[c] = "refresh"
    /\ token < flight[c] /\ flight[c] <= granted
    /\ now <= grant[flight[c]].at + MaxLatency

\* The cached expiry exceeds the server's by at most MaxLatency.
CacheOK ==
  /\ token <= granted
  /\ token # 0 => expiresAt <= grant[token].at + grant[token].life + MaxLatency

\* Granted lifetimes are among those the server sends.
LivesOK == \A n \in 1..MaxTokens : n <= granted => grant[n].life \in Lifetimes

\* Nobody has observed a token newer than the cached one.
ObservedOK == \A c \in Calls : observed[c] <= token

IInv == /\ Shape
        /\ RefreshHoldsLock
        /\ FlightOK
        /\ CacheOK
        /\ LivesOK
        /\ ObservedOK
        /\ ForcedGetsAnother

------------------------------------------------------------------------------
\* The empty cache satisfies the invariant.
LEMMA InitInv == Init => IInv
BY TokenAssumption
   DEF Init, IInv, Shape, RefreshHoldsLock, FlightOK, CacheOK, LivesOK,
       ObservedOK, ForcedGetsAnother, TokenAssumption

\* Entering the lock, at once or after waiting, keeps the invariant: a call
\* either returns the cached token or becomes the only one to refresh.
LEMMA LockedInv ==
  ASSUME IInv, NEW c \in Calls, NEW forced \in BOOLEAN, NEW seen \in 0..MaxTokens,
         seen <= token,
         holder = Nobody,
         Locked(c, forced, seen),
         force' = [force EXCEPT ![c] = forced],
         observed' = [observed EXCEPT ![c] = seen],
         UNCHANGED <<now, cache, flight, server>>
  PROVE  IInv'
<1> USE TokenAssumption DEF TokenAssumption, cache, server
<1>0. Shape /\ RefreshHoldsLock /\ FlightOK /\ CacheOK /\ LivesOK /\ ObservedOK /\ ForcedGetsAnother
  BY DEF IInv
<1>1. Shape'
  BY <1>0 DEF Shape, Locked, ReturnCached, BeginRefresh
<1>2. RefreshHoldsLock'
  BY <1>0 DEF Shape, Locked, ReturnCached, BeginRefresh, RefreshHoldsLock
<1>3. FlightOK'
  <2>1. \A d \in Calls : flight[d] = 0
    BY <1>0 DEF Shape, FlightOK, RefreshHoldsLock
  <2>. QED
    BY <2>1 DEF FlightOK
<1>4. CacheOK' /\ LivesOK'
  BY <1>0 DEF CacheOK, LivesOK
<1>5. ObservedOK'
  BY <1>0 DEF Shape, ObservedOK
<1>6. ForcedGetsAnother'
  BY <1>0 DEF Shape, Locked, ReturnCached, BeginRefresh, ForcedGetsAnother
<1>. QED
  BY <1>1, <1>2, <1>3, <1>4, <1>5, <1>6 DEF IInv

\* Every step keeps the invariant.
LEMMA NextInv == IInv /\ [Next]_vars => IInv'
<1> SUFFICES ASSUME IInv, [Next]_vars PROVE IInv'
  OBVIOUS
<1> USE TokenAssumption DEF TokenAssumption, cache, server
<1>0. Shape /\ RefreshHoldsLock /\ FlightOK /\ CacheOK /\ LivesOK /\ ObservedOK /\ ForcedGetsAnother
  BY DEF IInv
<1>1. ASSUME NEW c \in Calls, NEW forced \in BOOLEAN, GetToken(c, forced)
      PROVE  IInv'
  <2>1. /\ token \in 0..MaxTokens /\ token <= token
        /\ pc[c] \notin {"waiting", "refresh"}
        /\ observed' = [observed EXCEPT ![c] = token]
        /\ force' = [force EXCEPT ![c] = forced]
        /\ UNCHANGED <<now, cache, flight, server>>
    BY <1>0, <1>1 DEF GetToken, Ended, Shape
  <2>2. CacheOK' /\ LivesOK' /\ ObservedOK'
    BY <1>0, <2>1 DEF Shape, CacheOK, LivesOK, ObservedOK
  <2>3. CASE /\ ~forced /\ UNCHANGED holder
             /\ pc' = [pc EXCEPT ![c] = "returned"]
             /\ result' = [result EXCEPT ![c] = token]
    <3>1. Shape'
      BY <1>0, <2>1, <2>3 DEF Shape
    <3>2. RefreshHoldsLock' /\ FlightOK'
      BY <1>0, <2>1, <2>3 DEF Shape, RefreshHoldsLock, FlightOK
    <3>3. ForcedGetsAnother'
      BY <1>0, <2>1, <2>3 DEF Shape, ForcedGetsAnother
    <3>. QED
      BY <2>2, <3>1, <3>2, <3>3 DEF IInv
  <2>4. CASE holder = Nobody /\ Locked(c, forced, token)
    BY <2>1, <2>4, LockedInv
  <2>5. CASE /\ pc' = [pc EXCEPT ![c] = "waiting"]
             /\ UNCHANGED <<result, holder>>
    <3>1. Shape'
      BY <1>0, <2>1, <2>5 DEF Shape
    <3>2. RefreshHoldsLock' /\ FlightOK'
      BY <1>0, <2>1, <2>5 DEF Shape, RefreshHoldsLock, FlightOK
    <3>3. ForcedGetsAnother'
      BY <1>0, <2>1, <2>5 DEF Shape, ForcedGetsAnother
    <3>. QED
      BY <2>2, <3>1, <3>2, <3>3 DEF IInv
  <2>. QED
    BY <1>1, <2>3, <2>4, <2>5 DEF GetToken
<1>2. ASSUME NEW c \in Calls, Acquire(c)
      PROVE  IInv'
  <2>1. /\ observed' = [observed EXCEPT ![c] = observed[c]]
        /\ force' = [force EXCEPT ![c] = force[c]]
        /\ UNCHANGED <<now, cache, flight, server>>
    BY <1>0, <1>2 DEF Acquire, Shape
  <2>2. observed[c] \in 0..MaxTokens /\ observed[c] <= token /\ force[c] \in BOOLEAN
    BY <1>0 DEF Shape, ObservedOK
  <2>3. holder = Nobody /\ Locked(c, force[c], observed[c])
    BY <1>2 DEF Acquire
  <2>. QED
    BY <2>1, <2>2, <2>3, LockedInv
<1>3. ASSUME NEW c \in Calls, Grant(c)
      PROVE  IInv'
  <2>1. PICK e \in Lifetimes :
          grant' = [grant EXCEPT ![granted + 1] = [at |-> now, life |-> e]]
    BY <1>3 DEF Grant
  <2> DEFINE n == granted + 1
             g == [at |-> now, life |-> e]
  <2>a. n \in 1..MaxTokens /\ granted' = n /\ g \in [at : Nat, life : Nat] /\ g.at = now
    BY <1>0, <1>3 DEF Shape, Grant
  <2>b. grant' \in [1..MaxTokens -> [at : Nat, life : Nat]]
        /\ \A m \in 1..MaxTokens : grant'[m] = IF m = n THEN g ELSE grant[m]
    BY <1>0, <2>1, <2>a DEF Shape
  <2>c. flight' \in [Calls -> 0..MaxTokens]
        /\ \A d \in Calls : flight'[d] = IF d = c THEN n ELSE flight[d]
    BY <1>0, <1>3, <2>a DEF Shape, Grant
  <2>2. Shape'
    <3>. HIDE DEF n, g
    <3>1. UNCHANGED <<now, token, expiresAt, holder, pc, force, observed, result>>
      BY <1>3 DEF Grant
    <3>2. granted' \in 0..MaxTokens
      BY <2>a
    <3>. QED
      BY <1>0, <2>b, <2>c, <3>1, <3>2 DEF Shape
  <2>3. FlightOK'
    <3>. HIDE DEF n, g
    <3>. SUFFICES ASSUME NEW d \in Calls, flight'[d] # 0
                  PROVE  /\ pc'[d] = "refresh"
                         /\ token' < flight'[d] /\ flight'[d] <= granted'
                         /\ now' <= grant'[flight'[d]].at + MaxLatency
      BY DEF FlightOK
    <3>1. CASE d = c
      <4>1. flight'[d] = n /\ grant'[n] = g /\ token' < n
        BY <1>0, <1>3, <2>a, <2>b, <2>c, <3>1 DEF Shape, Grant, CacheOK, n
      <4>2. now' <= g.at + MaxLatency
        BY <1>0, <1>3, <2>a DEF Shape, Grant
      <4>. QED
        BY <1>3, <2>a, <3>1, <4>1, <4>2 DEF Grant
    <3>2. CASE d # c
      <4>1. flight'[d] = flight[d] /\ flight[d] # 0 /\ flight[d] \in 1..granted /\ granted < n
        BY <1>0, <2>c, <3>2 DEF Shape, FlightOK, n
      <4>2. grant'[flight'[d]] = grant[flight[d]]
        BY <1>0, <2>a, <2>b, <4>1 DEF Shape
      <4>3. now' = now /\ token' = token /\ pc' = pc
        BY <1>3 DEF Grant
      <4>4. granted \in Nat /\ n \in Nat /\ flight[d] <= granted'
        BY <1>0, <2>a, <4>1 DEF Shape
      <4>. QED
        BY <1>0, <2>a, <4>1, <4>2, <4>3, <4>4 DEF FlightOK
    <3>. QED
      BY <3>1, <3>2
  <2>4. CacheOK'
    BY <1>0, <1>3, <2>1 DEF Shape, Grant, CacheOK
  <2>5. LivesOK'
    BY <1>0, <1>3, <2>1 DEF Shape, Grant, LivesOK
  <2>6. RefreshHoldsLock' /\ ObservedOK' /\ ForcedGetsAnother'
    BY <1>0, <1>3 DEF Grant, RefreshHoldsLock, ObservedOK, ForcedGetsAnother
  <2>. QED
    BY <2>2, <2>3, <2>4, <2>5, <2>6 DEF IInv
<1>4. ASSUME NEW c \in Calls, AnswerLost(c)
      PROVE  IInv'
  <2>1. Shape'
    <3>1. UNCHANGED <<now, token, expiresAt, holder, pc, force, observed, result, granted, grant>>
      BY <1>4 DEF AnswerLost, cache, server
    <3>2. flight' \in [Calls -> 0..MaxTokens]
      BY <1>0, <1>4 DEF Shape, AnswerLost
    <3>. QED
      BY <1>0, <3>1, <3>2 DEF Shape
  <2>a. FlightOK'
    <3>1. \A d \in Calls : flight'[d] # 0 => flight'[d] = flight[d]
      BY <1>0, <1>4 DEF Shape, AnswerLost
    <3>. QED
      BY <1>0, <1>4, <3>1 DEF AnswerLost, FlightOK
  <2>2. RefreshHoldsLock' /\ CacheOK' /\ LivesOK' /\ ObservedOK' /\ ForcedGetsAnother'
    BY <1>0, <1>4 DEF AnswerLost, RefreshHoldsLock, CacheOK, LivesOK, ObservedOK,
                      ForcedGetsAnother
  <2>. QED
    BY <2>1, <2>2, <2>a DEF IInv
<1>5. ASSUME NEW c \in Calls, RefreshEnds(c)
      PROVE  IInv'
  <2>1. /\ flight[c] \in 1..MaxTokens /\ flight[c] <= granted
        /\ token < flight[c] /\ now <= grant[flight[c]].at + MaxLatency
        /\ grant[flight[c]].life \in Nat /\ grant[flight[c]].at \in Nat
        /\ holder = c
        /\ \A d \in Calls : d # c => pc[d] # "refresh" /\ flight[d] = 0
    BY <1>0, <1>5 DEF Shape, RefreshEnds, FlightOK, RefreshHoldsLock
  <2>2. Shape'
    <3>1. expiresAt' \in Nat
      <4>1. now \in Nat /\ expiresAt' = now + grant[flight[c]].life
        BY <1>0, <1>5 DEF Shape, RefreshEnds
      <4>. QED
        BY <2>1, <4>1
    <3>2. token' \in 0..MaxTokens /\ flight[c] \in 0..MaxTokens
      BY <1>5, <2>1 DEF RefreshEnds
    <3>3. pc' \in [Calls -> {"new", "waiting", "refresh", "returned", "failed", "cancelled"}]
      BY <1>0, <1>5 DEF Shape, RefreshEnds
    <3>4. result' \in [Calls -> 0..MaxTokens] /\ flight' \in [Calls -> 0..MaxTokens]
      BY <1>0, <1>5, <3>2 DEF Shape, RefreshEnds
    <3>5. UNCHANGED <<now, force, observed, granted, grant>> /\ holder' = Nobody
      BY <1>5 DEF RefreshEnds
    <3>. QED
      BY <1>0, <3>1, <3>2, <3>3, <3>4, <3>5 DEF Shape
  <2>3. RefreshHoldsLock' /\ FlightOK'
    BY <1>0, <1>5, <2>1 DEF Shape, RefreshEnds, RefreshHoldsLock, FlightOK
  <2>4. CacheOK' /\ LivesOK'
    <3>1. /\ UNCHANGED <<granted, grant>>
          /\ token' = flight[c] /\ expiresAt' = now + grant[flight[c]].life
      BY <1>5 DEF RefreshEnds, server
    <3>2. now \in Nat /\ MaxLatency \in Nat
      BY <1>0 DEF Shape, TokenAssumption
    <3>3. expiresAt' <= grant'[token'].at + grant'[token'].life + MaxLatency
      BY <2>1, <3>1, <3>2
    <3>. QED
      BY <1>0, <2>1, <3>1, <3>3 DEF CacheOK, LivesOK
  <2>5. ObservedOK'
    BY <1>0, <1>5, <2>1 DEF Shape, RefreshEnds, ObservedOK
  <2>6. ForcedGetsAnother'
    BY <1>0, <1>5, <2>1 DEF Shape, RefreshEnds, ObservedOK, ForcedGetsAnother
  <2>. QED
    BY <2>2, <2>3, <2>4, <2>5, <2>6 DEF IInv
<1>6. ASSUME NEW c \in Calls, RefreshFails(c)
      PROVE  IInv'
  <2>1. holder = c
    BY <1>0, <1>6 DEF RefreshFails, RefreshHoldsLock
  <2>2. Shape' /\ RefreshHoldsLock' /\ FlightOK'
    BY <1>0, <1>6, <2>1 DEF Shape, RefreshFails, RefreshHoldsLock, FlightOK
  <2>3. CacheOK' /\ LivesOK' /\ ObservedOK'
    BY <1>0, <1>6 DEF RefreshFails, CacheOK, LivesOK, ObservedOK
  <2>4. ForcedGetsAnother'
    BY <1>0, <1>6 DEF Shape, RefreshFails, ForcedGetsAnother
  <2>. QED
    BY <2>2, <2>3, <2>4 DEF IInv
<1>7. ASSUME NEW c \in Calls, Cancel(c)
      PROVE  IInv'
  <2>1. /\ pc' = [pc EXCEPT ![c] = "cancelled"]
        /\ UNCHANGED <<now, cache, force, observed, result, server>>
    BY <1>7 DEF Cancel
  <2>2. CacheOK' /\ LivesOK' /\ ObservedOK' /\ ForcedGetsAnother'
    BY <1>0, <2>1 DEF Shape, CacheOK, LivesOK, ObservedOK, ForcedGetsAnother
  <2>3. CASE pc[c] = "waiting" /\ UNCHANGED <<holder, flight>>
    <3>1. Shape' /\ RefreshHoldsLock'
      BY <1>0, <2>1, <2>3 DEF Shape, RefreshHoldsLock
    <3>2. FlightOK'
      BY <1>0, <2>1, <2>3 DEF Shape, FlightOK
    <3>. QED
      BY <2>2, <3>1, <3>2 DEF IInv
  <2>4. CASE /\ pc[c] = "refresh"
             /\ holder' = Nobody /\ flight' = [flight EXCEPT ![c] = 0]
    <3>1. Shape' /\ RefreshHoldsLock'
      BY <1>0, <2>1, <2>4 DEF Shape, RefreshHoldsLock
    <3>2. FlightOK'
      BY <1>0, <2>1, <2>4 DEF Shape, FlightOK
    <3>. QED
      BY <2>2, <3>1, <3>2 DEF IInv
  <2>. QED
    BY <1>7, <2>3, <2>4 DEF Cancel
<1>8. CASE Tick
  <2>1. Shape' /\ RefreshHoldsLock'
    BY <1>0, <1>8 DEF Shape, Tick, RefreshHoldsLock
  <2>2. FlightOK'
    <3>. SUFFICES ASSUME NEW d \in Calls, flight[d] # 0
                  PROVE  now + 1 <= grant[flight[d]].at + MaxLatency
      BY <1>0, <1>8 DEF Tick, FlightOK
    <3>1. flight[d] \in 1..MaxTokens
      BY <1>0 DEF Shape
    <3>2. grant[flight[d]].at \in Nat
      BY <1>0, <3>1 DEF Shape
    <3>3. now < grant[flight[d]].at + MaxLatency
      BY <1>8 DEF Tick
    <3>. QED
      BY <1>0, <3>2, <3>3 DEF Shape
  <2>3. CacheOK' /\ LivesOK' /\ ObservedOK' /\ ForcedGetsAnother'
    BY <1>0, <1>8 DEF Tick, CacheOK, LivesOK, ObservedOK, ForcedGetsAnother
  <2>. QED
    BY <2>1, <2>2, <2>3 DEF IInv
<1>9. CASE UNCHANGED vars
  BY <1>0, <1>9 DEF vars, IInv, Shape, RefreshHoldsLock, FlightOK, CacheOK, LivesOK,
                    ObservedOK, ForcedGetsAnother
<1>. QED
  BY <1>1, <1>2, <1>3, <1>4, <1>5, <1>6, <1>7, <1>8, <1>9 DEF Next

\* The invariant holds in every reachable state.
THEOREM Invariance == Spec => []IInv
BY InitInv, NextInv, PTL DEF Spec

------------------------------------------------------------------------------
\* A token the cache calls fresh is still accepted by the server, whatever
\* the lifetimes: MaxLatency <= Skew is all it takes (auth.py:42-43, 67).
THEOREM FreshTokensAreValid == Spec => []FreshIsValid
<1>1. IInv => FreshIsValid
  BY TokenAssumption, GrantsOutliveTravel
     DEF IInv, Shape, CacheOK, FreshIsValid, IsFresh, Valid, TokenAssumption,
         GrantsOutliveTravel
<1>. QED
  BY <1>1, Invariance, PTL

\* Every call that returns hands out a token the server accepts then, the
\* cached one or one that has just travelled.
THEOREM ReturnedTokensAreValid == Spec => ReturnsValidToken
<1>1. IInv /\ [Next]_vars => [\A c \in Calls : Returns(c) => Valid(result'[c])]_vars
  <2> SUFFICES ASSUME IInv, Next, NEW c \in Calls, Returns(c)
               PROVE  Valid(result'[c])
    BY DEF vars
  <2>1. CASE IsFresh /\ result'[c] = token
    BY <2>1, TokenAssumption, GrantsOutliveTravel
       DEF IInv, Shape, CacheOK, IsFresh, Valid, TokenAssumption, GrantsOutliveTravel
  <2>2. CASE flight[c] # 0 /\ result'[c] = flight[c]
    <3>1. /\ flight[c] \in 1..MaxTokens /\ flight[c] <= granted
          /\ now <= grant[flight[c]].at + MaxLatency
      BY <2>2 DEF IInv, Shape, FlightOK
    <3>2. grant[flight[c]].at \in Nat /\ now \in Nat
      BY <3>1 DEF IInv, Shape
    <3>3. grant[flight[c]].life \in Lifetimes
      BY <3>1 DEF IInv, LivesOK
    <3>4. MaxLatency < grant[flight[c]].life /\ grant[flight[c]].life \in Nat /\ MaxLatency \in Nat
      BY <3>3, TokenAssumption, GrantsOutliveTravel DEF TokenAssumption, GrantsOutliveTravel
    <3>. QED
      BY <2>2, <3>1, <3>2, <3>4 DEF Valid
  <2>3. (IsFresh /\ result'[c] = token) \/ (flight[c] # 0 /\ result'[c] = flight[c])
    <3>1. pc \in [Calls -> {"new", "waiting", "refresh", "returned", "failed", "cancelled"}]
          /\ result \in [Calls -> 0..MaxTokens]
      BY DEF IInv, Shape
    <3>2. ASSUME NEW d \in Calls, pc'[c] = "returned", d = c \/ pc[c] # "returned",
                 (\E forced \in BOOLEAN : GetToken(d, forced)) \/ Acquire(d)
          PROVE  IsFresh /\ result'[c] = token
      <4>1. PICK n \in {"returned", "waiting", "refresh"} : pc' = [pc EXCEPT ![d] = n]
        BY <3>1, <3>2 DEF GetToken, Acquire, Locked, ReturnCached, BeginRefresh
      <4>2. d = c /\ n = "returned"
        BY <3>1, <3>2, <4>1
      <4>3. IsFresh /\ result' = [result EXCEPT ![d] = token]
        <5>1. ~BeginRefresh(d) /\ pc' # [pc EXCEPT ![d] = "waiting"]
          BY <3>1, <4>1, <4>2 DEF BeginRefresh
        <5> QED
          BY <3>2, <5>1 DEF GetToken, Acquire, Locked, ReturnCached
      <4> QED
        BY <3>1, <4>2, <4>3
    <3>3. ASSUME NEW d \in Calls, pc'[c] = "returned", pc[c] # "returned", RefreshEnds(d)
          PROVE  flight[c] # 0 /\ result'[c] = flight[c]
      BY <3>1, <3>3 DEF RefreshEnds
    <3>4. ASSUME NEW d \in Calls, pc'[c] = "returned", pc[c] # "returned",
                 Grant(d) \/ AnswerLost(d) \/ RefreshFails(d) \/ Cancel(d)
          PROVE  FALSE
      BY <3>1, <3>4 DEF Grant, AnswerLost, RefreshFails, Cancel
    <3>5. pc'[c] = "returned" /\ pc[c] # "returned" => ~Tick
      BY <3>1 DEF Tick
    <3>6. CASE pc[c] = "returned"
      BY <3>2, <3>6 DEF Returns
    <3>7. CASE pc[c] # "returned"
      BY <3>2, <3>3, <3>4, <3>5, <3>7 DEF Next, Returns
    <3>. QED
      BY <3>6, <3>7
  <2>. QED
    BY <2>1, <2>2, <2>3
<1>. QED
  BY <1>1, Invariance, PTL DEF ReturnsValidToken, Spec

\* A forced call never returns the token it saw when it began.
THEOREM ForcedCallsGetAnotherToken == Spec => []ForcedGetsAnother
<1>1. IInv => ForcedGetsAnother
  BY DEF IInv
<1>. QED
  BY <1>1, Invariance, PTL

\* A call that waited while the cache got a fresh token it had not seen does
\* not request another one, whoever refreshed it.
THEOREM RefreshesAreCollapsed == Spec => RefreshesCollapse
<1> DEFINE Requests(c) == pc'[c] = "refresh" /\ pc[c] = "waiting"
<1>1. IInv /\ [Next]_vars =>
        [\A c \in Calls : Requests(c) => ~(IsFresh /\ token # observed[c])]_vars
  <2> SUFFICES ASSUME IInv, Next, NEW c \in Calls, Requests(c)
               PROVE  ~(IsFresh /\ token # observed[c])
    BY DEF vars
  <2>1. pc \in [Calls -> {"new", "waiting", "refresh", "returned", "failed", "cancelled"}]
    BY DEF IInv, Shape
  <2>2. ASSUME NEW d \in Calls, Acquire(d)
        PROVE  ~(IsFresh /\ token # observed[c])
    BY <2>1, <2>2 DEF Acquire, Locked, ReturnCached, BeginRefresh
  <2>3. ASSUME NEW d \in Calls, GetToken(d, TRUE) \/ GetToken(d, FALSE)
        PROVE  FALSE
    BY <2>1, <2>3 DEF GetToken, Ended, Locked, ReturnCached, BeginRefresh
  <2>4. ASSUME NEW d \in Calls,
               Grant(d) \/ AnswerLost(d) \/ RefreshEnds(d) \/ RefreshFails(d) \/ Cancel(d)
        PROVE  FALSE
    BY <2>1, <2>4 DEF Grant, AnswerLost, RefreshEnds, RefreshFails, Cancel
  <2>5. ~Tick
    BY <2>1 DEF Tick
  <2>. QED
    BY <2>2, <2>3, <2>4, <2>5 DEF Next
<1>. QED
  BY <1>1, Invariance, PTL DEF RefreshesCollapse, Spec

\* The lock keeps refreshes from overwriting a newer token.
THEOREM CacheIsMonotonic == Spec => CacheNeverGoesBack
<1>1. IInv /\ [Next]_vars => [token' >= token]_vars
  <2> SUFFICES ASSUME IInv, Next PROVE token' >= token
    OBVIOUS
  <2>1. token \in Nat /\ \A c \in Calls : flight[c] # 0 => token < flight[c] /\ flight[c] \in Nat
    BY TokenAssumption DEF IInv, Shape, FlightOK, TokenAssumption
  <2>2. UNCHANGED token \/ \E c \in Calls : flight[c] # 0 /\ token' = flight[c]
    BY DEF Next, GetToken, Acquire, Grant, AnswerLost, RefreshEnds, RefreshFails,
           Cancel, Tick, cache
  <2>. QED
    BY <2>1, <2>2
<1>. QED
  BY <1>1, Invariance, PTL DEF CacheNeverGoesBack, Spec

------------------------------------------------------------------------------
(***************************************************************************)
(* The lock's queue: it holds the calls that wait, each once.              *)
(***************************************************************************)
Distinct(seq) == \A i, j \in 1..Len(seq) : seq[i] = seq[j] => i = j
In(x, seq) == \E i \in 1..Len(seq) : seq[i] = x

QueueOK ==
  /\ waiters \in Seq(Calls)
  /\ Distinct(waiters)
  /\ \A c \in Calls : pc[c] = "waiting" <=> In(c, waiters)

\* The tail of a queue lacks its first, and nobody else.
LEMMA TailFacts ==
  ASSUME NEW S, NEW seq \in Seq(S), seq # <<>>, Distinct(seq)
  PROVE  /\ Tail(seq) \in Seq(S) /\ Distinct(Tail(seq))
         /\ \A x : In(x, Tail(seq)) <=> In(x, seq) /\ x # Head(seq)
<1>1. Len(seq) \in Nat \ {0} /\ Head(seq) = seq[1]
  OBVIOUS
<1>2. /\ Tail(seq) \in Seq(S) /\ Len(Tail(seq)) = Len(seq) - 1
      /\ \A i \in 1..Len(Tail(seq)) : Tail(seq)[i] = seq[i + 1]
  OBVIOUS
<1>3. Distinct(Tail(seq))
  BY <1>1, <1>2 DEF Distinct
<1>4. ASSUME NEW x, In(x, Tail(seq)) PROVE In(x, seq) /\ x # Head(seq)
  <2>1. PICK i \in 1..Len(Tail(seq)) : Tail(seq)[i] = x
    BY <1>4 DEF In
  <2>. QED
    BY <1>1, <1>2, <2>1 DEF In, Distinct
<1>5. ASSUME NEW x, In(x, seq), x # Head(seq) PROVE In(x, Tail(seq))
  <2>1. PICK i \in 1..Len(seq) : seq[i] = x
    BY <1>5 DEF In
  <2>2. i - 1 \in 1..Len(Tail(seq)) /\ Tail(seq)[i - 1] = x
    BY <1>1, <1>2, <1>5, <2>1
  <2>. QED
    BY <2>2 DEF In
<1>. QED
  BY <1>2, <1>3, <1>4, <1>5

\* Whoever joins a queue is its last; nobody else joins.
LEMMA AppendFacts ==
  ASSUME NEW S, NEW seq \in Seq(S), NEW y \in S, Distinct(seq), ~In(y, seq)
  PROVE  /\ Append(seq, y) \in Seq(S) /\ Distinct(Append(seq, y))
         /\ \A x : In(x, Append(seq, y)) <=> In(x, seq) \/ x = y
<1>1. /\ Append(seq, y) \in Seq(S) /\ Len(seq) \in Nat /\ Len(Append(seq, y)) = Len(seq) + 1
      /\ \A i \in 1..Len(seq) : Append(seq, y)[i] = seq[i]
      /\ Append(seq, y)[Len(seq) + 1] = y
  OBVIOUS
<1>2. Distinct(Append(seq, y))
  BY <1>1 DEF Distinct, In
<1>3. \A x : In(x, Append(seq, y)) <=> In(x, seq) \/ x = y
  BY <1>1 DEF In
<1>. QED
  BY <1>1, <1>2, <1>3

\* waiters.remove takes out exactly the call it is for.
LEMMA RemovedFacts ==
  ASSUME NEW S, NEW seq \in Seq(S), NEW k \in 1..Len(seq), Distinct(seq)
  PROVE  /\ Removed(seq, k) \in Seq(S) /\ Distinct(Removed(seq, k))
         /\ \A x : In(x, Removed(seq, k)) <=> In(x, seq) /\ x # seq[k]
<1> DEFINE n == Len(seq) - 1
           rest == Removed(seq, k)
<1>1. Len(seq) \in Nat /\ n \in Nat /\ \A i \in 1..Len(seq) : seq[i] \in S
  OBVIOUS
<1>2. rest = [i \in 1..n |-> IF i < k THEN seq[i] ELSE seq[i + 1]]
  BY DEF Removed
<1>3. rest \in [1..n -> S]
  BY <1>1, <1>2
<1>4. rest \in Seq(S) /\ Len(rest) = n
  BY <1>1, <1>3
<1>5. \A i \in 1..n : rest[i] = IF i < k THEN seq[i] ELSE seq[i + 1]
  BY <1>2
<1> HIDE DEF rest
<1>6. Distinct(rest)
  BY <1>1, <1>4, <1>5 DEF Distinct
<1>7. ASSUME NEW x, In(x, rest) PROVE In(x, seq) /\ x # seq[k]
  <2>1. PICK i \in 1..n : rest[i] = x
    BY <1>4, <1>7 DEF In
  <2>2. CASE i < k
    BY <1>1, <1>5, <2>1, <2>2 DEF In, Distinct
  <2>3. CASE ~(i < k)
    BY <1>1, <1>5, <2>1, <2>3 DEF In, Distinct
  <2>. QED
    BY <2>2, <2>3
<1>8. ASSUME NEW x, In(x, seq), x # seq[k] PROVE In(x, rest)
  <2>1. PICK i \in 1..Len(seq) : seq[i] = x
    BY <1>8 DEF In
  <2>2. CASE i < k
    <3>1. i \in 1..n /\ rest[i] = x
      BY <1>1, <1>5, <2>1, <2>2
    <3>. QED
      BY <1>4, <3>1 DEF In
  <2>3. CASE i > k
    <3>1. i - 1 \in 1..n /\ rest[i - 1] = x
      BY <1>1, <1>5, <2>1, <2>3
    <3>. QED
      BY <1>4, <3>1 DEF In
  <2>. QED
    BY <1>1, <1>8, <2>1, <2>2, <2>3
<1>. QED
  BY <1>4, <1>6, <1>7, <1>8 DEF rest

\* A step that moves no call into the wait or out of it leaves the queue alone.
LEMMA QueueStays ==
  ASSUME QueueOK, UNCHANGED waiters,
         \A d \in Calls : pc'[d] = "waiting" <=> pc[d] = "waiting"
  PROVE  QueueOK'
BY DEF QueueOK

\* Every step keeps the queue in agreement with the calls that wait.
LEMMA QueueInv == IInv /\ QueueOK /\ [Next]_vars => QueueOK'
<1> SUFFICES ASSUME IInv, QueueOK, [Next]_vars PROVE QueueOK'
  OBVIOUS
<1>0. /\ pc \in [Calls -> {"new", "waiting", "refresh", "returned", "failed", "cancelled"}]
      /\ waiters \in Seq(Calls) /\ Distinct(waiters)
      /\ \A d \in Calls : pc[d] = "waiting" <=> In(d, waiters)
  BY DEF IInv, Shape, QueueOK
<1>1. ASSUME NEW c \in Calls, NEW forced \in BOOLEAN, GetToken(c, forced)
      PROVE  QueueOK'
  <2>1. pc[c] \notin {"waiting", "refresh"}
    BY <1>1 DEF GetToken, Ended
  <2>2. CASE pc' = [pc EXCEPT ![c] = "waiting"] /\ waiters' = Append(waiters, c)
    <3>1. ~In(c, waiters)
      BY <1>0, <2>1
    <3>2. /\ waiters' \in Seq(Calls) /\ Distinct(waiters')
          /\ \A x : In(x, waiters') <=> In(x, waiters) \/ x = c
      BY <1>0, <2>2, <3>1, AppendFacts
    <3>. QED
      BY <1>0, <2>2, <3>2 DEF QueueOK
  <2>3. CASE pc' \in {[pc EXCEPT ![c] = "returned"], [pc EXCEPT ![c] = "refresh"]}
             /\ UNCHANGED waiters
    BY <1>0, <2>1, <2>3, QueueStays
  <2>. QED
    BY <1>1, <2>2, <2>3 DEF GetToken, Locked, ReturnCached, BeginRefresh
<1>2. ASSUME NEW c \in Calls, Acquire(c)
      PROVE  QueueOK'
  <2>1. /\ waiters # <<>> /\ Head(waiters) = c /\ waiters' = Tail(waiters)
        /\ pc' \in {[pc EXCEPT ![c] = "returned"], [pc EXCEPT ![c] = "refresh"]}
    BY <1>2 DEF Acquire, Locked, ReturnCached, BeginRefresh
  <2>2. /\ waiters' \in Seq(Calls) /\ Distinct(waiters')
        /\ \A x : In(x, waiters') <=> In(x, waiters) /\ x # c
    BY <1>0, <2>1, TailFacts
  <2>. QED
    BY <1>0, <2>1, <2>2 DEF QueueOK
<1>3. ASSUME NEW c \in Calls, Cancel(c)
      PROVE  QueueOK'
  <2>1. pc' = [pc EXCEPT ![c] = "cancelled"]
    BY <1>3 DEF Cancel
  <2>2. CASE pc[c] = "refresh" /\ UNCHANGED waiters
    BY <1>0, <2>1, <2>2, QueueStays
  <2>3. CASE \E k \in 1..Len(waiters) : waiters[k] = c /\ waiters' = Removed(waiters, k)
    <3>1. PICK k \in 1..Len(waiters) : waiters[k] = c /\ waiters' = Removed(waiters, k)
      BY <2>3
    <3>2. /\ waiters' \in Seq(Calls) /\ Distinct(waiters')
          /\ \A x : In(x, waiters') <=> In(x, waiters) /\ x # c
      BY <1>0, <3>1, RemovedFacts
    <3>. QED
      BY <1>0, <2>1, <3>2 DEF QueueOK
  <2>. QED
    BY <1>3, <2>2, <2>3 DEF Cancel
<1>4. ASSUME NEW c \in Calls, RefreshEnds(c) \/ RefreshFails(c)
      PROVE  QueueOK'
  <2>1. /\ pc[c] = "refresh" /\ UNCHANGED waiters
        /\ pc' \in {[pc EXCEPT ![c] = "returned"], [pc EXCEPT ![c] = "failed"]}
    BY <1>4 DEF RefreshEnds, RefreshFails
  <2>. QED
    BY <1>0, <2>1, QueueStays
<1>5. ASSUME UNCHANGED <<pc, waiters>>
      PROVE  QueueOK'
  BY <1>5, QueueStays
<1>. QED
  BY <1>1, <1>2, <1>3, <1>4, <1>5 DEF Next, Grant, AnswerLost, Tick, vars

\* The state keeps its shape; the lock's queue holds exactly the calls that
\* wait, whoever is cancelled.
THEOREM TypeCorrect == Spec => []TypeOK
<1>1. Init => QueueOK
  BY DEF Init, QueueOK, Distinct, In
<1>2. IInv /\ QueueOK => TypeOK
  BY DEF IInv, Shape, QueueOK, In, TypeOK
<1>. QED
  BY <1>1, <1>2, QueueInv, Invariance, PTL DEF Spec

------------------------------------------------------------------------------
(***************************************************************************)
(* The refinement.  The abstract service has the callers that wait for the *)
(* lock or refresh as one set, and the lock's holder as who fetches.       *)
(***************************************************************************)
Asking == {c \in Calls : pc[c] \in {"waiting", "refresh"}}
Forced == {c \in Calls : force[c]}

\* What is fresh stays so while neither cache nor clock moves.
LEMMA SameFreshness == UNCHANGED <<now, cache>> => UNCHANGED <<token, IsFresh>>
BY DEF cache, IsFresh

\* get_token up to its first await is a call of the service: it is served at
\* once, refreshes, or waits.
LEMMA GetTokenAsks ==
  ASSUME IInv, NEW c \in Calls, NEW force_refresh \in BOOLEAN, GetToken(c, force_refresh)
  PROVE  Abstract!Ask(c, force_refresh)
<1>0. /\ pc \in [Calls -> {"new", "waiting", "refresh", "returned", "failed", "cancelled"}]
      /\ force \in [Calls -> BOOLEAN]
  BY DEF IInv, Shape
<1>1. /\ pc[c] \notin {"waiting", "refresh"}
      /\ force' = [force EXCEPT ![c] = force_refresh]
      /\ observed' = [observed EXCEPT ![c] = token]
      /\ UNCHANGED <<now, cache>>
  BY DEF GetToken, Ended
<1>2. c \notin Asking /\ UNCHANGED <<token, IsFresh>>
  BY <1>1, SameFreshness DEF Asking
<1>3. Forced' = IF force_refresh THEN Forced \cup {c} ELSE Forced \ {c}
  <2>1. \A d \in Calls : force'[d] <=> IF d = c THEN force_refresh ELSE force[d]
    BY <1>0, <1>1
  <2>. QED
    BY <2>1 DEF Forced
<1>4. CASE /\ IsFresh /\ ~force_refresh
           /\ pc' = [pc EXCEPT ![c] = "returned"]
           /\ result' = [result EXCEPT ![c] = token]
           /\ UNCHANGED holder
  <2>1. Asking' = Asking
    BY <1>0, <1>1, <1>4 DEF Asking
  <2>. QED
    BY <1>1, <1>2, <1>3, <1>4, <2>1 DEF Abstract!Ask, Asking, Forced
<1>5. CASE /\ force_refresh \/ ~IsFresh
           /\ pc' \in {[pc EXCEPT ![c] = "waiting"], [pc EXCEPT ![c] = "refresh"]}
           /\ UNCHANGED result
           /\ UNCHANGED holder \/ (holder = Nobody /\ holder' = c)
  <2>1. Asking' = Asking \cup {c}
    BY <1>0, <1>1, <1>5 DEF Asking
  <2>. QED
    BY <1>1, <1>2, <1>3, <1>5, <2>1 DEF Abstract!Ask, Asking, Forced
<1>6. CASE /\ force_refresh \/ ~IsFresh
           /\ holder = Nobody
           /\ Locked(c, force_refresh, token)
  <2>1. BeginRefresh(c)
    BY <1>6 DEF Locked
  <2>. QED
    BY <1>5, <1>6, <2>1 DEF BeginRefresh
<1>. QED
  BY <1>4, <1>5, <1>6 DEF GetToken

\* Whoever gets the lock is served from the cache or refreshes it.
LEMMA AcquireServes ==
  ASSUME IInv, QueueOK, NEW c \in Calls, Acquire(c)
  PROVE  Abstract!Serve(c) \/ Abstract!Fetch(c)
<1>0. pc \in [Calls -> {"new", "waiting", "refresh", "returned", "failed", "cancelled"}]
  BY DEF IInv, Shape
<1>1. holder = Nobody /\ Locked(c, force[c], observed[c])
      /\ UNCHANGED <<now, cache, force, observed>>
  BY DEF Acquire
<1>2. pc[c] = "waiting"
  <2>1. waiters \in Seq(Calls) /\ waiters # <<>> /\ c = Head(waiters)
    BY DEF Acquire, QueueOK
  <2>2. 1 \in 1..Len(waiters) /\ waiters[1] = c
    BY <2>1
  <2>. QED
    BY <2>2 DEF QueueOK, In
<1>3. /\ c \in Asking /\ UNCHANGED <<token, IsFresh, Forced>>
      /\ c \in Forced <=> force[c]
  BY <1>1, <1>2, SameFreshness DEF Asking, Forced
<1>4. CASE IsFresh /\ (force[c] => token # observed[c]) /\ ReturnCached(c)
  <2>1. Asking' = Asking \ {c}
    BY <1>0, <1>4 DEF ReturnCached, Asking
  <2>2. Abstract!Serve(c)
    BY <1>1, <1>3, <1>4, <2>1 DEF Abstract!Serve, Abstract!Suits, ReturnCached, Asking, Forced
  <2>. QED
    BY <2>2
<1>5. CASE ~(IsFresh /\ (force[c] => token # observed[c])) /\ BeginRefresh(c)
  <2>1. Asking' = Asking
    BY <1>0, <1>2, <1>5 DEF BeginRefresh, Asking
  <2>2. Abstract!Fetch(c)
    BY <1>1, <1>3, <1>5, <2>1 DEF Abstract!Fetch, Abstract!Suits, BeginRefresh, Asking, Forced
  <2>. QED
    BY <2>2
<1>. QED
  BY <1>1, <1>4, <1>5 DEF Locked

\* A refresh that ends renews the cache with a token newer than it had.
LEMMA RefreshRenews ==
  ASSUME IInv, NEW c \in Calls, RefreshEnds(c)
  PROVE  \E n \in 1..MaxTokens : Abstract!Renew(c, n)
<1>0. /\ pc \in [Calls -> {"new", "waiting", "refresh", "returned", "failed", "cancelled"}]
      /\ pc[c] = "refresh" /\ holder = c
      /\ flight[c] \in 1..MaxTokens /\ token < flight[c] /\ token \in Nat
  BY DEF IInv, Shape, RefreshEnds, RefreshHoldsLock, FlightOK
<1>1. /\ token' = flight[c] /\ holder' = Nobody
      /\ result' = [result EXCEPT ![c] = flight[c]]
      /\ pc' = [pc EXCEPT ![c] = "returned"]
      /\ UNCHANGED <<force, observed>>
  BY DEF RefreshEnds
<1>2. c \in Asking /\ Asking' = Asking \ {c} /\ UNCHANGED Forced
  BY <1>0, <1>1 DEF Asking, Forced
<1>3. IsFresh' \in BOOLEAN
  BY DEF IsFresh
<1>4. flight[c] >= token
  BY <1>0
<1>5. PICK n \in 1..MaxTokens : n = flight[c]
  BY <1>0
<1>6. Abstract!Renew(c, n)
  BY <1>0, <1>1, <1>2, <1>3, <1>4, <1>5 DEF Abstract!Renew, Asking, Forced
<1>. QED
  BY <1>6

\* A caller that is cancelled, or whose refresh fails, gives up.
LEMMA LeavesGiveUp ==
  ASSUME IInv, NEW c \in Calls, RefreshFails(c) \/ Cancel(c)
  PROVE  Abstract!GiveUp(c)
<1>0. /\ pc \in [Calls -> {"new", "waiting", "refresh", "returned", "failed", "cancelled"}]
      /\ pc[c] = "refresh" <=> holder = c
  BY DEF IInv, Shape, RefreshHoldsLock
<1>1. /\ pc' \in {[pc EXCEPT ![c] = "failed"], [pc EXCEPT ![c] = "cancelled"]}
      /\ \/ pc[c] = "waiting" /\ UNCHANGED holder
         \/ pc[c] = "refresh" /\ holder' = Nobody
      /\ UNCHANGED <<now, cache, force, observed, result>>
  BY DEF RefreshFails, Cancel
<1>2. c \in Asking /\ Asking' = Asking \ {c}
  BY <1>0, <1>1 DEF Asking
<1>3. UNCHANGED <<token, IsFresh, Forced>>
  BY <1>1, SameFreshness DEF Forced
<1>4. holder' = IF holder = c THEN Nobody ELSE holder
  BY <1>0, <1>1
<1>. QED
  BY <1>1, <1>2, <1>3, <1>4 DEF Abstract!GiveUp, Asking, Forced

\* Every step of the manager is one of the service, or none.
LEMMA StepImplements ==
  IInv /\ QueueOK /\ [Next]_vars => [Abstract!ServiceNext]_(Abstract!tokenVars)
<1> SUFFICES ASSUME IInv, QueueOK, [Next]_vars
             PROVE  Abstract!ServiceNext \/ UNCHANGED Abstract!tokenVars
  OBVIOUS
<1>1. ASSUME NEW c \in Calls, NEW force_refresh \in BOOLEAN, GetToken(c, force_refresh)
      PROVE  Abstract!ServiceNext
  BY <1>1, GetTokenAsks DEF Abstract!ServiceNext
<1>2. ASSUME NEW c \in Calls, Acquire(c)
      PROVE  Abstract!ServiceNext
  BY <1>2, AcquireServes DEF Abstract!ServiceNext
<1>3. ASSUME NEW c \in Calls, RefreshEnds(c)
      PROVE  Abstract!ServiceNext
  BY <1>3, RefreshRenews DEF Abstract!ServiceNext
<1>4. ASSUME NEW c \in Calls, RefreshFails(c) \/ Cancel(c)
      PROVE  Abstract!ServiceNext
  BY <1>4, LeavesGiveUp DEF Abstract!ServiceNext
<1>5. ASSUME UNCHANGED <<token, expiresAt, holder, pc, force, observed, result>>,
             IsFresh' <=> IsFresh
      PROVE  UNCHANGED Abstract!tokenVars
  <2>1. UNCHANGED <<Asking, Forced, IsFresh>>
    BY <1>5 DEF Asking, Forced, IsFresh
  <2>. QED
    BY <1>5, <2>1 DEF Abstract!tokenVars, Asking, Forced
<1>6. ASSUME NEW c \in Calls, Grant(c) \/ AnswerLost(c)
      PROVE  UNCHANGED Abstract!tokenVars
  <2>1. UNCHANGED <<now, token, expiresAt, holder, pc, force, observed, result>>
    BY <1>6 DEF Grant, AnswerLost, cache
  <2>. QED
    BY <1>5, <2>1 DEF IsFresh
<1>7. CASE Tick
  <2>1. UNCHANGED <<token, expiresAt, holder, pc, force, observed, result>>
    BY <1>7 DEF Tick, cache
  <2>2. IsFresh' => IsFresh
    BY <1>7, TokenAssumption DEF Tick, cache, IsFresh, IInv, Shape, TokenAssumption
  <2>3. CASE IsFresh /\ ~IsFresh'
    <3>1. UNCHANGED <<Asking, Forced>> /\ IsFresh' = FALSE
      BY <2>1, <2>3 DEF Asking, Forced, IsFresh
    <3>2. Abstract!GoStale
      BY <2>1, <2>3, <3>1 DEF Abstract!GoStale, Asking, Forced
    <3>. QED
      BY <3>2 DEF Abstract!ServiceNext
  <2>. QED
    BY <1>5, <2>1, <2>2, <2>3
<1>8. CASE UNCHANGED vars
  BY <1>5, <1>8 DEF vars, IsFresh
<1>. QED
  BY <1>1, <1>2, <1>3, <1>4, <1>6, <1>7, <1>8 DEF Next

\* The empty cache is that of the service before any call.
LEMMA InitImplements == Init => Abstract!ServiceInit
<1> SUFFICES ASSUME Init PROVE Abstract!ServiceInit
  OBVIOUS
<1>1. Asking = {} /\ Forced = {} /\ IsFresh = FALSE
  BY DEF Init, Asking, Forced, IsFresh
<1>. QED
  BY <1>1 DEF Init, Abstract!ServiceInit, Asking, Forced

\* The token manager implements the token service, for any number of calls,
\* however they are cancelled and whatever becomes of their requests.
THEOREM Refinement == Spec => ImplementsTokenService
<1>1. Init => QueueOK
  BY DEF Init, QueueOK, Distinct, In
<1>. QED
  BY <1>1, InitImplements, StepImplements, QueueInv, Invariance, PTL
     DEF Spec, ImplementsTokenService, Abstract!ServiceSpec
==============================================================================
