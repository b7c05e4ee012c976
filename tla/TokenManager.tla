---------------------------- MODULE TokenManager ----------------------------
(***************************************************************************)
(* The cached tenant token and its collapsed refreshes:                    *)
(* src/feishulib/auth.py, with the asyncio.Lock it uses and the server     *)
(* that grants tokens, as far as the code can see them.                    *)
(*                                                                         *)
(* Tokens are numbered in the order the server grants them; 0 stands for   *)
(* None.  Every grant is taken for a new token, as lines 32 and 38 take it.*)
(* A call of get_token suspends at the lock or in the request of _refresh, *)
(* nowhere else.                                                           *)
(***************************************************************************)
EXTENDS Naturals, Sequences

CONSTANTS
  Calls,        \* callers of get_token, each in one call at a time
  Again,        \* those that call more than once
  Skew,         \* token_refresh_skew_seconds
  Lifetimes,    \* values of "expire" the server sends
  MaxLatency,   \* longest time from the grant to the end of the request
  MaxTokens,    \* bound: grants
  MaxTime,      \* bound: how long the cache is observed
  Nobody        \* the lock is free

ASSUME TokenAssumption ==
  /\ Skew \in Nat /\ MaxLatency \in Nat /\ MaxTokens \in Nat /\ MaxTime \in Nat
  /\ Lifetimes \subseteq Nat \ {0}
  /\ Nobody \notin Calls /\ Again \subseteq Calls

\* A skew shorter than the time a grant travels, or a lifetime spent on the
\* way, would make the cache's own arithmetic wrong.
ASSUME GrantsOutliveTravel ==
  /\ MaxLatency <= Skew
  /\ \A e \in Lifetimes : e > MaxLatency

VARIABLES
  now,
  token,      \* _token
  expiresAt,  \* _expires_at
  holder,     \* who holds _lock
  waiters,    \* who waits for it, in order
  pc,         \* per call: where it is, or how it ended
  force,      \* per call: force_refresh
  observed,   \* per call: observed_token
  result,     \* per call: the token it returned
  flight,     \* per call: the token its request was granted, 0 before that
  granted,    \* tokens the server has granted so far
  grant       \* per token: when it was granted and for how long

vars == <<now, token, expiresAt, holder, waiters, pc, force, observed, result,
          flight, granted, grant>>
server == <<granted, grant>>
cache == <<token, expiresAt>>

\* Mutant of IsFresh: without the skew.
IsUnexpired == token # 0 /\ now < expiresAt

\* now < expiresAt - Skew, on naturals
IsFresh == token # 0 /\ now + Skew < expiresAt

\* The server accepts token n.
Valid(n) == n # 0 /\ now < grant[n].at + grant[n].life

Ended(c) == pc[c] \in {"returned", "failed", "cancelled"}

Init ==
  /\ now = 0
  /\ token = 0 /\ expiresAt = 0
  /\ holder = Nobody /\ waiters = <<>>
  /\ pc = [c \in Calls |-> "new"]
  /\ force = [c \in Calls |-> FALSE]
  /\ observed = [c \in Calls |-> 0]
  /\ result = [c \in Calls |-> 0]
  /\ flight = [c \in Calls |-> 0]
  /\ granted = 0
  /\ grant = [n \in 1..MaxTokens |-> [at |-> 0, life |-> 0]]

------------------------------------------------------------------------------
\* A return of the cached token, and the start of a request, with the lock.
ReturnCached(c) ==
  /\ pc' = [pc EXCEPT ![c] = "returned"]
  /\ result' = [result EXCEPT ![c] = token]
  /\ holder' = Nobody

BeginRefresh(c) ==
  /\ pc' = [pc EXCEPT ![c] = "refresh"]
  /\ holder' = c
  /\ UNCHANGED result

\* Mutants of Locked: any fresh token will do; a token somebody else fetched
\* is not checked again; a forced call always asks.
LockedTakesAny(c, forced, seen) ==
  IF IsFresh THEN ReturnCached(c) ELSE BeginRefresh(c)

LockedTrustsOthers(c, forced, seen) ==
  IF token # seen \/ (IsFresh /\ ~forced) THEN ReturnCached(c) ELSE BeginRefresh(c)

LockedAlwaysAsks(c, forced, seen) ==
  IF IsFresh /\ ~forced THEN ReturnCached(c) ELSE BeginRefresh(c)

\* The lines 36-40, with the lock: the cached token, or a request.  "forced"
\* and "seen" are the call's force_refresh and observed_token.
Locked(c, forced, seen) ==
  IF IsFresh /\ (forced => token # seen)
  THEN ReturnCached(c)
  ELSE BeginRefresh(c)

\* get_token as far as its first await.
GetToken(c, forced) ==
  /\ pc[c] = "new" \/ (Ended(c) /\ c \in Again)
  /\ force' = [force EXCEPT ![c] = forced]
  /\ observed' = [observed EXCEPT ![c] = token]
  /\ \/ /\ ~forced /\ IsFresh
        /\ pc' = [pc EXCEPT ![c] = "returned"]
        /\ result' = [result EXCEPT ![c] = token]
        /\ UNCHANGED <<holder, waiters>>
     \/ /\ forced \/ ~IsFresh
        /\ holder = Nobody /\ waiters = <<>>
        /\ Locked(c, forced, token)
        /\ UNCHANGED waiters
     \/ /\ forced \/ ~IsFresh
        /\ holder # Nobody \/ waiters # <<>>
        /\ waiters' = Append(waiters, c)
        /\ pc' = [pc EXCEPT ![c] = "waiting"]
        /\ UNCHANGED <<result, holder>>
  /\ UNCHANGED <<now, cache, flight, server>>

\* asyncio.Lock hands itself to its first waiter, and nobody overtakes it.
Acquire(c) ==
  /\ holder = Nobody
  /\ waiters # <<>> /\ Head(waiters) = c
  /\ waiters' = Tail(waiters)
  /\ Locked(c, force[c], observed[c])
  /\ UNCHANGED <<now, cache, force, observed, flight, server>>

\* The server grants a token to the request of c.
Grant(c) ==
  /\ pc[c] = "refresh" /\ flight[c] = 0
  /\ granted < MaxTokens
  /\ granted' = granted + 1
  /\ \E e \in Lifetimes :
       grant' = [grant EXCEPT ![granted + 1] = [at |-> now, life |-> e]]
  /\ flight' = [flight EXCEPT ![c] = granted + 1]
  /\ UNCHANGED <<now, cache, holder, waiters, pc, force, observed, result>>

\* The answer to a grant is lost, and request_json asks again.
AnswerLost(c) ==
  /\ pc[c] = "refresh" /\ flight[c] # 0
  /\ flight' = [flight EXCEPT ![c] = 0]
  /\ UNCHANGED <<now, cache, holder, waiters, pc, force, observed, result, server>>

\* The answer arrives: lines 58-68.  The clock is read after the answer.
RefreshEnds(c) ==
  /\ pc[c] = "refresh" /\ flight[c] # 0
  /\ token' = flight[c]
  /\ expiresAt' = now + grant[flight[c]].life
  /\ pc' = [pc EXCEPT ![c] = "returned"]
  /\ result' = [result EXCEPT ![c] = flight[c]]
  /\ flight' = [flight EXCEPT ![c] = 0]
  /\ holder' = Nobody
  /\ UNCHANGED <<now, waiters, force, observed, server>>

\* Mutant of RefreshFails: an acquire and release without "async with".
RefreshFailsHolding(c) ==
  /\ pc[c] = "refresh"
  /\ pc' = [pc EXCEPT ![c] = "failed"]
  /\ flight' = [flight EXCEPT ![c] = 0]
  /\ UNCHANGED <<now, cache, holder, waiters, force, observed, result, server>>

\* FeishuAuthError: the request failed, its answer is lost or not a token.
RefreshFails(c) ==
  /\ pc[c] = "refresh"
  /\ pc' = [pc EXCEPT ![c] = "failed"]
  /\ flight' = [flight EXCEPT ![c] = 0]
  /\ holder' = Nobody
  /\ UNCHANGED <<now, cache, waiters, force, observed, result, server>>

\* waiters.remove: the queue without its place k.
Removed(seq, k) ==
  [i \in 1..Len(seq) - 1 |-> IF i < k THEN seq[i] ELSE seq[i + 1]]

\* Mutant of Cancel: the call stays in the lock's queue.
CancelStaysQueued(c) ==
  /\ pc[c] \in {"waiting", "refresh"}
  /\ pc' = [pc EXCEPT ![c] = "cancelled"]
  /\ holder' = IF holder = c THEN Nobody ELSE holder
  /\ flight' = [flight EXCEPT ![c] = 0]
  /\ UNCHANGED <<now, cache, waiters, force, observed, result, server>>

\* The caller is cancelled, in the queue of the lock or in its request.
Cancel(c) ==
  /\ \/ /\ pc[c] = "waiting"
        /\ \E k \in 1..Len(waiters) : waiters[k] = c /\ waiters' = Removed(waiters, k)
        /\ UNCHANGED <<holder, flight>>
     \/ /\ pc[c] = "refresh"
        /\ holder' = Nobody
        /\ flight' = [flight EXCEPT ![c] = 0]
        /\ UNCHANGED waiters
  /\ pc' = [pc EXCEPT ![c] = "cancelled"]
  /\ UNCHANGED <<now, cache, force, observed, result, server>>

Tick ==
  /\ now < MaxTime
  /\ \A c \in Calls : flight[c] # 0 => now < grant[flight[c]].at + MaxLatency
  /\ now' = now + 1
  /\ UNCHANGED <<cache, holder, waiters, pc, force, observed, result, flight, server>>

Next ==
  \/ \E c \in Calls :
       \/ \E forced \in BOOLEAN : GetToken(c, forced)
       \/ Acquire(c)
       \/ Grant(c)
       \/ AnswerLost(c)
       \/ RefreshEnds(c)
       \/ RefreshFails(c)
       \/ Cancel(c)
  \/ Tick

(***************************************************************************)
(* The event loop resumes the waiter a free lock was handed to, and a      *)
(* request ends, with an answer or with a timeout of the HTTP client.      *)
(***************************************************************************)
Spec == Init /\ [][Next]_vars
FairSpec ==
  /\ Spec
  /\ \A c \in Calls : WF_vars(Acquire(c)) /\ WF_vars(RefreshEnds(c) \/ RefreshFails(c))

------------------------------------------------------------------------------
\* What the callers see of the manager, for the abstract token service.
Abstract == INSTANCE TokenService WITH
  Tokens <- 1..MaxTokens,
  cached <- token,
  fresh <- IsFresh,
  fetching <- holder,
  asking <- {c \in Calls : pc[c] \in {"waiting", "refresh"}},
  forced <- {c \in Calls : force[c]},
  given <- result

------------------------------------------------------------------------------
(* Properties                                                              *)

\* The shape of the state; the lock's queue holds exactly the calls that wait.
TypeOK ==
  /\ now \in Nat
  /\ token \in 0..MaxTokens
  /\ expiresAt \in Nat
  /\ holder \in Calls \cup {Nobody}
  /\ waiters \in Seq(Calls)
  /\ \A c \in Calls : pc[c] = "waiting" <=> \E i \in 1..Len(waiters) : waiters[i] = c
  /\ pc \in [Calls -> {"new", "waiting", "refresh", "returned", "failed", "cancelled"}]
  /\ force \in [Calls -> BOOLEAN]
  /\ observed \in [Calls -> 0..MaxTokens]
  /\ result \in [Calls -> 0..MaxTokens]
  /\ flight \in [Calls -> 0..MaxTokens]
  /\ granted \in 0..MaxTokens
  /\ grant \in [1..MaxTokens -> [at : Nat, life : Nat]]

\* A token the cache calls fresh is one the server still accepts, although
\* expiresAt counts from the end of the request and not from the grant: the
\* skew covers the difference (auth.py:42-43, 66-67).
FreshIsValid == IsFresh => Valid(token)

\* Every call that returns hands out a token that is valid then, also one that
\* returns at once where the caller's last one did.
Returns(c) ==
  /\ pc'[c] = "returned"
  /\ pc[c] = "returned" => \E forced \in BOOLEAN : GetToken(c, forced)
ReturnsValidToken == [][\A c \in Calls : Returns(c) => Valid(result'[c])]_vars

\* A forced call never gets back the token it wanted to be rid of, also when
\* it shares another call's refresh (lines 32, 38-40).
ForcedGetsAnother ==
  \A c \in Calls : pc[c] = "returned" /\ force[c] => result[c] # observed[c]

\* Concurrent refreshes collapse: a call whose wait saw the cache replaced by
\* a fresh token does not request another one ("collapse concurrent
\* refreshes", line 14).
RefreshesCollapse ==
  [][\A c \in Calls : pc'[c] = "refresh" /\ pc[c] = "waiting" =>
       ~(IsFresh /\ token # observed[c])]_vars

\* The lock and its queue, the clock and the requests together keep the token
\* service's promise, however calls are cancelled and refreshes fail: one
\* refresh at a time, none while a token that would do is cached, and never
\* back to an older token (auth.py:30-68).
ImplementsTokenService == Abstract!ServiceSpec

\* The cache never goes back to an older grant: a refresh that was slow or
\* late does not overwrite a newer token.
CacheNeverGoesBack == [][token' >= token]_vars

\* Every call ends, although those before it in the lock's queue fail or are
\* cancelled, even just after the lock was handed to them.
EveryCallEnds == \A c \in Calls : pc[c] \in {"waiting", "refresh"} ~> Ended(c)
==============================================================================
