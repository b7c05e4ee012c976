----------------------------- MODULE ApiRequest -----------------------------
(***************************************************************************)
(* One API operation of FeishuClient from its call to its end: the token,  *)
(* the transport attempts of FeishuHttpClient with their retries, the one  *)
(* repetition after a 401, and a server that may act on a request whose    *)
(* answer the client never sees (src/feishulib/client.py, http.py).        *)
(*                                                                         *)
(* Tokens come from the token service, which the token manager implements  *)
(* (TokenManager); the server accepts the tokens it has granted until it   *)
(* revokes them.                                                           *)
(***************************************************************************)
EXTENDS Naturals, FiniteSets

CONSTANTS
  Calls,       \* operations
  MaxRetries,  \* max_retries
  MaxTokens,   \* bound: tokens the server grants
  MaxStray,    \* bound: abandoned requests that are still under way
  Nobody       \* nobody refreshes the token

ASSUME RequestAssumption ==
  /\ MaxRetries \in Nat /\ MaxTokens \in Nat /\ MaxStray \in Nat
  /\ Nobody \notin Calls

VARIABLES
  pc,        \* per call: the await it is at, or how it ended
  op,        \* per call: the kind of operation
  round,     \* per call: 1, or 2 after a 401
  attempt,   \* per call: _request's attempt
  answer,    \* per call: the server's answer to the request under way
  cached, fresh, fetching, asking, forced, observed,  \* the token service
  given,     \* per call: the managed token its requests carry
  grant,     \* the token that is on its way to who refreshes, or 0
  issued,    \* tokens the server has granted
  revoked,   \* it accepts them from this one on, itself excluded
  stray,     \* per call: abandoned requests the server may still act on
  created,   \* the server's memory of message uuids
  executed,  \* history: times the operation took effect
  since      \* history: the tokens that were out of reach when the call began

Manager == INSTANCE TokenService WITH Tokens <- 1..MaxTokens

request == <<pc, op, round, attempt, answer, since>>
service == <<cached, fresh, fetching, asking, forced, observed, given>>
tokens == <<grant, issued, revoked>>
effects == <<stray, created, executed>>
vars == <<request, service, tokens, effects>>

(***************************************************************************)
(* What the public methods differ in.  Sends and replies carry a uuid and  *)
(* are retried; updates, deletes, downloads and the bot identity are       *)
(* retried without one; request and request_raw retry safe methods or as   *)
(* told, with the managed token or an explicit one.                        *)
(***************************************************************************)
Posts == {[uuid |-> TRUE, retry |-> TRUE, managed |-> TRUE]}
TypedRequests == {[uuid |-> FALSE, retry |-> TRUE, managed |-> TRUE]}

ShouldRetry(method, retry) ==
  IF retry # "default" THEN retry = "yes" ELSE method = "safe"

GenericRequests ==
  {[uuid |-> FALSE, retry |-> ShouldRetry(method, retry), managed |-> managed] :
     method \in {"safe", "unsafe"}, retry \in {"default", "yes", "no"},
     managed \in BOOLEAN}
Operations == Posts \cup TypedRequests \cup GenericRequests

\* Mutant of MessageKey: a uuid for every attempt.
MessageKeyPerAttempt(c) == <<c, attempt[c]>>

\* The uuid of a message: drawn once, before the first attempt.
MessageKey(c) == c

\* Mutant of Attempts: everything is retried.
AttemptsOfAll(c) == MaxRetries + 1

Attempts(c) == IF op[c].retry THEN MaxRetries + 1 ELSE 1

(***************************************************************************)
(* What an operation makes of a response: its status, whether it is called *)
(* JSON, its body, the business code in it, its data and the id the        *)
(* operation looks for.  A status stands for its class.  A body of JSON    *)
(* that is "digits" has a number of more digits than int() converts.       *)
(***************************************************************************)
Responses ==
  [status : {200, 401, 404, 429}, json : BOOLEAN, body : {"object", "other", "digits"},
   code : {"zero", "error", "none"}, data : {"object", "other"}, id : BOOLEAN]

\* Whoever sends or updates a message wants its id; request_raw takes what
\* comes.
Readers(o) ==
  IF o.uuid THEN {"receipt"}
  ELSE {"raw", "envelope"} \cup
       IF o \in TypedRequests THEN {"receipt", "bytes", "identity"} ELSE {}

\* The body of a success.  An operation has what it asked for, or "failed":
\* FeishuProtocolError or FeishuApiError.
Read(reader, r) ==
  IF reader = "raw" \/ (reader = "bytes" /\ ~r.json) THEN "ok"
  ELSE IF r.body = "digits" THEN "unconvertible"
  ELSE IF /\ r.body = "object" /\ r.code = "zero" /\ r.data = "object"
          /\ reader # "bytes" /\ (reader \in {"receipt", "identity"} => r.id)
       THEN "ok"
       ELSE "failed"

\* An error status that is not retried has its body read for a message.
Verdict(reader, r) ==
  CASE r.status = 200 -> Read(reader, r)
    [] r.status = 429 -> "busy"
    [] r.status \in {401, 404} ->
         IF r.body = "digits" THEN "unconvertible"
         ELSE IF r.status = 401 THEN "unauthorized"
         ELSE "failed"

\* What may come of a request that was carried out, and of one that was not.
WhenExecuted ==
  [o \in Operations |->
    {Verdict(reader, r) : reader \in Readers(o),
                          r \in {x \in Responses : x.status \in {200, 429}}}]
WhenDeclined ==
  [o \in Operations |-> [accepted \in BOOLEAN |->
    {Verdict(reader, r) : reader \in Readers(o),
       r \in {x \in Responses : /\ x.status = 401 => ~(o.managed /\ accepted)
                                /\ x.status \in {200, 404} => accepted
                                /\ x.status = 200 => x.code = "error"}}]]

Answers == {"ok", "failed", "unconvertible", "unauthorized", "busy"}

\* "invalid" is a plain ValueError, "failed" an error of the library's own that
\* is not one of those listed.
Outcomes ==
  {"ok", "invalid", "failed", "unauthorized", "transient", "auth", "cancelled"}

Init ==
  /\ pc = [c \in Calls |-> "new"]
  /\ op \in [Calls -> Operations]
  /\ round = [c \in Calls |-> 1]
  /\ attempt = [c \in Calls |-> 0]
  /\ answer = [c \in Calls |-> "none"]
  /\ Manager!ServiceInit
  /\ grant = 0 /\ issued = 0 /\ revoked = 0
  /\ stray = [c \in Calls |-> 0]
  /\ created = {}
  /\ executed = [c \in Calls |-> 0]
  /\ since = [c \in Calls |-> 0]

------------------------------------------------------------------------------
(* The client                                                              *)

\* The call goes on to its next await, or to its end.
Goes(c, place) ==
  /\ pc' = [pc EXCEPT ![c] = place]
  /\ answer' = [answer EXCEPT ![c] = "none"]

\* A transport attempt starts.
Transmit(c) == Goes(c, "request")

\* A generic request with arguments that do not go together: a ValueError.
Reject(c) ==
  /\ pc[c] = "new" /\ op[c] \in GenericRequests
  /\ Goes(c, "invalid")
  /\ UNCHANGED <<op, round, attempt, since, service, tokens, effects>>

\* get_token: the cached token at once, or a wait.
GetToken(c, force) ==
  /\ Manager!Ask(c, force)
  /\ IF c \in asking' THEN Goes(c, "token") ELSE Transmit(c)

\* Tokens that can no longer reach a call that begins now: those that are
\* revoked, except one that is still on its way into the cache.
OutOfReach == IF grant \in 1..revoked THEN grant - 1 ELSE revoked

\* An explicit access_token needs no token manager.
Begin(c) ==
  /\ pc[c] = "new"
  /\ since' = [since EXCEPT ![c] = OutOfReach]
  /\ IF op[c].managed
     THEN GetToken(c, FALSE)
     ELSE Transmit(c) /\ UNCHANGED service
  /\ UNCHANGED <<op, round, attempt, tokens, effects>>

\* The lock is free, and what is cached will do.
TokenReady(c) ==
  /\ pc[c] = "token"
  /\ Manager!Serve(c)
  /\ Transmit(c)
  /\ UNCHANGED <<op, round, attempt, since, tokens, effects>>

RefreshBegins(c) ==
  /\ pc[c] = "token"
  /\ Manager!Fetch(c)
  /\ UNCHANGED <<request, tokens, effects>>

\* The token arrives that was granted to the refresh.
RefreshEnds(c) ==
  /\ pc[c] = "token" /\ grant # 0
  /\ Manager!Renew(c, grant)
  /\ grant' = 0
  /\ Transmit(c)
  /\ UNCHANGED <<op, round, attempt, since, issued, revoked, effects>>

\* FeishuAuthError.
TokenFails(c) ==
  /\ pc[c] = "token" /\ fetching = c
  /\ Manager!GiveUp(c)
  /\ grant' = 0
  /\ Goes(c, "auth")
  /\ UNCHANGED <<op, round, attempt, since, issued, revoked, effects>>

TokenExpires ==
  /\ Manager!GoStale
  /\ UNCHANGED <<request, tokens, effects>>

\* A request nobody has answered may still reach the server.
Abandon(c) ==
  stray' = [stray EXCEPT ![c] =
              IF answer[c] = "none" /\ @ < MaxStray THEN @ + 1 ELSE @]

\* Mutant of RetryOrGiveUp: one attempt too many.
RetryOnceMore(c) ==
  /\ IF attempt[c] = Attempts(c)
     THEN Goes(c, "transient") /\ UNCHANGED attempt
     ELSE /\ Goes(c, "backoff")
          /\ attempt' = [attempt EXCEPT ![c] = @ + 1]
  /\ UNCHANGED <<op, round, since, service, tokens, created, executed>>

\* A RequestError or a retryable status: back off, or give up.
RetryOrGiveUp(c) ==
  /\ IF attempt[c] = Attempts(c) - 1
     THEN Goes(c, "transient") /\ UNCHANGED attempt
     ELSE /\ Goes(c, "backoff")
          /\ attempt' = [attempt EXCEPT ![c] = @ + 1]
  /\ UNCHANGED <<op, round, since, service, tokens, created, executed>>

\* The connection fails or the request times out.
RequestError(c) ==
  /\ pc[c] = "request"
  /\ Abandon(c)
  /\ RetryOrGiveUp(c)

AnswerBusy(c) ==
  /\ pc[c] = "request" /\ answer[c] = "busy"
  /\ RetryOrGiveUp(c)
  /\ UNCHANGED stray

\* A success, an error, or the ValueError of a number that response.json()
\* cannot convert: also in the body of a 401, which is then not repeated.
AnswerFinal(c) ==
  /\ pc[c] = "request"
  /\ \/ answer[c] \in {"ok", "failed"} /\ Goes(c, answer[c])
     \/ answer[c] = "unconvertible" /\ Goes(c, "invalid")
  /\ UNCHANGED <<op, round, attempt, since, service, tokens, effects>>

\* Mutant of AnswerUnauthorized: force_refresh is not passed on.
AnswerUnauthorizedUnforced(c) ==
  /\ pc[c] = "request" /\ answer[c] = "unauthorized"
  /\ IF op[c].managed /\ round[c] = 1
     THEN /\ GetToken(c, FALSE)
          /\ round' = [round EXCEPT ![c] = 2]
          /\ attempt' = [attempt EXCEPT ![c] = 0]
     ELSE /\ Goes(c, "unauthorized")
          /\ UNCHANGED <<round, attempt, service>>
  /\ UNCHANGED <<op, since, tokens, effects>>

\* 401: repeat everything once with a token refreshed by force.
AnswerUnauthorized(c) ==
  /\ pc[c] = "request" /\ answer[c] = "unauthorized"
  /\ IF op[c].managed /\ round[c] = 1
     THEN /\ GetToken(c, TRUE)
          /\ round' = [round EXCEPT ![c] = 2]
          /\ attempt' = [attempt EXCEPT ![c] = 0]
     ELSE /\ Goes(c, "unauthorized")
          /\ UNCHANGED <<round, attempt, service>>
  /\ UNCHANGED <<op, since, tokens, effects>>

BackoffEnds(c) ==
  /\ pc[c] = "backoff"
  /\ Transmit(c)
  /\ UNCHANGED <<op, round, attempt, since, service, tokens, effects>>

\* The caller is cancelled, and with it the refresh it may be in.
Cancel(c) ==
  /\ \/ /\ pc[c] = "token"
        /\ Manager!GiveUp(c)
        /\ grant' = IF fetching = c THEN 0 ELSE grant
        /\ UNCHANGED stray
     \/ /\ pc[c] = "request"
        /\ Abandon(c)
        /\ UNCHANGED <<service, grant>>
     \/ /\ pc[c] = "backoff"
        /\ UNCHANGED <<service, grant, stray>>
  /\ Goes(c, "cancelled")
  /\ UNCHANGED <<op, round, attempt, since, issued, revoked, created, executed>>

------------------------------------------------------------------------------
(* The server                                                              *)

\* A token is granted to the refresh under way: a new one, or, while it is
\* accepted, the latest again.
TokenGranted ==
  /\ fetching # Nobody
  /\ grant' \in {issued, issued + 1}
  /\ revoked < grant' /\ grant' <= MaxTokens
  /\ issued' = grant'
  /\ UNCHANGED <<request, service, revoked, effects>>

\* Every token granted so far.
Revoke ==
  /\ revoked < issued
  /\ revoked' = issued
  /\ UNCHANGED <<request, service, grant, issued, effects>>

\* A request takes effect, unless its uuid is known.
Execute(c) ==
  /\ created' = IF op[c].uuid THEN created \cup {MessageKey(c)} ELSE created
  /\ executed' = [executed EXCEPT ![c] =
                    IF op[c].uuid /\ MessageKey(c) \in created THEN @ ELSE @ + 1]

\* A managed token is accepted until it is revoked; an explicit one is the
\* caller's affair.
Accepts(c) == op[c].managed => given[c] > revoked

\* The request is carried out and answered; the gateway may call it busy
\* all the same.
ServerExecutes(c) ==
  /\ pc[c] = "request" /\ answer[c] = "none"
  /\ Accepts(c)
  /\ Execute(c)
  /\ \E a \in WhenExecuted[op[c]] : answer' = [answer EXCEPT ![c] = a]
  /\ UNCHANGED <<pc, op, round, attempt, since, service, tokens, stray>>

ServerDeclines(c) ==
  /\ pc[c] = "request" /\ answer[c] = "none"
  /\ \E a \in WhenDeclined[op[c]][Accepts(c)] : answer' = [answer EXCEPT ![c] = a]
  /\ UNCHANGED <<pc, op, round, attempt, since, service, tokens, effects>>

\* A request its sender gave up arrives late.
StrayExecutes(c) ==
  /\ stray[c] > 0
  /\ stray' = [stray EXCEPT ![c] = @ - 1]
  /\ Execute(c)
  /\ UNCHANGED <<request, service, tokens>>

------------------------------------------------------------------------------
ClientStep(c) ==
  \/ Reject(c) \/ Begin(c)
  \/ TokenReady(c) \/ RefreshBegins(c) \/ RefreshEnds(c) \/ TokenFails(c)
  \/ RequestError(c)
  \/ AnswerBusy(c) \/ AnswerFinal(c) \/ AnswerUnauthorized(c)
  \/ BackoffEnds(c)

Next ==
  \/ \E c \in Calls :
       \/ ClientStep(c)
       \/ Cancel(c)
       \/ ServerExecutes(c)
       \/ ServerDeclines(c)
       \/ StrayExecutes(c)
  \/ TokenExpires
  \/ TokenGranted
  \/ Revoke

Spec == Init /\ [][Next]_vars

------------------------------------------------------------------------------
(* Properties                                                              *)

\* The shape of the state: a call waits for the token service exactly while
\* it is at that await, and only who refreshes is granted a token.
TypeOK ==
  /\ pc \in [Calls -> {"new", "token", "request", "backoff"} \cup Outcomes]
  /\ op \in [Calls -> Operations]
  /\ round \in [Calls -> 1..2]
  /\ attempt \in [Calls -> 0..MaxRetries]
  /\ answer \in [Calls -> Answers \cup {"none"}]
  /\ cached \in 0..MaxTokens
  /\ fresh \in BOOLEAN
  /\ fetching \in asking \cup {Nobody}
  /\ asking = {c \in Calls : pc[c] = "token"}
  /\ forced \subseteq Calls
  /\ observed \in [Calls -> 0..MaxTokens]
  /\ given \in [Calls -> 0..MaxTokens]
  /\ grant \in 0..MaxTokens /\ (fetching = Nobody => grant = 0)
  /\ issued \in 0..MaxTokens
  /\ revoked \in 0..issued
  /\ stray \in [Calls -> 0..MaxStray]
  /\ created \subseteq Calls
  /\ executed \in [Calls -> Nat]
  /\ since \in [Calls -> 0..MaxTokens]

\* A message is posted at most once, however often its request is repeated,
\* arrives late or is repeated after a 401; and a caller that has its receipt
\* has it posted, although its own last request may have been the duplicate
\* (client.py:53-72, 94-101).
PostedOnce ==
  \A c \in Calls : op[c].uuid =>
    /\ executed[c] <= 1
    /\ pc[c] = "ok" => executed[c] = 1

\* An operation that must not be retried takes effect at most once, also
\* when a 401 has it repeated or its answer is lost (client.py:335-339).
UnretriedAtMostOnce == \A c \in Calls : ~op[c].retry => executed[c] <= 1

\* A managed call reports 401 only if a token was revoked that could reach it
\* when it began: one that was accepted then, or was granted to a refresh
\* that had not ended.  A stale cache is replaced, even when another call's
\* refresh is shared or interferes (client.py:255-266).
UnauthorizedMeansRevoked ==
  \A c \in Calls : op[c].managed /\ pc[c] = "unauthorized" => revoked > since[c]
==============================================================================
