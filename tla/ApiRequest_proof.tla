-------------------------- MODULE ApiRequest_proof --------------------------
(***************************************************************************)
(* Proofs about ApiRequest, for any number of operations, retries, tokens  *)
(* and late requests.                                                      *)
(***************************************************************************)
EXTENDS ApiRequest, TLAPS

\* The messages that took effect are those the server knows.
Known ==
  \A c \in Calls : op[c].uuid => executed[c] = IF c \in created THEN 1 ELSE 0

\* A receipt is only for a message that was posted.
Receipts ==
  \A c \in Calls :
    op[c].uuid /\ (pc[c] = "ok" \/ (pc[c] = "request" /\ answer[c] = "ok")) =>
      executed[c] = 1

\* What an unretried operation may still do, and has done, is one effect: the
\* second round after a 401 follows a request that had none.
OneEffect ==
  \A c \in Calls : ~op[c].retry =>
    /\ ~op[c].uuid /\ attempt[c] = 0 /\ pc[c] # "backoff"
    /\ executed[c] + stray[c] <= 1
    /\ pc[c] \in {"new", "token"} => executed[c] = 0 /\ stray[c] = 0
    /\ pc[c] = "request" /\ answer[c] \in {"none", "unauthorized"} =>
         executed[c] = 0 /\ stray[c] = 0

\* Nothing is cached, nor on its way into the cache, that was not granted, and
\* what is on its way is not older than what it replaces.
Flight ==
  /\ cached <= issued /\ grant <= issued
  /\ grant # 0 => cached <= grant

\* How tokens relate to a call's beginning: what is on its way into the cache
\* could reach it then, and so could whatever its second round carries or finds
\* in the cache; a 401 says that the token it carried is revoked.
Reachable ==
  \A c \in Calls :
    /\ since[c] <= revoked
    /\ pc[c] = "new" => round[c] = 1 /\ since[c] = 0
    /\ pc[c] # "new" /\ grant # 0 => grant > since[c]
    /\ op[c].managed =>
         /\ pc[c] = "request" /\ answer[c] = "unauthorized" => given[c] <= revoked
         /\ round[c] = 2 /\ pc[c] \in {"request", "backoff"} => given[c] > since[c]
         /\ round[c] = 2 /\ pc[c] = "token" =>
              c \in forced /\ (cached # observed[c] => cached > since[c])
         /\ pc[c] = "unauthorized" => revoked > since[c]
    /\ pc[c] = "token" => op[c].managed

IInv == TypeOK /\ Known /\ Receipts /\ OneEffect /\ Flight /\ Reachable

------------------------------------------------------------------------------
\* What operations are: one without retries has no uuid either.
LEMMA OperationFacts ==
  ASSUME NEW o \in Operations
  PROVE  /\ o \in [uuid : BOOLEAN, retry : BOOLEAN, managed : BOOLEAN]
         /\ ~o.retry => ~o.uuid
<1>1. CASE o \in Posts \cup TypedRequests
  <2>1. PICK uuid \in BOOLEAN : o = [uuid |-> uuid, retry |-> TRUE, managed |-> TRUE]
    BY <1>1, Zenon DEF Posts, TypedRequests
  <2> QED
    BY <2>1
<1>2. CASE o \in GenericRequests
  <2>1. PICK method \in {"safe", "unsafe"}, retry \in {"default", "yes", "no"},
             managed \in BOOLEAN :
          o = [uuid |-> FALSE, retry |-> ShouldRetry(method, retry), managed |-> managed]
    BY <1>2 DEF GenericRequests
  <2>2. ShouldRetry(method, retry) \in BOOLEAN
    BY DEF ShouldRetry
  <2> QED
    BY <2>1, <2>2
<1> QED
  BY <1>1, <1>2 DEF Operations

\* A verdict is an answer; 401 is the only way to "unauthorized", and a body
\* with an error code in it is no receipt.
LEMMA VerdictFacts ==
  ASSUME NEW o, NEW reader \in Readers(o), NEW r \in Responses
  PROVE  /\ Verdict(reader, r) \in Answers
         /\ Verdict(reader, r) = "unauthorized" => r.status = 401
         /\ o.uuid /\ Verdict(reader, r) = "ok" => r.status = 200 /\ r.code # "error"
<1>1. r.status \in {200, 401, 404, 429}
  BY DEF Responses
<1>2. Read(reader, r) \in Answers \ {"unauthorized"}
  BY DEF Read, Answers
<1>3. o.uuid => reader = "receipt"
  BY DEF Readers
<1>4. reader = "receipt" /\ Read(reader, r) = "ok" => r.code # "error"
  BY DEF Read
<1> QED
  BY <1>1, <1>2, <1>3, <1>4 DEF Verdict, Answers

\* What the server says of a request it carried out is not 401; it says 401 of
\* an accepted token only if that was explicit, and never grants a receipt for
\* a message it declines.
LEMMA AnswerFacts ==
  ASSUME NEW o \in Operations, NEW accepted \in BOOLEAN
  PROVE  /\ WhenExecuted[o] \subseteq Answers \ {"unauthorized"}
         /\ WhenDeclined[o][accepted] \subseteq Answers
         /\ o.managed /\ accepted => "unauthorized" \notin WhenDeclined[o][accepted]
         /\ o.uuid => "ok" \notin WhenDeclined[o][accepted]
<1>1. WhenExecuted[o] =
        {Verdict(reader, r) : reader \in Readers(o),
                              r \in {x \in Responses : x.status \in {200, 429}}}
  BY DEF WhenExecuted
<1>2. WhenDeclined[o][accepted] =
        {Verdict(reader, r) : reader \in Readers(o),
           r \in {x \in Responses : /\ x.status = 401 => ~(o.managed /\ accepted)
                                    /\ x.status \in {200, 404} => accepted
                                    /\ x.status = 200 => x.code = "error"}}
  BY DEF WhenDeclined
<1>3. ASSUME NEW a \in WhenExecuted[o]
      PROVE  a \in Answers \ {"unauthorized"}
  <2>1. PICK reader \in Readers(o), r \in {x \in Responses : x.status \in {200, 429}} :
          a = Verdict(reader, r)
    BY <1>1, <1>3
  <2> QED
    BY <2>1, VerdictFacts
<1>4. ASSUME NEW a \in WhenDeclined[o][accepted]
      PROVE  /\ a \in Answers
             /\ o.managed /\ accepted => a # "unauthorized"
             /\ o.uuid => a # "ok"
  <2>1. PICK reader \in Readers(o),
             r \in {x \in Responses : /\ x.status = 401 => ~(o.managed /\ accepted)
                                      /\ x.status \in {200, 404} => accepted
                                      /\ x.status = 200 => x.code = "error"} :
          a = Verdict(reader, r)
    BY <1>2, <1>4
  <2>2. /\ r \in Responses
        /\ r.status = 401 => ~(o.managed /\ accepted)
        /\ r.status = 200 => r.code = "error"
    BY <2>1
  <2>3. /\ a \in Answers
        /\ a = "unauthorized" => r.status = 401
        /\ o.uuid /\ a = "ok" => r.status = 200 /\ r.code # "error"
    BY <2>1, <2>2, VerdictFacts
  <2> QED
    BY <2>2, <2>3
<1> QED
  BY <1>3, <1>4

------------------------------------------------------------------------------
(* What the token service's steps do to a call.                            *)

\* get_token: the call goes on with the cached token, which it does not do if
\* the refresh is forced, or waits.
LEMMA GetTokenFacts ==
  ASSUME TypeOK, NEW c \in Calls, NEW force \in BOOLEAN, GetToken(c, force)
  PROVE  /\ answer' = [answer EXCEPT ![c] = "none"]
         /\ cached' = cached /\ fresh' = fresh
         /\ forced' = (IF force THEN forced \cup {c} ELSE forced \ {c})
         /\ observed' = [observed EXCEPT ![c] = cached]
         /\ \/ /\ ~force
               /\ pc' = [pc EXCEPT ![c] = "request"]
               /\ given' = [given EXCEPT ![c] = cached]
               /\ asking' = asking /\ fetching' = fetching
            \/ /\ pc' = [pc EXCEPT ![c] = "token"]
               /\ given' = given
               /\ asking' = asking \cup {c}
               /\ fetching' = fetching \/ (fetching = Nobody /\ fetching' = c)
<1>1. Manager!Ask(c, force) /\ (IF c \in asking' THEN Goes(c, "token") ELSE Transmit(c))
  BY DEF GetToken
<1>2. CASE fresh /\ ~force /\ given' = [given EXCEPT ![c] = cached] /\ UNCHANGED <<asking, fetching>>
  BY <1>1, <1>2 DEF Manager!Ask, Goes, Transmit
<1>3. CASE /\ force \/ ~fresh
           /\ asking' = asking \cup {c}
           /\ UNCHANGED fetching \/ (fetching = Nobody /\ fetching' = c)
           /\ UNCHANGED given
  <2>1. Goes(c, "token")
    BY <1>1, <1>3
  <2> QED
    BY <1>1, <1>3, <2>1 DEF Manager!Ask, Goes
<1> QED
  BY <1>1, <1>2, <1>3 DEF Manager!Ask

\* The shape of the service's state, which every step of the client keeps that
\* takes a call into, or out of, the wait.
Service ==
  /\ cached \in 0..MaxTokens
  /\ fresh \in BOOLEAN
  /\ fetching \in asking \cup {Nobody}
  /\ asking = {c \in Calls : pc[c] = "token"}
  /\ forced \subseteq Calls
  /\ observed \in [Calls -> 0..MaxTokens]
  /\ given \in [Calls -> 0..MaxTokens]
  /\ grant \in 0..MaxTokens /\ (fetching = Nobody => grant = 0)

\* The shape of everything else.
Shape ==
  /\ pc \in [Calls -> {"new", "token", "request", "backoff"} \cup Outcomes]
  /\ op \in [Calls -> Operations]
  /\ round \in [Calls -> 1..2]
  /\ attempt \in [Calls -> 0..MaxRetries]
  /\ answer \in [Calls -> Answers \cup {"none"}]
  /\ issued \in 0..MaxTokens
  /\ revoked \in 0..issued
  /\ stray \in [Calls -> 0..MaxStray]
  /\ created \subseteq Calls
  /\ executed \in [Calls -> Nat]
  /\ since \in [Calls -> 0..MaxTokens]

\* The two make up the type.
LEMMA TypeParts == Service /\ Shape <=> TypeOK
BY Zenon DEF Service, Shape, TypeOK

\* The initial states satisfy the invariant.
LEMMA InitInv == Init => IInv
<1> SUFFICES ASSUME Init PROVE IInv
  OBVIOUS
<1> USE DEF Init, Manager!ServiceInit
<1>1. Service
  <2>1. fresh \in BOOLEAN /\ asking = {c \in Calls : pc[c] = "token"}
    <3>1. fresh = FALSE /\ asking = {} /\ \A c \in Calls : pc[c] = "new"
      OBVIOUS
    <3> QED
      BY <3>1
  <2> QED
    BY <2>1, RequestAssumption DEF Service, RequestAssumption
<1>2. Shape
  BY RequestAssumption DEF Shape, RequestAssumption, Answers, Outcomes
<1>3. Known /\ Receipts /\ Flight /\ Reachable
  BY DEF Known, Receipts, Flight, Reachable
<1>4. OneEffect
  BY OperationFacts DEF OneEffect
<1> QED
  BY <1>1, <1>2, <1>3, <1>4, TypeParts DEF IInv

\* A call that keeps away from the wait does not disturb the service.
LEMMA ServiceStays ==
  ASSUME TypeOK, NEW c \in Calls, NEW place, pc[c] # "token", place # "token",
         pc' = [pc EXCEPT ![c] = place], UNCHANGED <<service, grant>>
  PROVE  Service'
<1>1. {d \in Calls : pc'[d] = "token"} = {d \in Calls : pc[d] = "token"}
  BY DEF TypeOK
<1> QED
  BY <1>1 DEF TypeOK, Service, service

\* Nor does one that leaves the wait, with its refresh if it is in one.
LEMMA ServiceLeft ==
  ASSUME TypeOK, NEW c \in Calls, NEW place, pc[c] = "token", place # "token",
         pc' = [pc EXCEPT ![c] = place], asking' = asking \ {c},
         fetching' = (IF fetching = c THEN Nobody ELSE fetching),
         grant' = (IF fetching = c THEN 0 ELSE grant),
         cached' \in 0..MaxTokens, fresh' \in BOOLEAN,
         given' \in [Calls -> 0..MaxTokens], UNCHANGED <<forced, observed>>
  PROVE  Service'
<1>1. {d \in Calls : pc'[d] = "token"} = {d \in Calls : pc[d] = "token"} \ {c}
  BY DEF TypeOK
<1>2. fetching' \in asking' \cup {Nobody}
  BY DEF TypeOK
<1>3. grant' \in 0..MaxTokens /\ (fetching' = Nobody => grant' = 0)
  BY RequestAssumption DEF TypeOK, RequestAssumption
<1> QED
  BY <1>1, <1>2, <1>3 DEF TypeOK, Service

\* Nor one that calls get_token.
LEMMA ServiceAsked ==
  ASSUME TypeOK, NEW c \in Calls, NEW force \in BOOLEAN, pc[c] # "token",
         GetToken(c, force), UNCHANGED grant
  PROVE  Service'
<1>1. /\ cached' = cached /\ fresh' = fresh
      /\ forced' = (IF force THEN forced \cup {c} ELSE forced \ {c})
      /\ observed' = [observed EXCEPT ![c] = cached]
  BY GetTokenFacts
<1>2. /\ cached' \in 0..MaxTokens /\ fresh' \in BOOLEAN
      /\ forced' \subseteq Calls /\ observed' \in [Calls -> 0..MaxTokens]
  <2>1. fresh' \in BOOLEAN
    BY <1>1 DEF TypeOK
  <2> QED
    BY <1>1, <2>1 DEF TypeOK
<1>3. /\ fetching' \in asking' \cup {Nobody}
      /\ asking' = {d \in Calls : pc'[d] = "token"}
      /\ given' \in [Calls -> 0..MaxTokens]
      /\ grant' \in 0..MaxTokens /\ (fetching' = Nobody => grant' = 0)
  <2>1. CASE /\ pc' = [pc EXCEPT ![c] = "request"]
             /\ given' = [given EXCEPT ![c] = cached]
             /\ asking' = asking /\ fetching' = fetching
    BY <2>1 DEF TypeOK
  <2>2. CASE /\ pc' = [pc EXCEPT ![c] = "token"]
             /\ given' = given /\ asking' = asking \cup {c}
             /\ fetching' = fetching \/ (fetching = Nobody /\ fetching' = c)
    <3>1. asking' = {d \in Calls : pc'[d] = "token"}
      BY <2>2 DEF TypeOK
    <3>2. fetching' = Nobody => fetching = Nobody
      BY <2>2, RequestAssumption DEF RequestAssumption
    <3>3. fetching' \in asking' \cup {Nobody}
      BY <2>2 DEF TypeOK
    <3> QED
      BY <2>2, <3>1, <3>2, <3>3 DEF TypeOK
  <2> QED
    BY <2>1, <2>2, GetTokenFacts
<1> QED
  BY <1>2, <1>3 DEF Service

\* The two parts, after a step.
LEMMA TypePartsNext ==
  ASSUME Service', Shape'
  PROVE  TypeOK'
BY Zenon DEF Service, Shape, TypeOK

------------------------------------------------------------------------------
\* The client's steps that call get_token, or begin without it.
LEMMA AskInv ==
  ASSUME IInv, NEW c \in Calls, Begin(c) \/ AnswerUnauthorized(c)
  PROVE  IInv'
<1> USE DEF IInv
<1>0. /\ \A d \in Calls : op[d] \in [uuid : BOOLEAN, retry : BOOLEAN, managed : BOOLEAN]
      /\ TypeOK /\ Shape /\ pc[c] # "token"
      /\ MaxRetries \in Nat /\ MaxTokens \in Nat
  <2>1. pc[c] # "token"
    BY DEF Begin, AnswerUnauthorized
  <2> QED
    BY <2>1, OperationFacts, TypeParts, RequestAssumption DEF RequestAssumption, TypeOK
<1>1. CASE Begin(c)
  <2>1. /\ pc[c] = "new" /\ UNCHANGED <<op, round, attempt, tokens, effects>>
        /\ since' = [since EXCEPT ![c] = OutOfReach]
    BY <1>1 DEF Begin
  <2>2. /\ OutOfReach \in 0..revoked
        /\ grant # 0 => grant > OutOfReach
    BY <1>0 DEF OutOfReach, TypeOK
  <2>3. CASE op[c].managed
    <3>1. GetToken(c, FALSE)
      BY <1>1, <2>3 DEF Begin
    <3>2. /\ answer' = [answer EXCEPT ![c] = "none"]
          /\ cached' = cached
          /\ forced' = forced \ {c}
          /\ observed' = [observed EXCEPT ![c] = cached]
          /\ \/ /\ pc' = [pc EXCEPT ![c] = "request"]
                /\ given' = [given EXCEPT ![c] = cached]
             \/ /\ pc' = [pc EXCEPT ![c] = "token"]
                /\ given' = given
      BY <1>0, <3>1, GetTokenFacts
    <3>3. Service'
      BY <1>0, <2>1, <3>1, ServiceAsked DEF tokens
    <3>4. Shape'
      BY <1>0, <2>1, <2>2, <3>2 DEF Shape, tokens, effects
    <3>5. Known' /\ Receipts' /\ OneEffect'
      BY <1>0, <2>1, <3>2 DEF Known, Receipts, OneEffect, Shape, effects
    <3>6. Flight' /\ Reachable'
      BY <1>0, <2>1, <2>2, <2>3, <3>2 DEF Flight, Reachable, Shape, TypeOK, tokens
    <3> QED
      BY <3>3, <3>4, <3>5, <3>6, TypePartsNext
  <2>4. CASE ~op[c].managed
    <3>1. /\ pc' = [pc EXCEPT ![c] = "request"]
          /\ answer' = [answer EXCEPT ![c] = "none"]
          /\ UNCHANGED service
      BY <1>1, <2>4 DEF Begin, Transmit, Goes
    <3>2. Service'
      BY <1>0, <2>1, <3>1, ServiceStays DEF tokens
    <3>3. Shape'
      BY <1>0, <2>1, <2>2, <3>1 DEF Shape, tokens, effects
    <3>4. Known' /\ Receipts' /\ OneEffect'
      BY <1>0, <2>1, <3>1 DEF Known, Receipts, OneEffect, Shape, effects
    <3>5. Flight' /\ Reachable'
      BY <1>0, <2>1, <2>2, <2>4, <3>1 DEF Flight, Reachable, Shape, TypeOK, tokens, service
    <3> QED
      BY <3>2, <3>3, <3>4, <3>5, TypePartsNext
  <2> QED
    BY <2>3, <2>4
<1>2. CASE AnswerUnauthorized(c)
  <2>1. /\ pc[c] = "request" /\ answer[c] = "unauthorized"
        /\ UNCHANGED <<op, since, tokens, effects>>
    BY <1>2 DEF AnswerUnauthorized
  <2>2. CASE op[c].managed /\ round[c] = 1
    <3>1. /\ GetToken(c, TRUE)
          /\ round' = [round EXCEPT ![c] = 2]
          /\ attempt' = [attempt EXCEPT ![c] = 0]
      BY <1>2, <2>2 DEF AnswerUnauthorized
    <3>2. /\ answer' = [answer EXCEPT ![c] = "none"]
          /\ cached' = cached
          /\ forced' = forced \cup {c}
          /\ observed' = [observed EXCEPT ![c] = cached]
          /\ pc' = [pc EXCEPT ![c] = "token"]
          /\ given' = given
      BY <1>0, <3>1, GetTokenFacts
    <3>3. Service'
      BY <1>0, <2>1, <3>1, ServiceAsked DEF tokens
    <3>4. Shape'
      <4>1. 2 \in 1..2 /\ 0 \in 0..MaxRetries
        BY <1>0
      <4> QED
        BY <1>0, <2>1, <3>1, <3>2, <4>1 DEF Shape, tokens, effects
    <3>5. Known' /\ Receipts' /\ OneEffect'
      BY <1>0, <2>1, <3>1, <3>2 DEF Known, Receipts, OneEffect, Shape, effects
    <3>6. Flight' /\ Reachable'
      BY <1>0, <2>1, <2>2, <3>1, <3>2 DEF Flight, Reachable, Shape, TypeOK, tokens
    <3> QED
      BY <3>3, <3>4, <3>5, <3>6, TypePartsNext
  <2>3. CASE ~(op[c].managed /\ round[c] = 1)
    <3>1. /\ pc' = [pc EXCEPT ![c] = "unauthorized"]
          /\ answer' = [answer EXCEPT ![c] = "none"]
          /\ UNCHANGED <<round, attempt, service>>
      BY <1>2, <2>3 DEF AnswerUnauthorized, Goes
    <3>2. Service'
      BY <1>0, <2>1, <3>1, ServiceStays DEF tokens
    <3>3. Shape'
      BY <1>0, <2>1, <3>1 DEF Shape, Outcomes, tokens, effects
    <3>4. Known' /\ Receipts' /\ OneEffect'
      BY <1>0, <2>1, <3>1 DEF Known, Receipts, OneEffect, Shape, effects
    <3>5. Flight' /\ Reachable'
      <4>1. op[c].managed => round[c] = 2
        BY <1>0, <2>3 DEF Shape
      <4>2. op[c].managed => revoked > since[c]
        BY <1>0, <2>1, <4>1 DEF Reachable, TypeOK
      <4> QED
        BY <1>0, <2>1, <3>1, <4>2 DEF Flight, Reachable, Shape, tokens, service
    <3> QED
      BY <3>2, <3>3, <3>4, <3>5, TypePartsNext
  <2> QED
    BY <2>2, <2>3
<1> QED
  BY <1>1, <1>2

\* The client's steps out of the wait for a token, and a refresh's beginning.
LEMMA TokenInv ==
  ASSUME IInv, NEW c \in Calls,
         TokenReady(c) \/ RefreshBegins(c) \/ RefreshEnds(c) \/ TokenFails(c)
           \/ (pc[c] = "token" /\ Cancel(c))
  PROVE  IInv'
<1> USE DEF IInv
<1>0. /\ \A d \in Calls : op[d] \in [uuid : BOOLEAN, retry : BOOLEAN, managed : BOOLEAN]
      /\ TypeOK /\ Shape /\ pc[c] = "token"
      /\ MaxRetries \in Nat /\ MaxTokens \in Nat /\ Nobody \notin Calls
  <2>1. pc[c] = "token"
    BY DEF TokenReady, RefreshBegins, RefreshEnds, TokenFails
  <2> QED
    BY <2>1, OperationFacts, TypeParts, RequestAssumption DEF RequestAssumption, TypeOK
<1>1. CASE TokenReady(c)
  <2>1. /\ pc' = [pc EXCEPT ![c] = "request"]
        /\ answer' = [answer EXCEPT ![c] = "none"]
        /\ given' = [given EXCEPT ![c] = cached]
        /\ asking' = asking \ {c} /\ fetching' = fetching /\ fetching = Nobody
        /\ UNCHANGED <<cached, fresh, forced, observed>>
        /\ UNCHANGED <<op, round, attempt, since, tokens, effects>>
    BY <1>1 DEF TokenReady, Manager!Serve, Transmit, Goes
  <2>2. c \in forced => cached # observed[c]
    BY <1>1 DEF TokenReady, Manager!Serve, Manager!Suits
  <2>3. Service'
    <3>1. /\ given' \in [Calls -> 0..MaxTokens] /\ cached' \in 0..MaxTokens
          /\ grant = 0 /\ c # Nobody
      BY <1>0, <2>1 DEF TypeOK
    <3>2. fresh' \in BOOLEAN
      BY <1>0, <2>1 DEF TypeOK
    <3>3. /\ fetching' = (IF fetching = c THEN Nobody ELSE fetching)
          /\ grant' = (IF fetching = c THEN 0 ELSE grant)
      BY <2>1, <3>1 DEF tokens
    <3> QED
      BY <1>0, <2>1, <3>1, <3>2, <3>3, ServiceLeft
  <2>4. Shape'
    BY <1>0, <2>1 DEF Shape, tokens, effects
  <2>5. Known' /\ Receipts' /\ OneEffect'
    BY <1>0, <2>1 DEF Known, Receipts, OneEffect, Shape, effects
  <2>6. Flight' /\ Reachable'
    BY <1>0, <2>1, <2>2 DEF Flight, Reachable, Shape, TypeOK, tokens
  <2> QED
    BY <2>3, <2>4, <2>5, <2>6, TypePartsNext
<1>2. CASE RefreshBegins(c)
  <2>1. /\ fetching' = c /\ c \in asking /\ fetching = Nobody
        /\ UNCHANGED <<cached, fresh, asking, forced, observed, given>>
        /\ UNCHANGED <<request, tokens, effects>>
    BY <1>2 DEF RefreshBegins, Manager!Fetch
  <2>2. Service'
    <3>1. fresh' \in BOOLEAN
      BY <1>0, <2>1 DEF TypeOK
    <3> QED
      BY <1>0, <2>1, <3>1 DEF TypeOK, Service, request, tokens
  <2>3. Shape'
    BY <1>0, <2>1 DEF Shape, request, tokens, effects
  <2>4. Known' /\ Receipts' /\ OneEffect'
    BY <2>1 DEF Known, Receipts, OneEffect, request, effects
  <2>5. Flight' /\ Reachable'
    BY <2>1 DEF Flight, Reachable, request, tokens
  <2> QED
    BY <2>2, <2>3, <2>4, <2>5, TypePartsNext
<1>3. CASE RefreshEnds(c)
  <2>1. /\ pc' = [pc EXCEPT ![c] = "request"]
        /\ answer' = [answer EXCEPT ![c] = "none"]
        /\ given' = [given EXCEPT ![c] = grant]
        /\ cached' = grant /\ grant # 0 /\ grant' = 0
        /\ asking' = asking \ {c} /\ fetching = c /\ fetching' = Nobody
        /\ UNCHANGED <<op, round, attempt, since, forced, observed, issued, revoked, effects>>
    BY <1>3 DEF RefreshEnds, Manager!Renew, Transmit, Goes
  <2>2. fresh' \in BOOLEAN
    BY <1>3 DEF RefreshEnds, Manager!Renew
  <2>3. Service'
    <3>1. given' \in [Calls -> 0..MaxTokens] /\ cached' \in 0..MaxTokens
      BY <1>0, <2>1 DEF TypeOK
    <3>2. /\ fetching' = (IF fetching = c THEN Nobody ELSE fetching)
          /\ grant' = (IF fetching = c THEN 0 ELSE grant)
      BY <2>1
    <3> QED
      BY <1>0, <2>1, <2>2, <3>1, <3>2, ServiceLeft
  <2>4. Shape'
    BY <1>0, <2>1 DEF Shape, effects
  <2>5. Known' /\ Receipts' /\ OneEffect'
    BY <1>0, <2>1 DEF Known, Receipts, OneEffect, Shape, effects
  <2>6. Flight' /\ Reachable'
    BY <1>0, <2>1 DEF Flight, Reachable, Shape, TypeOK
  <2> QED
    BY <2>3, <2>4, <2>5, <2>6, TypePartsNext
<1>4. ASSUME NEW place \in {"auth", "cancelled"},
             Manager!GiveUp(c), Goes(c, place),
             grant' = (IF fetching = c THEN 0 ELSE grant),
             UNCHANGED <<op, round, attempt, since, issued, revoked, effects>>
      PROVE  IInv'
  <2>1. /\ pc' = [pc EXCEPT ![c] = place]
        /\ answer' = [answer EXCEPT ![c] = "none"]
        /\ asking' = asking \ {c}
        /\ fetching' = (IF fetching = c THEN Nobody ELSE fetching)
        /\ UNCHANGED <<cached, fresh, forced, observed, given>>
    BY <1>4 DEF Manager!GiveUp, Goes
  <2>2. Service'
    <3>1. /\ given' \in [Calls -> 0..MaxTokens] /\ cached' \in 0..MaxTokens
          /\ place # "token"
      BY <1>0, <1>4, <2>1 DEF TypeOK
    <3>2. fresh' \in BOOLEAN
      BY <1>0, <2>1 DEF TypeOK
    <3> QED
      BY <1>0, <1>4, <2>1, <3>1, <3>2, ServiceLeft
  <2>3. Shape'
    BY <1>0, <1>4, <2>1 DEF Shape, Outcomes, effects
  <2>4. Known' /\ Receipts' /\ OneEffect'
    BY <1>0, <1>4, <2>1 DEF Known, Receipts, OneEffect, Shape, effects
  <2>5. Flight' /\ Reachable'
    BY <1>0, <1>4, <2>1 DEF Flight, Reachable, Shape, TypeOK
  <2> QED
    BY <2>2, <2>3, <2>4, <2>5, TypePartsNext
<1>5. CASE TokenFails(c)
  BY <1>4, <1>5 DEF TokenFails
<1>6. CASE Cancel(c)
  <2>1. /\ Manager!GiveUp(c) /\ Goes(c, "cancelled")
        /\ grant' = IF fetching = c THEN 0 ELSE grant
        /\ UNCHANGED <<op, round, attempt, since, issued, revoked, effects>>
    BY <1>0, <1>6 DEF Cancel, effects
  <2> QED
    BY <1>4, <2>1
<1> QED
  BY <1>1, <1>2, <1>3, <1>5, <1>6

\* The client's other steps have nothing to do with the token service.
LEMMA ClientInv ==
  ASSUME IInv, NEW c \in Calls,
         \/ Reject(c) \/ RequestError(c) \/ AnswerBusy(c) \/ AnswerFinal(c)
         \/ BackoffEnds(c) \/ (pc[c] # "token" /\ Cancel(c))
  PROVE  IInv'
<1> USE DEF IInv
<1>0. /\ \A d \in Calls : op[d] \in [uuid : BOOLEAN, retry : BOOLEAN, managed : BOOLEAN]
      /\ TypeOK /\ Shape
      /\ MaxRetries \in Nat /\ MaxTokens \in Nat /\ MaxStray \in Nat
  BY OperationFacts, TypeParts, RequestAssumption DEF RequestAssumption, TypeOK
<1>1. ASSUME NEW place \in {"invalid", "ok", "failed", "request", "cancelled"},
             Goes(c, place), pc[c] # "token",
             UNCHANGED <<op, round, attempt, since, service, tokens, created, executed>>,
             stray' = stray \/ (pc[c] = "request" /\ Abandon(c) /\ place = "cancelled"),
             place = "ok" => pc[c] = "request" /\ answer[c] = "ok",
             place = "request" => pc[c] = "backoff"
      PROVE  IInv'
  <2>1. /\ pc' = [pc EXCEPT ![c] = place]
        /\ answer' = [answer EXCEPT ![c] = "none"]
    BY <1>1 DEF Goes
  <2>2. Service'
    BY <1>0, <1>1, <2>1, ServiceStays DEF tokens
  <2>3. Shape'
    <3>1. stray' \in [Calls -> 0..MaxStray]
      BY <1>0, <1>1 DEF Abandon, Shape
    <3> QED
      BY <1>0, <1>1, <2>1, <3>1 DEF Shape, Outcomes, tokens
  <2>4. Known' /\ Receipts'
    BY <1>0, <1>1, <2>1 DEF Known, Receipts, Shape
  <2>5. OneEffect'
    <3>1. stray' = stray \/ (answer[c] = "none" /\ stray' = [stray EXCEPT ![c] = @ + 1])
      BY <1>0, <1>1 DEF Abandon, Shape
    <3> QED
      BY <1>0, <1>1, <2>1, <3>1 DEF OneEffect, Shape
  <2>6. Flight' /\ Reachable'
    BY <1>0, <1>1, <2>1 DEF Flight, Reachable, Shape, TypeOK, tokens, service
  <2> QED
    BY <2>2, <2>3, <2>4, <2>5, <2>6, TypePartsNext
<1>2. ASSUME RetryOrGiveUp(c), pc[c] = "request", Abandon(c) \/ UNCHANGED stray
      PROVE  IInv'
  <2>1. PICK place \in {"transient", "backoff"} :
          /\ pc' = [pc EXCEPT ![c] = place]
          /\ answer' = [answer EXCEPT ![c] = "none"]
          /\ \/ place = "transient" /\ attempt' = attempt
             \/ /\ place = "backoff" /\ attempt[c] # Attempts(c) - 1
                /\ attempt' = [attempt EXCEPT ![c] = @ + 1]
          /\ UNCHANGED <<op, round, since, service, tokens, created, executed>>
    BY <1>2 DEF RetryOrGiveUp, Goes
  <2>2. Service'
    BY <1>0, <1>2, <2>1, ServiceStays DEF tokens
  <2>3. ~op[c].retry => place = "transient" /\ attempt' = attempt
    BY <1>0, <2>1 DEF Attempts, OneEffect
  <2>4. Shape'
    <3>1. stray' \in [Calls -> 0..MaxStray]
      BY <1>0, <1>2 DEF Abandon, Shape
    <3>2. attempt' \in [Calls -> 0..MaxRetries]
      <4>1. CASE op[c].retry
        <5>1. Attempts(c) - 1 = MaxRetries /\ attempt \in [Calls -> 0..MaxRetries]
          BY <1>0, <4>1 DEF Attempts, Shape
        <5>2. CASE attempt' = attempt
          BY <5>1, <5>2
        <5>3. CASE attempt[c] # MaxRetries /\ attempt' = [attempt EXCEPT ![c] = @ + 1]
          <6>1. attempt[c] + 1 \in 0..MaxRetries
            BY <1>0, <5>1, <5>3
          <6> QED
            BY <5>1, <5>3, <6>1
        <5> QED
          BY <2>1, <5>1, <5>2, <5>3
      <4>2. CASE ~op[c].retry
        BY <1>0, <2>3, <4>2 DEF Shape
      <4> QED
        BY <4>1, <4>2
    <3> QED
      BY <1>0, <2>1, <3>1, <3>2 DEF Shape, Outcomes, tokens
  <2>5. Known' /\ Receipts'
    BY <1>0, <2>1 DEF Known, Receipts, Shape
  <2>6. OneEffect'
    <3>1. stray' = stray \/ (answer[c] = "none" /\ stray' = [stray EXCEPT ![c] = @ + 1])
      BY <1>0, <1>2 DEF Abandon, Shape
    <3> QED
      BY <1>0, <1>2, <2>1, <2>3, <3>1 DEF OneEffect, Shape
  <2>7. Flight' /\ Reachable'
    BY <1>0, <1>2, <2>1 DEF Flight, Reachable, Shape, tokens, service
  <2> QED
    BY <2>2, <2>4, <2>5, <2>6, <2>7, TypePartsNext
<1>3. CASE Reject(c)
  BY <1>1, <1>3 DEF Reject, effects
<1>4. CASE RequestError(c)
  BY <1>2, <1>4 DEF RequestError
<1>5. CASE AnswerBusy(c)
  BY <1>2, <1>5 DEF AnswerBusy
<1>6. CASE AnswerFinal(c)
  <2>1. PICK place \in {"invalid", "ok", "failed"} :
          /\ Goes(c, place) /\ pc[c] = "request"
          /\ place = "ok" => answer[c] = "ok"
          /\ UNCHANGED <<op, round, attempt, since, service, tokens, effects>>
    BY <1>6 DEF AnswerFinal
  <2> QED
    BY <1>1, <2>1 DEF effects
<1>7. CASE BackoffEnds(c)
  BY <1>1, <1>7 DEF BackoffEnds, Transmit, effects
<1>8. CASE pc[c] # "token" /\ Cancel(c)
  <2>1. /\ Goes(c, "cancelled")
        /\ stray' = stray \/ (pc[c] = "request" /\ Abandon(c))
        /\ UNCHANGED <<op, round, attempt, since, service, tokens, created, executed>>
    BY <1>8 DEF Cancel, tokens
  <2> QED
    BY <1>1, <1>8, <2>1
<1> QED
  BY <1>3, <1>4, <1>5, <1>6, <1>7, <1>8

------------------------------------------------------------------------------
\* A request takes effect: once per uuid, and once if nothing is to follow.
LEMMA ServerInv ==
  ASSUME IInv, NEW c \in Calls,
         ServerExecutes(c) \/ ServerDeclines(c) \/ StrayExecutes(c)
  PROVE  IInv'
<1> USE DEF IInv
<1>0. /\ op[c] \in Operations
      /\ \A d \in Calls : op[d] \in [uuid : BOOLEAN, retry : BOOLEAN, managed : BOOLEAN]
      /\ TypeOK /\ Service /\ Shape
      /\ MaxRetries \in Nat /\ MaxTokens \in Nat /\ MaxStray \in Nat
  BY OperationFacts, TypeParts, RequestAssumption DEF RequestAssumption, TypeOK
<1>1. ASSUME UNCHANGED <<pc, service, grant>>
      PROVE  Service'
  <2>1. fresh' \in BOOLEAN
    BY <1>0, <1>1 DEF TypeOK, service
  <2> QED
    BY <1>0, <1>1, <2>1 DEF Service, service
<1>2. CASE ServerExecutes(c)
  <2>1. PICK a \in WhenExecuted[op[c]] : answer' = [answer EXCEPT ![c] = a]
    BY <1>2 DEF ServerExecutes
  <2>2. a \in Answers /\ a # "unauthorized" /\ a # "none"
    BY <1>0, <2>1, AnswerFacts DEF Answers
  <2>3. /\ UNCHANGED <<pc, op, round, attempt, since, service, tokens, stray>>
        /\ pc[c] = "request" /\ answer[c] = "none"
        /\ created' = IF op[c].uuid THEN created \cup {c} ELSE created
        /\ executed' = [executed EXCEPT ![c] =
                          IF op[c].uuid /\ c \in created THEN @ ELSE @ + 1]
    BY <1>2 DEF ServerExecutes, Execute, MessageKey
  <2>4. Service'
    BY <1>1, <2>3 DEF tokens
  <2>5. Shape'
    BY <1>0, <2>1, <2>2, <2>3 DEF Shape, tokens
  <2>6. Known' /\ Receipts'
    <3>1. op[c].uuid => executed'[c] = 1 /\ c \in created'
      BY <1>0, <2>3 DEF Known, Shape
    <3>2. \A d \in Calls \ {c} :
             executed'[d] = executed[d] /\ (d \in created => d \in created')
             /\ answer'[d] = answer[d]
      BY <1>0, <2>1, <2>3 DEF Shape
    <3> QED
      BY <2>3, <3>1, <3>2 DEF Known, Receipts
  <2>7. OneEffect'
    <3> SUFFICES ASSUME NEW d \in Calls, ~op[d].retry
                 PROVE  /\ ~op[d].uuid /\ attempt[d] = 0 /\ pc[d] # "backoff"
                        /\ executed'[d] + stray[d] <= 1
                        /\ pc[d] \in {"new", "token"} => executed'[d] = 0 /\ stray[d] = 0
                        /\ pc[d] = "request" /\ answer'[d] \in {"none", "unauthorized"} =>
                             executed'[d] = 0 /\ stray[d] = 0
      BY <2>3 DEF OneEffect
    <3>1. CASE d = c
      <4>1. executed[c] = 0 /\ stray[c] = 0 /\ ~op[c].uuid /\ attempt[c] = 0
        BY <2>3, <3>1 DEF OneEffect
      <4>2. executed'[c] = 1 /\ answer'[c] = a
        BY <1>0, <2>1, <2>3, <4>1 DEF Shape
      <4> QED
        BY <2>2, <2>3, <3>1, <4>1, <4>2
    <3>2. CASE d # c
      <4>1. executed'[d] = executed[d] /\ answer'[d] = answer[d]
        BY <1>0, <2>1, <2>3, <3>2 DEF Shape
      <4> QED
        BY <4>1 DEF OneEffect
    <3> QED
      BY <3>1, <3>2
  <2>8. Flight' /\ Reachable'
    BY <1>0, <2>1, <2>2, <2>3 DEF Flight, Reachable, Shape, tokens, service
  <2> QED
    BY <2>4, <2>5, <2>6, <2>7, <2>8, TypePartsNext
<1>3. CASE ServerDeclines(c)
  <2>1. PICK a \in WhenDeclined[op[c]][Accepts(c)] : answer' = [answer EXCEPT ![c] = a]
    BY <1>3 DEF ServerDeclines
  <2>2. Accepts(c) \in BOOLEAN
    BY DEF Accepts
  <2>3. /\ a \in Answers
        /\ op[c].managed /\ Accepts(c) => a # "unauthorized"
        /\ op[c].uuid => a # "ok"
    BY <1>0, <2>1, <2>2, AnswerFacts
  <2>4. /\ a # "none"
        /\ op[c].managed /\ a = "unauthorized" => given[c] <= revoked
    BY <1>0, <2>3 DEF Answers, Accepts, TypeOK
  <2>5. UNCHANGED <<pc, op, round, attempt, since, service, tokens, effects>>
    BY <1>3 DEF ServerDeclines
  <2>6. Service'
    BY <1>1, <2>5 DEF tokens
  <2>7. Shape'
    BY <1>0, <2>1, <2>3, <2>5 DEF Shape, tokens, effects
  <2>8. /\ answer'[c] = a
        /\ \A d \in Calls \ {c} : answer'[d] = answer[d]
    BY <1>0, <2>1 DEF Shape
  <2>9. Known' /\ Receipts' /\ OneEffect'
    <3>1. pc[c] = "request" /\ answer[c] = "none"
      BY <1>3 DEF ServerDeclines
    <3> QED
      BY <2>3, <2>5, <2>8, <3>1 DEF Known, Receipts, OneEffect, effects
  <2>10. Flight' /\ Reachable'
    BY <2>4, <2>5, <2>8 DEF Flight, Reachable, tokens, service
  <2> QED
    BY <2>6, <2>7, <2>9, <2>10, TypePartsNext
<1>4. CASE StrayExecutes(c)
  <2>1. /\ stray[c] > 0 /\ stray' = [stray EXCEPT ![c] = @ - 1]
        /\ created' = IF op[c].uuid THEN created \cup {c} ELSE created
        /\ executed' = [executed EXCEPT ![c] =
                          IF op[c].uuid /\ c \in created THEN @ ELSE @ + 1]
        /\ UNCHANGED <<request, service, tokens>>
    BY <1>4 DEF StrayExecutes, Execute, MessageKey
  <2>2. Service'
    BY <1>1, <2>1 DEF request, tokens
  <2>3. Shape'
    BY <1>0, <2>1 DEF Shape, request, tokens
  <2>4. Known' /\ Receipts'
    <3>1. op[c].uuid => executed'[c] = 1 /\ c \in created'
      BY <1>0, <2>1 DEF Known, Shape
    <3>2. \A d \in Calls \ {c} :
             executed'[d] = executed[d] /\ (d \in created => d \in created')
      BY <1>0, <2>1 DEF Shape
    <3> QED
      BY <2>1, <3>1, <3>2 DEF Known, Receipts, request
  <2>5. OneEffect'
    BY <1>0, <2>1 DEF OneEffect, Shape, request
  <2>6. Flight' /\ Reachable'
    BY <2>1 DEF Flight, Reachable, request, tokens, service
  <2> QED
    BY <2>2, <2>3, <2>4, <2>5, <2>6, TypePartsNext
<1> QED
  BY <1>2, <1>3, <1>4

\* Tokens age, are granted and are revoked: a call that began before is only
\* ever handed what was not out of its reach.
LEMMA TokensInv ==
  ASSUME IInv, TokenExpires \/ TokenGranted \/ Revoke
  PROVE  IInv'
<1> USE DEF IInv
<1>0. /\ TypeOK /\ Service /\ Shape
      /\ MaxRetries \in Nat /\ MaxTokens \in Nat /\ MaxStray \in Nat
  BY TypeParts, RequestAssumption DEF RequestAssumption
<1>1. CASE TokenExpires
  <2>1. /\ fresh' = FALSE
        /\ UNCHANGED <<cached, fetching, asking, forced, observed, given>>
        /\ UNCHANGED <<request, tokens, effects>>
    BY <1>1 DEF TokenExpires, Manager!GoStale
  <2>2. fresh' \in BOOLEAN
    BY <2>1
  <2>3. Service'
    BY <1>0, <2>1, <2>2 DEF Service, request, tokens
  <2>4. Shape'
    BY <1>0, <2>1 DEF Shape, request, tokens, effects
  <2>5. Known' /\ Receipts' /\ OneEffect' /\ Flight' /\ Reachable'
    BY <2>1 DEF Known, Receipts, OneEffect, Flight, Reachable, request, tokens, effects
  <2> QED
    BY <2>3, <2>4, <2>5, TypePartsNext
<1>2. ASSUME UNCHANGED <<request, service, effects>>,
             grant' \in 0..MaxTokens, fetching = Nobody => grant' = 0,
             issued' \in 0..MaxTokens, revoked' \in 0..issued',
             issued <= issued', revoked <= revoked', grant' <= issued',
             grant' # 0 => cached <= grant',
             \A c \in Calls : pc[c] # "new" /\ grant' # 0 => grant' > since[c]
      PROVE  IInv'
  <2>1. fresh' \in BOOLEAN
    BY <1>0, <1>2 DEF TypeOK, service
  <2>2. Service'
    BY <1>0, <1>2, <2>1 DEF Service, request, service
  <2>3. Shape'
    BY <1>0, <1>2 DEF Shape, request, effects
  <2>4. Known' /\ Receipts' /\ OneEffect'
    BY <1>2 DEF Known, Receipts, OneEffect, request, effects
  <2>5. Flight' /\ Reachable'
    BY <1>0, <1>2 DEF Flight, Reachable, TypeOK, request, service
  <2> QED
    BY <2>2, <2>3, <2>4, <2>5, TypePartsNext
<1>3. CASE TokenGranted
  <2>1. /\ UNCHANGED <<request, service, revoked, effects>>
        /\ fetching # Nobody
        /\ grant' \in {issued, issued + 1}
        /\ revoked < grant' /\ grant' <= MaxTokens /\ issued' = grant'
    BY <1>3 DEF TokenGranted
  <2>2. \A c \in Calls : since[c] <= revoked /\ since[c] \in 0..MaxTokens
    BY <1>0 DEF Reachable, TypeOK
  <2> QED
    BY <1>0, <1>2, <2>1, <2>2 DEF TypeOK, Flight
<1>4. CASE Revoke
  <2>1. /\ UNCHANGED <<request, service, grant, issued, effects>>
        /\ revoked' = issued
    BY <1>4 DEF Revoke
  <2> QED
    BY <1>0, <1>2, <2>1 DEF TypeOK, Flight, Reachable
<1> QED
  BY <1>1, <1>3, <1>4

\* Every step preserves it.
LEMMA NextInv == IInv /\ [Next]_vars => IInv'
<1> SUFFICES ASSUME IInv, [Next]_vars PROVE IInv'
  OBVIOUS
<1>1. CASE UNCHANGED vars
  <2>1. Service /\ Shape /\ fresh' \in BOOLEAN
    BY <1>1, TypeParts DEF IInv, TypeOK, vars, service
  <2>2. Service' /\ Shape'
    BY <1>1, <2>1 DEF Service, Shape, vars, request, service, tokens, effects
  <2>3. Known' /\ Receipts' /\ OneEffect' /\ Flight' /\ Reachable'
    BY <1>1 DEF vars, request, service, tokens, effects,
                IInv, Known, Receipts, OneEffect, Flight, Reachable
  <2> QED
    BY <2>2, <2>3, TypePartsNext DEF IInv
<1>2. ASSUME NEW c \in Calls, ClientStep(c) \/ Cancel(c)
      PROVE  IInv'
  BY <1>2, AskInv, TokenInv, ClientInv DEF ClientStep
<1> QED
  BY <1>1, <1>2, ServerInv, TokensInv DEF Next

------------------------------------------------------------------------------
\* The invariant of operations, tokens and server holds throughout.
THEOREM Invariance == Spec => []IInv
BY InitInv, NextInv, PTL DEF Spec

\* The state of operations, tokens and server keeps its shape.
THEOREM TypeCorrect == Spec => []TypeOK
<1>1. IInv => TypeOK
  BY DEF IInv
<1> QED
  BY <1>1, Invariance, PTL

\* A message is posted at most once, for any number of attempts and late
\* requests, and whoever has a receipt has it posted.
THEOREM MessagesArePostedOnce == Spec => []PostedOnce
<1>1. IInv => PostedOnce
  BY DEF IInv, Known, Receipts, PostedOnce
<1> QED
  BY <1>1, Invariance, PTL

\* An operation without retries takes effect at most once, although a 401 has
\* it repeated.
THEOREM UnretriedTakeEffectOnce == Spec => []UnretriedAtMostOnce
<1>1. IInv => UnretriedAtMostOnce
  BY RequestAssumption DEF IInv, TypeOK, OneEffect, UnretriedAtMostOnce, RequestAssumption
<1> QED
  BY <1>1, Invariance, PTL

\* A managed operation that ends with 401 had a token revoked that could reach
\* it when it began, for any number of callers that share its refresh.
THEOREM UnauthorizedIsExplained == Spec => []UnauthorizedMeansRevoked
<1>1. IInv => UnauthorizedMeansRevoked
  BY DEF IInv, Reachable, UnauthorizedMeansRevoked
<1> QED
  BY <1>1, Invariance, PTL

\* Operations use the token service as the token manager provides it: whatever
\* they do with it is a step of the service, or leaves it alone.
THEOREM UsesTokenService == Spec => Manager!ServiceSpec
<1>1. Init => Manager!ServiceInit
  BY DEF Init
<1>2. IInv /\ [Next]_vars => [Manager!ServiceNext]_(Manager!tokenVars)
  <2> SUFFICES ASSUME IInv, [Next]_vars
               PROVE  Manager!ServiceNext \/ UNCHANGED Manager!tokenVars
    OBVIOUS
  <2>1. ASSUME UNCHANGED service
        PROVE  UNCHANGED Manager!tokenVars
    BY <2>1 DEF service, Manager!tokenVars
  <2>2. ASSUME NEW c \in Calls, NEW force \in BOOLEAN, GetToken(c, force)
        PROVE  Manager!ServiceNext
    BY <2>2 DEF GetToken, Manager!ServiceNext
  <2>3. ASSUME NEW c \in Calls, Begin(c) \/ AnswerUnauthorized(c)
        PROVE  Manager!ServiceNext \/ UNCHANGED service
    BY <2>2, <2>3 DEF Begin, AnswerUnauthorized
  <2>4. ASSUME NEW c \in Calls, RefreshEnds(c)
        PROVE  Manager!ServiceNext
    <3>1. PICK n \in 1..MaxTokens : n = grant
      BY <2>4, RequestAssumption DEF IInv, TypeOK, RefreshEnds, RequestAssumption
    <3>2. Manager!Renew(c, n)
      BY <2>4, <3>1 DEF RefreshEnds
    <3> QED
      BY <3>2 DEF Manager!ServiceNext
  <2>5. ASSUME NEW c \in Calls,
               \/ TokenReady(c) \/ RefreshBegins(c) \/ TokenFails(c)
               \/ (pc[c] = "token" /\ Cancel(c))
        PROVE  Manager!ServiceNext
    BY <2>5 DEF TokenReady, RefreshBegins, TokenFails, Cancel, Manager!ServiceNext
  <2>6. ASSUME NEW c \in Calls,
               \/ Reject(c) \/ RequestError(c) \/ AnswerBusy(c) \/ AnswerFinal(c)
               \/ BackoffEnds(c) \/ (pc[c] # "token" /\ Cancel(c))
               \/ ServerExecutes(c) \/ ServerDeclines(c) \/ StrayExecutes(c)
        PROVE  UNCHANGED service
    BY <2>6 DEF Reject, RequestError, AnswerBusy, RetryOrGiveUp, AnswerFinal,
                BackoffEnds, Cancel, ServerExecutes, ServerDeclines, StrayExecutes
  <2>7. TokenGranted \/ Revoke \/ UNCHANGED vars => UNCHANGED service
    BY DEF TokenGranted, Revoke, vars
  <2>8. TokenExpires => Manager!ServiceNext
    BY DEF TokenExpires, Manager!ServiceNext
  <2> QED
    BY <2>1, <2>3, <2>4, <2>5, <2>6, <2>7, <2>8 DEF Next, ClientStep
<1> QED
  BY <1>1, <1>2, Invariance, PTL DEF Spec, Manager!ServiceSpec
=============================================================================
