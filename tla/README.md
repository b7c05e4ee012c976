# feishulib in TLA+

Specifications of the concurrent parts of feishulib (`src/src/feishulib`), an asyncio client of the
Feishu messenger: its event channel, its long WebSocket connection and heartbeat, the frames and events
that arrive on it, its token cache and its API requests. TLC checks them on small instances, TLAPS
proves all of their safety properties for every instance, and that the event channel and the token
manager implement abstract ones. Paths below are relative to `src/src/feishulib`.

## The system

| Component | State it keeps | Operations | Interacts with |
|---|---|---|---|
| Event channel, `channel.py` | handlers, bounded queue, worker tasks, `_started`, `_closed`, a future per dispatched event | `on`, `start`, `dispatch`, `close`, `_worker` | called by the receive loop; calls the application's handlers |
| WebSocket lifecycle, `websocket.py` | `_state`, `_connection`, `_closed`, `_received_frame_since_connect`, `run_forever`'s `attempt` | `start`, `run_forever`, `_open_connection`, `_receive_loop`, `_handle_data`, `_close_connection`, `close` | discovers its endpoint by HTTP, dispatches to the channel, closes the channel and its session |
| Heartbeat, `websocket.py:174-192` | `_last_pong`, `_ping_interval`, the running `recv` timeout | the receive loop's timeout branch, pongs | the peer; handlers run inside the loop |
| Token manager, `auth.py` | `_token`, `_expires_at`, `_lock` | `get_token`, `_refresh` | shared by every API call; requests tokens by HTTP |
| API client and transport, `client.py`, `http.py` | per call: attempt, token | sends, replies, updates, generic requests; retries; one repetition after 401 | token manager; a server that may act on what the client gave up |
| Event delivery, `websocket.py:174-214` with `channel.py` | what the server has been told of each event | `_handle_data`, redelivery | a server that sends an event until it is told 200 |
| Frame protocol, `protocol.py` | none | `decode_frame`, `encode_frame`, `make_ping`, `make_data_response` | the receive loop |
| Event parsing, `events.py` | none | `parse_event_payload` | `dispatch` |
| Models, configuration | none | validation | used by all of the above |

asyncio runs one task at a time and switches at an `await`. So every action of these modules is the
code from one await to the next, with the outcome of the await chosen among those that the peer, the
network, the application or a cancellation can produce. The hard behaviours are what may happen at
those awaits. What makes each component correct:

* **Channel**: every accepted event is answered exactly once and truthfully, whatever callers, handlers,
  cancelled workers and a concurrent close do; close leaves nothing behind.
* **Lifecycle**: no socket is lost on any error path; the visible state is the connection's; backoff
  follows the outage; close is final and makes `run_forever` end; outages are survived.
* **Heartbeat**: silence is noticed in bounded time and a live connection is not dropped without cause.
* **Tokens**: what is handed out is valid; concurrent refreshes share one request; a forced call gets
  another token; nobody is stuck behind a failed refresh.
* **Delivery**: a 200 means that the event was handled; only a timeout makes handlings overlap; no handler
  holds up the loop for ever.
* **Frames and events**: what is decoded can be encoded again, an answer finds its request, no payload
  ends the loop, seconds and milliseconds are told apart.
* **Requests**: a message is posted once however often it is transmitted; what must not be retried takes
  effect at most once; a 401 reaches the caller only if a token was revoked that could reach the call.

`PROJECT.json` lists the hazards line by line, with the properties that guard each.

## Modules

| Module | What it is |
|---|---|
| `EventChannel` | `channel.py`: one action per handler step of callers, workers and the closer |
| `Dispatcher` | what the channel promises: an event goes once from waiting over at most one handling to done, and is answered once |
| `Delivery` | extends `EventChannel` with the receive loop, a connection that breaks and a server that sends again |
| `Inbound` | a frame's way through `protocol.py`, `events.py` and `_handle_data`, with the data its fate depends on |
| `FeishuWebSocket` | the lifecycle of `websocket.py`: one application task, one closing task, sockets |
| `Heartbeat` | the clock of the receive loop over one connection, in discrete time |
| `TokenManager` | `auth.py` with the `asyncio.Lock` and a token-granting server |
| `TokenService` | what the token manager promises: one refresh at a time, shared by those who wait, never an older token |
| `ApiRequest` | operations of `client.py` over `http.py` and `TokenService`, and a server that revokes tokens |
| `MC*` | instances of these for TLC: sets of calls, workers, sockets, and symmetry |
| `*_proof` | theorems about each of these and their proofs |
| `EventChannel_refinement` | the proof that `EventChannel` implements `Dispatcher` |

Definitions named "Mutant of X" replace X when the runs are tested for their ability to fail: each is a
plausible bug, and each property of a passing run is violated by one of them (`PROJECT.json`,
"mutants"). Nothing else uses them.

### EventChannel

`queue`, `worker`, `future` and `call` are the queue, what each worker task is doing, the
`_DispatchItem.result` of each call and where each caller of `dispatch` is. `Dispatch` is
`channel.py:55-65`, `WorkerGet`, `HandlerReturns`, `HandlerRaises` and `WorkerDies` are the segments of
`_worker`, `CloseBegin` and `CloseJoined` those of `close`. `cancelled` holds workers whose `cancel()`
was called and whose CancelledError has not arrived. `handled` counts the handlers an event went
through: the position of the loop over the live list, so a handler registered meanwhile is run.
`owed` is a history variable, the number registered when the event was accepted. A worker whose task is
over is `stopped` by `close` or `lost` to a handler's own CancelledError: the code does not tell these apart,
the properties do. `Served` says that somebody gets to a queued caller, a worker that lives or the drain of a
close; `LeftBehind` is that nobody does, and `NoOrphanedCaller` names its two causes: a pool that is lost, and
a close that was itself cancelled before its drain.

Handlers are the application's. They return, raise, let a cancellation through, and, where
`HandlerFaults` says so, swallow it or end with a CancelledError of their own. The model also switches
tasks between a worker's settling an item and its next `get`, where asyncio may go on at once. This
adds interleavings and removes none. A second `close` returns at once and changes nothing.

`Abstract` instantiates `Dispatcher`: `Place` maps an event to where it is, from queue, workers and
future, `Serving` is `_started` and `_closed`, the answer is the future. A handler that is registered,
a close that waits or a worker that dies is a stutter or the end of a handling.

### Delivery

The module extends `EventChannel`, whose calls of `dispatch` are now deliveries `<<event, n>>`, and adds
`loop` (where `run_forever` is), `frame` (what `_handle_data` works on), the connection with its `inbox`, and
what the server knows (`sent`, `acked`). Each action says what the channel does in it: `ReceiveFrame` takes
`Dispatch`, `Answer` the `Resume` of the caller, `TimeoutExpires` its cancellation, `CloseChannel`
`CloseBegin` and `CloseJoined`; `ChannelStep` is a registration of either kind or a step of a worker. The
frame stays with the loop until `Reply` has the status code of `websocket.py:200-211`, whether it can be sent
or not. A frame read after the channel closed crashes the loop, as it does in `FeishuWebSocket`.

### Inbound

One connection from its first ping. A protobuf message is a record with fields that may be `Absent`, headers
a sequence of pairs (so that there can be duplicates), a payload the kind of event, its fields that
are missing or wrong (a card action without `value` has an empty one, and `content` and `form_value` become
`None`), where a number has more digits than `int()` takes (in the payload, or in the JSON of a message's
`content`, which is read after the required fields), and `create_time` as the server wrote it: a unit and an
instant. The numbers are scaled: ids
go to `MaxId` for 2^64-1, `create_time` counts milliseconds from `Threshold`, `datetime` ends at `LastTime`,
division of an int by a float at `MaxFloat`. The bytes of a message are the message, and those that are none
end as one without its required fields does. `cause` records what ended the loop.

### FeishuWebSocket

`pc` is the await the application's task is suspended at, in `start` or in `run_forever` (`looping`); `closer`
is where the task in `close` is. `Fails` is a reconnectable error with `run_forever`'s except clause, `Breaks`
any other. `connection.close()` may time out or raise another error (`CloseMayFail`): in the except clause
that ends `run_forever` (`DropFails`), in `close` the `finally` clauses go on (`CloseSocketFails`), as they do
when `close` is cancelled at one of its awaits. Sends cannot contend for the write lock, since one task sends.
`silent`, `openingAtClose` and `escaped` are history variables. Frames are classes: control, data,
undecodable. The errors of discovery are one, and its session is closed with the client's. After a
cancellation `run_forever` is not called again in the model.

### Heartbeat

Time passes in `Tick` unless something is due: a readable frame, the recv timeout, the end of a handler,
a pong of a responsive peer. Frames that are not pongs are one kind: a control frame is a data
frame whose handling takes no time.

### TokenManager

Tokens are numbered by grant; every grant is taken for a new token, which is how `auth.py:38` tells that
another call has refreshed. `GetToken` runs up to the first await, which is the lock if it is
contended and the request otherwise. `Acquire` is a waiter that was handed the lock. `Grant` is
external, `AnswerLost` is a retry of the transport, `RefreshEnds` is the arrival, after which the
expiry is computed. `Cancel` takes one position out of the lock's queue, as `asyncio.Lock` does.

`Abstract` instantiates `TokenService`: `cached` is `_token`, `fresh` what `_is_fresh` says, `fetching` who
holds the lock, `asking` who is in `get_token` beyond its first check. `TokenService` has no lock, queue, clock
or request. `Ask` is a call, `Serve` the two checks behind the lock, `Fetch`, `Renew` and `GiveUp` a
refresh and its ends, `GoStale` the clock reaching the skew.

### ApiRequest

`Operations` are what the public methods differ in: whether the request has a uuid, is retried, uses the
managed token. `Readers` are what they make of a response, `Read` and `Verdict` how: status, content type,
envelope, business code, data and id. Which of the library's errors a bad answer becomes is left out
(`failed`). `WhenExecuted` and `WhenDeclined` are what may come of it, given whether the request was carried
out. `Reject` is the ValueError of `client.py:310-333`; a number `response.json()` cannot convert is one as
well and ends the operation in the same way, also in the body of a 401 (`http.py:215`, `229`). The server
executes a request before it answers, may answer that it is busy all the same, and may execute requests the
client gave up (`stray`). A uuid is executed once.

Tokens come from an instance of `TokenService`, `Manager`: `GetToken` is its `Ask`, the steps out of the
wait (`TokenReady`, `RefreshBegins`, `RefreshEnds`, `TokenFails`, `Cancel`) take the call where the service's
step leaves it. Between a grant and its arrival a token is under way (`grant`); the server accepts the tokens it
granted until it revokes them all, and may grant the current one again. `since` is a history variable:
the tokens that could not reach the call when it began (`OutOfReach`). Those are the revoked ones but for one
that another call's refresh is about to bring: it was granted, then revoked, and is cached after the call
began. The call's forced refresh finds a token other than the one it observed (`auth.py:38`) and repeats the
request with it, so that a call can end with 401 although nothing was revoked after its beginning.
`UnauthorizedMeansRevoked` says what does hold.

## Runs

| Run | Instance | Shows |
|---|---|---|
| `channel_safety` | 1 message, 2 card actions, 2 workers, queue of 2, up to 2 handlers, every fault, interrupted close | a pending caller is held, or queued where a worker or the drain gets to it, but for a lost pool or a cancelled close; none is told "ok" untruthfully, nothing is handled twice, a finished close leaves nothing, and the channel implements `Dispatcher` |
| `channel_liveness` | 2 messages, 1 card action, 2 workers, queue of 1, well-behaved handlers, fairness | close starts nothing new, releases every caller and ends; every caller is answered as long as handlers end |
| `delivery` | a message delivered twice and a card action, 2 workers, queue of 1, handlers that return, raise or run on, breaks and a close | a 200 is truthful, overlaps are timeouts, every frame is answered |
| `inbound` | 310 messages: each field missing, empty or at its limit, headers duplicate or overwritten, each event field missing or wrong, 33 values of `create_time` | round trip, answers, survival of payloads, time units |
| `websocket_lifecycle` | 2 sockets, outages of 3, closes that fail and cancellation | no lost socket, state, backoff, finality of close, end of `run_forever`, recovery |
| `heartbeat` | intervals 3, 5, 2 with latency 1, 18 units of time | detection bound, the two reasons for a drop |
| `token` | 3 callers, one of whom calls again and again, 3 grants, lifetime 2, skew 1 | validity, forced refresh, progress, and that the manager implements `TokenService`, with which refreshes collapse |
| `request` | 2 operations of any kind, 1 retry, 2 tokens | at-most-once, truthful receipts, 401, and, as part of `TypeOK`, the attempt budget |

Why these bounds: three events, two workers and a queue of two or one have events that are handled, queued
and refused at once, and a worker free while another is held. Two sockets are one being lost while
another opens. An outage of three has an exponent that grows twice and is reset from more than one. The
heartbeat's units keep the order of the defaults (handler 8 s < interval 120 s < timeout 180 s) and
run through six intervals. Three callers of `get_token` are one in the request, one next in the queue and
one behind it, and one that comes back meets a cache that others renewed; a lifetime of two units passes
through fresh, stale and no longer accepted. The theorems let every caller come back. Three deliveries are a
message sent again while its first handling runs on, and a card action behind it in a queue that is full.
With three events a refusal while every worker is busy is not reached in `channel_liveness`: the queue is full
while a worker has yet to take an item. `inbound` varies a field or two of a sound message at a time, which is
every early return of the code; its scaled constants keep their order and every boundary has a value on
both sides. Two tokens are one revoked and the one that replaces it, or both revoked; with one retry they give
both rounds with both attempts, and two calls one refresh that is shared or interferes. `TypeOK` is one
invariant per module. Deadlock is not checked where the system may stop: calls end, channels close, and
clocks are bounded.

### What the code does not keep

Four runs end in a violation. Each checks one sentence of the repository about itself.

* `channel_worker_lost`: a handler that ends with its own `CancelledError` kills its worker, while
  `channel.py:103` wants handler errors surfaced per event. With the default of one worker an open channel
  is left without any.
* `websocket_close_race`: a `close` during `_open_connection` ends while the socket then opened stays
  open and the state returns to connected (`websocket.py:129`, `169-171`). `CloseIsFinalWhenSettled` is
  what does hold.
* `websocket_long_outage`: `base * 2**attempt` overflows a float after 1024 failed attempts and leaves
  `run_forever`, which is to retry "until closed" (`websocket.py:108`, `252`). The instance has a smaller
  largest exponent. An error while the broken connection is closed, its timeout or another
  (`websocket.py:122`, `229`), leaves it too; this run excludes it, to show one cause.
* `heartbeat_quiet_after_data`: a peer that answered every ping is dropped for a pong timeout because a data
  frame postponed the next ping (`websocket.py:178-185`). `DropExplained` is what does hold.

Three named exceptions of properties that pass are of the same kind. A `create_time` too large for a float
raises outside of the `try` clause (`events.py:155`), and a JSON number of more digits than `int()` takes, in
a payload or in a message's content, is a ValueError that the `except` clauses of `events.py:71` and `171` let
pass; either ends `run_forever`, where the README (`src/README.md:229`) has malformed values become `None`. A
card handler's result that cannot be encoded ends it too (`websocket.py:213`). `NoPayloadEndsLoop` is that
there is nothing else.

### Fairness

`EventChannel`: the event loop runs every task that is ready, so a caller whose future is done, an idle
worker with an item, a task with a cancellation to receive and a closer whose workers have ended are
weakly fair. Handlers are not: only `EveryCallerAnswered` assumes, in its own statement, that they end.
`Delivery`: a caller whose future is done goes on, and the timer of `card_action_timeout_seconds` expires
(`Answer` and `TimeoutExpires` are weakly fair). Neither handlers nor workers need to be.
`FeishuWebSocket`: every await of the runner and of `close` has a timeout (`recv`, dispatch, connecting,
closing, requests) or is the clock's, so each completes, with an outcome that is open. A
handler that swallows its cancellation would suspend `close`; the lifecycle assumes it does not. The
bound on an outage makes `Recovers` a statement about outages that end. `TokenManager`: a lock that is
free is taken by its first waiter, and a request ends. The application is never assumed to act.

## Proofs

TLAPS 1.4.5 with SMT, Zenon and LS4. Each proof module has an inductive invariant `IInv`, lemmas that
`Init` establishes and every action preserves it, `Invariance`, and a theorem per property.

* **EventChannel_proof**, for every set of calls and workers, queue size and behaviour of handlers:
  `TypeOK`, `NoOrphanedCaller`, `HandledByOne`, `DrainedLeavesNothing`, `OkMeansHandled`, and `SettledOnce`.
  The heart of `NoOrphanedCaller` is `PendingInHands`, that what is pending is queued or held, which is not
  inductive alone: a drain settles what is queued, so it needs that no
  worker holds an item when all have ended; a `get` hands over one item, so it needs that items in the
  queue are distinct (`QueueDistinct`), in turn that a call not yet made is nowhere (`NewIsUntouched`);
  and workers must exist once anything was accepted (`StartedOK`). `OpenPool` adds that in an open channel a
  worker ends only as lost. `EveryoneIsServed` is the case without exceptions. `OkMeansHandled` needs that no
  event owes more handlers than are registered now (`OutcomeOK`): handlers are never removed. The
  lemma `LetGo` is the step all ends of a handling have in common.
* **EventChannel_refinement**: `Init` maps to `DispatcherInit` and every step to a step of `Dispatcher` or a
  stutter, under the invariant and `AcceptedOnly` (whatever is queued or held has a future that no worker
  has settled). `Refinement` is the theorem for all instances of what `ImplementsDispatcher` checks.
* **Delivery_proof**: `DeliveryTypeOK`, `OverlapOnlyAfterTimeout`, `AckedMeansHandled`; and that every behaviour
  of the composition is one of the channel (`ChannelWithin`), with which the channel's theorems and
  its refinement of `Dispatcher` hold in it (`DeliveryRefinement`). The invariant is the channel's with
  `FrameWaits` (the one call of `dispatch` that waits is that of the loop's frame) and `AckBelongs` (a 200
  that arrived is that of a delivery that ended well). The lemmas on what a step of the channel adds to
  its queue and workers come from the refinement.
* **Inbound_proof**, for any set of messages, widths, units and thresholds in order: all five invariants of
  the run. `AssignFacts` is what an item assignment does to headers that are distinct.
* **FeishuWebSocket_proof**, for any sockets, outages and largest exponent: `TypeOK`, `NoSocketLost`,
  `StateMatchesConnection`, `BackoffMatchesOutage`, `CloseIsFinalWhenSettled`, `NoAttemptAfterClose`. The
  invariant adds that there is no connection while one is opened or after one was dropped (`Unconnected`,
  without which `DialOk` loses a socket), that after a close that overtook no opening nothing is opened
  again (`Settled`), and what `attempt` is at every await (`Counted`): the length of the outage, until a
  frame resets it at the next failure.
* **ApiRequest_proof**, for any number of calls, attempts, tokens, revocations and late requests: `TypeOK`,
  `PostedOnce`, `UnretriedAtMostOnce`, `UnauthorizedMeansRevoked`. The invariant: the messages that took effect
  are exactly those whose uuid the server knows (`Known`); a receipt is of such a message (`Receipts`, which
  rests on `AnswerFacts`: no answer to a declined post reads as a success); an unretried operation has had
  one effect or is yet to have it, the second round following a request that had none (`OneEffect`); what is on
  its way into the cache is no older than what it replaces (`Flight`); and `Reachable`, how tokens relate to
  a call's beginning: a token under way, and whatever the second round carries or finds in the cache, is
  one that could reach the call. `UsesTokenService` is that whatever operations do with tokens is a behaviour of
  `TokenService`; the lemmas `GetTokenFacts`, `ServiceStays`, `ServiceLeft` and `ServiceAsked` say what its
  steps do to a call, so that no other proof opens them.
* **TokenManager_proof**: `TypeOK`, `FreshIsValid`, `ReturnsValidToken`, `ForcedGetsAnother`, `RefreshesCollapse`,
  that the cached token is never replaced by an older one, and `Refinement`, that the manager implements
  `TokenService`. The invariant relates the lock to the one call in
  `_refresh`, a grant under way to the cached token (newer, and not older than `MaxLatency`) and the cached
  expiry to the grant's. It rests on `GrantsOutliveTravel`: the skew covers the time an answer travels. At the
  defaults the skew is 60 s and a request has a timeout of 10 s; the configuration admits a skew of 0, under
  which a token may be called fresh after the server stopped accepting it.
  `QueueOK` is what `TypeOK` needs: the queue holds the calls that wait, each once, so that a cancelled waiter
  that takes its one place out of it (`RemovedFacts`) is gone from it. In the refinement `GetToken` is
  `Ask`, `Acquire` is `Serve` or `Fetch`, `RefreshEnds` is `Renew`, `RefreshFails` and `Cancel` are `GiveUp`; the
  server's steps are stutters, and so is the clock's unless the token ages past the skew. `ReturnsValidToken`
  also covers a caller who calls again and is served at once (`Returns`).
* **Heartbeat_proof**, for all intervals, timeouts and latencies: `TypeOK`, `SilenceBound`, `DropExplained`,
  `NoDropWhilePinging`. The last needs that time passes in `recv` only while no pong is late (`Prompt`).

Four theorems are conditional, as the code is. `EveryoneIsServed` assumes that no handler ends with a
`CancelledError` of its own and that `close` is not cancelled. `NothingStartsAfterClose` assumes that no
handler swallows a cancellation (its worker would go on to the next event). `WorkersSurviveErrors` makes the
first of these assumptions as well, and `OutagesAreRetried` (FeishuWebSocket_proof) that closing a broken
connection does not fail and no outage is longer than the exponents that convert to a float. The last two
prove the properties that `channel_worker_lost` and `websocket_long_outage` refute: the faults shown there,
and that failure, are the only ones.

Only model-checked is liveness, since fairness and ENABLED are outside of the prover's reach:
`CloseReleasesCallers`, `EveryCallerAnswered`, `EveryFrameAnswered`, `CloseEndsRunForever`, `Recovers` and
`EveryCallEnds`.

## Not modelled

* `config.py`, `models.py`, `exceptions.py`: validation and immutable values, without state or order. The
  models take the validated ranges as assumptions on their constants.
* The lengths of delays (`_delay`, `_reconnect_delay` but for its overflow): no behaviour depends on them.
* Request bodies and headers. A body that can be read once is consumed by the first attempt; a retry sends
  what is left of it (`http.py:145`). A download's file name.
* Optional fields of events, which are copied as they are; the bytes of frames and of a card's response;
  documents nested too deeply for `json.loads`, which end the loop, or an operation, as numbers of too many
  digits do.
* Two tasks that call `start` at once, and a handler that calls `close`: nothing in the repository says
  that they may.
* The examples, the release script and the packaging.

## Composition and what is left

`Delivery` composes loop and channel, and its proofs take the channel's theorems over. `ApiRequest` composes
operations with `TokenService`, which `TokenManager` implements with callers that come back, as operations do
after a 401. That the server of `TokenManager` grants a new token every time, while that of `ApiRequest` may
grant the current one again, is within what `TokenService` admits. `FeishuWebSocket` reduces frames to the
fates that `Inbound` derives and the channel to whether it is closed. Worth adding: an abstract connection
that `FeishuWebSocket` implements, the lifecycle's liveness as the environment of `Delivery`, and a second
application task in `FeishuWebSocket`.
