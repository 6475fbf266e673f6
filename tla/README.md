# Verification of the on-premise LLM server

TLA+ models of the services under `src/`, TLC runs over small instances of
them, and proofs about every instance. Paths below are relative to `src/`
unless they name a module or a configuration.

## 1. The system

A chat request passes four HTTP services and comes back the same way:

    client -> api_gateway -> security_layer -> intelligent_router -> inference_adapter -> Ollama
                 | stdout        | audit_store     | audit_store, cache_service
    services/agent-framework -> intelligent_router      admin_portal -> model_registry

All of them are Python processes on one asyncio loop, so the code between two
`await`s is atomic and everything else interleaves. None of them shares memory
with another; they share the Audit Store's SQLite file, the Redis behind the
cache, and the HTTP statuses they hand on. The router does not repeat a call but
falls back to another model; clients may repeat theirs, and the model client of the
agent (`ChatOpenAI`, `services/agent-framework/agent_framework/agent/orchestrator.py:79`)
repeats its calls of the router as its library does by default (twice; one step of
`AgentSession`, of which only the outcome shows). No other service repeats a call.

| component | state | operations | hard behaviour | what makes it correct |
|---|---|---|---|---|
| `intelligent_router` | per request: IMF, `FallbackState`, background tasks; per process: counters | `POST /route`, `POST /v1/chat/completions` (one pipeline) | health check, cache lookup and inference each fail at any level of the chain; matrix with cycles and dangling links; tasks run after the reply; process death | no call twice, stages in order, audit events tell what was tried, exhausted means all were tried, cache stores what was served, replies have a provenance, every request settles |
| `cache_service` | Redis strings and lists, client handles | lookup, write, health with reconnect, start | every Redis command is an await; length read before push; outage; loss of data; expiry | a read returns the latest write; semantic entries follow exact ones; limit overshoot bounded by writers; best match wins |
| `audit_store` | one SQLite connection with its open transaction | single event, batch, queries | a conflict leaves the transaction open; errors of INSERT or COMMIT; process death before the answer; client retries | a log that only grows, by whole writes under unique ids; acknowledged rows durable, refused rows absent |
| `model_registry` | records in memory, JSON file, temporary file | `POST /models`, `PATCH /models/{name}/status`, load | I/O error or process death at every step of the write; recovery that empties the file | memory equals file, acknowledged survives, name registered once |
| `admin_portal` | none | `PATCH /portal/models/{name}/status`; pages that read | gives a change up after five seconds that the registry makes later; several administrators at once | the registry stays the registry, a later change is not undone by an earlier one |
| `api_gateway` | `_store` of the rate limiter, events on stdout | key check, rate limit, chat handler, streaming | sliding window at its edges; middleware order; gives up before the layer behind does | window never over the limit, refusals only when full, one closing event with the status sent |
| `security_layer` | background audit posts | check before generation | exceptions drop background tasks; answers that nobody waits for | what is refused is never seen by the router; what is routed is audited |
| `inference_adapter` | list of models loaded at startup | start, `POST /infer`, `GET /health`, stop | the list is never reloaded; Ollama hangs, breaks off, changes its models; the router gives up at the same moment | one generation at a time for a request, a slow text is not a broken one, what is served was generated |
| `services/agent-framework` | step records in memory, step counter | `POST /agent/run` | the graph runs ahead of the loop that counts it; two limits; failures and restart in mid-session | the audit trail tells the session, records name their turn, "stop" is an answer, every session settles |
| `portal_ui`, `shared/observability`, charts, scripts | none | pages, logs, metrics, deployment | - | not modelled: output and configuration |

## 2. Modules

| module | models | extends |
|---|---|---|
| `ModelSelector` | `model_selector.py`, `task_classifier.py`: pure functions. `FallbackChains(m)` is the result of `get_fallback_chain` said without a loop | - |
| `FallbackChain` | the loop of `get_fallback_chain`, one turn a step, over every matrix (chosen in `Init`) | `ModelSelector` (instance) |
| `RouterPipeline` | `run_routing_pipeline`, both endpoints, background tasks, counters, process death | `ModelSelector` |
| `CacheService` | `routers/cache.py`, `routers/health.py`, both cache services, startup | - |
| `AuditLog` | what an audit store promises: rows only ever added, by whole writes; an acknowledged write is in the log | - |
| `AuditStore` | `routers/write.py` over the shared connection, queries, death. Implements `AuditLog` with `log <- committed` | `AuditLog` (instance) |
| `ModelRegistry` | `routers/models.py` over `JsonFileManager` | - |
| `ModelPortal` | the status change of the admin portal over `async_proxy`, several calls at once, in front of the registry | `ModelRegistry` |
| `Ingress` | gateway and Security Layer together, the router as the set of its answers | - |
| `InferenceAdapter` | the lifespan, `POST /infer`, `GET /health`, shutdown, Ollama as what it may answer | - |
| `ServingPath` | a client that repeats its request through gateway, Security Layer, router and adapter with their nested timeouts | `RouterPipeline`, `InferenceAdapter` (instances) |
| `AgentSession` | `POST /agent/run`: graph, queue of events, the loop over them, step records, audit lines, restart | - |
| `RouterPipelineProofs`, `FallbackChainProofs`, `CacheServiceProofs`, `AuditStoreProofs`, `IngressProofs`, `ServingPathProofs`, `AgentSessionProofs` | the theorems of section 5 | the module named |
| `ModelRegistryProofs` | the theorems of section 5 about registry and portal | `ModelPortal` |
| `MC*` | values for TLC: instances, functions written as `:>`, symmetry | the module named |

How state and actions correspond to the code:

- **RouterPipeline.** `stage[r]` is the await the coroutine of request `r` stands
  at (`health`, `lookup`, `infer`), `fallback[r]` its `FallbackState`, `imf[r]`
  the IMF fields the pipeline writes, `tasks[r]` the `BackgroundTasks` in order.
  One action per answer of a downstream call, with all the code up to the next
  call: `HealthFail` is a failed check, the advance, the fallback event and the
  next check or the 503. `Raises` is the outer `except`: an `httpx` error the
  clients do not translate. `PostAudit` and `WriteCache` run the tasks after the
  reply, each stored, refused or lost. `calls` and `posted` record the calls.
- **CacheService.** `pc[o]` is the Redis command a call awaits; `client` is
  `app.state.redis`, `services` the handle the two cache services hold. The
  SHA-256 key is taken as injective; a similarity is a number per pair of prompts.
- **AuditStore.** No handler awaits, so a request is one step. `committed` is the
  disk, `pending` the rows of the open transaction, `Visible` what a query on the
  same connection returns. `Conflict` keeps the transaction open as `sqlite3`
  does; `Failed` is an error of the INSERT or of the COMMIT, whose row stays
  pending; `CrashUnanswered` is death after the COMMIT.
- **ModelRegistry.** A write is `Create`/`Patch` (memory), `WriteTmp`, `Replace`,
  `Reply`; `PersistFails` is the `OSError` path with its rollback, `Crash` may hit
  any of them. `Load`, `Discard`, `LoadFails` are the three branches of `load()`.
  Writes do not interleave because no handler awaits.
- **ModelPortal.** `Ask` is the handler up to its await (or its 422), `wire` the
  calls that left and that the registry has not taken up. `PassesOn`, `Refused`,
  `GivesUp`, `Broken` are the four ways the await ends: the registry's answer,
  `ConnectError` (502), `TimeoutException` (502, and the call stays on the wire),
  any other `httpx` error (500). `earlier` is a history: what had been answered
  when a change was asked for. Registrations and other clients are `Direct`.
- **Ingress.** Middlewares run as `Authenticate` then `RateLimit`, the order
  Starlette gives them; `Forward`/`GiveUp`/`Relay`/`OpenStream`/`Stream` are the
  chat handler; `PreCheck`, `RouterReturns`, `RouterRaises`, `Post` the Security
  Layer. A text is the set of the things the checks look for. `GiveUp` is enabled
  as long as the gateway waits: the 10 s of the gateway and the 30 s of the layer
  behind are not compared, every order of the two is explored. `GET /v1/models`
  takes the same way through the two middlewares and is not a call of its own.
- **InferenceAdapter.** `Start` and `Listed`/`ListFails` are the lifespan, which
  fills `loaded` once; `Infer` is `POST /infer` up to its one await, `Generated`,
  `GeneratedEmpty`, `ChatFails`, `TurnedAway`, `ChatTimesOut` the ways that await
  ends. The error bodies 503, 422, 502, 500 are one answer, `failed`: the router
  does not tell them apart. While the lifespan runs, uvicorn takes no connection.
- **ServingPath.** Router and adapter are the modules of their own, joined at the
  adapter call (`CallArrives`, `InferAnswered`, `AdapterRefuses`); gateway and
  Security Layer are two waits. The default timeouts are 10 s (gateway), 30 s
  (Security Layer), 120 s (router) and 120 s (adapter), abstracted to 1 < 2 < 3 = 3
  ticks. `Tick` passes only when nothing that takes no time is left to do
  (`Busy`, `Quiet`). The router's health check asks Ollama's `/api/tags`, not the
  adapter. Everything that goes wrong is counted by `Fault`. The Security Layer
  hands the router's status on and adds 500 and 504 of its own; `GatewayStatus` is
  what the gateway makes of them (`api_gateway/routers/chat.py:246-272`, the path
  without streaming): 400 stays, 422, 500, 503 and 504 reach the client as 502.
- **AgentSession.** `graph` is the LangGraph task, `queue` the events it has
  emitted and the loop has not read, `Read` one turn of the loop in
  `run_agent_session` with all that the event makes it do. `RecursionLimit` is the
  graph's own limit, counted in nodes. `Cancelled` is the closing of the stream
  after the loop was left, which happens some time later: a tool may still run then.

## 3. Runs

| run | question | bounds, and why they suffice |
|---|---|---|
| `router_safety` | does the fallback loop keep its books under failure and concurrency? | 2 requests (on both endpoints), 3 models in a cycle, 1 process death: every failure at every level of the longest chain, a second request at every point |
| `router_edges` | refusals, dangling names, missing defaults; does every request end? | the matrix has a link to a name without entry and no default for chat; 7 bodies, one for each way through `Receive`; 2 requests; no symmetry because of `RequestsSettle` |
| `fallback_chain` | does the loop compute what the router model uses? | all matrices of 3 models and one dangling name |
| `cache_service` | exact and semantic reads under concurrent writes | 3 prompts (two similar, one far), limit 1, 2 of 3 writers at a time, expiry, 1 fault; two writers suffice to pass the limit by one |
| `audit_store` | refused and returned rows, refinement of `AuditLog` | 2 single events, 2 batches of up to 2, 3 ids, 1 SQLite error, 1 death: a transaction left open meets each kind of write |
| `registry` | memory, file, answers and what the portal showed agree | `PortalSpec`: 3 writes to 2 names, direct or through the portal, 2 faults: two changes of the model a third one registered, one of them given up, with a fault in each |
| `ingress` | limit, events, audit and router agree with the client | 3 calls of 7 kinds, limit 1 in a window of 2 and a clock of 0..2: a timestamp inside, at the edge of and outside the window; 1 fault |
| `serving` | what happens behind a layer that gave up? | 1 client, 3 attempts, a text of 1 tick, a chain of 2 models and a name without an entry, 1 fault of any kind: the first attempt times out, the second meets its generation or its cached text, the third what a fault left |
| `agent` | do audit, records and answer tell what the graph did? | 1 session (sessions share nothing but the store's dictionary), 3 turns of up to 2 calls, real and made-up tools, 1 restart: two calls side by side, the last turn with and without calls |
| `audit_rollback`, `ingress_stream`, `adapter_health` | one disagreement each between a document and the code, section 4 | the smallest instance that shows it |

What each property is for is said above its definition. Those that need several
steps of several actors to go wrong:

- `AuditTrailTellsRoute`: one fallback event for each abandoned model, in chain
  order, then one for the model that answered, over the queue and the posts sent;
  and when all models failed, an event for each of them, the last one telling
  whether the last model failed its check or its inference (not its name, section 4).
  Requests that end in 500 or are refused before the routing are outside.
- `RepliesHaveProvenance`, `CacheHoldsServedResponses`: a text, its model, its
  task type and its request stay together through fallback, cache and background write.
- `ImplementsAuditLog`: the open transaction of the shared connection never shows
  in the committed table but as a whole write.
- `LaterChangeStays`: of two changes of one model, shown as made one after the
  other, the earlier one never comes back. A change the portal gave up with 502 was
  not shown as made: when the registry makes it later it may overwrite a newer one,
  and no property denies that (section 4).
- `TimeoutsBounded`: a client whose text takes longer than the gateway waits is
  timed out (502) only as often as the text takes; then its repetition meets the cache.
- `SlowIsNotBroken`, `OneGenerationEach`: no timeout on the way cuts off a text
  that is coming, and a fallback starts only after the adapter let go of the text
  before. This is where the router and the adapter waiting equally long matters.
- `TrailTellsSession`, `RecordsNameTheirTurn`: although events are read late, what
  is written of a session is what was read, counted right.

Deadlock is not checked: every model ends when its requests are used up, and the
system itself waits for the next request then.

Symmetry is used over requests, ids and names, never over prompts or models of the
matrix, and only where invariants and properties of single steps are checked.

**Fairness.** Each model with a liveness property states weak fairness of what the
process itself does, never of a client's request or a fault.

- `RouterPipeline` (`RequestsSettle`): the handler and the background tasks of each
  request. Each downstream call has an `httpx` timeout, so some answer or error
  comes, and the event loop runs what is ready.
- `ServingPath` (`ComesToRest`): one condition on `GoesOn`, the handlers, timers
  and adapter together: as long as one of them can go on, one does. It is enough
  because each of them goes on finitely often.
- `AgentSession` (`SessionsSettle`): for each session the graph (its call of the
  router ends with the client's timeout, tools compute without waiting), the loop,
  the background task, and the cancellation of the graph once the stream is closed.

The other models state safety only.

**Histories.** In `ModelRegistry`, `unread` is set when `load()` gives up a file it
failed to read once (a read error, not damage) - the code then empties the file, as
`.kiro/specs/model-registry/requirements.md:37` asks, and acknowledged records are
gone. In `ModelPortal`, `earlier`; in `Ingress`, `judged` (when the limiter decided)
and `lost` (posts that fell to a fault); in `ServingPath`, `streak`. Restarts of the
gateway, which empty the limiter, are left out.

## 4. Where documents and code disagree

With a run:

- `audit_rollback` - a refused duplicate leaves a transaction open, the next batch answers 500 (`audit_store/routers/write.py:109`, 210).
- `ingress_stream` - the stream is closed before it is read: 200 with no byte, audited as 502 (`api_gateway/routers/chat.py:197-226`, 119-132).
- `adapter_health` - an adapter that found Ollama away at startup answers its health check with 200 once Ollama is there, and refuses every call until it is restarted; `.kiro/specs/inference-layer/design.md:560` says it answers 503 (`inference_adapter/routers/infer.py:138`, `routers/health.py:54-79`).

Met while modelling, with no run of their own:

- The last model's failure at inference is audited under the name of the model before it, because `advance()` leaves an exhausted chain as it is (`intelligent_router/pipeline.py:108-110`, 373-391; in the model, `FallbackAudit`).
- Fallback and error events carry outcomes the Audit Store's `OutcomeEnum` refuses (`audit_store/models.py:26-29`; `PostAudit` marks them refused).
- The 503 after a failed inference has a fallback event but none of outcome error, and the 500 of the outer `except` adds no event (`pipeline.py:399-405`, 442-462).
- A cache hit on `/route` is counted twice (`pipeline.py:334`, `routers/route.py:94-95`; in the model, `LookupHit` and `RouteMetrics`).
- Auto mode may select a default without an entry in the matrix (`model_selector.py:206-211`); its empty health URL ends the request with 500.
- An inference error that is no timeout, refused connection or bad status ends the request with 500 instead of falling back (`inference_client.py:102-111`).
- `GET /health` of the cache reconnects by setting an attribute the two services do not read (`cache_service/routers/health.py:83-86`; in the model, `client` and `services`).
- A semantic cache entry never expires (`semantic_cache.py:181-198`) and a semantic hit names the key of the request, not the one matched (`routers/cache.py:269-275`).
- Two writers can push a semantic list past `MAX_SEMANTIC_ENTRIES`; `OvershootBoundedByWriters` bounds by how much.
- A cache service started without Redis answers lookups with 500 (`exact_cache.py:57`).
- A query of the Audit Store can return a row whose COMMIT failed and that a later rollback removes (`write.py:117-133`); `ReturnedRowsStay` holds for every other row. Its 200 ms limit does not bound the health probe (`routers/query.py:348`).
- A request the Security Layer blocks leaves no audit event: the handler raises, and its background tasks are dropped (`security_layer/routers/pre_check.py:10-11`, 145-151; in the model, `Block`).
- The portal answers 502 to a change the registry may make later, over a newer change too (`admin_portal/services/proxy.py:110-118`), and `httpx` errors other than a refused connection or a timeout, or a body that is JSON but no object, end in 500.
- The agent's model client goes through the router's `/v1` endpoint, which never returns tool calls (`intelligent_router/routers/openai_compat.py:158-178`); and errors of the `openai` SDK are not `httpx` errors, so a session whose model call fails may end in 500 with a start but no completion event instead of 502 (both kinds of failure are in `ModelFails`).
- An agent that answers with its very last step is reported as `length` (`orchestrator.py:104`; in the model, `ModelEnded`), and a tool may run without an audit line after the loop was left.

## 5. Proofs

All theorems hold for every value of the constants: any number of requests, names,
faults and process deaths. Each module states an inductive invariant, proves that
`Init` establishes it and that each action keeps it (a lemma for each action), and
derives the properties.

| module | theorem | states | assumptions |
|---|---|---|---|
| `RouterPipelineProofs` | `TypeCorrect`, `CallsNeverRepeat`, `StagesInOrder`, `ExhaustionIsComplete` | `[]TypeOK`, `[]NoCallRepeated`, `[]CallsInOrder`, `[]ExhaustedAfterAll` | `MatrixAssumption`, `BodiesAssumption`, `CrashAssumption` |
| | `CacheAlwaysHoldsServed`, `RepliesAlwaysHaveProvenance`, `TrailAlwaysTellsRoute` | `[]CacheHoldsServedResponses`, `[]RepliesHaveProvenance`, `[]AuditTrailTellsRoute` | the same |
| `FallbackChainProofs` | `AlwaysReturnsTheChain` | `[]ReturnsTheChain` | `ChainAssumption` |
| `CacheServiceProofs` | `CacheTypes`, `SemanticAlwaysFollows`, `OvershootAlwaysBounded` | `[]TypeOK`, `[]SemanticFollowsExact`, `[]OvershootBoundedByWriters` | `CacheAssumption` |
| | `ExactAlwaysReadsLatest`, `AlwaysServesBestMatch` | `ExactReadsLatestWrite`, `ServesTheBestMatch` (action properties) | the same |
| `AuditStoreProofs` | `TypeCorrect`, `RefusedIsNeverStored`, `ReturnedRowsAlwaysStay`, `StoreImplementsAuditLog` | `[]TypeOK`, `[]RefusedIsNotStored`, `[]ReturnedRowsStay`, `ImplementsAuditLog` | `StoreAssumption` |
| `ModelRegistryProofs` | `TypeCorrect`, `MemoryIsAlwaysFile`, `AcknowledgedAlwaysSurvives`, `RegisteredOnlyOnce` | `[]TypeOK`, `[]MemoryIsFile`, `[]AcknowledgedSurvives`, `[]RegisteredOnce` | `RegistryAssumption` |
| | `PortalImplementsRegistry`, `PortalKeepsAcknowledged`, `LaterChangeAlwaysStays` | `PortalSpec => Spec`, `[]AcknowledgedSurvives`, `[]LaterChangeStays` | `RegistryAssumption` |
| `IngressProofs` | `RefusalsAlwaysStayOutside`, `RoutedIsAlwaysAudited` | `[]RefusalsStayOutside`, `[]RoutedIsAudited` | `IngressAssumption` |
| | `IngressTypes`, `LimitAlwaysHolds`, `RefusalsAlwaysEarned`, `AlwaysClosedOnce` | `[]TypeOK`, `[]WithinLimit`, `[]RefusedOnlyWhenFull`, `[]ClosedOnceAsAnswered` | the same |
| `ServingPathProofs` | `PathTypeCorrect`, `ServedWholeTexts`, `SlowServed` | `[]TypeOK`, `[]ServedAsGenerated`, `[]SlowIsNotBroken` | `PathAssumption`, `RouterAssumption` |
| | `OneTextAtATime` | `[]OneGenerationEach` | the same, and `OllamaTimeout <= InferenceTimeout` |
| | `TimeoutsAreBounded` | `[]TimeoutsBounded` | the same as the first, and `GatewayTimeout <= RouterTimeout` |
| | `PathImplementsParts` | initial states and steps of the router and of the adapter | the same as the first |
| `AgentSessionProofs` | `AgentTypes`, `TrailAlwaysTellsSession`, `RecordsAlwaysNameTheirTurn`, `StopIsAlwaysAnAnswer` | `[]TypeOK`, `[]TrailTellsSession`, `[]RecordsNameTheirTurn`, `[]StopIsAnAnswer` | `AgentAssumption` |

The assumptions are about constants and TLC evaluates them in the runs. They say
that the matrix has finitely many names and its links lead to a name or nowhere,
that marks such as "no record" or "damaged file" are none of the things they stand
beside, that bounds are numbers. One says something of a neighbour:
`IngressAssumption` has the router answer neither 400, 403 nor 429, because it
refuses with 400 only an IMF without `content_safety_passed`
(`intelligent_router/pipeline.py:177-182`), which the Security Layer has set. Were
that to change, a client could no longer tell a block from a refusal of the router.

**The router's calls.** None of the four theorems is inductive. The invariant is
`RouterInv == TypeOK /\ CallsTrace`. `CallsTrace` says, for each request, how its
calls follow from its stage, its `FallbackState` and its IMF: nothing before it is
received (`NothingYet`); the last call is the one the handler awaits, and those for
the selected model went no further (`AwaitsLast`); IMF and `FallbackState` are in
step (`Stepped`); every call names a model of the chain up to the current one, each
of which was checked (`CallsOfChain`, `ChainChecked`); no two calls are the same
(`Distinct`); each follows its predecessor (`Ordered`); exhausted means that
nothing is left (`ExhaustedLast`). `Distinct` alone is not kept by a step: that the
next call is a new one needs `AwaitsLast` within a model, `CallsOfChain` and the
chain being free of repetitions (`FallbackChainFacts`) from one model to the next.
`TypeOK` alone is not kept either: a selected model is a name only because IMF and
chain are in step (`TraceInStep`).

**What the router stores and serves.** `CacheInv` adds to it that every cache entry
and every write still queued is `Served`: its request is over and was answered
with just this text. The queue has to be in the invariant because the write runs
after the reply, and "is over" because a request that still runs could change its
IMF. A step of one request leaves the others' IMFs alone (`OthersKept`), so what is
served stays so (`ServedStays`); the lemmas on sequences (`ElementsOfConcatenation`)
say what `add_task` adds to the queue.

**The router's audit trail.** `Trails` is about the queue and the posts of a request
together. While it is routed nothing is posted and the queue is one event for each
level (`Begun`); once a model answered or the chain is exhausted (`Concluded`), the
posts are the first events of the trail and the queue is the rest of it, either plain
or with the cache write in front of the last event (`Rest`, `RestWithWrite`). Which
event an exhausted chain ends with (`LastFailureTells`) follows from the last call,
which `CallsTrace` knows. The write in the middle is what makes the positions of queue
and trail differ, so the property counts audit events instead.

**The fallback chain.** `FallbackChains` describes a list; the loop builds one.
`ChainInv` says that the list built so far follows the links without repetition,
that `visited` is the set of its elements, and that every list of the description
begins with it (`BeginsAll`): at the end there is exactly one. That is an induction
over the steps of the loop, in place of one over the data.

**The Audit Store.** `StoreInv` adds to the three properties that what is inserted
and not committed is of single events that were told 500 (`PendingFailed`) and that
ids are unique among all visible rows. `PendingFailed` is what makes the open
transaction harmless: whatever a later COMMIT or ROLLBACK does with it, it touches
no row that anybody was promised. The refinement maps each step to one write of
`AuditLog` or to none; a COMMIT that also takes the pending rows of earlier events
along is the case that needs the invariant.

**The registry.** `InStep` says what memory, file and temporary file hold between
any two steps of a write: that taking the change back gives exactly the file until
the file is moved, and that memory is the file after. `Handling` says that only the
request at hand has a body and no answer; `Owned` that a record is under the name
its last writer asked for, so that an answer or a death changes what is known of
one name only; `NotYetOnDisk` that a write which fails has left nothing in the
file. `RegisteredOnce` needs more, `OnceInv`: who was answered 201 registered the
record last told of that name (`TellsCreator`), the record that was told is the one
on disk but for its status (`TellsSameIn`), and the write under way either
registers a name told to nobody or keeps its registration (`KeepsRegistration`).
That last part is where the look-up before `add` and the rollback are needed.

**The portal.** Every step of portal and registry is a step of the registry or none
(`PortalStepIsNext`), so all that was proved of the registry holds behind it.
`LaterChangeStays` needs `Agree` (what the portal shows as made, the registry
answered 200), `EarlierAnswered` (what came before a change had its answer when
the change was asked for) and `LaterIsTold` (once the later change is answered, nobody is told the
earlier one), which `AcknowledgedSurvives` carries over to the file.

**The way in.** `IngressInv` has, for each call, what the gateway owes (`Owing`),
that the router is called only after the checks passed and an answer 400, 403 or
429 of the Security Layer means it was not (`Checked`), and the two properties. The
first of them is about the future too: a refusal is only sent when the Security
Layer either never heard of the call or has answered it, so nothing behind it can
still reach the router.

`LimitInv` is about the sliding window. The property says it of every window,
wherever it begins, and of calls by when they were judged; the code looks at the
timestamps it stores, and drops old ones at each call. `StoreExact` joins the two:
what the store holds for a key are admitted calls at their own times, and no
admitted call of the window is missing. With it, a call that finds room leaves the
window that ends now within the limit, and so every other (a window that begins
later holds no more); one that is refused counted as many admitted calls as the
property asks for. `EventInv` says what has been emitted at each place of a call
(`ToldRight`): nothing before it is forwarded, no closing event before it is
answered, then exactly one, with the status sent.

**The cache.** `SemanticFollowsExact` needs that a write which is past its exact entry
has one (`Passed`) and that an entry of a list is of a write that is over
(`Cached`): no write can push twice. The overshoot is bounded by counting: the
entries of a list and the writers about to push to it are at most the limit and
one less than the writers in flight (`BoundInv`), because a writer that reads a
length below the limit is one more at most. An exact read is right because Redis
holds under each key what the latest write to it left, or nothing if there was
none since it lost its data (`HoldsLatest`), with the time it expires: the read
compares it with the clock of its own step.

**The serving path.** Each step of the path is, for the router, a step of
`RouterPipeline` or none, and for the adapter one of `InferenceAdapter` or none
(`PathStepRouter`, `PathStepAdapter`). The provers cannot cite what was proved of a
module through an instance of it, so the types of the router are proved once more
here (the first section of the module), and `RouterAssumption` repeats what
`RouterPipeline` assumes of matrix and bodies. `PathAssumption` has the router and the adapter wait
longer than a text takes; of the gateway and the Security Layer it says only that they wait at all.

`PathType` joins to the types that the selected model is the one the chain is at
(`RouteInv`: only so is an awaited call a call at all) and that a client is timed out
no more often than its requests are done (`StreakFits`). What a step does about the
route of a request is said once, as `Refusal`, `Begins`, `GoesForth`, `FallsBack` or
`Ends` (`Moves`), and the four invariants below are kept by those, by what a step does
to a call at the adapter (`JobFinishes`, `JobAges`), and by the start of a call. That
a client is told nothing but 200, 400 and 502 needs more than types: the gateway would
hand on a 403 or 429 of the router, and that the router answers neither follows from
its own type (`ConvertsReply`, `ConvertsErrors`).

- `ServedInv`: not only what the client got but every text that is a reply, in the
  cache or in a write still queued is `Whole`, that is, its call was answered "ok";
  and an answer is never taken back (`AnswersStay`).
- `OneCallEach`: while the router awaits the adapter, the one call Ollama is to work
  on is the awaited one, and it is as old as the router has waited for it; otherwise there
  is none, and after the death of the router at most one. A router that gives up has
  waited for the whole timeout, so the call is due; that is where the hypothesis
  `OllamaTimeout <= InferenceTimeout` is needed. Both are 120 s by default
  (`intelligent_router/config.py:32`, `inference_adapter/config.py:37`), and the two are
  set apart from each other: nothing in the code compares them.
- `SlowInv`: as long as nothing went wrong, Ollama has all models, a call is at
  Ollama and no older than a text takes or is answered "ok" or "model_not_loaded"
  (`Sound`), the router has waited no longer than its call is old (`AskedOf`), and a request that
  left its first model, or ended without a text of it, was never sent to Ollama (`SlowOf`);
  nor was a name without an entry (`NamesUnsent`), at whose health check a request fails.
- `TimeInv`, about how often a client is timed out in a row, is the most involved: see below.

**A client timed out.** `streak` counts in steps of the gateway's timeout, the text
grows in ticks, and what joins the two is one request of the client, not always
the latest: the first one timed out *leads* (`Leads`). Everything is said of clients
for whom nothing has gone wrong since a request was sent (`ClientInv`; `ClientReset`
for the other steps).

- A request is `Healthy` when the models it left refuse it and its calls are with
  Ollama or were refused (`Fits`); it is `Given` its text when that is being generated,
  or is in the router's queue or in the cache. Neither is lost by a step of the router,
  the adapter or the clock while nothing goes wrong (`HealthyCalm`, `GivenCalm`,
  `WorksOn`, `TickCalls`). A waiting request took no time, or all of it went to
  its text (`Fresh`): a tick only passes while it awaits Ollama.
- Until the text of the leader is there, its age pays for all the timeouts and for
  the time the present request has waited (`Ahead`). A text is no older than
  `MaxGeneration`, so there were at most `MaxGeneration \div GatewayTimeout` of them.
- Once it is in the cache (`Backed`), a request under way may still be timed out, the
  one more of `Patience`; a request sent later goes the leader's way (`OnWay`): the
  same first model and the same links (`BaseInv`), refused wherever the leader was,
  up to the leader's model, where the lookup finds the text. No tick passes on that
  way (`NotOnWay`), so it is not timed out.

The hypothesis `GatewayTimeout <= RouterTimeout` holds of the defaults (10 s in
`api_gateway/config.py:45`, 30 s in `security_layer/router_client.py:23`), and the
gateway's is set by the environment. It is needed: with a Security Layer that gives up
after 1 tick, a gateway after 3 and a text of 2, TLC finds a client whose request is
timed out by the Security Layer twice.

**The agent.** The graph runs ahead of the loop that counts it, so what the loop has
written is always behind, and only the queue tells how far. `AgentInv` says for a
session that runs (`Ahead`): the turns in the queue go on one by one from the step
the loop is at to the one the graph has told of (`Chained`); the end of the stream
is its last event, and unless the model asked for no tools there were more turns
than the loop takes (`EndsLast`); and of each tool, wherever in the queue the loop
gets to, it has met no more results than calls (`Balanced`). `Chained` gives
`RecordsNameTheirTurn` its first half and bounds the steps in `TrailTellsSession`,
`Balanced` gives the second half, whatever is cut off; `EndsLast` with the arithmetic of
the two limits (a turn is two nodes, and the graph allows more nodes than
`MAX_AGENT_STEPS` turns have) gives `StopIsAnAnswer`. The audit lines are `Opened`
while the session runs and `Closed` once it is answered.

Only model-checked, on the instances of section 3: the liveness properties
(`RequestsSettle`, `ComesToRest`, `SessionsSettle`), which rest on fairness and are out
of the provers' reach. Every invariant and every action property a passing run checks is proved.

## 6. Not modelled, and what could come next

Not modelled: the text of messages, prompts and answers beyond what a check looks
at; latencies, log records and Prometheus counters other than the router's; the
filters, orders and time ranges of audit queries, which compare timestamps as
strings; the key checks of the inner services, which change no state; the pages of
the portal that only read, and its playground, which is one more client of the
gateway; the browser UI, the charts and the scripts. Kubernetes probes are left out
of `ServingPath`: what they do to an adapter is its `Stop` and `Start`.

Next, in the order of worth:

1. Several replicas: two routers share the cache and the Audit Store only, so
   `RouterPipeline` twice over one `cache` would do; two gateways keep a limit each.
2. A restart of the gateway, after which the limiter has forgotten its window.
3. `CacheService` under `RouterPipeline` in place of its set of entries: the router's
   entries seen through expiry, outage and the semantic match.
