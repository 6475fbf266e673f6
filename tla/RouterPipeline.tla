---------------------------- MODULE RouterPipeline ----------------------------
(***************************************************************************)
(* The Intelligent Router: run_routing_pipeline and the two endpoints that *)
(* call it (/route, /v1/chat/completions).  One asyncio process serves     *)
(* many requests; the code between two awaits is atomic, so an action is   *)
(* what happens from the answer of one downstream call to the next call.   *)
(* The health endpoints, the Inference Adapter, the cache and the Audit    *)
(* Store are seen through the answers they may give.                       *)
(***************************************************************************)
EXTENDS ModelSelector

CONSTANTS
    Requests,      \* the requests that arrive, one handler coroutine each
    Bodies,        \* the request bodies clients may send
    MaxCrashes     \* bound: how often the router process dies

\* A request body, reduced to what routing looks at: the endpoint it came
\* to, the governance verdict, the routing mode and pinned model, and the
\* task types one of whose keywords occurs in the messages.
Body == [entry : {"route", "openai"}, safe : BOOLEAN, mode : {"auto", "pinned"},
         pinned : Names \cup {NoModel}, keywords : SUBSET KeywordTasks]

\* /v1/chat/completions builds the IMF itself: safe, and pinned iff the
\* caller named a model.
ImfOfOpenAI(b) == b.safe /\ (b.mode = "pinned" <=> b.pinned # NoModel)

ASSUME BodiesAssumption ==
    /\ Bodies \subseteq Body
    /\ \A b \in Bodies : b.entry = "openai" => ImfOfOpenAI(b)

ASSUME CrashAssumption == MaxCrashes \in Nat

VARIABLES
    stage,    \* where each handler awaits: the pc of the coroutine
    body,     \* the body of each request
    fallback, \* FallbackState of each request
    imf,      \* the IMF fields the pipeline writes
    tasks,    \* BackgroundTasks, run in order once the reply is sent
    reply,    \* the HTTP reply: status and error code
    calls,    \* <<service, model>> of every downstream call made, in order
    posted,   \* audit events sent to the Audit Store, with what became of them
    cache,    \* responses stored in the cache service
    metrics,  \* the Prometheus counters of this process
    crashes

vars == <<stage, body, fallback, imf, tasks, reply, calls, posted, cache,
          metrics, crashes>>

(***************************************************************************)
(* Values                                                                  *)
(***************************************************************************)
Stages == {"new", "health", "lookup", "infer", "replied", "lost"}

\* A generated text is known by the model and the request it was made for.
Content == [by : Names, for : Requests]
NoContent == [by |-> NoModel, for |-> NoModel]

NoBody == [entry |-> "none"]
NoFallback == [chain |-> <<>>, index |-> 0, level |-> 0]
EmptyImf == [task |-> "none", mode |-> "none", selected |-> NoModel,
             level |-> 0, hit |-> FALSE, content |-> NoContent]
NoReply == [status |-> 0, error |-> "none"]

FallbackState == [chain : Seq(Names), index : Nat, level : Nat]

Metrics == [requests : Nat, errors : Nat, cacheHits : Nat, fallbacks : Nat]
NoMetrics == [requests |-> 0, errors |-> 0, cacheHits |-> 0, fallbacks |-> 0]

Imf == [task : TaskTypes \cup {"none"}, mode : {"auto", "pinned", "none"},
        selected : Names \cup {NoModel}, level : Nat, hit : BOOLEAN,
        content : Content \cup {NoContent}]

Reply == [status : {0, 200, 400, 422, 500, 503},
          error : {"none", "governance_check_failed", "invalid_pinned_model",
                   "no_model_for_task", "all_backends_exhausted",
                   "internal_error"}]

Event == [kind : {"audit"}, type : {"inference_complete", "inference_start", "cache_hit"},
          outcome : {"pass", "error", "fallback"},
          model : Names \cup {NoModel}, level : Nat]
CacheEntry == [kind : {"cache_write"}, model : Names, task : TaskTypes,
               content : Content]
Task == Event \cup CacheEntry

(***************************************************************************)
(* FallbackState                                                           *)
(***************************************************************************)
SelectedModel(f) == f.chain[f.index + 1]
\* Mutant: off by one, the last model of the chain is never tried.
HasNextOffByOne(f) == f.index + 2 < Len(f.chain)

HasNext(f) == f.index + 1 < Len(f.chain)
Advanced(f) == [chain |-> f.chain, index |-> f.index + 1, level |-> f.level + 1]
\* advance(): a chain that is exhausted is left as it is.
Advance(f) == IF HasNext(f) THEN Advanced(f) ELSE f

(***************************************************************************)
(* Audit events                                                            *)
(***************************************************************************)
\* Mutant: an event type the Audit Store's schema does not know.
RoutingAuditUntyped(i, outcome) ==
    [kind |-> "audit", type |-> "routing_decision", outcome |-> outcome,
     model |-> i.selected, level |-> 0]

RoutingAudit(i, outcome) ==
    [kind |-> "audit", type |-> IF outcome = "pass" THEN "inference_complete" ELSE "inference_start",
     outcome |-> outcome, model |-> i.selected, level |-> 0]

CacheHitAudit(i) ==
    [kind |-> "audit", type |-> "cache_hit", outcome |-> "pass",
     model |-> i.selected, level |-> 0]

\* Mutant: the event names the model advance() moved to.
FallbackAuditNamesNext(i, f) ==
    [kind |-> "audit", type |-> "inference_start", outcome |-> "fallback",
     model |-> SelectedModel(f), level |-> f.level]

\* f is the FallbackState after advance(), i the IMF of the failed attempt:
\* the failed model is taken to be the one before the current index.
FallbackAudit(i, f) ==
    [kind |-> "audit", type |-> "inference_start", outcome |-> "fallback",
     model |-> IF f.index > 0 THEN f.chain[f.index] ELSE i.selected,
     level |-> f.level]

\* AuditEventCreate of the Audit Store: the outcomes its schema admits.
AuditOutcomes == {"pass", "block", "flag"}

(***************************************************************************)
(* Steps shared by the stages                                              *)
(***************************************************************************)
\* Send a request to a downstream service and await its answer.
Call(r, service, m) ==
    /\ stage' = [stage EXCEPT ![r] = service]
    /\ calls' = [calls EXCEPT ![r] = Append(@, <<service, m>>)]

\* What post_route adds to the counters when the pipeline has returned;
\* the OpenAI endpoint counts nothing.
TrackedErrors == {"governance_check_failed", "all_backends_exhausted",
                  "invalid_pinned_model", "internal_error"}

\* Increment one counter of m.
Count(m, counter) == [m EXCEPT ![counter] = @ + 1]

RouteMetrics(b, m, error, i) ==
    IF b.entry = "openai" THEN m
    ELSE IF error \in TrackedErrors THEN Count(Count(m, "requests"), "errors")
    ELSE IF error # "none" THEN m
    ELSE IF i.hit THEN Count(Count(m, "requests"), "cacheHits")
    ELSE IF i.level > 0 THEN Count(Count(m, "requests"), "fallbacks")
    ELSE Count(m, "requests")

\* Return a PipelineResult, have the endpoint count and send it.
Respond(r, b, status, error, i, m) ==
    /\ stage' = [stage EXCEPT ![r] = "replied"]
    /\ reply' = [reply EXCEPT ![r] = [status |-> status, error |-> error]]
    /\ metrics' = RouteMetrics(b, m, error, i)
    /\ UNCHANGED calls

AddTasks(r, new) == tasks' = [tasks EXCEPT ![r] = @ \o new]

(***************************************************************************)
(* The pipeline                                                            *)
(***************************************************************************)
\* The governance gate and stages 1 and 2 refuse b without any downstream call.
Refused(r, b, status, error, i) ==
    /\ imf' = [imf EXCEPT ![r] = i]
    /\ Respond(r, b, status, error, i, metrics)
    /\ UNCHANGED <<fallback, tasks, posted, cache, crashes>>

\* Stages 1 and 2 succeed: build the fallback chain and check the first model.
StartRouting(r, b, task) ==
    \E chain \in FallbackChains(SelectModel(b.mode, b.pinned, task)) :
        /\ fallback' = [fallback EXCEPT ![r] = [chain |-> chain, index |-> 0, level |-> 0]]
        /\ imf' = [imf EXCEPT ![r] = [task |-> task, mode |-> b.mode, selected |-> chain[1],
                                      level |-> 0, hit |-> FALSE, content |-> NoContent]]
        /\ Call(r, "health", chain[1])
        /\ UNCHANGED <<tasks, reply, posted, cache, metrics, crashes>>

Receive(r, b) ==
    LET task == ClassifyTask(b.keywords)
        classified == [EmptyImf EXCEPT !.task = task]
        badPin == InvalidPinnedModel(b.mode, b.pinned)
        noModel == NoModelForTask(b.mode, task)
    IN  /\ stage[r] = "new"
        /\ body' = [body EXCEPT ![r] = b]
        /\ \/ ~b.safe /\ Refused(r, b, 400, "governance_check_failed", EmptyImf)
           \/ b.safe /\ badPin /\ Refused(r, b, 422, "invalid_pinned_model", classified)
           \/ b.safe /\ noModel /\ Refused(r, b, 503, "no_model_for_task", classified)
           \/ b.safe /\ ~badPin /\ ~noModel /\ StartRouting(r, b, task)

\* Stage 3, the backend answered 200.
HealthOk(r) ==
    /\ stage[r] = "health"
    /\ imf[r].selected \in Models
    /\ Call(r, "lookup", imf[r].selected)
    /\ UNCHANGED <<body, fallback, imf, tasks, reply, posted, cache, metrics, crashes>>

\* The IMF with the routing fields of the loop, and with a response.
AtLevel(i, level, model) == [[i EXCEPT !.level = level] EXCEPT !.selected = model]
Answered(i, hit, content) == [[i EXCEPT !.hit = hit] EXCEPT !.content = content]

\* Mutant: the next model is used without a health check of its own.
TryNextUnchecked(r, f) ==
    /\ imf' = [imf EXCEPT ![r] = AtLevel(@, f.level, SelectedModel(f))]
    /\ Call(r, "lookup", SelectedModel(f))
    /\ UNCHANGED reply

\* The loop's continue: the model advance() returned is selected and checked.
TryNext(r, f) ==
    /\ imf' = [imf EXCEPT ![r] = AtLevel(@, f.level, SelectedModel(f))]
    /\ Call(r, "health", SelectedModel(f))
    /\ UNCHANGED reply

\* The chain is exhausted: 503.
Exhausted(r, f, m) ==
    /\ imf' = [imf EXCEPT ![r] = AtLevel(@, f.level, @.selected)]
    /\ Respond(r, body[r], 503, "all_backends_exhausted", imf[r], m)

\* Stage 3, a status other than 200, a timeout or a refused connection.
HealthFail(r) ==
    LET f == Advance(fallback[r])
        m == Count(metrics, "fallbacks")
    IN  /\ stage[r] = "health"
        /\ imf[r].selected \in Models
        /\ fallback' = [fallback EXCEPT ![r] = f]
        /\ \/ /\ HasNext(fallback[r])
              /\ AddTasks(r, <<FallbackAudit(imf[r], f)>>)
              /\ TryNext(r, f)
              /\ metrics' = m
           \/ /\ ~HasNext(fallback[r])
              /\ AddTasks(r, <<RoutingAudit(imf[r], "error")>>)
              /\ Exhausted(r, f, m)
        /\ UNCHANGED <<body, posted, cache, crashes>>

\* An exception no handler names reaches the outer try of the pipeline: at a
\* health check every httpx error but a timeout or a refused connection (a
\* name without an entry has the URL "", which httpx refuses with one), at
\* the inference call every such error as well.
Raises(r) ==
    /\ stage[r] \in {"health", "infer"}
    /\ Respond(r, body[r], 500, "internal_error", imf[r], metrics)
    /\ UNCHANGED <<body, fallback, imf, tasks, posted, cache, crashes>>

\* Stage 4, a miss: also a failed lookup and a hit without content.
LookupMiss(r) ==
    /\ stage[r] = "lookup"
    /\ imf' = [imf EXCEPT ![r].hit = FALSE]
    /\ Call(r, "infer", imf[r].selected)
    /\ UNCHANGED <<body, fallback, tasks, reply, posted, cache, metrics, crashes>>

\* Mutant: a response cached for another task type is served.
MatchesAny(e, i) == TRUE

\* The cache serves an entry of the same task type (an exact match, or a
\* similar prompt): the semantic cache is partitioned by task type only.
Matches(e, i) == e.task = i.task

\* Stage 4, a hit with content.
LookupHit(r, e) ==
    LET answered == Answered(imf[r], TRUE, e.content)
    IN  /\ stage[r] = "lookup"
        /\ Matches(e, imf[r])
        /\ imf' = [imf EXCEPT ![r] = answered]
        /\ AddTasks(r, <<CacheHitAudit(answered)>>)
        /\ Respond(r, body[r], 200, "none", answered,
                   Count(metrics, "cacheHits"))
        /\ UNCHANGED <<body, fallback, posted, cache, crashes>>

\* Mutant: the task type the request arrived with is written.
CacheWriteTaskStale(i) ==
    [kind |-> "cache_write", model |-> i.selected, task |-> DefaultTask,
     content |-> i.content]

\* The IMF sent to /cache/write: the adapter returns the IMF it was sent.
CacheWriteTask(i) ==
    [kind |-> "cache_write", model |-> i.selected, task |-> i.task,
     content |-> i.content]

\* Stages 5 and 6, the adapter answered with a response that has content.
InferOk(r) ==
    LET answered == Answered(imf[r], imf[r].hit, [by |-> imf[r].selected, for |-> r])
    IN  /\ stage[r] = "infer"
        /\ imf' = [imf EXCEPT ![r] = answered]
        /\ AddTasks(r, (IF answered.hit THEN <<>> ELSE <<CacheWriteTask(answered)>>)
                          \o <<RoutingAudit(answered, "pass")>>)
        /\ Respond(r, body[r], 200, "none", answered, metrics)
        /\ UNCHANGED <<body, fallback, posted, cache, crashes>>

\* Stage 5, an InferenceError: fall back, or give up after auditing that too.
InferFail(r) ==
    LET f == Advance(fallback[r])
        m == Count(metrics, "fallbacks")
    IN  /\ stage[r] = "infer"
        /\ fallback' = [fallback EXCEPT ![r] = f]
        /\ AddTasks(r, <<FallbackAudit(imf[r], f)>>)
        /\ \/ HasNext(fallback[r]) /\ TryNext(r, f) /\ metrics' = m
           \/ ~HasNext(fallback[r]) /\ Exhausted(r, f, m)
        /\ UNCHANGED <<body, posted, cache, crashes>>

(***************************************************************************)
(* Background tasks, in order, after the reply                             *)
(***************************************************************************)
NextTask(r) ==
    /\ stage[r] = "replied"
    /\ tasks[r] # <<>>
    /\ tasks' = [tasks EXCEPT ![r] = Tail(@)]
    /\ UNCHANGED <<stage, body, fallback, imf, reply, calls, metrics, crashes>>

Posted(r, event, result) ==
    posted' = [posted EXCEPT ![r] = Append(@, [event |-> event, result |-> result])]

\* post_audit_event: the store answers 201 or, for what its schema does not
\* admit, 422; or the post is lost.  A failure is only logged.
PostAudit(r) ==
    /\ NextTask(r)
    /\ Head(tasks[r]).kind = "audit"
    /\ \/ Posted(r, Head(tasks[r]), "lost")
       \/ Posted(r, Head(tasks[r]),
                 IF Head(tasks[r]).outcome \in AuditOutcomes THEN "stored" ELSE "refused")
    /\ UNCHANGED cache

\* Mutant: a write the cache already has is not taken off the list.
WriteCacheStuck(r) ==
    /\ NextTask(r)
    /\ Head(tasks[r]).kind = "cache_write"
    /\ \A e \in cache : e.task # Head(tasks[r]).task
    /\ cache' = cache \cup {Head(tasks[r])}
    /\ UNCHANGED posted

\* cache_write: stored, or lost and only logged.
WriteCache(r) ==
    /\ NextTask(r)
    /\ Head(tasks[r]).kind = "cache_write"
    /\ \/ cache' = cache \cup {Head(tasks[r])}
       \/ UNCHANGED cache
    /\ UNCHANGED posted

Pending(r) == stage[r] \in {"health", "lookup", "infer"} \/ tasks[r] # <<>>

\* The process dies and restarts: the handlers that run, their background
\* tasks and the counters are gone; what other services hold stays.
Crash ==
    /\ crashes < MaxCrashes
    /\ crashes' = crashes + 1
    /\ stage' = [r \in Requests |-> IF Pending(r) THEN "lost" ELSE stage[r]]
    /\ tasks' = [r \in Requests |-> <<>>]
    /\ metrics' = NoMetrics
    /\ UNCHANGED <<body, fallback, imf, reply, calls, posted, cache>>

Init ==
    /\ stage = [r \in Requests |-> "new"]
    /\ body = [r \in Requests |-> NoBody]
    /\ fallback = [r \in Requests |-> NoFallback]
    /\ imf = [r \in Requests |-> EmptyImf]
    /\ tasks = [r \in Requests |-> <<>>]
    /\ reply = [r \in Requests |-> NoReply]
    /\ calls = [r \in Requests |-> <<>>]
    /\ posted = [r \in Requests |-> <<>>]
    /\ cache = {}
    /\ metrics = NoMetrics
    /\ crashes = 0

\* The handler of r: the answer of the downstream call it awaits.
Handler(r) ==
    \/ HealthOk(r) \/ HealthFail(r) \/ Raises(r)
    \/ LookupMiss(r) \/ (\E e \in cache : LookupHit(r, e))
    \/ InferOk(r) \/ InferFail(r)

Background(r) == PostAudit(r) \/ WriteCache(r)

Next ==
    \/ \E r \in Requests : \/ \E b \in Bodies : Receive(r, b)
                           \/ Handler(r)
                           \/ Background(r)
    \/ Crash

\* Every downstream call has a timeout, and the event loop runs what is
\* ready; nothing makes a client send a request or the process die.
Fairness == \A r \in Requests : WF_vars(Handler(r)) /\ WF_vars(Background(r))

Spec == Init /\ [][Next]_vars /\ Fairness

(***************************************************************************)
(* Properties                                                              *)
(***************************************************************************)
TypeOK ==
    /\ stage \in [Requests -> Stages]
    /\ body \in [Requests -> Bodies \cup {NoBody}]
    /\ fallback \in [Requests -> FallbackState]
    /\ imf \in [Requests -> Imf]
    /\ tasks \in [Requests -> Seq(Task)]
    /\ reply \in [Requests -> Reply]
    /\ calls \in [Requests -> Seq({"health", "lookup", "infer"} \X Names)]
    /\ posted \in [Requests -> Seq([event : Event, result : {"stored", "refused", "lost"}])]
    /\ cache \subseteq CacheEntry
    /\ metrics \in Metrics
    /\ crashes \in 0..MaxCrashes

\* No downstream call is made twice for one request: whatever fails, a model
\* already abandoned is not tried again, even when the fallback links of the
\* matrix form a cycle.
NoCallRepeated ==
    \A r \in Requests : \A i, j \in DOMAIN calls[r] :
        calls[r][i] = calls[r][j] => i = j

\* A model is asked to infer only right after the cache was asked for it,
\* and the cache only right after the model's own health check passed: the
\* check of an earlier model never stands in for it.
CallsInOrder ==
    \A r \in Requests : \A i \in DOMAIN calls[r] :
        LET service == calls[r][i][1]
            model == calls[r][i][2]
            previous(s) == i > 1 /\ calls[r][i - 1] = <<s, model>>
        IN  /\ service = "lookup" => previous("health")
            /\ service = "infer" => previous("lookup")

Checked(r) == {m \in Names : \E i \in DOMAIN calls[r] : calls[r][i] = <<"health", m>>}

\* all_backends_exhausted is answered only after every model of the chain
\* was tried.
ExhaustedAfterAll ==
    \A r \in Requests : reply[r].error = "all_backends_exhausted" =>
        \A i \in DOMAIN fallback[r].chain : fallback[r].chain[i] \in Checked(r)

IsAudit(t) == t.kind = "audit"

\* The audit events of r that still wait, by position, and the place of each
\* in its trail: after those sent, in the order of the queue.
QueuedAudits(r) == {j \in DOMAIN tasks[r] : IsAudit(tasks[r][j])}
Place(r, j) == Len(posted[r]) + Cardinality({k \in QueuedAudits(r) : k <= j})

\* What the event at place n of the trail says: each abandoned model, in
\* chain order, with the level reached, ...
Abandoned(event, n, f) ==
    event.outcome = "fallback" /\ event.model = f.chain[n] /\ event.level = n

\* ... then how the routing ended: with the model that answered, with the last
\* model failing its health check, or with it failing to infer (this event
\* names the model before it, see the README).
Concludes(event, n, f, i, end) ==
    IF end.status = 200
    THEN /\ event.outcome = "pass" /\ event.model = i.selected
         /\ event.type = IF i.hit THEN "cache_hit" ELSE "inference_complete"
    ELSE IF end.call = <<"health", f.chain[n]>>
    THEN event.outcome = "error" /\ event.model = f.chain[n]
    ELSE /\ end.call = <<"infer", f.chain[n]>>
         /\ event.outcome = "fallback" /\ event.level = i.level

TellsAt(event, n, f, i, end) ==
    IF n <= i.level THEN Abandoned(event, n, f) ELSE Concludes(event, n, f, i, end)

\* The routing went on until a model answered or none was left.
Concluded(answer) == answer.status = 200 \/ answer.error = "all_backends_exhausted"
Ending(r) == [status |-> reply[r].status, call |-> calls[r][Len(calls[r])]]

\* The audit trail of a request tells its route: one fallback event for each
\* abandoned model, in chain order, naming it and the level reached, then one
\* event for the model that answered; or, when all failed, as many events as
\* the chain has models, the last telling at which call the last one failed.
AuditTrailTellsRoute ==
    \A r \in Requests : Concluded(reply[r]) /\ stage[r] # "lost" =>
        /\ Len(posted[r]) + Cardinality(QueuedAudits(r)) = imf[r].level + 1
        /\ reply[r].status # 200 => imf[r].level + 1 = Len(fallback[r].chain)
        /\ \A n \in DOMAIN posted[r] :
               TellsAt(posted[r][n].event, n, fallback[r], imf[r], Ending(r))
        /\ \A j \in QueuedAudits(r) :
               TellsAt(tasks[r][j], Place(r, j), fallback[r], imf[r], Ending(r))

\* Every cached response is one that its request was answered with, stored
\* under the model that generated it and the task type it was classified as,
\* and a response served from the cache is never stored again.
CacheHoldsServedResponses ==
    \A e \in cache :
        LET r == e.content.for
        IN  /\ reply[r].status = 200
            /\ imf[r].content = e.content
            /\ ~imf[r].hit
            /\ e.model = e.content.by
            /\ e.task = imf[r].task

\* What a client gets was generated by the model its reply names, for this
\* request, or is in the cache for the task type of this request.
RepliesHaveProvenance ==
    \A r \in Requests : reply[r].status = 200 =>
        IF imf[r].hit
        THEN \E e \in cache : e.content = imf[r].content /\ e.task = imf[r].task
        ELSE /\ imf[r].content = [by |-> imf[r].selected, for |-> r]
             /\ calls[r][Len(calls[r])] = <<"infer", imf[r].selected>>

\* Every request received is answered and all its background tasks are run,
\* unless the process dies on it, however many models of its chain fail.
RequestsSettle ==
    \A r \in Requests :
        stage[r] # "new" ~> (stage[r] \in {"replied", "lost"} /\ tasks[r] = <<>>)
================================================================================
