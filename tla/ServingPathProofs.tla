--------------------------- MODULE ServingPathProofs ---------------------------
(***************************************************************************)
(* Proofs about ServingPath for every matrix, any number of clients and    *)
(* attempts, all timeouts and any number of faults.                        *)
(***************************************************************************)
EXTENDS ServingPath, FiniteSetTheorems, TLAPS

(***************************************************************************)
(* The pure helpers                                                        *)
(***************************************************************************)
\* A classified task type is one of the matrix's task types, whatever
\* keywords the messages hold.
LEMMA ClassifyTaskType ==
    ASSUME NEW k \in SUBSET Router!KeywordTasks
    PROVE  Router!ClassifyTask(k) \in Router!TaskTypes
<1>1. CASE k = {}
  BY <1>1 DEF Router!ClassifyTask, Router!TaskTypes
<1>2. CASE k # {}
  <2> DEFINE P(i) == /\ Router!PriorityOrder[i] \in k
                     /\ \A j \in 1..(i - 1) : Router!PriorityOrder[j] \notin k
  <2>1. PICK n \in 1..5 : Router!PriorityOrder[n] \in k
    BY <1>2 DEF Router!KeywordTasks
  <2>2. \E i \in 1..5 : P(i)
    <3>1. CASE Router!PriorityOrder[1] \in k
      <4>1. P(1) BY <3>1
      <4> QED BY <4>1
    <3>2. CASE Router!PriorityOrder[1] \notin k /\ Router!PriorityOrder[2] \in k
      <4>1. P(2) BY <3>2
      <4> QED BY <4>1
    <3>3. CASE /\ Router!PriorityOrder[1] \notin k /\ Router!PriorityOrder[2] \notin k
               /\ Router!PriorityOrder[3] \in k
      <4>1. P(3) BY <3>3
      <4> QED BY <4>1
    <3>4. CASE /\ Router!PriorityOrder[1] \notin k /\ Router!PriorityOrder[2] \notin k
               /\ Router!PriorityOrder[3] \notin k /\ Router!PriorityOrder[4] \in k
      <4>1. P(4) BY <3>4
      <4> QED BY <4>1
    <3>5. CASE /\ Router!PriorityOrder[1] \notin k /\ Router!PriorityOrder[2] \notin k
               /\ Router!PriorityOrder[3] \notin k /\ Router!PriorityOrder[4] \notin k
      <4>1. P(5) BY <3>5, <2>1
      <4> QED BY <4>1
    <3> HIDE DEF P
    <3> QED BY <3>1, <3>2, <3>3, <3>4, <3>5
  <2>3. (CHOOSE i \in 1..5 : P(i)) \in 1..5
    <3> HIDE DEF P
    <3> QED BY <2>2
  <2>4. Router!ClassifyTask(k) = Router!PriorityOrder[CHOOSE i \in 1..5 : P(i)]
    BY <1>2 DEF Router!ClassifyTask
  <2> HIDE DEF P
  <2> QED BY <2>3, <2>4 DEF Router!TaskTypes, Router!KeywordTasks
<1> QED BY <1>1, <1>2

\* A fallback chain is a non-empty list of distinct names that starts with
\* the selected model.
LEMMA FallbackChainFacts ==
    ASSUME NEW m, NEW c \in Router!FallbackChains(m)
    PROVE  /\ c \in Seq(Router!Names)
           /\ Len(c) \in Nat \ {0}
           /\ c[1] = m
           /\ m \in Router!Names
           /\ \A i, j \in 1..Len(c) : c[i] = c[j] => i = j
<1>1. Cardinality(Router!Names) \in Nat
  BY RouterAssumption, FS_CardinalityType DEF RouterAssumption
<1>2. Router!Cardinality(Router!Names) = Cardinality(Router!Names)
  BY DEF Router!Cardinality, Cardinality
<1>3. PICK n \in 1..Cardinality(Router!Names) : c \in [1..n -> Router!Names]
  BY <1>2 DEF Router!FallbackChains
<1>4. n \in Nat \ {0}
  BY <1>1, <1>3
<1>5. c \in Seq(Router!Names) /\ Len(c) = n
  BY <1>3, <1>4
<1>6. c[1] = m /\ c[1] \in Router!Names
  BY <1>3, <1>4 DEF Router!FallbackChains
<1>7. \A i, j \in DOMAIN c : c[i] = c[j] => i = j
  BY DEF Router!FallbackChains
<1> QED BY <1>3, <1>4, <1>5, <1>6, <1>7

(***************************************************************************)
(* Type correctness                                                        *)
(***************************************************************************)
\* Counting keeps the counters natural numbers.
LEMMA CountType ==
    ASSUME NEW m \in Router!Metrics,
           NEW counter \in {"requests", "errors", "cacheHits", "fallbacks"}
    PROVE  Router!Count(m, counter) \in Router!Metrics
BY DEF Router!Count, Router!Metrics

\* The two updates of an IMF set the fields they name and keep the others.
LEMMA AtLevelFacts ==
    ASSUME NEW i \in Router!Imf, NEW level \in Nat, NEW model \in Router!Names \cup {NoModel}
    PROVE  /\ Router!AtLevel(i, level, model) \in Router!Imf
           /\ Router!AtLevel(i, level, model).task = i.task
           /\ Router!AtLevel(i, level, model).mode = i.mode
           /\ Router!AtLevel(i, level, model).level = level
           /\ Router!AtLevel(i, level, model).selected = model
           /\ Router!AtLevel(i, level, model).hit = i.hit
           /\ Router!AtLevel(i, level, model).content = i.content
<1> DEFINE x == [i EXCEPT !.level = level]
<1>1. /\ x \in Router!Imf /\ x.task = i.task /\ x.mode = i.mode /\ x.level = level
      /\ x.hit = i.hit /\ x.content = i.content
  BY DEF Router!Imf
<1>2. Router!AtLevel(i, level, model) = [x EXCEPT !.selected = model]
  BY DEF Router!AtLevel
<1> HIDE DEF x
<1> QED BY <1>1, <1>2 DEF Router!Imf

LEMMA AnsweredFacts ==
    ASSUME NEW i \in Router!Imf, NEW hit \in BOOLEAN, NEW content \in Router!Content
    PROVE  /\ Router!Answered(i, hit, content) \in Router!Imf
           /\ Router!Answered(i, hit, content).task = i.task
           /\ Router!Answered(i, hit, content).mode = i.mode
           /\ Router!Answered(i, hit, content).level = i.level
           /\ Router!Answered(i, hit, content).selected = i.selected
           /\ Router!Answered(i, hit, content).hit = hit
           /\ Router!Answered(i, hit, content).content = content
<1> DEFINE x == [i EXCEPT !.hit = hit]
<1>1. /\ x \in Router!Imf /\ x.task = i.task /\ x.mode = i.mode /\ x.level = i.level
      /\ x.hit = hit /\ x.selected = i.selected
  BY DEF Router!Imf
<1>2. Router!Answered(i, hit, content) = [x EXCEPT !.content = content]
  BY DEF Router!Answered
<1> HIDE DEF x
<1> QED BY <1>1, <1>2 DEF Router!Imf

\* advance() keeps the chain and stays within it.
LEMMA AdvanceFacts ==
    ASSUME NEW f \in Router!FallbackState
    PROVE  /\ Router!Advance(f) \in Router!FallbackState
           /\ Router!Advance(f).chain = f.chain
           /\ Router!HasNext(f) => /\ Router!Advance(f).index = f.index + 1
                            /\ Router!Advance(f).level = f.level + 1
                            /\ Router!SelectedModel(Router!Advance(f)) = f.chain[f.index + 2]
                            /\ Router!SelectedModel(Router!Advance(f)) \in Router!Names
           /\ ~Router!HasNext(f) => Router!Advance(f) = f
           /\ f.index < Len(f.chain) => Router!Advance(f).index < Len(f.chain)
BY DEF Router!Advance, Router!Advanced, Router!HasNext, Router!SelectedModel, Router!FallbackState

\* What Respond leaves behind is well typed.
LEMMA RespondType ==
    ASSUME Router!TypeOK, NEW r \in Requests, NEW b, NEW i, NEW m,
           NEW status \in {200, 400, 422, 500, 503},
           NEW error \in {"none", "governance_check_failed", "invalid_pinned_model",
                          "no_model_for_task", "all_backends_exhausted", "internal_error"},
           m \in Router!Metrics,
           Router!Respond(r, b, status, error, i, m)
    PROVE  /\ stage' \in [Requests -> Router!Stages]
           /\ reply' \in [Requests -> Router!Reply]
           /\ metrics' \in Router!Metrics
           /\ calls' = calls
<1>1. stage' \in [Requests -> Router!Stages]
  BY DEF Router!Respond, Router!TypeOK, Router!Stages
<1>2. reply' \in [Requests -> Router!Reply]
  BY DEF Router!Respond, Router!TypeOK, Router!Reply
<1>3. Router!RouteMetrics(b, m, error, i) \in Router!Metrics
  <2>1. Router!Count(m, "requests") \in Router!Metrics
    BY CountType
  <2>2. /\ Router!Count(Router!Count(m, "requests"), "errors") \in Router!Metrics
        /\ Router!Count(Router!Count(m, "requests"), "cacheHits") \in Router!Metrics
        /\ Router!Count(Router!Count(m, "requests"), "fallbacks") \in Router!Metrics
    BY <2>1, CountType
  <2> QED BY <2>1, <2>2 DEF Router!RouteMetrics
<1> QED BY <1>1, <1>2, <1>3 DEF Router!Respond

\* What Call leaves behind is well typed.
LEMMA CallType ==
    ASSUME Router!TypeOK, NEW r \in Requests, NEW m \in Router!Names,
           NEW service \in {"health", "lookup", "infer"}, Router!Call(r, service, m)
    PROVE  /\ stage' \in [Requests -> Router!Stages]
           /\ calls' \in [Requests -> Seq({"health", "lookup", "infer"} \X Router!Names)]
BY DEF Router!Call, Router!TypeOK, Router!Stages

LEMMA InitType == Router!Init => Router!TypeOK
<1> SUFFICES ASSUME Router!Init PROVE Router!TypeOK
  OBVIOUS
<1>1. imf \in [Requests -> Router!Imf]
  BY DEF Router!Init, Router!EmptyImf, Router!Imf
<1>2. fallback \in [Requests -> Router!FallbackState]
  BY DEF Router!Init, Router!NoFallback, Router!FallbackState
<1>3. reply \in [Requests -> Router!Reply]
  BY DEF Router!Init, Router!NoReply, Router!Reply
<1>4. crashes \in 0..MaxFaults
  BY PathAssumption DEF PathAssumption, Router!Init
<1> QED BY <1>1, <1>2, <1>3, <1>4 DEF Router!Init, Router!TypeOK, Router!Stages, Router!CacheEntry, Router!Metrics, Router!NoMetrics

\* While a request is routed its FallbackState points into its chain, and
\* the routing fields of its IMF say the same as the FallbackState does.
RoutingStages == {"health", "lookup", "infer"}
Routing(r) == stage[r] \in RoutingStages

InStepOf(f, i) ==
    /\ f.index < Len(f.chain)
    /\ f.level = f.index
    /\ i.level = f.index
    /\ i.selected = Router!SelectedModel(f)
    /\ i.task \in Router!TaskTypes
    /\ \A j, k \in 1..Len(f.chain) : f.chain[j] = f.chain[k] => j = k

InStep(r) == InStepOf(fallback[r], imf[r])

RoutingInStep == \A r \in Requests : Routing(r) => InStep(r)

LEMMA SelectedIsName ==
    ASSUME Router!TypeOK, NEW r \in Requests, InStep(r)
    PROVE  imf[r].selected \in Router!Names /\ imf[r] \in Router!Imf /\ fallback[r] \in Router!FallbackState
BY DEF Router!TypeOK, InStep, InStepOf, Router!SelectedModel, Router!FallbackState

LEMMA ReceiveType ==
    ASSUME Router!TypeOK, NEW r \in Requests, NEW b \in Bodies, Router!Receive(r, b)
    PROVE  Router!TypeOK'
<1> DEFINE task == Router!ClassifyTask(b.keywords)
           classified == [Router!EmptyImf EXCEPT !.task = task]
<1>1. b \in Router!Body /\ b.keywords \in SUBSET Router!KeywordTasks /\ b.mode \in {"auto", "pinned"}
  BY RouterAssumption DEF RouterAssumption, Router!Body
<1>2. task \in Router!TaskTypes
  BY <1>1, ClassifyTaskType
<1> HIDE DEF task
<1>3. Router!EmptyImf \in Router!Imf /\ classified \in Router!Imf
  BY <1>2 DEF Router!EmptyImf, Router!Imf
<1>4. body' \in [Requests -> Bodies \cup {Router!NoBody}]
  BY DEF Router!Receive, Router!TypeOK
<1>5. ASSUME NEW status \in {400, 422, 503},
             NEW error \in {"governance_check_failed", "invalid_pinned_model",
                            "no_model_for_task"},
             NEW i \in Router!Imf, Router!Refused(r, b, status, error, i)
      PROVE  Router!TypeOK'
  <2>1. imf' \in [Requests -> Router!Imf] /\ Router!Respond(r, b, status, error, i, metrics)
    BY <1>5 DEF Router!Refused, Router!TypeOK
  <2>2. metrics \in Router!Metrics
    BY DEF Router!TypeOK
  <2>3. /\ stage' \in [Requests -> Router!Stages]
        /\ reply' \in [Requests -> Router!Reply]
        /\ metrics' \in Router!Metrics
        /\ calls' = calls
    BY <2>1, <2>2, RespondType
  <2> QED BY <1>4, <1>5, <2>1, <2>3 DEF Router!Refused, Router!TypeOK
<1>6. ASSUME ~Router!InvalidPinnedModel(b.mode, b.pinned), ~Router!NoModelForTask(b.mode, task),
             Router!StartRouting(r, b, task)
      PROVE  Router!TypeOK'
  <2>1. PICK chain \in Router!FallbackChains(Router!SelectModel(b.mode, b.pinned, task)) :
           /\ fallback' = [fallback EXCEPT ![r] = [chain |-> chain, index |-> 0, level |-> 0]]
           /\ imf' = [imf EXCEPT ![r] = [task |-> task, mode |-> b.mode, selected |-> chain[1],
                                         level |-> 0, hit |-> FALSE, content |-> Router!NoContent]]
           /\ Router!Call(r, "health", chain[1])
           /\ UNCHANGED <<tasks, reply, posted, cache, metrics, crashes>>
    BY <1>6 DEF Router!StartRouting
  <2>2. chain \in Seq(Router!Names) /\ chain[1] \in Router!Names
    BY FallbackChainFacts
  <2>3. fallback' \in [Requests -> Router!FallbackState]
    BY <2>1, <2>2 DEF Router!TypeOK, Router!FallbackState
  <2>4. imf' \in [Requests -> Router!Imf]
    BY <1>1, <1>2, <2>1, <2>2 DEF Router!TypeOK, Router!Imf
  <2>5. /\ stage' \in [Requests -> Router!Stages]
        /\ calls' \in [Requests -> Seq({"health", "lookup", "infer"} \X Router!Names)]
    BY <2>1, <2>2, CallType
  <2> QED BY <1>4, <2>1, <2>3, <2>4, <2>5 DEF Router!TypeOK
<1>7. \/ Router!Refused(r, b, 400, "governance_check_failed", Router!EmptyImf)
      \/ Router!Refused(r, b, 422, "invalid_pinned_model", classified)
      \/ Router!Refused(r, b, 503, "no_model_for_task", classified)
      \/ /\ ~Router!InvalidPinnedModel(b.mode, b.pinned)
         /\ ~Router!NoModelForTask(b.mode, task)
         /\ Router!StartRouting(r, b, task)
  BY DEF Router!Receive, task
<1> HIDE DEF classified
<1> QED BY <1>3, <1>5, <1>6, <1>7

LEMMA CallStepType ==
    ASSUME Router!TypeOK, RoutingInStep, NEW r \in Requests, Router!HealthOk(r) \/ Router!LookupMiss(r)
    PROVE  Router!TypeOK'
<1>1. Routing(r)
  BY DEF Router!HealthOk, Router!LookupMiss, Routing, RoutingStages
<1>2. imf[r].selected \in Router!Names /\ imf[r] \in Router!Imf
  BY <1>1, SelectedIsName DEF RoutingInStep
<1>3. CASE Router!HealthOk(r)
  <2>1. /\ stage' \in [Requests -> Router!Stages]
        /\ calls' \in [Requests -> Seq({"health", "lookup", "infer"} \X Router!Names)]
    BY <1>2, <1>3, CallType DEF Router!HealthOk
  <2> QED BY <1>3, <2>1 DEF Router!HealthOk, Router!TypeOK
<1>4. CASE Router!LookupMiss(r)
  <2>1. /\ stage' \in [Requests -> Router!Stages]
        /\ calls' \in [Requests -> Seq({"health", "lookup", "infer"} \X Router!Names)]
    BY <1>2, <1>4, CallType DEF Router!LookupMiss
  <2>2. [imf[r] EXCEPT !.hit = FALSE] \in Router!Imf
    BY <1>2 DEF Router!Imf
  <2>3. imf' = [imf EXCEPT ![r] = [imf[r] EXCEPT !.hit = FALSE]]
    BY <1>4 DEF Router!LookupMiss
  <2>4. imf' \in [Requests -> Router!Imf]
    BY <2>2, <2>3 DEF Router!TypeOK
  <2> QED BY <1>4, <2>1, <2>4 DEF Router!LookupMiss, Router!TypeOK
<1> QED BY <1>3, <1>4

LEMMA RaisesType ==
    ASSUME Router!TypeOK, NEW r \in Requests, Router!Raises(r)
    PROVE  Router!TypeOK'
<1>1. metrics \in Router!Metrics
  BY DEF Router!TypeOK
<1>2. /\ stage' \in [Requests -> Router!Stages]
      /\ reply' \in [Requests -> Router!Reply]
      /\ metrics' \in Router!Metrics
      /\ calls' = calls
  BY <1>1, RespondType DEF Router!Raises
<1> QED BY <1>2 DEF Router!Raises, Router!TypeOK

\* The audit events of the pipeline are well typed.
LEMMA AuditType ==
    ASSUME NEW i \in Router!Imf, NEW outcome \in {"pass", "error"}
    PROVE  /\ Router!RoutingAudit(i, outcome) \in Router!Task
           /\ Router!CacheHitAudit(i) \in Router!Task
BY DEF Router!RoutingAudit, Router!CacheHitAudit, Router!Task, Router!Event, Router!Imf

LEMMA FallbackAuditType ==
    ASSUME NEW i \in Router!Imf, NEW f \in Router!FallbackState, f.index <= Len(f.chain)
    PROVE  Router!FallbackAudit(i, f) \in Router!Task
<1>1. f.index > 0 => f.chain[f.index] \in Router!Names
  BY DEF Router!FallbackState
<1> QED BY <1>1 DEF Router!FallbackAudit, Router!Task, Router!Event, Router!Imf, Router!FallbackState

LEMMA AdvancedAuditType ==
    ASSUME NEW i \in Router!Imf, NEW f \in Router!FallbackState, f.index < Len(f.chain)
    PROVE  Router!FallbackAudit(i, Router!Advance(f)) \in Router!Task
<1>1. /\ Router!Advance(f) \in Router!FallbackState
      /\ Router!Advance(f).chain = f.chain
      /\ Router!Advance(f).index < Len(f.chain)
  BY AdvanceFacts
<1>2. Router!Advance(f).index <= Len(Router!Advance(f).chain)
  BY <1>1 DEF Router!FallbackState
<1> QED BY <1>1, <1>2, FallbackAuditType

\* A failed attempt either selects the next model of the chain or answers 503.
LEMMA FailType ==
    ASSUME Router!TypeOK, NEW r \in Requests, NEW event \in Router!Task, InStep(r),
           fallback' = [fallback EXCEPT ![r] = Router!Advance(fallback[r])],
           Router!AddTasks(r, <<event>>),
           \/ /\ Router!HasNext(fallback[r])
              /\ Router!TryNext(r, Router!Advance(fallback[r]))
              /\ metrics' = Router!Count(metrics, "fallbacks")
           \/ Router!Exhausted(r, Router!Advance(fallback[r]), Router!Count(metrics, "fallbacks")),
           UNCHANGED <<body, posted, cache, crashes>>
    PROVE  Router!TypeOK'
<1> DEFINE f == Router!Advance(fallback[r])
           m == Router!Count(metrics, "fallbacks")
<1>1. /\ fallback[r] \in Router!FallbackState /\ imf[r] \in Router!Imf /\ imf[r].selected \in Router!Names
      /\ metrics \in Router!Metrics
  BY SelectedIsName DEF Router!TypeOK
<1>2. m \in Router!Metrics
  BY <1>1, CountType
<1>3. f \in Router!FallbackState /\ (Router!HasNext(fallback[r]) => Router!SelectedModel(f) \in Router!Names)
  BY <1>1, AdvanceFacts
<1>4. f.level \in Nat
  BY <1>3 DEF Router!FallbackState
<1> HIDE DEF f, m
<1>5. fallback' \in [Requests -> Router!FallbackState]
  BY <1>3 DEF Router!TypeOK, f
<1>6. tasks' \in [Requests -> Seq(Router!Task)]
  BY DEF Router!AddTasks, Router!TypeOK
<1>7. CASE Router!HasNext(fallback[r]) /\ Router!TryNext(r, f) /\ metrics' = m
  <2>1. Router!AtLevel(imf[r], f.level, Router!SelectedModel(f)) \in Router!Imf
    BY <1>1, <1>3, <1>4, <1>7, AtLevelFacts
  <2>2. imf' \in [Requests -> Router!Imf] /\ reply' = reply
    BY <1>7, <2>1 DEF Router!TryNext, Router!TypeOK
  <2>3. /\ stage' \in [Requests -> Router!Stages]
        /\ calls' \in [Requests -> Seq({"health", "lookup", "infer"} \X Router!Names)]
    BY <1>3, <1>7, CallType DEF Router!TryNext
  <2> QED BY <1>2, <1>5, <1>6, <1>7, <2>2, <2>3 DEF Router!TypeOK
<1>8. CASE Router!Exhausted(r, f, m)
  <2>1. Router!AtLevel(imf[r], f.level, imf[r].selected) \in Router!Imf
    BY <1>1, <1>4, AtLevelFacts
  <2>2. imf' \in [Requests -> Router!Imf]
    BY <1>8, <2>1 DEF Router!Exhausted, Router!TypeOK
  <2>3. /\ stage' \in [Requests -> Router!Stages]
        /\ reply' \in [Requests -> Router!Reply]
        /\ metrics' \in Router!Metrics
        /\ calls' = calls
    BY <1>2, <1>8, RespondType DEF Router!Exhausted
  <2> QED BY <1>5, <1>6, <2>2, <2>3 DEF Router!TypeOK
<1> QED BY <1>7, <1>8 DEF f, m

LEMMA HealthFailType ==
    ASSUME Router!TypeOK, RoutingInStep, NEW r \in Requests, Router!HealthFail(r)
    PROVE  Router!TypeOK'
<1>1. InStep(r) /\ imf[r] \in Router!Imf /\ fallback[r] \in Router!FallbackState
  BY SelectedIsName DEF Router!HealthFail, RoutingInStep, Routing, RoutingStages
<1>2. CASE Router!HasNext(fallback[r])
  <2>1. Router!FallbackAudit(imf[r], Router!Advance(fallback[r])) \in Router!Task
    BY <1>1, AdvancedAuditType DEF InStep, InStepOf
  <2> QED BY <1>1, <1>2, <2>1, FailType DEF Router!HealthFail
<1>3. CASE ~Router!HasNext(fallback[r])
  <2>1. Router!RoutingAudit(imf[r], "error") \in Router!Task
    BY <1>1, AuditType
  <2> QED BY <1>1, <1>3, <2>1, FailType DEF Router!HealthFail
<1> QED BY <1>2, <1>3

LEMMA InferFailType ==
    ASSUME Router!TypeOK, RoutingInStep, NEW r \in Requests, Router!InferFail(r)
    PROVE  Router!TypeOK'
<1>1. InStep(r) /\ imf[r] \in Router!Imf /\ fallback[r] \in Router!FallbackState
  BY SelectedIsName DEF Router!InferFail, RoutingInStep, Routing, RoutingStages
<1>2. Router!FallbackAudit(imf[r], Router!Advance(fallback[r])) \in Router!Task
  BY <1>1, AdvancedAuditType DEF InStep, InStepOf
<1> QED BY <1>1, <1>2, FailType DEF Router!InferFail

\* A request answered from the cache or by its model.
LEMMA AnswerType ==
    ASSUME Router!TypeOK, NEW r \in Requests, NEW i \in Router!Imf, NEW new \in Seq(Router!Task),
           NEW m \in Router!Metrics,
           imf' = [imf EXCEPT ![r] = i], Router!AddTasks(r, new),
           Router!Respond(r, body[r], 200, "none", i, m),
           UNCHANGED <<body, fallback, posted, cache, crashes>>
    PROVE  Router!TypeOK'
<1>1. imf' \in [Requests -> Router!Imf]
  BY DEF Router!TypeOK
<1>2. tasks' \in [Requests -> Seq(Router!Task)]
  BY DEF Router!AddTasks, Router!TypeOK
<1>3. /\ stage' \in [Requests -> Router!Stages]
      /\ reply' \in [Requests -> Router!Reply]
      /\ metrics' \in Router!Metrics
      /\ calls' = calls
  BY RespondType
<1> QED BY <1>1, <1>2, <1>3 DEF Router!TypeOK

LEMMA LookupHitType ==
    ASSUME Router!TypeOK, RoutingInStep, NEW r \in Requests, NEW e \in cache, Router!LookupHit(r, e)
    PROVE  Router!TypeOK'
<1> DEFINE answered == Router!Answered(imf[r], TRUE, e.content)
<1>1. imf[r] \in Router!Imf /\ e.content \in Router!Content /\ metrics \in Router!Metrics
  BY DEF Router!TypeOK, Router!CacheEntry
<1>2. answered \in Router!Imf
  BY <1>1, AnsweredFacts
<1>3. imf' = [imf EXCEPT ![r] = answered] /\ Router!AddTasks(r, <<Router!CacheHitAudit(answered)>>)
      /\ Router!Respond(r, body[r], 200, "none", answered, Router!Count(metrics, "cacheHits"))
      /\ UNCHANGED <<body, fallback, posted, cache, crashes>>
  BY DEF Router!LookupHit
<1> HIDE DEF answered
<1>4. <<Router!CacheHitAudit(answered)>> \in Seq(Router!Task)
  BY <1>2, AuditType
<1>5. Router!Count(metrics, "cacheHits") \in Router!Metrics
  BY <1>1, CountType
<1> QED BY <1>2, <1>3, <1>4, <1>5, AnswerType

\* What InferOk makes of the request: its IMF and its background tasks.
InferAnswer(r) == Router!Answered(imf[r], imf[r].hit, [by |-> imf[r].selected, for |-> r])
InferTasks(r) ==
    (IF InferAnswer(r).hit THEN <<>> ELSE <<Router!CacheWriteTask(InferAnswer(r))>>)
       \o <<Router!RoutingAudit(InferAnswer(r), "pass")>>

LEMMA InferOkFacts ==
    ASSUME Router!TypeOK, NEW r \in Requests, InStep(r)
    PROVE  /\ InferAnswer(r) \in Router!Imf
           /\ InferAnswer(r).content = [by |-> imf[r].selected, for |-> r]
           /\ InferAnswer(r).selected = imf[r].selected
           /\ InferAnswer(r).task = imf[r].task
           /\ InferAnswer(r).hit = imf[r].hit
           /\ Router!CacheWriteTask(InferAnswer(r)) \in Router!CacheEntry
           /\ Router!RoutingAudit(InferAnswer(r), "pass") \in Router!Task
<1>1. imf[r] \in Router!Imf /\ imf[r].selected \in Router!Names /\ imf[r].task \in Router!TaskTypes
  BY SelectedIsName DEF InStep, InStepOf
<1>2. [by |-> imf[r].selected, for |-> r] \in Router!Content /\ imf[r].hit \in BOOLEAN
  BY <1>1 DEF Router!Content, Router!Imf
<1>3. /\ InferAnswer(r) \in Router!Imf
      /\ InferAnswer(r).content = [by |-> imf[r].selected, for |-> r]
      /\ InferAnswer(r).selected = imf[r].selected
      /\ InferAnswer(r).task = imf[r].task
      /\ InferAnswer(r).hit = imf[r].hit
  BY <1>1, <1>2, AnsweredFacts DEF InferAnswer
<1>4. Router!CacheWriteTask(InferAnswer(r)) \in Router!CacheEntry
  BY <1>1, <1>2, <1>3 DEF Router!CacheWriteTask, Router!CacheEntry
<1>5. Router!RoutingAudit(InferAnswer(r), "pass") \in Router!Task
  BY <1>3, AuditType
<1> QED BY <1>3, <1>4, <1>5

LEMMA InferOkType ==
    ASSUME Router!TypeOK, RoutingInStep, NEW r \in Requests, Router!InferOk(r)
    PROVE  Router!TypeOK'
<1>1. InStep(r)
  BY DEF Router!InferOk, RoutingInStep, Routing, RoutingStages
<1>2. InferTasks(r) \in Seq(Router!Task)
  <2> DEFINE w == Router!CacheWriteTask(InferAnswer(r))
             e == Router!RoutingAudit(InferAnswer(r), "pass")
  <2>1. w \in Router!Task /\ e \in Router!Task
    BY <1>1, InferOkFacts DEF Router!Task
  <2> HIDE DEF w, e
  <2>2. InferTasks(r) = (IF InferAnswer(r).hit THEN <<>> ELSE <<w>>) \o <<e>>
    BY DEF InferTasks, w, e
  <2>3. CASE InferAnswer(r).hit
    BY <2>1, <2>2, <2>3
  <2>4. CASE ~InferAnswer(r).hit
    BY <2>1, <2>2, <2>4
  <2> QED BY <2>3, <2>4
<1>3. imf' = [imf EXCEPT ![r] = InferAnswer(r)] /\ Router!AddTasks(r, InferTasks(r))
      /\ Router!Respond(r, body[r], 200, "none", InferAnswer(r), metrics)
      /\ UNCHANGED <<body, fallback, posted, cache, crashes>>
  BY DEF Router!InferOk, InferAnswer, InferTasks
<1>4. metrics \in Router!Metrics
  BY DEF Router!TypeOK
<1> QED BY <1>1, <1>2, <1>3, <1>4, InferOkFacts, AnswerType

\* Background tasks and crashes.
LEMMA NextTaskFacts ==
    ASSUME Router!TypeOK, NEW r \in Requests, Router!NextTask(r)
    PROVE  /\ tasks' \in [Requests -> Seq(Router!Task)]
           /\ Head(tasks[r]) \in Router!Task
           /\ tasks[r] \in Seq(Router!Task)
           /\ tasks[r] # <<>>
BY DEF Router!NextTask, Router!TypeOK

LEMMA BackgroundType ==
    ASSUME Router!TypeOK, NEW r \in Requests, Router!Background(r)
    PROVE  Router!TypeOK'
<1>1. Router!NextTask(r)
  BY DEF Router!Background, Router!PostAudit, Router!WriteCache
<1>2. tasks' \in [Requests -> Seq(Router!Task)] /\ Head(tasks[r]) \in Router!Task
  BY <1>1, NextTaskFacts
<1>3. CASE Router!PostAudit(r)
  <2>1. Head(tasks[r]) \in Router!Event
    BY <1>2, <1>3 DEF Router!PostAudit, Router!Task, Router!Event, Router!CacheEntry
  <2>2. PICK result \in {"stored", "refused", "lost"} : Router!Posted(r, Head(tasks[r]), result)
    BY <1>3 DEF Router!PostAudit
  <2>3. posted' \in [Requests -> Seq([event : Router!Event, result : {"stored", "refused", "lost"}])]
    <3> DEFINE sent == [event |-> Head(tasks[r]), result |-> result]
               Sent == [event : Router!Event, result : {"stored", "refused", "lost"}]
    <3>1. sent \in Sent
      BY <2>1
    <3>2. posted' = [posted EXCEPT ![r] = Append(posted[r], sent)]
      BY <2>2 DEF Router!Posted
    <3>3. posted \in [Requests -> Seq(Sent)]
      BY DEF Router!TypeOK
    <3> HIDE DEF sent, Sent
    <3>4. posted' \in [Requests -> Seq(Sent)]
      BY <3>1, <3>2, <3>3
    <3> QED BY <3>4 DEF Sent
  <2> QED BY <1>1, <1>2, <1>3, <2>3 DEF Router!PostAudit, Router!NextTask, Router!TypeOK
<1>4. CASE Router!WriteCache(r)
  <2>1. Head(tasks[r]) \in Router!CacheEntry
    BY <1>2, <1>4 DEF Router!WriteCache, Router!Task, Router!Event, Router!CacheEntry
  <2>2. cache' \subseteq Router!CacheEntry
    BY <1>4, <2>1 DEF Router!WriteCache, Router!TypeOK
  <2> QED BY <1>1, <1>2, <1>4, <2>2 DEF Router!WriteCache, Router!NextTask, Router!TypeOK
<1> QED BY <1>3, <1>4 DEF Router!Background

LEMMA CrashType ==
    ASSUME Router!TypeOK, Router!Crash
    PROVE  Router!TypeOK'
<1>1. stage' \in [Requests -> Router!Stages]
  BY DEF Router!Crash, Router!TypeOK, Router!Stages
<1>2. tasks' \in [Requests -> Seq(Router!Task)] /\ metrics' \in Router!Metrics
  BY DEF Router!Crash, Router!Metrics, Router!NoMetrics
<1>3. crashes' \in 0..MaxFaults
  BY PathAssumption DEF PathAssumption, Router!Crash, Router!TypeOK
<1> QED BY <1>1, <1>2, <1>3 DEF Router!Crash, Router!TypeOK


(***************************************************************************)
(* The parts                                                               *)
(***************************************************************************)
\* A step of the path is, for the router, a step of its own module or none.
LEMMA PathStepRouter ==
    ASSUME Next
    PROVE  Router!Next \/ UNCHANGED router
<1>1. CASE \E r \in Requests : Send(r)
  <2>1. PICK r \in Requests : Router!Receive(r, BodyOf[r[1]])
    BY <1>1 DEF Send
  <2>2. BodyOf[r[1]] \in Bodies
    BY DEF Requests, Bodies
  <2> QED BY <2>1, <2>2 DEF Router!Next
<1>2. CASE \E r \in Requests : FrontSteps(r)
  BY <1>2 DEF FrontSteps, Deliver, Broken, GatewayGivesUp, LayerGivesUp, router
<1>3. CASE \E r \in Requests : RouterSteps(r)
  <2>1. PICK r \in Requests : RouterSteps(r)
    BY <1>3
  <2>2. CheckHealth(r) \/ CheckFails(r) \/ CheckRaises(r) => Router!Handler(r)
    BY DEF CheckHealth, CheckFails, CheckRaises, Router!Handler
  <2>3. Lookup(r) => Router!Handler(r)
    BY DEF Lookup, Router!Handler
  <2>4. InferAnswered(r) \/ AdapterRefuses(r) \/ RouterGivesUp(r) => Router!Handler(r)
    BY DEF InferAnswered, AdapterRefuses, RouterGivesUp, Router!Handler
  <2>5. Background(r) => Router!Background(r)
    BY DEF Background, Router!Background
  <2> QED BY <2>1, <2>2, <2>3, <2>4, <2>5 DEF RouterSteps, Router!Next
<1>4. CASE RouterDies
  BY <1>4 DEF RouterDies, Router!Next
<1>5. CASE AdapterSteps \/ Tick
  BY <1>5 DEF AdapterSteps, Tick
<1> QED BY <1>1, <1>2, <1>3, <1>4, <1>5 DEF Next

LEMMA AwaitedCall ==
    ASSUME Router!TypeOK, RoutingInStep, NEW r \in Requests, Routing(r)
    PROVE  CallOf(r) \in Calls /\ CallOf(r)[1] = r
<1>1. imf[r].selected \in Router!Names
  BY SelectedIsName DEF RoutingInStep
<1> QED BY <1>1 DEF CallOf, Calls, Router!Names

\* And for the adapter.
LEMMA PathStepAdapter ==
    ASSUME Next, Router!TypeOK, RoutingInStep
    PROVE  Adapter!Next \/ UNCHANGED adapter
<1>1. CASE \E r \in Requests : Send(r) \/ FrontSteps(r) \/ RouterSteps(r)
  BY <1>1 DEF Send, FrontSteps, Deliver, Broken, GatewayGivesUp, LayerGivesUp, RouterSteps
<1>2. CASE RouterDies
  BY <1>2 DEF RouterDies
<1>3. CASE AdapterSteps
  <2>1. CASE AdapterWorks
    BY <2>1 DEF AdapterWorks, Adapter!Next
  <2>2. CASE AdapterFails
    BY <2>2 DEF AdapterFails, Adapter!Next
  <2>3. CASE \E r \in Requests : CallArrives(r)
    <3>1. PICK r \in Requests : stage[r] = "infer" /\ Adapter!Infer(CallOf(r))
      BY <2>3 DEF CallArrives
    <3>2. CallOf(r) \in Calls
      BY <3>1, AwaitedCall DEF Routing, RoutingStages
    <3> QED BY <3>1, <3>2 DEF Adapter!Next
  <2> QED BY <1>3, <2>1, <2>2, <2>3 DEF AdapterSteps
<1>4. CASE Tick
  BY <1>4 DEF Tick, Adapter!Next
<1> QED BY <1>1, <1>2, <1>3, <1>4 DEF Next

(***************************************************************************)
(* The adapter                                                             *)
(***************************************************************************)
AtWork == {"chat", "hung", "turned_away"}
Jobs == Adapter!Job \cup {Adapter!NoJob}

LEMMA JobFacts ==
    ASSUME NEW j \in Jobs
    PROVE  /\ j.age \in 0..OllamaTimeout /\ j.age \in Nat
           /\ j.at \in AtWork \cup {"done", "none"}
           /\ j.at # "done" => j.answer = "none"
           /\ j.at = "none" <=> j = Adapter!NoJob
           /\ j.at # "none" => j \in Adapter!Job
BY PathAssumption DEF PathAssumption, Jobs, Adapter!Job, Adapter!NoJob, AtWork

\* What a step makes of a call that is there, unless time passes.
JobFinishes(j, k) ==
    \/ k = j
    \/ j.at \in AtWork /\ k \in Adapter!Job /\ k.age = j.age

\* And when time passes.
JobAges(j, k) ==
    IF j.at \in AtWork THEN k \in Adapter!Job /\ k.age = j.age + 1 /\ k.at = j.at
    ELSE k = j

Ended(j, answer) == [j EXCEPT !.at = "done", !.answer = answer]

LEMMA JobEnds ==
    ASSUME NEW j \in Jobs, j.at \in AtWork, NEW answer \in Adapter!Answers
    PROVE  /\ Ended(j, answer) \in Adapter!Job
           /\ Ended(j, answer).age = j.age
           /\ Ended(j, answer).at = "done"
           /\ Ended(j, answer).answer = answer
<1>1. j = [at |-> j.at, age |-> j.age, answer |-> j.answer] /\ j.age \in 0..OllamaTimeout
  BY JobFacts DEF Jobs, Adapter!Job, Adapter!NoJob
<1>2. PICK k : k = [j EXCEPT !.at = "done"]
  OBVIOUS
<1>3. k = [at |-> "done", age |-> j.age, answer |-> j.answer]
  BY <1>1, <1>2
<1>4. Ended(j, answer) = [k EXCEPT !.answer = answer]
  BY <1>2 DEF Ended
<1>5. Ended(j, answer) = [at |-> "done", age |-> j.age, answer |-> answer]
  BY <1>3, <1>4
<1> QED BY <1>1, <1>5 DEF Adapter!Job

LEMMA JobGoesOn ==
    ASSUME NEW j \in Jobs, j.at \in AtWork, NEW at \in AtWork
    PROVE  /\ [j EXCEPT !.at = at] \in Adapter!Job
           /\ [j EXCEPT !.at = at].age = j.age
           /\ [j EXCEPT !.at = at].at = at
           /\ [j EXCEPT !.at = at].answer = j.answer
BY DEF Jobs, Adapter!Job, Adapter!NoJob, AtWork

\* The steps of the adapter and of Ollama but a call that arrives and the
\* passing of time.
AdapterActs ==
    \/ Adapter!Start \/ Adapter!Listed \/ Adapter!ListFails \/ Adapter!MetricsPortTaken
    \/ Adapter!Stop \/ Adapter!ModelsChange \/ Adapter!OllamaFlips
    \/ \E c \in Calls : Adapter!Works(c) \/ Adapter!Fails(c)

LEMMA AdapterFinishes ==
    ASSUME Adapter!TypeOK, AdapterActs
    PROVE  /\ job' \in [Calls -> Jobs]
           /\ \A c \in Calls : JobFinishes(job[c], job'[c])
<1>1. job \in [Calls -> Jobs]
  BY DEF Adapter!TypeOK, Jobs
<1>2. ASSUME NEW c \in Calls, NEW k \in Adapter!Job, JobFinishes(job[c], k),
             job' = [job EXCEPT ![c] = k]
      PROVE  /\ job' \in [Calls -> Jobs]
             /\ \A d \in Calls : JobFinishes(job[d], job'[d])
  BY <1>1, <1>2 DEF Jobs, JobFinishes
<1>3. ASSUME job' = job
      PROVE  /\ job' \in [Calls -> Jobs]
             /\ \A d \in Calls : JobFinishes(job[d], job'[d])
  BY <1>1, <1>3 DEF JobFinishes
<1>4. CASE Adapter!Start \/ Adapter!Listed \/ Adapter!ListFails \/ Adapter!MetricsPortTaken
           \/ Adapter!ModelsChange
  BY <1>3, <1>4 DEF Adapter!Start, Adapter!Listed, Adapter!ListFails, Adapter!MetricsPortTaken,
                    Adapter!ModelsChange
<1>5. \A c \in Adapter!Running : c \in Calls /\ job[c] \in Jobs /\ job[c].at \in AtWork
  BY <1>1 DEF Adapter!Running, AtWork
<1>6. CASE Adapter!Stop
  <2>1. job' = [c \in Calls |-> IF c \in Adapter!Running
                                THEN Ended(job[c], "dropped") ELSE job[c]]
    BY <1>6 DEF Adapter!Stop, Ended
  <2>2. "dropped" \in Adapter!Answers
    BY DEF Adapter!Answers
  <2>3. ASSUME NEW c \in Calls
        PROVE  JobFinishes(job[c], job'[c]) /\ job'[c] \in Jobs
    <3>1. CASE c \in Adapter!Running
      <4>1. job'[c] = Ended(job[c], "dropped")
        BY <2>1, <3>1
      <4>2. job'[c] \in Adapter!Job /\ job'[c].age = job[c].age
        BY <1>5, <2>2, <3>1, <4>1, JobEnds
      <4> QED BY <1>5, <3>1, <4>2 DEF JobFinishes, Jobs
    <3>2. CASE c \notin Adapter!Running
      BY <1>1, <2>1, <3>2 DEF JobFinishes
    <3> QED BY <3>1, <3>2
  <2> QED BY <2>1, <2>3
<1>7. CASE Adapter!OllamaFlips
  <2>1. job' = [c \in Calls |-> IF c \in Adapter!Running /\ ollama.up
                                THEN [job[c] EXCEPT !.at = "turned_away"]
                                ELSE job[c]]
    BY <1>7 DEF Adapter!OllamaFlips
  <2>2. "turned_away" \in AtWork
    BY DEF AtWork
  <2>3. ASSUME NEW c \in Calls
        PROVE  JobFinishes(job[c], job'[c]) /\ job'[c] \in Jobs
    <3>1. CASE c \in Adapter!Running /\ ollama.up
      <4>1. job'[c] = [job[c] EXCEPT !.at = "turned_away"]
        BY <2>1, <3>1
      <4>2. job'[c] \in Adapter!Job /\ job'[c].age = job[c].age
        BY <1>5, <2>2, <3>1, <4>1, JobGoesOn
      <4> QED BY <1>5, <3>1, <4>2 DEF JobFinishes, Jobs
    <3>2. CASE ~(c \in Adapter!Running /\ ollama.up)
      BY <1>1, <2>1, <3>2 DEF JobFinishes
    <3> QED BY <3>1, <3>2
  <2> QED BY <2>1, <2>3
<1>8. ASSUME NEW c \in Calls, NEW answer \in Adapter!Answers, Adapter!Answer(c, answer)
      PROVE  /\ job' \in [Calls -> Jobs]
             /\ \A d \in Calls : JobFinishes(job[d], job'[d])
  <2>1. c \in Adapter!Running
        /\ job' = [job EXCEPT ![c] = Ended(job[c], answer)]
    BY <1>8 DEF Adapter!Answer, Ended
  <2>2. PICK k : k = Ended(job[c], answer)
    OBVIOUS
  <2>3. k \in Adapter!Job /\ k.age = job[c].age
    BY <1>5, <2>1, <2>2, JobEnds
  <2> QED BY <1>2, <1>5, <2>1, <2>2, <2>3 DEF JobFinishes
<1>9. ASSUME NEW c \in Calls, Adapter!Works(c) \/ Adapter!Fails(c)
       PROVE  /\ job' \in [Calls -> Jobs]
              /\ \A d \in Calls : JobFinishes(job[d], job'[d])
  <2>1. CASE Adapter!Hangs(c)
    <3>1. job[c].at = "chat" /\ job' = [job EXCEPT ![c] = [job[c] EXCEPT !.at = "hung"]]
      BY <2>1 DEF Adapter!Hangs
    <3>2. PICK k : k = [job[c] EXCEPT !.at = "hung"]
      OBVIOUS
    <3>3. job[c] \in Jobs /\ job[c].at \in AtWork /\ "hung" \in AtWork
      BY <1>1, <3>1 DEF AtWork
    <3>4. k \in Adapter!Job /\ k.age = job[c].age
      BY <3>2, <3>3, JobGoesOn
    <3> QED BY <1>2, <3>1, <3>2, <3>3, <3>4 DEF JobFinishes
  <2>2. CASE ~Adapter!Hangs(c)
    <3>1. \E answer \in Adapter!Answers : Adapter!Answer(c, answer)
      BY <1>9, <2>2 DEF Adapter!Works, Adapter!Fails, Adapter!Generated, Adapter!TurnedAway,
                         Adapter!ChatTimesOut, Adapter!GeneratedEmpty, Adapter!ChatFails,
                         Adapter!Answers
    <3> QED BY <1>8, <3>1
  <2> QED BY <2>1, <2>2
<1> QED BY <1>4, <1>6, <1>7, <1>9 DEF AdapterActs

\* A call that arrives.
LEMMA InferStarts ==
    ASSUME Adapter!TypeOK, NEW c \in Calls, Adapter!Infer(c)
    PROVE  /\ job' \in [Calls -> Jobs]
           /\ job[c] = Adapter!NoJob /\ job'[c] \in Adapter!Job /\ job'[c].age = 0
           /\ \A d \in Calls : d # c => job'[d] = job[d]
<1>1. job[c] = Adapter!NoJob /\ Adapter!NoJob \in Jobs
  BY DEF Adapter!Infer, Jobs
<1>2. PICK k : /\ k = IF ModelOf[c] \notin loaded
                      THEN [job[c] EXCEPT !.at = "done", !.answer = "model_not_loaded"]
                      ELSE [job[c] EXCEPT !.at = IF ollama.up /\ ModelOf[c] \in ollama.models
                                                 THEN "chat" ELSE "turned_away"]
               /\ job' = [job EXCEPT ![c] = k]
  BY DEF Adapter!Infer
<1>3. \/ k = [at |-> "done", age |-> 0, answer |-> "model_not_loaded"]
      \/ k = [at |-> "chat", age |-> 0, answer |-> "none"]
      \/ k = [at |-> "turned_away", age |-> 0, answer |-> "none"]
  <2>1. CASE ModelOf[c] \notin loaded
    <3>1. PICK n : n = [job[c] EXCEPT !.at = "done"]
      OBVIOUS
    <3>2. n = [at |-> "done", age |-> 0, answer |-> "none"]
      BY <1>1, <3>1 DEF Adapter!NoJob
    <3>3. k = [n EXCEPT !.answer = "model_not_loaded"]
      BY <1>2, <2>1, <3>1
    <3> QED BY <3>2, <3>3
  <2>2. CASE ModelOf[c] \in loaded
    BY <1>1, <1>2, <2>2 DEF Adapter!NoJob
  <2> QED BY <2>1, <2>2
<1>4. k \in Adapter!Job /\ k.age = 0
  BY <1>3, PathAssumption DEF PathAssumption, Adapter!Job, Adapter!Answers
<1>5. job \in [Calls -> Jobs]
  BY DEF Adapter!TypeOK, Jobs
<1> QED BY <1>1, <1>2, <1>4, <1>5 DEF Jobs

LEMMA AdapterAges ==
    ASSUME Adapter!TypeOK, Adapter!Quiet, Adapter!Age
    PROVE  /\ job' \in [Calls -> Jobs]
           /\ \A c \in Calls : JobAges(job[c], job'[c])
           /\ \A c \in Adapter!Running : job'[c].age = job[c].age + 1 /\ job[c].age < OllamaTimeout
<1>1. job \in [Calls -> Jobs]
  BY DEF Adapter!TypeOK, Jobs
<1>2. job' = [c \in Calls |-> IF c \in Adapter!Running
                              THEN [job[c] EXCEPT !.age = job[c].age + 1] ELSE job[c]]
  BY DEF Adapter!Age
<1>3. ASSUME NEW c \in Calls
      PROVE  /\ JobAges(job[c], job'[c]) /\ job'[c] \in Jobs
             /\ c \in Adapter!Running => job'[c].age = job[c].age + 1 /\ job[c].age < OllamaTimeout
  <2>1. CASE c \in Adapter!Running
    <3>1. job[c] \in Jobs /\ job[c].at \in AtWork
      BY <1>1, <2>1 DEF Adapter!Running, AtWork
    <3>2. job[c].age \in 0..OllamaTimeout /\ job[c].answer = "none" /\ OllamaTimeout \in Nat
      BY <3>1, JobFacts, PathAssumption DEF PathAssumption, AtWork
    <3>3. ~(job[c].age >= OllamaTimeout)
      BY <2>1 DEF Adapter!Quiet, Adapter!Due
    <3>4. PICK n \in 0..OllamaTimeout : n = job[c].age + 1
      BY <3>2, <3>3
    <3>5. job[c] = [at |-> job[c].at, age |-> job[c].age, answer |-> "none"]
      BY <3>1, <3>2 DEF Jobs, Adapter!Job, Adapter!NoJob
    <3>6. job'[c] = [job[c] EXCEPT !.age = n]
      BY <1>2, <2>1, <3>4
    <3>7. job'[c] = [at |-> job[c].at, age |-> n, answer |-> "none"]
      BY <3>5, <3>6
    <3>8. job'[c] \in Adapter!Job /\ job'[c].age = n /\ job'[c].at = job[c].at
      BY <3>1, <3>4, <3>7 DEF Adapter!Job, AtWork
    <3> QED BY <3>1, <3>2, <3>3, <3>4, <3>8 DEF JobAges, Jobs
  <2>2. CASE c \notin Adapter!Running
    BY <1>1, <1>2, <2>2 DEF JobAges, Adapter!Running, AtWork
  <2> QED BY <2>1, <2>2
<1>4. \A c \in Adapter!Running : c \in Calls
  BY DEF Adapter!Running
<1> QED BY <1>2, <1>3, <1>4

LEMMA AdapterStepType ==
    ASSUME Adapter!TypeOK, Adapter!Next
    PROVE  Adapter!TypeOK'
<1>1. job' \in [Calls -> Jobs]
  BY AdapterFinishes, InferStarts, AdapterAges DEF Adapter!Next, AdapterActs
<1>2. /\ process' \in {"down", "starting", "up"}
      /\ loaded' \subseteq Models \cup UnknownModels
      /\ ollama' \in [up : BOOLEAN, models : SUBSET (Models \cup UnknownModels)]
  <2>1. CASE Adapter!Start \/ Adapter!Listed \/ Adapter!ListFails \/ Adapter!MetricsPortTaken
             \/ Adapter!Stop
    BY <2>1 DEF Adapter!Start, Adapter!Listed, Adapter!ListFails, Adapter!MetricsPortTaken,
                Adapter!Stop, Adapter!TypeOK
  <2>2. CASE Adapter!ModelsChange
    <3>1. PICK m \in Models \cup UnknownModels :
             ollama' = [ollama EXCEPT !.models = IF m \in ollama.models THEN ollama.models \ {m}
                                                 ELSE ollama.models \cup {m}]
      BY <2>2 DEF Adapter!ModelsChange
    <3>2. UNCHANGED <<process, loaded>>
      BY <2>2 DEF Adapter!ModelsChange
    <3> QED BY <3>1, <3>2 DEF Adapter!TypeOK
  <2>3. CASE Adapter!OllamaFlips
    BY <2>3 DEF Adapter!OllamaFlips, Adapter!TypeOK
  <2>4. CASE \E c \in Calls : Adapter!Infer(c) \/ Adapter!Works(c) \/ Adapter!Fails(c)
    BY <2>4 DEF Adapter!Infer, Adapter!Works, Adapter!Fails, Adapter!Generated,
                Adapter!TurnedAway, Adapter!ChatTimesOut, Adapter!GeneratedEmpty,
                Adapter!ChatFails, Adapter!Hangs, Adapter!Answer, Adapter!TypeOK
  <2>5. CASE Adapter!Age
    BY <2>5 DEF Adapter!Age, Adapter!TypeOK
  <2> QED BY <2>1, <2>2, <2>3, <2>4, <2>5 DEF Adapter!Next
<1> QED BY <1>1, <1>2 DEF Adapter!TypeOK, Jobs

(***************************************************************************)
(* The route of a request                                                  *)
(***************************************************************************)
\* What a step of the router may do about the request r, and what it leaves
\* alone of the others.
OthersStay(r) ==
    \A s \in Requests \ {r} :
        /\ stage'[s] = stage[s] /\ fallback'[s] = fallback[s]
        /\ imf'[s] = imf[s] /\ reply'[s] = reply[s]

SameRoute(i, k) == k.level = i.level /\ k.selected = i.selected /\ k.task = i.task

Refusal(r) ==
    /\ stage[r] = "new" /\ stage'[r] = "replied"
    /\ fallback'[r] = fallback[r]
    /\ reply'[r].status \in {400, 422, 503}

Begins(r) ==
    /\ stage[r] = "new" /\ stage'[r] = "health"
    /\ InStepOf(fallback'[r], imf'[r]) /\ fallback'[r].index = 0
    /\ reply'[r] = reply[r]

GoesForth(r) ==
    /\ \/ stage[r] = "health" /\ stage'[r] = "lookup"
       \/ stage[r] = "lookup" /\ stage'[r] = "infer"
    /\ fallback'[r] = fallback[r] /\ SameRoute(imf[r], imf'[r])
    /\ reply'[r] = reply[r]

FallsBack(r) ==
    /\ stage[r] \in {"health", "infer"} /\ stage'[r] = "health"
    /\ Router!HasNext(fallback[r]) /\ fallback'[r] = Router!Advance(fallback[r])
    /\ imf'[r] = Router!AtLevel(imf[r], fallback'[r].level, Router!SelectedModel(fallback'[r]))
    /\ reply'[r] = reply[r]

Ends(r) ==
    /\ Routing(r) /\ stage'[r] = "replied"
    /\ fallback'[r] = fallback[r] /\ SameRoute(imf[r], imf'[r])

LEMMA RespondMoves ==
    ASSUME Router!TypeOK, NEW r \in Requests, NEW b, NEW status, NEW error, NEW i, NEW m,
           Router!Respond(r, b, status, error, i, m)
    PROVE  /\ stage'[r] = "replied" /\ reply'[r] = [status |-> status, error |-> error]
           /\ \A s \in Requests \ {r} : stage'[s] = stage[s] /\ reply'[s] = reply[s]
BY DEF Router!Respond, Router!TypeOK

LEMMA CallMoves ==
    ASSUME Router!TypeOK, NEW r \in Requests, NEW service, NEW m, Router!Call(r, service, m)
    PROVE  stage'[r] = service /\ \A s \in Requests \ {r} : stage'[s] = stage[s]
BY DEF Router!Call, Router!TypeOK

LEMMA ReceiveMoves ==
    ASSUME Router!TypeOK, NEW r \in Requests, NEW b \in Bodies, Router!Receive(r, b)
    PROVE  OthersStay(r) /\ (Refusal(r) \/ Begins(r))
<1>1. stage[r] = "new"
  BY DEF Router!Receive
<1>2. ASSUME NEW status \in {400, 422, 503}, NEW error, NEW i,
             Router!Refused(r, b, status, error, i)
      PROVE  OthersStay(r) /\ Refusal(r)
  <2>1. /\ imf' = [imf EXCEPT ![r] = i] /\ fallback' = fallback
        /\ Router!Respond(r, b, status, error, i, metrics)
    BY <1>2 DEF Router!Refused
  <2>2. /\ stage'[r] = "replied" /\ reply'[r] = [status |-> status, error |-> error]
        /\ \A s \in Requests \ {r} : stage'[s] = stage[s] /\ reply'[s] = reply[s]
    BY <2>1, RespondMoves
  <2>3. \A s \in Requests \ {r} : imf'[s] = imf[s]
    BY <2>1 DEF Router!TypeOK
  <2> QED BY <1>1, <2>1, <2>2, <2>3 DEF OthersStay, Refusal
<1>3. PICK task : task = Router!ClassifyTask(b.keywords)
  OBVIOUS
<1>4. b \in Router!Body /\ b.keywords \in SUBSET Router!KeywordTasks
  BY RouterAssumption DEF RouterAssumption, Router!Body
<1>5. task \in Router!TaskTypes
  BY <1>3, <1>4, ClassifyTaskType
<1>6. ASSUME Router!StartRouting(r, b, task)
      PROVE  OthersStay(r) /\ Begins(r)
  <2>1. PICK chain \in Router!FallbackChains(Router!SelectModel(b.mode, b.pinned, task)) :
           /\ fallback' = [fallback EXCEPT ![r] = [chain |-> chain, index |-> 0, level |-> 0]]
           /\ imf' = [imf EXCEPT ![r] = [task |-> task, mode |-> b.mode, selected |-> chain[1],
                                         level |-> 0, hit |-> FALSE,
                                         content |-> Router!NoContent]]
           /\ Router!Call(r, "health", chain[1])
           /\ reply' = reply
    BY <1>6 DEF Router!StartRouting
  <2>2. /\ Len(chain) \in Nat \ {0}
        /\ \A j, k \in 1..Len(chain) : chain[j] = chain[k] => j = k
    BY FallbackChainFacts
  <2>3. PICK f : f = [chain |-> chain, index |-> 0, level |-> 0]
    OBVIOUS
  <2>4. PICK i : i = [task |-> task, mode |-> b.mode, selected |-> chain[1],
                      level |-> 0, hit |-> FALSE, content |-> Router!NoContent]
    OBVIOUS
  <2>5. InStepOf(f, i) /\ f.index = 0
    BY <1>5, <2>2, <2>3, <2>4 DEF InStepOf, Router!SelectedModel
  <2>6. /\ fallback'[r] = f /\ imf'[r] = i
        /\ \A s \in Requests \ {r} : fallback'[s] = fallback[s] /\ imf'[s] = imf[s]
    BY <2>1, <2>3, <2>4 DEF Router!TypeOK
  <2>7. stage'[r] = "health" /\ \A s \in Requests \ {r} : stage'[s] = stage[s]
    BY <2>1, CallMoves
  <2> QED BY <1>1, <2>1, <2>5, <2>6, <2>7 DEF OthersStay, Begins
<1>7. PICK i : i = [Router!EmptyImf EXCEPT !.task = task]
  OBVIOUS
<1>8. \/ Router!Refused(r, b, 400, "governance_check_failed", Router!EmptyImf)
      \/ Router!Refused(r, b, 422, "invalid_pinned_model", i)
      \/ Router!Refused(r, b, 503, "no_model_for_task", i)
      \/ Router!StartRouting(r, b, task)
  BY <1>3, <1>7 DEF Router!Receive
<1> QED BY <1>2, <1>6, <1>8

\* A failed attempt.
LEMMA FailMoves ==
    ASSUME Router!TypeOK, RoutingInStep, NEW r \in Requests,
           Router!HealthFail(r) \/ Router!InferFail(r)
    PROVE  /\ OthersStay(r)
           /\ \/ FallsBack(r)
              \/ Ends(r) /\ reply'[r].status = 503
<1>1. /\ stage[r] \in {"health", "infer"} /\ Routing(r)
      /\ fallback' = [fallback EXCEPT ![r] = Router!Advance(fallback[r])]
      /\ \/ Router!HasNext(fallback[r]) /\ Router!TryNext(r, Router!Advance(fallback[r]))
         \/ /\ ~Router!HasNext(fallback[r])
            /\ Router!Exhausted(r, Router!Advance(fallback[r]), Router!Count(metrics, "fallbacks"))
  BY DEF Router!HealthFail, Router!InferFail, Routing, RoutingStages
<1>2. InStep(r) /\ imf[r] \in Router!Imf /\ fallback[r] \in Router!FallbackState
  BY <1>1, SelectedIsName DEF RoutingInStep
<1>3. PICK f : f = Router!Advance(fallback[r])
  OBVIOUS
<1>4. fallback'[r] = f /\ \A s \in Requests \ {r} : fallback'[s] = fallback[s]
  BY <1>1, <1>3 DEF Router!TypeOK
<1>5. CASE Router!HasNext(fallback[r]) /\ Router!TryNext(r, f)
  <2>1. /\ imf' = [imf EXCEPT ![r] = Router!AtLevel(imf[r], f.level, Router!SelectedModel(f))]
        /\ Router!Call(r, "health", Router!SelectedModel(f))
        /\ reply' = reply
    BY <1>5 DEF Router!TryNext
  <2>2. PICK k : k = Router!AtLevel(imf[r], f.level, Router!SelectedModel(f))
    OBVIOUS
  <2>3. imf'[r] = k /\ \A s \in Requests \ {r} : imf'[s] = imf[s]
    BY <2>1, <2>2 DEF Router!TypeOK
  <2>4. stage'[r] = "health" /\ \A s \in Requests \ {r} : stage'[s] = stage[s]
    BY <2>1, CallMoves
  <2> QED BY <1>1, <1>3, <1>4, <1>5, <2>1, <2>2, <2>3, <2>4 DEF OthersStay, FallsBack
<1>6. CASE /\ ~Router!HasNext(fallback[r])
           /\ Router!Exhausted(r, f, Router!Count(metrics, "fallbacks"))
  <2>1. f = fallback[r]
    BY <1>2, <1>3, <1>6, AdvanceFacts
  <2>2. /\ imf' = [imf EXCEPT ![r] = Router!AtLevel(imf[r], f.level, imf[r].selected)]
        /\ Router!Respond(r, body[r], 503, "all_backends_exhausted", imf[r],
                          Router!Count(metrics, "fallbacks"))
    BY <1>6 DEF Router!Exhausted
  <2>3. PICK k : k = Router!AtLevel(imf[r], f.level, imf[r].selected)
    OBVIOUS
  <2>4. f.level \in Nat /\ f.level = imf[r].level /\ imf[r].selected \in Router!Names \cup {NoModel}
    BY <1>2, <2>1 DEF InStep, InStepOf, Router!FallbackState, Router!Imf
  <2>5. SameRoute(imf[r], k)
    BY <1>2, <2>3, <2>4, AtLevelFacts DEF SameRoute
  <2>6. imf'[r] = k /\ \A s \in Requests \ {r} : imf'[s] = imf[s]
    BY <2>2, <2>3 DEF Router!TypeOK
  <2>7. /\ stage'[r] = "replied"
        /\ reply'[r] = [status |-> 503, error |-> "all_backends_exhausted"]
        /\ \A s \in Requests \ {r} : stage'[s] = stage[s] /\ reply'[s] = reply[s]
    BY <2>2, RespondMoves
  <2> QED BY <1>1, <1>4, <2>1, <2>5, <2>6, <2>7 DEF OthersStay, Ends
<1> QED BY <1>1, <1>3, <1>5, <1>6

LEMMA CallStepMoves ==
    ASSUME Router!TypeOK, RoutingInStep, NEW r \in Requests,
           Router!HealthOk(r) \/ Router!LookupMiss(r)
    PROVE  OthersStay(r) /\ GoesForth(r)
<1>1. imf[r] \in Router!Imf
  BY DEF Router!TypeOK
<1>2. CASE Router!HealthOk(r)
  <2>1. /\ stage[r] = "health" /\ Router!Call(r, "lookup", imf[r].selected)
        /\ UNCHANGED <<fallback, imf, reply>>
    BY <1>2 DEF Router!HealthOk
  <2>2. stage'[r] = "lookup" /\ \A s \in Requests \ {r} : stage'[s] = stage[s]
    BY <2>1, CallMoves
  <2> QED BY <2>1, <2>2 DEF OthersStay, GoesForth, SameRoute
<1>3. CASE Router!LookupMiss(r)
  <2>1. /\ stage[r] = "lookup" /\ Router!Call(r, "infer", imf[r].selected)
        /\ imf' = [imf EXCEPT ![r] = [imf[r] EXCEPT !.hit = FALSE]]
        /\ UNCHANGED <<fallback, reply>>
    BY <1>3 DEF Router!LookupMiss
  <2>2. stage'[r] = "infer" /\ \A s \in Requests \ {r} : stage'[s] = stage[s]
    BY <2>1, CallMoves
  <2>3. PICK k : k = [imf[r] EXCEPT !.hit = FALSE]
    OBVIOUS
  <2>4. imf'[r] = k /\ \A s \in Requests \ {r} : imf'[s] = imf[s]
    BY <2>1, <2>3 DEF Router!TypeOK
  <2>5. SameRoute(imf[r], k)
    BY <1>1, <2>3 DEF SameRoute, Router!Imf
  <2> QED BY <2>1, <2>2, <2>4, <2>5 DEF OthersStay, GoesForth
<1> QED BY <1>2, <1>3

LEMMA RaisesMoves ==
    ASSUME Router!TypeOK, NEW r \in Requests, Router!Raises(r)
    PROVE  OthersStay(r) /\ Ends(r) /\ reply'[r].status = 500
<1>1. /\ stage[r] \in RoutingStages
      /\ Router!Respond(r, body[r], 500, "internal_error", imf[r], metrics)
      /\ UNCHANGED <<fallback, imf>>
  BY DEF Router!Raises, RoutingStages
<1>2. /\ stage'[r] = "replied"
      /\ reply'[r] = [status |-> 500, error |-> "internal_error"]
      /\ \A s \in Requests \ {r} : stage'[s] = stage[s] /\ reply'[s] = reply[s]
  BY <1>1, RespondMoves
<1> QED BY <1>1, <1>2 DEF OthersStay, Ends, SameRoute, Routing

\* An answer, from the cache or from the model.
LEMMA AnswerMoves ==
    ASSUME Router!TypeOK, NEW r \in Requests, NEW i \in Router!Imf,
           NEW m \in Router!Metrics, Routing(r), SameRoute(imf[r], i),
           imf' = [imf EXCEPT ![r] = i], Router!Respond(r, body[r], 200, "none", i, m), fallback' = fallback
    PROVE  /\ OthersStay(r) /\ Ends(r) /\ imf'[r] = i
           /\ reply'[r] = [status |-> 200, error |-> "none"]
<1>1. imf'[r] = i /\ \A s \in Requests \ {r} : imf'[s] = imf[s]
  BY DEF Router!TypeOK
<1>2. /\ stage'[r] = "replied"
      /\ reply'[r] = [status |-> 200, error |-> "none"]
      /\ \A s \in Requests \ {r} : stage'[s] = stage[s] /\ reply'[s] = reply[s]
  BY RespondMoves
<1> QED BY <1>1, <1>2 DEF OthersStay, Ends

LEMMA HitMoves ==
    ASSUME Router!TypeOK, NEW r \in Requests, NEW e \in cache, Router!LookupHit(r, e)
    PROVE  /\ OthersStay(r) /\ Ends(r)
           /\ reply'[r] = [status |-> 200, error |-> "none"]
           /\ imf'[r].content = e.content
<1>1. e.content \in Router!Content /\ imf[r] \in Router!Imf /\ TRUE \in BOOLEAN
  BY DEF Router!TypeOK, Router!CacheEntry
<1>2. PICK i : i = Router!Answered(imf[r], TRUE, e.content)
  OBVIOUS
<1>3. i \in Router!Imf /\ SameRoute(imf[r], i) /\ i.content = e.content
  <2>1. PICK j \in Router!Imf : j = imf[r]
    BY <1>1
  <2>2. PICK t \in Router!Content : t = e.content
    BY <1>1
  <2>3. PICK hit \in BOOLEAN : hit = TRUE
    OBVIOUS
  <2>4. /\ Router!Answered(j, hit, t) \in Router!Imf
        /\ Router!Answered(j, hit, t).content = t
        /\ SameRoute(j, Router!Answered(j, hit, t))
    BY AnsweredFacts DEF SameRoute
  <2>5. Router!Answered(j, hit, t) = i
    BY <1>2, <2>1, <2>2, <2>3
  <2> QED BY <2>1, <2>2, <2>4, <2>5
<1>4. /\ Routing(r) /\ imf' = [imf EXCEPT ![r] = i] /\ fallback' = fallback
      /\ Router!Respond(r, body[r], 200, "none", i, Router!Count(metrics, "cacheHits"))
  BY <1>2 DEF Router!LookupHit, Routing, RoutingStages
<1>5. Router!Count(metrics, "cacheHits") \in Router!Metrics
  BY CountType DEF Router!TypeOK
<1>6. /\ OthersStay(r) /\ Ends(r) /\ imf'[r] = i
      /\ reply'[r] = [status |-> 200, error |-> "none"]
  BY <1>3, <1>4, <1>5, AnswerMoves
<1> QED BY <1>3, <1>6

LEMMA OkMoves ==
    ASSUME Router!TypeOK, RoutingInStep, NEW r \in Requests, Router!InferOk(r)
    PROVE  /\ OthersStay(r) /\ Ends(r)
           /\ reply'[r] = [status |-> 200, error |-> "none"]
           /\ imf'[r].content = [by |-> imf[r].selected, for |-> r]
<1>1. Routing(r) /\ InStep(r) /\ imf[r] \in Router!Imf
  BY DEF Router!InferOk, Routing, RoutingStages, RoutingInStep, Router!TypeOK
<1>2. PICK content : content = [by |-> imf[r].selected, for |-> r]
  OBVIOUS
<1>3. content \in Router!Content /\ imf[r].hit \in BOOLEAN
  BY <1>1, <1>2, SelectedIsName DEF Router!Content, Router!Imf
<1>4. PICK i : i = Router!Answered(imf[r], imf[r].hit, content)
  OBVIOUS
<1>5. i \in Router!Imf /\ SameRoute(imf[r], i) /\ i.content = content
  BY <1>1, <1>3, <1>4, AnsweredFacts DEF SameRoute
<1>6. /\ imf' = [imf EXCEPT ![r] = i] /\ fallback' = fallback
      /\ Router!Respond(r, body[r], 200, "none", i, metrics)
  BY <1>2, <1>4 DEF Router!InferOk
<1>7. metrics \in Router!Metrics
  BY DEF Router!TypeOK
<1>8. /\ OthersStay(r) /\ Ends(r) /\ imf'[r] = i
      /\ reply'[r] = [status |-> 200, error |-> "none"]
  BY <1>1, <1>5, <1>6, <1>7, AnswerMoves
<1> QED BY <1>2, <1>5, <1>8

LEMMA BackgroundMoves ==
    ASSUME NEW r \in Requests, Router!Background(r)
    PROVE  /\ stage[r] = "replied"
           /\ UNCHANGED <<stage, fallback, imf, reply>>
           /\ tasks[r] # <<>> /\ tasks' = [tasks EXCEPT ![r] = Tail(tasks[r])]
           /\ \/ cache' = cache
              \/ Head(tasks[r]).kind = "cache_write" /\ cache' = cache \cup {Head(tasks[r])}
BY DEF Router!Background, Router!PostAudit, Router!WriteCache, Router!NextTask

LEMMA CrashMoves ==
    ASSUME Router!TypeOK, Router!Crash
    PROVE  /\ UNCHANGED <<fallback, imf, reply, cache>>
           /\ tasks' = [r \in Requests |-> <<>>]
           /\ \A r \in Requests :
                 \/ stage'[r] = stage[r] /\ stage[r] \notin RoutingStages
                 \/ stage'[r] = "lost"
BY DEF Router!Crash, Router!Pending, Router!TypeOK, RoutingStages

\* A step about the request r alone, or none, or the death of the process.
Moves(r) ==
    /\ OthersStay(r)
    /\ Refusal(r) \/ Begins(r) \/ GoesForth(r) \/ FallsBack(r) \/ Ends(r)

Keeps == UNCHANGED <<stage, fallback, imf, reply>>

Dies ==
    /\ UNCHANGED <<fallback, imf, reply>>
    /\ \A r \in Requests :
          \/ stage'[r] = stage[r] /\ stage[r] \notin RoutingStages
          \/ stage'[r] = "lost"

LEMMA HandlerMoves ==
    ASSUME Router!TypeOK, RoutingInStep, NEW r \in Requests, Router!Handler(r)
    PROVE  Moves(r)
<1>1. CASE Router!HealthOk(r) \/ Router!LookupMiss(r)
  BY <1>1, CallStepMoves DEF Moves
<1>2. CASE Router!HealthFail(r) \/ Router!InferFail(r)
  BY <1>2, FailMoves DEF Moves
<1>3. CASE Router!Raises(r)
  BY <1>3, RaisesMoves DEF Moves
<1>4. CASE \E e \in cache : Router!LookupHit(r, e)
  BY <1>4, HitMoves DEF Moves
<1>5. CASE Router!InferOk(r)
  BY <1>5, OkMoves DEF Moves
<1> QED BY <1>1, <1>2, <1>3, <1>4, <1>5 DEF Router!Handler

LEMMA RouterMoves ==
    ASSUME Router!TypeOK, RoutingInStep, Router!Next
    PROVE  (\E r \in Requests : Moves(r)) \/ Keeps \/ Dies
<1>1. CASE \E r \in Requests, b \in Bodies : Router!Receive(r, b)
  BY <1>1, ReceiveMoves DEF Moves
<1>2. CASE \E r \in Requests : Router!Handler(r)
  BY <1>2, HandlerMoves
<1>3. CASE \E r \in Requests : Router!Background(r)
  BY <1>3, BackgroundMoves DEF Keeps
<1>4. CASE Router!Crash
  BY <1>4, CrashMoves DEF Dies
<1> QED BY <1>1, <1>2, <1>3, <1>4 DEF Router!Next

\* Type correctness of the router, and what each request is routed by.
RouteInv ==
    /\ Router!TypeOK
    /\ RoutingInStep
    /\ \A r \in Requests : stage[r] = "new" => fallback[r].chain = <<>>
    /\ \A r \in Requests : stage[r] = "new" \/ Routing(r) => reply[r] = Router!NoReply

LEMMA RouterStepType ==
    ASSUME Router!TypeOK, RoutingInStep, Router!Next
    PROVE  Router!TypeOK'
<1>1. CASE \E r \in Requests, b \in Bodies : Router!Receive(r, b)
  BY <1>1, ReceiveType
<1>2. CASE \E r \in Requests : Router!Handler(r)
  <2>1. PICK r \in Requests : Router!Handler(r)
    BY <1>2
  <2>2. CASE Router!HealthOk(r) \/ Router!LookupMiss(r)
    BY <2>2, CallStepType
  <2>3. CASE Router!HealthFail(r)
    BY <2>3, HealthFailType
  <2>4. CASE Router!InferFail(r)
    BY <2>4, InferFailType
  <2>5. CASE Router!Raises(r)
    BY <2>5, RaisesType
  <2>6. CASE \E e \in cache : Router!LookupHit(r, e)
    BY <2>6, LookupHitType
  <2>7. CASE Router!InferOk(r)
    BY <2>7, InferOkType
  <2> QED BY <2>1, <2>2, <2>3, <2>4, <2>5, <2>6, <2>7 DEF Router!Handler
<1>3. CASE \E r \in Requests : Router!Background(r)
  BY <1>3, BackgroundType
<1>4. CASE Router!Crash
  BY <1>4, CrashType
<1> QED BY <1>1, <1>2, <1>3, <1>4 DEF Router!Next

\* The next model of the chain is selected.
LEMMA FallsBackInStep ==
    ASSUME Router!TypeOK, NEW r \in Requests, InStep(r), FallsBack(r)
    PROVE  /\ InStepOf(fallback'[r], imf'[r])
           /\ imf'[r].level = imf[r].level + 1
           /\ fallback'[r].chain = fallback[r].chain
<1>1. PICK f \in Router!FallbackState : f = fallback[r]
  BY DEF Router!TypeOK
<1>2. PICK i \in Router!Imf : i = imf[r]
  BY DEF Router!TypeOK
<1>3. PICK g : g = Router!Advance(f)
  OBVIOUS
<1>4. /\ g \in Router!FallbackState /\ g.chain = f.chain /\ g.index = f.index + 1
      /\ g.level = f.level + 1 /\ Router!SelectedModel(g) \in Router!Names
      /\ g.index < Len(g.chain)
  BY <1>1, <1>3, AdvanceFacts DEF FallsBack, InStep, InStepOf
<1>5. PICK k : k = Router!AtLevel(i, g.level, Router!SelectedModel(g))
  OBVIOUS
<1>6. g.level \in Nat
  BY <1>4 DEF Router!FallbackState
<1>7. k.level = g.level /\ k.selected = Router!SelectedModel(g) /\ k.task = i.task
  BY <1>4, <1>5, <1>6, AtLevelFacts
<1>8. fallback'[r] = g /\ imf'[r] = k
  BY <1>1, <1>2, <1>3, <1>5 DEF FallsBack
<1>9. InStepOf(f, i)
  BY <1>1, <1>2 DEF InStep
<1>10. InStepOf(g, k)
  BY <1>4, <1>7, <1>9 DEF InStepOf
<1> QED BY <1>1, <1>2, <1>4, <1>7, <1>8, <1>9, <1>10 DEF InStepOf

LEMMA SameRouteInStep ==
    ASSUME NEW f, NEW i, NEW k, InStepOf(f, i), SameRoute(i, k)
    PROVE  InStepOf(f, k)
BY DEF InStepOf, SameRoute

LEMMA MovesRoute ==
    ASSUME RouteInv, NEW r \in Requests, Moves(r)
    PROVE  /\ Routing(r)' => InStep(r)'
           /\ stage'[r] # "new"
           /\ stage'[r] \in RoutingStages => reply'[r] = Router!NoReply
<1>1. /\ stage[r] = "new" \/ Routing(r) => reply[r] = Router!NoReply
      /\ Routing(r) => InStep(r)
      /\ Router!TypeOK
  BY DEF RouteInv, RoutingInStep
<1>2. CASE Refusal(r) \/ Ends(r)
  BY <1>2 DEF Refusal, Ends, Routing, RoutingStages
<1>3. CASE Begins(r)
  BY <1>1, <1>3 DEF Begins, InStep
<1>4. CASE GoesForth(r)
  <2>1. Routing(r) /\ stage'[r] # "new"
    BY <1>4 DEF GoesForth, Routing, RoutingStages
  <2>2. InStepOf(fallback'[r], imf'[r])
    BY <1>1, <1>4, <2>1, SameRouteInStep DEF GoesForth, InStep
  <2> QED BY <1>1, <1>4, <2>1, <2>2 DEF GoesForth, InStep
<1>5. CASE FallsBack(r)
  <2>1. Routing(r) /\ stage'[r] # "new"
    BY <1>5 DEF FallsBack, Routing, RoutingStages
  <2>2. InStepOf(fallback'[r], imf'[r])
    BY <1>1, <1>5, <2>1, FallsBackInStep
  <2> QED BY <1>1, <1>5, <2>1, <2>2 DEF FallsBack, InStep
<1> QED BY <1>2, <1>3, <1>4, <1>5 DEF Moves

LEMMA RouterStepRoute ==
    ASSUME RouteInv, Router!Next
    PROVE  RouteInv'
<1>1. Router!TypeOK'
  BY RouterStepType DEF RouteInv
<1>2. ASSUME NEW s \in Requests
      PROVE  /\ Routing(s)' => InStep(s)'
             /\ stage'[s] = "new" => fallback'[s].chain = <<>>
             /\ stage'[s] = "new" \/ stage'[s] \in RoutingStages => reply'[s] = Router!NoReply
  <2>1. /\ stage[s] = "new" => fallback[s].chain = <<>>
        /\ stage[s] = "new" \/ stage[s] \in RoutingStages => reply[s] = Router!NoReply
        /\ stage[s] \in RoutingStages => InStepOf(fallback[s], imf[s])
    BY DEF RouteInv, RoutingInStep, InStep, Routing
  <2>2. CASE Keeps
    BY <2>1, <2>2 DEF Keeps, InStep, Routing
  <2>3. CASE Dies
    BY <2>1, <2>3 DEF Dies, InStep, Routing, RoutingStages
  <2>4. ASSUME NEW r \in Requests, Moves(r)
        PROVE  /\ Routing(s)' => InStep(s)'
               /\ stage'[s] = "new" => fallback'[s].chain = <<>>
               /\ stage'[s] = "new" \/ stage'[s] \in RoutingStages => reply'[s] = Router!NoReply
    <3>1. CASE s = r
      BY <2>4, <3>1, MovesRoute
    <3>2. CASE s # r
      BY <2>1, <2>4, <3>2 DEF Moves, OthersStay, InStep, Routing
    <3> QED BY <3>1, <3>2
  <2> QED BY <2>2, <2>3, <2>4, RouterMoves DEF RouteInv
<1> QED BY <1>1, <1>2 DEF RouteInv, RoutingInStep, Routing

LEMMA StayRoute ==
    ASSUME RouteInv, UNCHANGED router
    PROVE  RouteInv'
BY DEF RouteInv, RoutingInStep, Routing, InStep, Router!TypeOK, router

LEMMA InitRoute == Router!Init => RouteInv
BY InitType DEF Router!Init, RouteInv, RoutingInStep, Routing, RoutingStages, Router!NoFallback

LEMMA NextRoute ==
    ASSUME RouteInv, Next
    PROVE  RouteInv'
BY PathStepRouter, RouterStepRoute, StayRoute

(***************************************************************************)
(* Type correctness of the path                                            *)
(***************************************************************************)
FrontType ==
    /\ gate \in [Requests -> {"new", "waiting", "done"}]
    /\ layer \in [Requests -> {"none", "waiting", "done"}]
    /\ got \in [Requests -> {0, 200, 400, 502}]
    /\ age \in [Requests -> 0..RouterTimeout]
    /\ asked \in [Requests -> 0..InferenceTimeout]
    /\ streak \in [Clients -> -1..MaxAttempts]
    /\ faults \in 0..MaxFaults

\* A client is timed out no more often than its requests are done.
DoneOf(g, c) == {k \in 1..MaxAttempts : g[<<c, k>>] = "done"}

StreakFits(st, g) ==
    /\ st \in [Clients -> -1..MaxAttempts]
    /\ \A c \in Clients : st[c] <= Cardinality(DoneOf(g, c))

PathType == RouteInv /\ Adapter!TypeOK /\ FrontType /\ StreakFits(streak, gate)

LEMMA DoneCount ==
    ASSUME NEW g, NEW c
    PROVE  Cardinality(DoneOf(g, c)) \in 0..MaxAttempts
<1>1. MaxAttempts \in Nat /\ 1 \in Int
  BY PathAssumption DEF PathAssumption
<1>2. IsFiniteSet(1..MaxAttempts) /\ Cardinality(1..MaxAttempts) = MaxAttempts
  BY <1>1, FS_Interval
<1>3. DoneOf(g, c) \subseteq 1..MaxAttempts
  BY DEF DoneOf
<1>4. IsFiniteSet(DoneOf(g, c)) /\ Cardinality(DoneOf(g, c)) <= MaxAttempts
  BY <1>2, <1>3, FS_Subset
<1>5. Cardinality(DoneOf(g, c)) \in Nat
  BY <1>4, FS_CardinalityType
<1> QED BY <1>1, <1>4, <1>5

LEMMA DoneGrows ==
    ASSUME NEW g, NEW h, \A r \in Requests : g[r] = "done" => h[r] = "done", NEW c \in Clients
    PROVE  Cardinality(DoneOf(g, c)) <= Cardinality(DoneOf(h, c))
<1>1. MaxAttempts \in Nat /\ 1 \in Int
  BY PathAssumption DEF PathAssumption
<1>2. IsFiniteSet(1..MaxAttempts)
  BY <1>1, FS_Interval
<1>3. DoneOf(h, c) \subseteq 1..MaxAttempts
  BY DEF DoneOf
<1>4. IsFiniteSet(DoneOf(h, c))
  BY <1>2, <1>3, FS_Subset
<1>5. DoneOf(g, c) \subseteq DoneOf(h, c)
  <2> SUFFICES ASSUME NEW k \in 1..MaxAttempts, g[<<c, k>>] = "done" PROVE h[<<c, k>>] = "done"
    BY DEF DoneOf
  <2>1. <<c, k>> \in Requests
    BY DEF Requests
  <2> QED BY <2>1
<1> QED BY <1>4, <1>5, FS_Subset

LEMMA OneMoreDone ==
    ASSUME NEW g \in [Requests -> {"new", "waiting", "done"}], NEW r \in Requests, g[r] # "done"
    PROVE  Cardinality(DoneOf([g EXCEPT ![r] = "done"], r[1])) = Cardinality(DoneOf(g, r[1])) + 1
<1>1. PICK c \in Clients, k \in 1..MaxAttempts : r = <<c, k>>
  BY DEF Requests
<1>2. r[1] = c
  BY <1>1
<1>3. k \notin DoneOf(g, c)
  BY <1>1 DEF DoneOf
<1>4. PICK h : h = [g EXCEPT ![r] = "done"]
  OBVIOUS
<1>5. \A j \in 1..MaxAttempts : <<c, j>> \in Requests /\ (<<c, j>> = <<c, k>> => j = k)
  BY DEF Requests
<1>6. \A j \in 1..MaxAttempts : h[<<c, j>>] = IF j = k THEN "done" ELSE g[<<c, j>>]
  BY <1>1, <1>4, <1>5
<1>7. DoneOf(h, c) = DoneOf(g, c) \cup {k}
  BY <1>6 DEF DoneOf
<1>8. MaxAttempts \in Nat /\ 1 \in Int
  BY PathAssumption DEF PathAssumption
<1>9. IsFiniteSet(1..MaxAttempts) /\ DoneOf(g, c) \subseteq 1..MaxAttempts
  BY <1>8, FS_Interval DEF DoneOf
<1>10. IsFiniteSet(DoneOf(g, c))
  BY <1>9, FS_Subset
<1>11. Cardinality(DoneOf(g, c) \cup {k}) = Cardinality(DoneOf(g, c)) + 1
  BY <1>3, <1>10, FS_AddElement, Zenon
<1> QED BY <1>2, <1>4, <1>7, <1>11

LEMMA StreakGrows ==
    ASSUME NEW st, NEW g \in [Requests -> {"new", "waiting", "done"}], StreakFits(st, g),
           NEW r \in Requests, g[r] # "done"
    PROVE  StreakFits([st EXCEPT ![r[1]] = st[r[1]] + 1], [g EXCEPT ![r] = "done"])
<1>1. r[1] \in Clients
  BY DEF Requests
<1>2. PICK h : h = [g EXCEPT ![r] = "done"]
  OBVIOUS
<1>3. \A s \in Requests : g[s] = "done" => h[s] = "done"
  BY <1>2
<1>4. PICK t : t = [st EXCEPT ![r[1]] = st[r[1]] + 1]
  OBVIOUS
<1>5. ASSUME NEW c \in Clients
      PROVE  t[c] \in -1..MaxAttempts /\ t[c] <= Cardinality(DoneOf(h, c))
  <2>1. PICK m \in -1..MaxAttempts : m = st[c]
    BY DEF StreakFits
  <2>2. PICK p \in 0..MaxAttempts : p = Cardinality(DoneOf(g, c))
    BY DoneCount
  <2>3. PICK q \in 0..MaxAttempts : q = Cardinality(DoneOf(h, c))
    BY DoneCount
  <2>4. m <= p
    BY <2>1, <2>2 DEF StreakFits
  <2>5. p <= q
    BY <1>3, <2>2, <2>3, DoneGrows
  <2>6. MaxAttempts \in Nat
    BY PathAssumption DEF PathAssumption
  <2>7. CASE c = r[1]
    <3>1. q = p + 1
      BY <1>2, <2>2, <2>3, <2>7, OneMoreDone
    <3>2. t[c] = m + 1
      BY <1>1, <1>4, <2>1, <2>7 DEF StreakFits
    <3>3. m + 1 <= q /\ m + 1 \in -1..MaxAttempts
      BY <2>4, <2>6, <3>1
    <3> QED BY <2>3, <3>2, <3>3
  <2>8. CASE c # r[1]
    <3>1. t[c] = m
      BY <1>4, <2>1, <2>8 DEF StreakFits
    <3>2. m <= q
      BY <2>4, <2>5
    <3> QED BY <2>3, <3>1, <3>2
  <2> QED BY <2>7, <2>8
<1>6. t \in [Clients -> -1..MaxAttempts]
  <2>1. t = [c \in Clients |-> t[c]]
    BY <1>4 DEF StreakFits
  <2> QED BY <1>5, <2>1
<1> QED BY <1>2, <1>4, <1>5, <1>6 DEF StreakFits

LEMMA StreakStays ==
    ASSUME NEW st, NEW g, StreakFits(st, g),
           NEW h, \A r \in Requests : g[r] = "done" => h[r] = "done"
    PROVE  StreakFits(st, h)
<1>1. ASSUME NEW c \in Clients
      PROVE  st[c] <= Cardinality(DoneOf(h, c))
  <2>1. PICK m \in -1..MaxAttempts : m = st[c]
    BY DEF StreakFits
  <2>2. PICK p \in 0..MaxAttempts : p = Cardinality(DoneOf(g, c))
    BY DoneCount
  <2>3. PICK q \in 0..MaxAttempts : q = Cardinality(DoneOf(h, c))
    BY DoneCount
  <2>4. m <= p
    BY <2>1, <2>2 DEF StreakFits
  <2>5. p <= q
    BY <2>2, <2>3, DoneGrows
  <2>6. m <= q
    BY <2>4, <2>5
  <2> QED BY <2>1, <2>3, <2>6
<1> QED BY <1>1 DEF StreakFits

LEMMA StreakStarts ==
    ASSUME NEW g, Impatience
    PROVE  StreakFits(streak', g)
<1>1. MaxAttempts \in Nat
  BY PathAssumption DEF PathAssumption
<1>2. streak' \in [Clients -> {-1, 0}]
  BY DEF Impatience
<1>3. ASSUME NEW c \in Clients
      PROVE  streak'[c] <= Cardinality(DoneOf(g, c))
  <2>1. PICK q \in 0..MaxAttempts : q = Cardinality(DoneOf(g, c))
    BY DoneCount
  <2> QED BY <1>2, <2>1
<1>4. streak' \in [Clients -> -1..MaxAttempts]
  BY <1>1, <1>2
<1> QED BY <1>3, <1>4 DEF StreakFits

\* The front's part of the type, and what its steps do to it.
LEMMA SendFront ==
    ASSUME FrontType, StreakFits(streak, gate), NEW r \in Requests, Send(r)
    PROVE  FrontType' /\ StreakFits(streak', gate')
<1>1. /\ gate[r] = "new" /\ gate' = [gate EXCEPT ![r] = "waiting"]
      /\ layer' = [layer EXCEPT ![r] = "waiting"]
      /\ UNCHANGED <<got, age, asked, faults, streak>>
  BY DEF Send, Fine
<1>2. /\ gate' \in [Requests -> {"new", "waiting", "done"}]
      /\ layer' \in [Requests -> {"none", "waiting", "done"}]
      /\ \A s \in Requests : gate[s] = "done" => gate'[s] = "done"
  BY <1>1 DEF FrontType
<1>3. StreakFits(streak, gate')
  BY <1>2, StreakStays
<1> QED BY <1>1, <1>2, <1>3 DEF FrontType

\* What a client may be told: whatever the layers behind answer, the gateway
\* makes one of these of it.
Statuses == {0, 200, 400, 502}

\* The router refuses a call neither with 403 nor with 429, the only other
\* statuses the gateway hands on.
LEMMA ConvertsReply ==
    ASSUME Router!TypeOK, NEW r \in Requests
    PROVE  GatewayStatus(reply[r].status) \in Statuses
<1>1. PICK status \in {0, 200, 400, 422, 500, 503} : reply[r].status = status
  BY DEF Router!TypeOK, Router!Reply
<1>2. GatewayStatus(status) \in {200, 400, 502}
  BY <1>1 DEF GatewayStatus
<1> QED BY <1>1, <1>2 DEF Statuses

LEMMA ConvertsErrors == GatewayStatus(500) = 502 /\ GatewayStatus(504) = 502
BY DEF GatewayStatus

\* A client reads 200 only of a router's 200.
LEMMA OnlyAnswersPass == \A status : GatewayStatus(status) = 200 => status = 200
BY DEF GatewayStatus

LEMMA CloseFront ==
    ASSUME FrontType, NEW r \in Requests, gate[r] # "done", NEW status \in Statuses, Close(r, status)
    PROVE  /\ gate' = [gate EXCEPT ![r] = "done"]
           /\ gate' \in [Requests -> {"new", "waiting", "done"}]
           /\ got' \in [Requests -> Statuses]
           /\ \A s \in Requests : gate[s] = "done" => gate'[s] = "done"
BY DEF Close, FrontType, Statuses

LEMMA FrontStepsFront ==
    ASSUME RouteInv, FrontType, StreakFits(streak, gate), NEW r \in Requests, FrontSteps(r)
    PROVE  FrontType' /\ StreakFits(streak', gate')
<1>1. UNCHANGED <<age, asked, faults>>
  BY DEF FrontSteps, Deliver, Broken, GatewayGivesUp, LayerGivesUp, Fine
<1>2. layer' \in [Requests -> {"none", "waiting", "done"}]
  BY DEF FrontSteps, Deliver, Broken, GatewayGivesUp, LayerGivesUp, FrontType
<1>3. \/ UNCHANGED <<gate, got, streak>>
      \/ /\ gate[r] = "waiting"
         /\ \E status \in Statuses : Close(r, status)
         /\ UNCHANGED streak \/ streak' = [streak EXCEPT ![r[1]] = streak[r[1]] + 1]
  <2>1. GatewayStatus(reply[r].status) \in Statuses
    BY ConvertsReply DEF RouteInv
  <2>2. CASE Deliver(r)
    BY <2>1, <2>2 DEF Deliver, Fine
  <2>3. CASE Broken(r)
    BY <2>3, ConvertsErrors DEF Broken, Fine, Statuses
  <2>4. CASE GatewayGivesUp(r)
    BY <2>4 DEF GatewayGivesUp, Statuses
  <2>5. CASE LayerGivesUp(r)
    BY <2>5, ConvertsErrors DEF LayerGivesUp, Statuses
  <2> QED BY <2>2, <2>3, <2>4, <2>5 DEF FrontSteps
<1>4. CASE UNCHANGED <<gate, got, streak>>
  BY <1>1, <1>2, <1>4 DEF FrontType
<1>5. CASE /\ gate[r] = "waiting"
           /\ \E status \in Statuses : Close(r, status)
           /\ UNCHANGED streak \/ streak' = [streak EXCEPT ![r[1]] = streak[r[1]] + 1]
  <2>1. /\ gate' = [gate EXCEPT ![r] = "done"]
        /\ gate' \in [Requests -> {"new", "waiting", "done"}]
        /\ got' \in [Requests -> Statuses]
        /\ \A s \in Requests : gate[s] = "done" => gate'[s] = "done"
    <3>1. PICK status \in Statuses : Close(r, status)
      BY <1>5
    <3>2. gate[r] # "done"
      BY <1>5
    <3> QED BY <3>1, <3>2, CloseFront
  <2>2. StreakFits(streak', gate')
    <3>1. CASE UNCHANGED streak
      BY <2>1, <3>1, StreakStays
    <3>2. CASE streak' = [streak EXCEPT ![r[1]] = streak[r[1]] + 1]
      <4>1. gate \in [Requests -> {"new", "waiting", "done"}] /\ gate[r] # "done"
        BY <1>5 DEF FrontType
      <4>2. StreakFits([streak EXCEPT ![r[1]] = streak[r[1]] + 1], [gate EXCEPT ![r] = "done"])
        BY <4>1, StreakGrows
      <4> QED BY <2>1, <3>2, <4>2
    <3> QED BY <1>5, <3>1, <3>2
  <2>3. streak' \in [Clients -> -1..MaxAttempts]
    BY <2>2 DEF StreakFits
  <2> QED BY <1>1, <1>2, <2>1, <2>2, <2>3 DEF FrontType, Statuses
<1> QED BY <1>3, <1>4, <1>5

\* What is counted as gone wrong, or not.
LEMMA FaultFront ==
    ASSUME FrontType, StreakFits(streak, gate), Fine \/ Fault, gate' = gate
    PROVE  /\ StreakFits(streak', gate') /\ faults' \in 0..MaxFaults
           /\ streak' \in [Clients -> -1..MaxAttempts]
<1>1. faults' \in 0..MaxFaults
  BY PathAssumption DEF PathAssumption, Fine, Fault, FrontType
<1>2. StreakFits(streak', gate')
  BY StreakStarts DEF Fine, Fault
<1> QED BY <1>1, <1>2 DEF StreakFits

LEMMA RouterStepsFront ==
    ASSUME FrontType, StreakFits(streak, gate), NEW r \in Requests, RouterSteps(r)
    PROVE  FrontType' /\ StreakFits(streak', gate')
<1>1. UNCHANGED <<gate, got, layer, age>> /\ asked' = [asked EXCEPT ![r] = 0]
  BY DEF RouterSteps, front
<1>2. asked' \in [Requests -> 0..InferenceTimeout]
  BY <1>1, PathAssumption DEF PathAssumption, FrontType
<1>3. Fine \/ Fault \/ (UNCHANGED faults /\ Impatience)
  BY DEF RouterSteps, CheckHealth, CheckFails, CheckRaises, Lookup, InferAnswered, AdapterRefuses,
         RouterGivesUp, Background
<1>4. /\ StreakFits(streak', gate') /\ faults' \in 0..MaxFaults
      /\ streak' \in [Clients -> -1..MaxAttempts]
  <2>1. CASE Fine \/ Fault
    BY <1>1, <2>1, FaultFront
  <2>2. CASE UNCHANGED faults /\ Impatience
    <3>1. StreakFits(streak', gate')
      BY <2>2, StreakStarts
    <3> QED BY <2>2, <3>1 DEF FrontType, StreakFits
  <2> QED BY <1>3, <2>1, <2>2
<1> QED BY <1>1, <1>2, <1>4 DEF FrontType

LEMMA TickFront ==
    ASSUME FrontType, StreakFits(streak, gate), Tick
    PROVE  FrontType' /\ StreakFits(streak', gate')
<1>1. /\ \A r \in Requests : ~Busy(r)
      /\ age' = Waited(age, {r \in Requests : layer[r] = "waiting"})
      /\ asked' = Waited(asked, {r \in Requests : stage[r] = "infer"})
      /\ UNCHANGED <<gate, got, layer, faults, streak>>
  BY DEF Tick, Fine
<1>2. RouterTimeout \in Nat /\ InferenceTimeout \in Nat
  BY PathAssumption DEF PathAssumption
<1>3. ASSUME NEW r \in Requests
      PROVE  age'[r] \in 0..RouterTimeout /\ asked'[r] \in 0..InferenceTimeout
  <2>1. age[r] \in 0..RouterTimeout /\ asked[r] \in 0..InferenceTimeout
    BY DEF FrontType
  <2>2. /\ layer[r] = "waiting" => ~(age[r] >= RouterTimeout)
        /\ stage[r] = "infer" => ~(asked[r] >= InferenceTimeout)
    BY <1>1 DEF Busy, RouterDue
  <2>3. /\ age'[r] = IF layer[r] = "waiting" THEN age[r] + 1 ELSE age[r]
        /\ asked'[r] = IF stage[r] = "infer" THEN asked[r] + 1 ELSE asked[r]
    BY <1>1 DEF Waited
  <2> QED BY <1>2, <2>1, <2>2, <2>3
<1>4. age' \in [Requests -> 0..RouterTimeout] /\ asked' \in [Requests -> 0..InferenceTimeout]
  <2>1. age' = [r \in Requests |-> age'[r]] /\ asked' = [r \in Requests |-> asked'[r]]
    BY <1>1 DEF Waited
  <2> QED BY <1>3, <2>1
<1> QED BY <1>1, <1>4 DEF FrontType

LEMMA NextType ==
    ASSUME PathType, Next
    PROVE  PathType'
<1>1. RouteInv'
  BY NextRoute DEF PathType
<1>2. Adapter!TypeOK'
  <2>1. Adapter!Next \/ UNCHANGED adapter
    BY PathStepAdapter DEF PathType, RouteInv
  <2>2. CASE UNCHANGED adapter
    BY <2>2 DEF PathType, Adapter!TypeOK, adapter
  <2> QED BY <2>1, <2>2, AdapterStepType DEF PathType
<1>3. FrontType' /\ StreakFits(streak', gate')
  <2>1. RouteInv /\ FrontType /\ StreakFits(streak, gate)
    BY DEF PathType
  <2>2. CASE \E r \in Requests : Send(r)
    BY <2>1, <2>2, SendFront
  <2>3. CASE \E r \in Requests : FrontSteps(r)
    BY <2>1, <2>3, FrontStepsFront
  <2>4. CASE \E r \in Requests : RouterSteps(r)
    BY <2>1, <2>4, RouterStepsFront
  <2>5. CASE RouterDies \/ AdapterSteps
    <3>1. UNCHANGED <<gate, got, layer, age, asked>> /\ (Fine \/ Fault)
      BY <2>5 DEF RouterDies, AdapterSteps, front
    <3>2. /\ StreakFits(streak', gate') /\ faults' \in 0..MaxFaults
          /\ streak' \in [Clients -> -1..MaxAttempts]
      BY <2>1, <3>1, FaultFront
    <3> QED BY <2>1, <3>1, <3>2 DEF FrontType
  <2>6. CASE Tick
    BY <2>1, <2>6, TickFront
  <2> QED BY <2>2, <2>3, <2>4, <2>5, <2>6 DEF Next
<1> QED BY <1>1, <1>2, <1>3 DEF PathType

LEMMA InitPathType == Init => PathType
<1> SUFFICES ASSUME Init PROVE PathType
  OBVIOUS
<1>1. RouteInv
  BY InitRoute DEF Init
<1>2. Adapter!TypeOK
  BY DEF Init, Adapter!Init, Adapter!TypeOK
<1>3. FrontType
  BY PathAssumption DEF PathAssumption, Init, FrontType
<1>4. StreakFits(streak, gate)
  <2>1. streak \in [Clients -> -1..MaxAttempts] /\ \A c \in Clients : streak[c] = 0
    BY PathAssumption DEF PathAssumption, Init
  <2> QED BY <2>1, DoneCount DEF StreakFits
<1> QED BY <1>1, <1>2, <1>3, <1>4 DEF PathType

LEMMA StayPathType ==
    ASSUME PathType, UNCHANGED vars
    PROVE  PathType'
BY StayRoute DEF PathType, vars, front, router, adapter, Adapter!TypeOK, FrontType

\* Every variable keeps its type: no wait outlasts its timeout by a tick, no
\* call of Ollama is older than the adapter lets it be, and a client is
\* timed out no more often than it sends.
THEOREM PathTypeCorrect == Spec => []TypeOK
<1>1. PathType => TypeOK
  BY DEF PathType, RouteInv, FrontType, TypeOK
<1>2. PathType /\ [Next]_vars => PathType'
  BY NextType, StayPathType
<1> QED BY <1>1, <1>2, InitPathType, PTL DEF Spec

(***************************************************************************)
(* Clients are served whole texts                                          *)
(***************************************************************************)
\* The text k was generated to its end.
Whole(j, k) == k \in Router!Content /\ j[<<k.for, k.by>>].answer = "ok"

WholeTasks(j, q) ==
    \A n \in 1..Len(q) : q[n].kind = "cache_write" => Whole(j, q[n].content)

Says200(rep) == rep.status = 200

\* Whatever holds a text on its way to a client holds a whole one: the cache,
\* the tasks that will write to it, and the replies.
WholeTexts(j) ==
    /\ \A e \in cache : Whole(j, e.content)
    /\ \A r \in Requests : WholeTasks(j, tasks[r])
    /\ \A r \in Requests : Says200(reply[r]) => Whole(j, imf[r].content)

GotReply == \A r \in Requests : got[r] = 200 => Says200(reply[r])

ServedInv == WholeTexts(job) /\ GotReply

LEMMA WholeAppended ==
    ASSUME NEW j, NEW q \in Seq(Router!Task), NEW t \in Seq(Router!Task),
           WholeTasks(j, q), WholeTasks(j, t)
    PROVE  q \o t \in Seq(Router!Task) /\ WholeTasks(j, q \o t)
<1>0. q \o t \in Seq(Router!Task)
  OBVIOUS
<1>1. /\ Len(q \o t) = Len(q) + Len(t) /\ Len(q) \in Nat /\ Len(t) \in Nat
      /\ \A n \in 1..(Len(q) + Len(t)) :
            (q \o t)[n] = IF n <= Len(q) THEN q[n] ELSE t[n - Len(q)]
  OBVIOUS
<1>2. PICK u : u = q \o t
  OBVIOUS
<1>3. ASSUME NEW n \in 1..(Len(q) + Len(t)), u[n].kind = "cache_write"
      PROVE  Whole(j, u[n].content)
  <2>1. CASE n <= Len(q)
    <3>1. n \in 1..Len(q) /\ u[n] = q[n]
      BY <1>1, <1>2, <2>1
    <3> QED BY <1>3, <3>1 DEF WholeTasks
  <2>2. CASE ~(n <= Len(q))
    <3>1. n - Len(q) \in 1..Len(t) /\ u[n] = t[n - Len(q)]
      BY <1>1, <1>2, <2>2
    <3> QED BY <1>3, <3>1 DEF WholeTasks
  <2> QED BY <2>1, <2>2
<1> QED BY <1>0, <1>1, <1>2, <1>3 DEF WholeTasks

LEMMA WholeTail ==
    ASSUME NEW j, NEW q \in Seq(Router!Task), q # <<>>, WholeTasks(j, q)
    PROVE  /\ WholeTasks(j, Tail(q))
           /\ Head(q).kind = "cache_write" => Whole(j, Head(q).content)
<1>1. /\ Len(q) \in Nat \ {0} /\ Head(q) = q[1] /\ Len(Tail(q)) = Len(q) - 1
      /\ \A n \in 1..(Len(q) - 1) : Tail(q)[n] = q[n + 1] /\ n + 1 \in 1..Len(q)
  OBVIOUS
<1>2. 1 \in 1..Len(q)
  BY <1>1
<1> QED BY <1>1, <1>2 DEF WholeTasks

\* An audit event is no write.
LEMMA AuditWhole ==
    ASSUME NEW j, NEW event \in Router!Task, event.kind = "audit"
    PROVE  WholeTasks(j, <<event>>) /\ <<event>> \in Seq(Router!Task)
<1>1. /\ Len(<<event>>) = 1 /\ <<event>>[1] = event /\ <<event>> \in Seq(Router!Task)
      /\ \A n \in 1..1 : n = 1
  OBVIOUS
<1> QED BY <1>1 DEF WholeTasks

LEMMA AddedWhole ==
    ASSUME Router!TypeOK, NEW j, NEW r \in Requests, NEW t \in Seq(Router!Task),
           \A s \in Requests : WholeTasks(j, tasks[s]), WholeTasks(j, t), Router!AddTasks(r, t)
    PROVE  \A s \in Requests : WholeTasks(j, tasks'[s])
<1>1. /\ tasks \in [Requests -> Seq(Router!Task)]
      /\ tasks' = [tasks EXCEPT ![r] = tasks[r] \o t]
  BY DEF Router!TypeOK, Router!AddTasks
<1>2. PICK u : u = tasks[r] \o t
  OBVIOUS
<1>3. WholeTasks(j, u)
  BY <1>1, <1>2, WholeAppended
<1>4. \A s \in Requests : tasks'[s] = IF s = r THEN u ELSE tasks[s]
  BY <1>1, <1>2
<1> QED BY <1>3, <1>4

\* The tasks a failed attempt, or a hit, leaves.
LEMMA FailTasks ==
    ASSUME RouteInv, NEW j, \A s \in Requests : WholeTasks(j, tasks[s]), NEW r \in Requests,
           Router!HealthFail(r) \/ Router!InferFail(r)
    PROVE  \A s \in Requests : WholeTasks(j, tasks'[s])
<1>1. /\ Router!TypeOK /\ InStep(r) /\ imf[r] \in Router!Imf
      /\ fallback[r] \in Router!FallbackState
  BY SelectedIsName DEF RouteInv, RoutingInStep, Routing, RoutingStages, Router!HealthFail,
                        Router!InferFail
<1>2. PICK event : /\ Router!AddTasks(r, <<event>>)
                   /\ \/ event = Router!FallbackAudit(imf[r], Router!Advance(fallback[r]))
                      \/ event = Router!RoutingAudit(imf[r], "error")
  BY DEF Router!HealthFail, Router!InferFail
<1>3. Router!FallbackAudit(imf[r], Router!Advance(fallback[r])) \in Router!Task
  BY <1>1, AdvancedAuditType DEF InStep, InStepOf
<1>4. Router!RoutingAudit(imf[r], "error") \in Router!Task
  BY <1>1, AuditType
<1>5. event.kind = "audit"
  BY <1>2 DEF Router!FallbackAudit, Router!RoutingAudit
<1>6. event \in Router!Task
  BY <1>2, <1>3, <1>4
<1>7. WholeTasks(j, <<event>>) /\ <<event>> \in Seq(Router!Task)
  BY <1>5, <1>6, AuditWhole
<1> QED BY <1>1, <1>2, <1>7, AddedWhole

LEMMA HitTasks ==
    ASSUME RouteInv, NEW j, \A s \in Requests : WholeTasks(j, tasks[s]), NEW r \in Requests,
           NEW e \in cache, Router!LookupHit(r, e)
    PROVE  \A s \in Requests : WholeTasks(j, tasks'[s])
<1>1. Router!TypeOK /\ e.content \in Router!Content /\ imf[r] \in Router!Imf /\ TRUE \in BOOLEAN
  BY DEF RouteInv, Router!TypeOK, Router!CacheEntry
<1>2. PICK i : i = Router!Answered(imf[r], TRUE, e.content)
  OBVIOUS
<1>3. i \in Router!Imf
  BY <1>1, <1>2, AnsweredFacts
<1>4. Router!AddTasks(r, <<Router!CacheHitAudit(i)>>)
  BY <1>2 DEF Router!LookupHit
<1>5. Router!CacheHitAudit(i) \in Router!Task
  BY <1>3, AuditType
<1>6. PICK event : event = Router!CacheHitAudit(i)
  OBVIOUS
<1>7. event.kind = "audit"
  BY <1>6 DEF Router!CacheHitAudit
<1>8. WholeTasks(j, <<event>>) /\ <<event>> \in Seq(Router!Task)
  BY <1>5, <1>6, <1>7, AuditWhole
<1> QED BY <1>1, <1>4, <1>6, <1>8, AddedWhole

LEMMA OkTasks ==
    ASSUME RouteInv, NEW j, \A s \in Requests : WholeTasks(j, tasks[s]), NEW r \in Requests,
           Router!InferOk(r), j[CallOf(r)].answer = "ok"
    PROVE  /\ \A s \in Requests : WholeTasks(j, tasks'[s])
           /\ Whole(j, [by |-> imf[r].selected, for |-> r])
<1>1. Router!TypeOK /\ InStep(r)
  BY DEF RouteInv, RoutingInStep, Routing, RoutingStages, Router!InferOk
<1>2. PICK content : content = [by |-> imf[r].selected, for |-> r]
  OBVIOUS
<1>3. content \in Router!Content /\ content.for = r /\ content.by = imf[r].selected
  BY <1>1, <1>2, SelectedIsName DEF Router!Content
<1>4. Whole(j, content)
  BY <1>3 DEF Whole, CallOf
<1>5. PICK w : w = Router!CacheWriteTask(InferAnswer(r))
  OBVIOUS
<1>6. PICK event : event = Router!RoutingAudit(InferAnswer(r), "pass")
  OBVIOUS
<1>7. w \in Router!Task /\ w.content = content /\ event \in Router!Task
  BY <1>1, <1>2, <1>5, <1>6, InferOkFacts DEF Router!Task, Router!CacheWriteTask
<1>8. event.kind = "audit"
  BY <1>6 DEF Router!RoutingAudit
<1>9. WholeTasks(j, <<event>>) /\ <<event>> \in Seq(Router!Task)
  BY <1>7, <1>8, AuditWhole
<1>10. WholeTasks(j, <<w>>) /\ <<w>> \in Seq(Router!Task)
  <2>1. Len(<<w>>) = 1 /\ <<w>>[1] = w /\ (\A n \in 1..1 : n = 1) /\ <<w>> \in Seq(Router!Task)
    BY <1>7
  <2> QED BY <1>4, <1>7, <2>1 DEF WholeTasks
<1>11. WholeTasks(j, <<>>) /\ <<>> \in Seq(Router!Task)
  <2>1. Len(<<>>) = 0 /\ <<>> \in Seq(Router!Task) /\ (\A n \in 1..0 : FALSE)
    OBVIOUS
  <2> QED BY <2>1 DEF WholeTasks
<1>12. PICK t : t = IF InferAnswer(r).hit THEN <<>> ELSE <<w>>
  OBVIOUS
<1>13. t \in Seq(Router!Task) /\ WholeTasks(j, t)
  BY <1>10, <1>11, <1>12
<1>14. PICK e1 : e1 = <<event>>
  OBVIOUS
<1>15. PICK u : u = t \o e1
  OBVIOUS
<1>16. u \in Seq(Router!Task) /\ WholeTasks(j, u)
  <2>1. WholeTasks(j, e1) /\ e1 \in Seq(Router!Task)
    BY <1>9, <1>14
  <2> QED BY <1>13, <1>15, <2>1, WholeAppended
<1>17. Router!AddTasks(r, u)
  BY <1>5, <1>6, <1>12, <1>14, <1>15 DEF Router!InferOk, InferAnswer
<1> QED BY <1>1, <1>2, <1>4, <1>16, <1>17, AddedWhole

\* A step of the router, given that what it takes for an answer of its model
\* is one.
LEMMA HandlerWhole ==
    ASSUME RouteInv, WholeTexts(job), NEW r \in Requests, Router!Handler(r),
           Router!InferOk(r) => job[CallOf(r)].answer = "ok"
    PROVE  /\ \A s \in Requests : WholeTasks(job, tasks'[s])
           /\ Says200(reply'[r]) => Whole(job, imf'[r].content)
           /\ cache' = cache
<1>1. PICK j : j = job
  OBVIOUS
<1>2. /\ \A s \in Requests : WholeTasks(j, tasks[s])
      /\ \A e \in cache : Whole(j, e.content)
      /\ Router!TypeOK /\ RoutingInStep
      /\ Routing(r) => reply[r] = Router!NoReply
  BY <1>1 DEF WholeTexts, RouteInv
<1>3. CASE Router!HealthOk(r) \/ Router!LookupMiss(r)
  <2>1. tasks' = tasks /\ cache' = cache
    BY <1>3 DEF Router!HealthOk, Router!LookupMiss
  <2>2. GoesForth(r) /\ Routing(r)
    BY <1>2, <1>3, CallStepMoves DEF Router!HealthOk, Router!LookupMiss, Routing, RoutingStages
  <2>3. ~Says200(reply'[r])
    BY <1>2, <2>2 DEF GoesForth, Says200, Router!NoReply
  <2> QED BY <1>1, <1>2, <2>1, <2>3
<1>4. CASE Router!HealthFail(r) \/ Router!InferFail(r)
  <2>1. \A s \in Requests : WholeTasks(j, tasks'[s])
    BY <1>2, <1>4, FailTasks
  <2>2. cache' = cache /\ Routing(r)
    BY <1>4 DEF Router!HealthFail, Router!InferFail, Routing, RoutingStages
  <2>3. FallsBack(r) \/ reply'[r].status = 503
    BY <1>2, <1>4, FailMoves
  <2>4. ~Says200(reply'[r])
    BY <1>2, <2>2, <2>3 DEF FallsBack, Says200, Router!NoReply
  <2> QED BY <1>1, <2>1, <2>2, <2>4
<1>5. CASE Router!Raises(r)
  <2>1. tasks' = tasks /\ cache' = cache
    BY <1>5 DEF Router!Raises
  <2>2. reply'[r].status = 500
    BY <1>2, <1>5, RaisesMoves
  <2> QED BY <1>1, <1>2, <2>1, <2>2 DEF Says200
<1>6. CASE \E e \in cache : Router!LookupHit(r, e)
  <2>1. PICK e \in cache : Router!LookupHit(r, e)
    BY <1>6
  <2>2. \A s \in Requests : WholeTasks(j, tasks'[s])
    BY <1>2, <2>1, HitTasks
  <2>3. imf'[r].content = e.content /\ cache' = cache
    BY <1>2, <2>1, HitMoves DEF Router!LookupHit
  <2> QED BY <1>1, <1>2, <2>1, <2>2, <2>3
<1>7. CASE Router!InferOk(r)
  <2>1. /\ \A s \in Requests : WholeTasks(j, tasks'[s])
        /\ Whole(j, [by |-> imf[r].selected, for |-> r])
    BY <1>1, <1>2, <1>7, OkTasks
  <2>2. imf'[r].content = [by |-> imf[r].selected, for |-> r] /\ cache' = cache
    BY <1>2, <1>7, OkMoves DEF Router!InferOk
  <2> QED BY <1>1, <2>1, <2>2
<1> QED BY <1>3, <1>4, <1>5, <1>6, <1>7 DEF Router!Handler

\* No other step of the handler is one that takes an answer.
LEMMA OkAlone ==
    ASSUME RouteInv, NEW r \in Requests, Router!InferOk(r)
    PROVE  /\ ~Router!InferFail(r) /\ ~Router!Raises(r)
           /\ ~Router!HealthOk(r) /\ ~Router!HealthFail(r) /\ ~Router!LookupMiss(r)
           /\ \A e \in cache : ~Router!LookupHit(r, e)
<1>1. Router!TypeOK /\ RoutingInStep
  BY DEF RouteInv
<1>2. stage'[r] = "replied" /\ reply'[r].status = 200
  <2>1. stage'[r] = "replied" /\ reply'[r] = [status |-> 200, error |-> "none"]
    BY <1>1, OkMoves DEF Ends
  <2> QED BY <2>1
<1>3. ~Router!InferFail(r)
  <2>1. CASE Router!InferFail(r)
    <3>1. stage'[r] = "health" \/ reply'[r].status = 503
      BY <1>1, <2>1, FailMoves DEF FallsBack
    <3> QED BY <1>2, <3>1
  <2> QED BY <2>1
<1>4. ~Router!Raises(r)
  BY <1>1, <1>2, RaisesMoves
<1>5. stage[r] = "infer"
  BY DEF Router!InferOk
<1> QED BY <1>3, <1>4, <1>5 DEF Router!HealthOk, Router!HealthFail, Router!LookupMiss, Router!LookupHit

LEMMA RouterStepsWhole ==
    ASSUME RouteInv, ServedInv, NEW r \in Requests, RouterSteps(r)
    PROVE  WholeTexts(job)' /\ GotReply'
<1>1. job' = job /\ got' = got /\ Router!TypeOK /\ RoutingInStep /\ WholeTexts(job) /\ GotReply
  BY DEF RouterSteps, front, adapter, RouteInv, ServedInv
<1>2. ASSUME Router!Handler(r), Router!InferOk(r) => job[CallOf(r)].answer = "ok"
      PROVE  WholeTexts(job)' /\ GotReply'
  <2>1. /\ \A s \in Requests : WholeTasks(job, tasks'[s])
        /\ Says200(reply'[r]) => Whole(job, imf'[r].content)
        /\ cache' = cache
    BY <1>1, <1>2, HandlerWhole
  <2>2. Moves(r) /\ Routing(r)
    BY <1>1, <1>2, HandlerMoves DEF Router!Handler, Router!HealthOk, Router!HealthFail,
       Router!Raises, Router!LookupMiss, Router!LookupHit, Router!InferOk, Router!InferFail,
       Routing, RoutingStages
  <2>3. \A s \in Requests : s # r => reply'[s] = reply[s] /\ imf'[s] = imf[s]
    BY <2>2 DEF Moves, OthersStay
  <2>4. reply[r] = Router!NoReply
    BY <2>2 DEF RouteInv
  <2>5. got[r] # 200
    BY <1>1, <2>4 DEF GotReply, Says200, Router!NoReply
  <2>6. WholeTexts(job)'
    BY <1>1, <2>1, <2>3 DEF WholeTexts
  <2>7. GotReply'
    BY <1>1, <2>3, <2>5 DEF GotReply
  <2> QED BY <2>6, <2>7
<1>3. CASE Router!Background(r)
  <2>1. /\ UNCHANGED <<imf, reply>>
        /\ tasks[r] # <<>> /\ tasks' = [tasks EXCEPT ![r] = Tail(tasks[r])]
        /\ \/ cache' = cache
           \/ Head(tasks[r]).kind = "cache_write" /\ cache' = cache \cup {Head(tasks[r])}
    BY <1>3, BackgroundMoves
  <2>2. PICK q \in Seq(Router!Task) : q = tasks[r]
    BY <1>1 DEF Router!TypeOK
  <2>3. WholeTasks(job, q) /\ q # <<>>
    BY <1>1, <2>1, <2>2 DEF WholeTexts
  <2>4. /\ WholeTasks(job, Tail(q))
        /\ Head(q).kind = "cache_write" => Whole(job, Head(q).content)
    BY <2>3, WholeTail
  <2>5. \A s \in Requests : tasks'[s] = IF s = r THEN Tail(q) ELSE tasks[s]
    BY <1>1, <2>1, <2>2 DEF Router!TypeOK
  <2>6. \A s \in Requests : WholeTasks(job, tasks'[s])
    BY <1>1, <2>4, <2>5 DEF WholeTexts
  <2>7. \A e \in cache' : Whole(job, e.content)
    BY <1>1, <2>1, <2>2, <2>4 DEF WholeTexts
  <2> QED BY <1>1, <2>1, <2>6, <2>7 DEF WholeTexts, GotReply
<1>4. CASE \/ CheckHealth(r) \/ CheckFails(r) \/ CheckRaises(r) \/ Lookup(r)
           \/ AdapterRefuses(r) \/ RouterGivesUp(r)
  <2>1. \/ Router!HealthOk(r) \/ Router!HealthFail(r) \/ Router!Raises(r) \/ Router!InferFail(r)
        \/ Router!LookupMiss(r) \/ \E e \in cache : Router!LookupHit(r, e)
    BY <1>4 DEF CheckHealth, CheckFails, CheckRaises, Lookup, AdapterRefuses, RouterGivesUp
  <2>2. ~Router!InferOk(r)
    BY <2>1, OkAlone
  <2> QED BY <1>2, <2>1, <2>2 DEF Router!Handler
<1>5. CASE InferAnswered(r)
  <2>1. Router!Handler(r)
    BY <1>5 DEF InferAnswered, Router!Handler
  <2>2. Router!InferOk(r) => job[CallOf(r)].answer = "ok"
    BY <1>5, OkAlone DEF InferAnswered
  <2> QED BY <1>2, <2>1, <2>2
<1> QED BY <1>3, <1>4, <1>5 DEF RouterSteps, Background, Router!Background

LEMMA ReceiveKeeps ==
    ASSUME NEW r, NEW b, Router!Receive(r, b)
    PROVE  tasks' = tasks /\ cache' = cache
BY DEF Router!Receive, Router!Refused, Router!StartRouting

LEMMA SendWhole ==
    ASSUME RouteInv, ServedInv, NEW r \in Requests, Send(r)
    PROVE  WholeTexts(job)' /\ GotReply'
<1>1. /\ job' = job /\ got' = got /\ Router!TypeOK /\ WholeTexts(job) /\ GotReply
      /\ Router!Receive(r, BodyOf[r[1]])
  BY DEF Send, adapter, RouteInv, ServedInv
<1>2. BodyOf[r[1]] \in Bodies
  BY DEF Requests, Bodies
<1>3. OthersStay(r) /\ (Refusal(r) \/ Begins(r))
  BY <1>1, <1>2, ReceiveMoves
<1>4. tasks' = tasks /\ cache' = cache
  BY <1>1, ReceiveKeeps
<1>5. reply[r] = Router!NoReply
  BY <1>3 DEF RouteInv, Refusal, Begins
<1>6. ~Says200(reply'[r]) /\ got[r] # 200
  BY <1>1, <1>3, <1>5 DEF Refusal, Begins, Says200, Router!NoReply, GotReply
<1>7. \A s \in Requests : s # r => reply'[s] = reply[s] /\ imf'[s] = imf[s]
  BY <1>3 DEF OthersStay
<1>8. WholeTexts(job)'
  BY <1>1, <1>4, <1>6, <1>7 DEF WholeTexts
<1>9. GotReply'
  BY <1>1, <1>6, <1>7 DEF GotReply
<1> QED BY <1>8, <1>9

LEMMA FrontWhole ==
    ASSUME FrontType, ServedInv, NEW r \in Requests, FrontSteps(r)
    PROVE  WholeTexts(job)' /\ GotReply'
<1>1. /\ UNCHANGED <<job, cache, tasks, reply, imf>> /\ WholeTexts(job) /\ GotReply
      /\ got \in [Requests -> {0, 200, 400, 502}]
  BY DEF FrontSteps, Deliver, Broken, GatewayGivesUp, LayerGivesUp, router, adapter, ServedInv,
         FrontType
<1>2. ASSUME NEW s \in Requests, got'[s] = 200
      PROVE  got[s] = 200 \/ Says200(reply[s])
  <2>1. CASE Deliver(r)
    BY <1>1, <1>2, <2>1, OnlyAnswersPass DEF Deliver, Close, Says200
  <2>2. CASE Broken(r)
    BY <1>1, <1>2, <2>2, ConvertsErrors DEF Broken, Close
  <2>3. CASE GatewayGivesUp(r)
    BY <1>1, <1>2, <2>3 DEF GatewayGivesUp, Close
  <2>4. CASE LayerGivesUp(r)
    BY <1>1, <1>2, <2>4, ConvertsErrors DEF LayerGivesUp, Close
  <2> QED BY <2>1, <2>2, <2>3, <2>4 DEF FrontSteps
<1>3. GotReply'
  BY <1>1, <1>2 DEF GotReply
<1>4. WholeTexts(job)'
  BY <1>1 DEF WholeTexts
<1> QED BY <1>3, <1>4

LEMMA DiesWhole ==
    ASSUME RouteInv, ServedInv, RouterDies
    PROVE  WholeTexts(job)' /\ GotReply'
<1>1. /\ job' = job /\ got' = got /\ Router!TypeOK /\ WholeTexts(job) /\ GotReply
      /\ Router!Crash
  BY DEF RouterDies, front, adapter, RouteInv, ServedInv
<1>2. UNCHANGED <<imf, reply, cache>> /\ tasks' = [r \in Requests |-> <<>>]
  BY <1>1, CrashMoves
<1>3. \A r \in Requests : WholeTasks(job, tasks'[r])
  <2>1. Len(<<>>) = 0 /\ \A n \in 1..0 : FALSE
    OBVIOUS
  <2>2. WholeTasks(job, <<>>)
    BY <2>1 DEF WholeTasks
  <2> QED BY <1>2, <2>2
<1>4. WholeTexts(job)'
  BY <1>1, <1>2, <1>3 DEF WholeTexts
<1> QED BY <1>1, <1>2, <1>4 DEF GotReply

\* A whole text stays one.
LEMMA WholeStays ==
    ASSUME NEW j \in [Calls -> Jobs], NEW k, NEW t, Whole(j, t),
           \A c \in Calls : j[c].at \notin AtWork /\ j[c] # Adapter!NoJob => k[c] = j[c]
    PROVE  Whole(k, t)
<1>1. PICK c : c = <<t.for, t.by>>
  OBVIOUS
<1>2. c \in Calls
  BY <1>1 DEF Whole, Router!Content, Router!Names, Calls
<1>3. j[c].answer = "ok"
  BY <1>1 DEF Whole
<1>4. j[c].at \notin AtWork /\ j[c] # Adapter!NoJob
  BY <1>2, <1>3, JobFacts DEF AtWork, Adapter!NoJob
<1> QED BY <1>1, <1>2, <1>4 DEF Whole

\* A call that has its answer keeps it.
LEMMA AnswersStay ==
    ASSUME Adapter!TypeOK, Adapter!Next \/ UNCHANGED adapter
    PROVE  /\ job \in [Calls -> Jobs]
           /\ \A c \in Calls : job[c].at \notin AtWork /\ job[c] # Adapter!NoJob => job'[c] = job[c]
<1>1. job \in [Calls -> Jobs]
  BY DEF Adapter!TypeOK, Jobs
<1>2. CASE UNCHANGED adapter
  BY <1>1, <1>2 DEF adapter
<1>3. CASE Adapter!Quiet /\ Adapter!Age
  BY <1>1, <1>3, AdapterAges DEF JobAges
<1>4. CASE AdapterActs
  BY <1>1, <1>4, AdapterFinishes DEF JobFinishes
<1>5. CASE \E c \in Calls : Adapter!Infer(c)
  BY <1>1, <1>5, InferStarts
<1> QED BY <1>2, <1>3, <1>4, <1>5 DEF Adapter!Next, AdapterActs

LEMMA AdapterWhole ==
    ASSUME PathType, ServedInv, Next, AdapterSteps \/ Tick
    PROVE  WholeTexts(job)' /\ GotReply'
<1>1. /\ UNCHANGED <<got, cache, tasks, reply, imf>> /\ WholeTexts(job) /\ GotReply
  BY DEF AdapterSteps, Tick, front, router, ServedInv
<1>2. Adapter!Next \/ UNCHANGED adapter
  BY PathStepAdapter DEF PathType, RouteInv
<1>3. /\ job \in [Calls -> Jobs]
      /\ \A c \in Calls : job[c].at \notin AtWork /\ job[c] # Adapter!NoJob => job'[c] = job[c]
  BY <1>2, AnswersStay DEF PathType
<1>4. PICK j \in [Calls -> Jobs] : j = job
  BY <1>3
<1>5. PICK k : k = job'
  OBVIOUS
<1>6. \A c \in Calls : j[c].at \notin AtWork /\ j[c] # Adapter!NoJob => k[c] = j[c]
  BY <1>3, <1>4, <1>5
<1>7. ASSUME NEW t, Whole(j, t)
      PROVE  Whole(k, t)
  BY <1>6, <1>7, WholeStays
<1>8. WholeTexts(j)
  BY <1>1, <1>4
<1>9. /\ \A e \in cache : Whole(k, e.content)
      /\ \A r \in Requests : WholeTasks(k, tasks[r])
      /\ \A r \in Requests : Says200(reply[r]) => Whole(k, imf[r].content)
  BY <1>7, <1>8 DEF WholeTexts, WholeTasks
<1>10. WholeTexts(job)'
  BY <1>1, <1>5, <1>9 DEF WholeTexts
<1> QED BY <1>1, <1>10 DEF GotReply

LEMMA NextServed ==
    ASSUME PathType, ServedInv, Next
    PROVE  ServedInv'
<1>1. RouteInv /\ FrontType
  BY DEF PathType
<1>2. CASE \E r \in Requests : Send(r)
  BY <1>1, <1>2, SendWhole DEF ServedInv
<1>3. CASE \E r \in Requests : FrontSteps(r)
  BY <1>1, <1>3, FrontWhole DEF ServedInv
<1>4. CASE \E r \in Requests : RouterSteps(r)
  BY <1>1, <1>4, RouterStepsWhole DEF ServedInv
<1>5. CASE RouterDies
  BY <1>1, <1>5, DiesWhole DEF ServedInv
<1>6. CASE AdapterSteps \/ Tick
  BY <1>6, AdapterWhole DEF ServedInv
<1> QED BY <1>2, <1>3, <1>4, <1>5, <1>6 DEF Next

LEMMA StayServed ==
    ASSUME ServedInv, UNCHANGED vars
    PROVE  ServedInv'
BY DEF ServedInv, WholeTexts, GotReply, vars, front, router, adapter

LEMMA InitServed == Init => ServedInv
<1> SUFFICES ASSUME Init PROVE ServedInv
  OBVIOUS
<1>1. /\ cache = {} /\ tasks = [r \in Requests |-> <<>>]
      /\ reply = [r \in Requests |-> Router!NoReply] /\ got = [r \in Requests |-> 0]
  BY DEF Init, Router!Init
<1>2. Len(<<>>) = 0 /\ \A n \in 1..0 : FALSE
  OBVIOUS
<1>3. WholeTasks(job, <<>>)
  BY <1>2 DEF WholeTasks
<1>4. \A r \in Requests : WholeTasks(job, tasks[r]) /\ ~Says200(reply[r]) /\ got[r] # 200
  BY <1>1, <1>3 DEF Says200, Router!NoReply
<1> QED BY <1>1, <1>4 DEF ServedInv, WholeTexts, GotReply

\* What a client is served is a whole text that Ollama generated, whichever
\* of its requests it was generated for, whatever was given up on the way,
\* and however the router and the adapter fail.
THEOREM ServedWholeTexts == Spec => []ServedAsGenerated
<1>1. ServedInv => ServedAsGenerated
  BY DEF ServedInv, GotReply, WholeTexts, Whole, ServedAsGenerated
<1>2. PathType /\ [Next]_vars => PathType'
  BY NextType, StayPathType
<1>3. PathType /\ ServedInv /\ [Next]_vars => ServedInv'
  BY NextServed, StayServed
<1> QED BY <1>1, <1>2, <1>3, InitPathType, InitServed, PTL DEF Spec

(***************************************************************************)
(* One text at a time                                                      *)
(***************************************************************************)
\* Ollama works on the call c, and the adapter still waits for it.
Young(j, c) == j[c].at \in AtWork /\ ~(j[c].age >= OllamaTimeout)

\* Of a request in stage st, whose call at hand is d and has been waited for
\* w ticks: Ollama works on no other, and on this one for as long.
OneCall(j, r, st, d, w) ==
    /\ st \notin {"infer", "lost"} => \A c \in Calls : c[1] = r => ~Young(j, c)
    /\ st = "infer" =>
          /\ \A c \in Calls : c[1] = r /\ Young(j, c) => c = d /\ j[c].age = w
          /\ j[d] = Adapter!NoJob => w = 0
    /\ st = "lost" => \A c, e \in Calls :
          c[1] = r /\ Young(j, c) /\ e[1] = r /\ Young(j, e) => c = e

OneCallEach == \A r \in Requests : OneCall(job, r, stage[r], CallOf(r), asked[r])

LEMMA YoungCalls ==
    ASSUME Adapter!TypeOK
    PROVE  \A c \in Calls : Young(job, c) <=> c \in Adapter!Running /\ ~Adapter!Due(c)
BY DEF Young, Adapter!Running, Adapter!Due, AtWork

LEMMA OneCallSuffices == PathType /\ OneCallEach => OneGenerationEach
<1> SUFFICES ASSUME PathType, OneCallEach, NEW r \in Requests
             PROVE  Cardinality({c \in Adapter!Running : c[1] = r /\ ~Adapter!Due(c)}) <= 1
  BY DEF OneGenerationEach
<1>1. PICK S : S = {c \in Adapter!Running : c[1] = r /\ ~Adapter!Due(c)}
  OBVIOUS
<1>2. Adapter!TypeOK /\ OneCall(job, r, stage[r], CallOf(r), asked[r])
  BY DEF PathType, OneCallEach
<1>3. \A c \in S : c \in Calls /\ c[1] = r /\ Young(job, c)
  BY <1>1, <1>2, YoungCalls DEF Adapter!Running
<1>4. \A c, e \in S : c = e
  BY <1>2, <1>3 DEF OneCall
<1>5. CASE S = {}
  <2>1. Cardinality(S) = 0
    BY <1>5, FS_EmptySet
  <2> QED BY <1>1, <2>1
<1>6. CASE S # {}
  <2>1. PICK c : c \in S
    BY <1>6
  <2>2. S = {c}
    BY <1>4, <2>1
  <2>3. Cardinality(S) = 1
    BY <2>2, FS_Singleton
  <2> QED BY <1>1, <2>3
<1> QED BY <1>5, <1>6

\* A router that leaves the call at hand leaves none Ollama is to work on.
LEMMA LeavesNone ==
    ASSUME PathType, OneCallEach, OllamaTimeout <= InferenceTimeout,
           NEW r \in Requests, RouterSteps(r), stage[r] = "infer"
    PROVE  \A c \in Calls : c[1] = r => ~Young(job, c)
<1> SUFFICES ASSUME NEW c \in Calls, c[1] = r, Young(job, c) PROVE FALSE
  OBVIOUS
<1>1. c = CallOf(r) /\ job[c].age = asked[r]
  BY DEF OneCallEach, OneCall
<1>2. job[c].at \in AtWork /\ ~(asked[r] >= OllamaTimeout)
  BY <1>1 DEF Young
<1>3. InferAnswered(r) \/ AdapterRefuses(r) \/ RouterGivesUp(r)
  BY DEF RouterSteps, CheckHealth, CheckFails, CheckRaises, Lookup, Background, Router!HealthOk,
     Router!HealthFail, Router!LookupHit, Router!LookupMiss, Router!PostAudit,
     Router!WriteCache, Router!NextTask
<1>4. CASE InferAnswered(r)
  BY <1>1, <1>2, <1>4 DEF InferAnswered, Adapter!Answered, AtWork
<1>5. CASE AdapterRefuses(r)
  BY <1>1, <1>2, <1>5 DEF AdapterRefuses, Adapter!NoJob, AtWork
<1>6. CASE RouterGivesUp(r)
  <2>1. /\ asked[r] >= InferenceTimeout /\ asked[r] \in 0..InferenceTimeout
        /\ InferenceTimeout \in Nat /\ OllamaTimeout \in Nat
    BY <1>6, PathAssumption DEF PathAssumption, RouterGivesUp, RouterDue, PathType, FrontType
  <2> QED BY <1>2, <2>1
<1> QED BY <1>3, <1>4, <1>5, <1>6

\* A request that is not with the adapter, or gets there now, with no call.
LEMMA NoCall ==
    ASSUME NEW j, NEW r, \A c \in Calls : c[1] = r => ~Young(j, c),
           NEW st, NEW d, NEW w, st = "infer" => w = 0
    PROVE  OneCall(j, r, st, d, w)
BY DEF OneCall

LEMMA RouterStepsOne ==
    ASSUME PathType, OneCallEach, OllamaTimeout <= InferenceTimeout,
           NEW r \in Requests, RouterSteps(r)
    PROVE  OneCallEach'
<1>1. /\ job' = job /\ asked' = [asked EXCEPT ![r] = 0] /\ RouteInv
      /\ asked \in [Requests -> 0..InferenceTimeout]
  BY DEF RouterSteps, adapter, PathType, FrontType
<1>2. /\ asked'[r] = 0
      /\ \A s \in Requests : s # r => asked'[s] = asked[s]
  BY <1>1
<1>3. Moves(r) \/ (stage[r] = "replied" /\ UNCHANGED <<stage, imf>>)
  <2>1. Router!Handler(r) \/ Router!Background(r)
    BY DEF RouterSteps, CheckHealth, CheckFails, CheckRaises, Lookup, InferAnswered,
       AdapterRefuses, RouterGivesUp, Background, Router!Handler, Router!Background
  <2> QED BY <1>1, <2>1, HandlerMoves, BackgroundMoves DEF RouteInv
<1>4. ASSUME NEW s \in Requests, s # r
      PROVE  OneCall(job, s, stage[s], CallOf(s), asked[s])'
  <2>1. stage'[s] = stage[s] /\ imf'[s] = imf[s]
    BY <1>3, <1>4 DEF Moves, OthersStay
  <2>2. CallOf(s)' = CallOf(s)
    BY <2>1 DEF CallOf
  <2>3. OneCall(job, s, stage[s], CallOf(s), asked[s])
    BY DEF OneCallEach
  <2> QED BY <1>1, <1>2, <1>4, <2>1, <2>2, <2>3
<1>5. \A c \in Calls : c[1] = r => ~Young(job, c)
  <2>1. CASE stage[r] = "infer"
    BY <2>1, LeavesNone
  <2>2. CASE stage[r] # "infer"
    <3>1. stage[r] # "lost"
      BY <1>3 DEF Moves, Refusal, Begins, GoesForth, FallsBack, Ends, Routing, RoutingStages
    <3> QED BY <2>2, <3>1 DEF OneCallEach, OneCall
  <2> QED BY <2>1, <2>2
<1>6. OneCall(job, r, stage'[r], CallOf(r)', asked'[r])
  BY <1>2, <1>5, NoCall
<1>7. OneCall(job, r, stage[r], CallOf(r), asked[r])'
  BY <1>1, <1>6
<1> QED BY <1>4, <1>7 DEF OneCallEach

LEMMA SendOne ==
    ASSUME PathType, OneCallEach, NEW r \in Requests, Send(r)
    PROVE  OneCallEach'
<1>1. /\ job' = job /\ asked' = asked /\ Router!Receive(r, BodyOf[r[1]]) /\ Router!TypeOK
      /\ BodyOf[r[1]] \in Bodies
  BY DEF Send, adapter, PathType, RouteInv, Requests, Bodies
<1>2. OthersStay(r) /\ (Refusal(r) \/ Begins(r))
  BY <1>1, ReceiveMoves
<1>3. ASSUME NEW s \in Requests, s # r
      PROVE  OneCall(job, s, stage[s], CallOf(s), asked[s])'
  <2>1. stage'[s] = stage[s] /\ imf'[s] = imf[s]
    BY <1>2, <1>3 DEF OthersStay
  <2>2. CallOf(s)' = CallOf(s)
    BY <2>1 DEF CallOf
  <2>3. OneCall(job, s, stage[s], CallOf(s), asked[s])
    BY DEF OneCallEach
  <2> QED BY <1>1, <2>1, <2>2, <2>3
<1>4. stage[r] = "new" /\ stage'[r] # "infer"
  BY <1>2 DEF Refusal, Begins
<1>5. \A c \in Calls : c[1] = r => ~Young(job, c)
  BY <1>4 DEF OneCallEach, OneCall
<1>6. OneCall(job, r, stage'[r], CallOf(r)', asked'[r])
  BY <1>4, <1>5, NoCall
<1>7. OneCall(job, r, stage[r], CallOf(r), asked[r])'
  BY <1>1, <1>6
<1> QED BY <1>3, <1>7 DEF OneCallEach

LEMMA DiesOne ==
    ASSUME PathType, OneCallEach, RouterDies
    PROVE  OneCallEach'
<1>1. job' = job /\ asked' = asked /\ Router!Crash /\ Router!TypeOK
  BY DEF RouterDies, adapter, PathType, RouteInv
<1>2. /\ imf' = imf
      /\ \A r \in Requests : \/ stage'[r] = stage[r] /\ stage[r] \notin RoutingStages
                             \/ stage'[r] = "lost"
  BY <1>1, CrashMoves
<1>3. ASSUME NEW r \in Requests
      PROVE  OneCall(job, r, stage[r], CallOf(r), asked[r])'
  <2>1. OneCall(job, r, stage[r], CallOf(r), asked[r])
    BY DEF OneCallEach
  <2>2. CallOf(r)' = CallOf(r)
    BY <1>2 DEF CallOf
  <2>3. OneCall(job, r, stage'[r], CallOf(r), asked[r])
    BY <1>2, <2>1 DEF OneCall
  <2> QED BY <1>1, <2>2, <2>3
<1> QED BY <1>3 DEF OneCallEach

LEMMA FrontOne ==
    ASSUME OneCallEach, UNCHANGED <<job, asked, stage, imf>>
    PROVE  OneCallEach'
<1>1. ASSUME NEW r \in Requests
      PROVE  OneCall(job, r, stage[r], CallOf(r), asked[r])'
  <2>1. OneCall(job, r, stage[r], CallOf(r), asked[r])
    BY DEF OneCallEach
  <2>2. CallOf(r)' = CallOf(r)
    BY DEF CallOf
  <2> QED BY <2>1, <2>2
<1> QED BY <1>1 DEF OneCallEach

\* What the adapter makes of the calls of a request that stays where it is.
LEMMA FinishesOne ==
    ASSUME NEW j \in [Calls -> Jobs], NEW k \in [Calls -> Jobs],
           \A c \in Calls : JobFinishes(j[c], k[c]),
           NEW r, NEW st, NEW d \in Calls, NEW w, OneCall(j, r, st, d, w)
    PROVE  OneCall(k, r, st, d, w)
<1>1. \A c \in Calls : Young(k, c) => Young(j, c) /\ k[c].age = j[c].age
  BY DEF JobFinishes, Young
<1>2. k[d] = Adapter!NoJob => j[d] = Adapter!NoJob
  BY DEF JobFinishes, Adapter!Job, Adapter!NoJob
<1> QED BY <1>1, <1>2 DEF OneCall

LEMMA AgesOne ==
    ASSUME NEW j \in [Calls -> Jobs], NEW k \in [Calls -> Jobs],
           \A c \in Calls : JobAges(j[c], k[c]),
           NEW r, NEW st, NEW d \in Calls, NEW w \in Nat, OneCall(j, r, st, d, w),
           st = "infer" => j[d].at \in AtWork,
           NEW v, v = IF st = "infer" THEN w + 1 ELSE w
    PROVE  OneCall(k, r, st, d, v)
<1>1. ASSUME NEW c \in Calls, Young(k, c)
      PROVE  Young(j, c) /\ k[c].age = j[c].age + 1
  <2>1. j[c].at \in AtWork
    BY <1>1 DEF JobAges, Young
  <2>2. k[c].age = j[c].age + 1
    BY <2>1 DEF JobAges
  <2>3. j[c].age \in Nat /\ OllamaTimeout \in Nat
    BY JobFacts, PathAssumption DEF PathAssumption
  <2>4. ~(k[c].age >= OllamaTimeout)
    BY <1>1 DEF Young
  <2>5. ~(j[c].age >= OllamaTimeout)
    BY <2>2, <2>3, <2>4
  <2> QED BY <2>1, <2>2, <2>5 DEF Young
<1>2. st = "infer" => k[d] # Adapter!NoJob
  BY DEF JobAges, Adapter!Job, Adapter!NoJob
<1>3. st = "infer" => \A c \in Calls : c[1] = r /\ Young(k, c) => c = d /\ k[c].age = v
  BY <1>1 DEF OneCall
<1>4. st \notin {"infer", "lost"} => \A c \in Calls : c[1] = r => ~Young(k, c)
  BY <1>1 DEF OneCall
<1>5. st = "lost" => \A c, e \in Calls :
         c[1] = r /\ Young(k, c) /\ e[1] = r /\ Young(k, e) => c = e
  BY <1>1 DEF OneCall
<1> QED BY <1>2, <1>3, <1>4, <1>5 DEF OneCall

\* A call that arrives is the one at hand, and was not waited for yet.
LEMMA StartsOne ==
    ASSUME NEW j \in [Calls -> Jobs], NEW k \in [Calls -> Jobs], NEW x \in Calls,
           j[x] = Adapter!NoJob, k[x] \in Adapter!Job, k[x].age = 0,
           \A c \in Calls : c # x => k[c] = j[c],
           NEW r, NEW st, NEW d \in Calls, NEW w, OneCall(j, r, st, d, w),
           x[1] = r => st = "infer" /\ x = d
    PROVE  OneCall(k, r, st, d, w)
<1>1. CASE x[1] # r
  <2>1. \A c \in Calls : c[1] = r => (Young(k, c) <=> Young(j, c)) /\ k[c] = j[c]
    BY <1>1 DEF Young
  <2>2. k[d] = Adapter!NoJob => j[d] = Adapter!NoJob
    BY DEF Adapter!Job, Adapter!NoJob
  <2> QED BY <2>1, <2>2 DEF OneCall
<1>2. CASE x[1] = r
  <2>1. st = "infer" /\ x = d /\ w = 0
    BY <1>2 DEF OneCall
  <2>2. k[d] # Adapter!NoJob
    BY <2>1 DEF Adapter!Job, Adapter!NoJob
  <2>3. \A c \in Calls : c # d => (Young(k, c) <=> Young(j, c))
    BY <2>1 DEF Young
  <2> QED BY <2>1, <2>2, <2>3 DEF OneCall
<1> QED BY <1>1, <1>2

\* Every call at hand is a call.
LEMMA CallOfType ==
    ASSUME RouteInv, NEW r \in Requests
    PROVE  CallOf(r)[1] = r /\ (Routing(r) => CallOf(r) \in Calls)
BY AwaitedCall DEF CallOf, RouteInv

LEMMA AdapterOne ==
    ASSUME PathType, OneCallEach, Next, AdapterSteps
    PROVE  OneCallEach'
<1>1. /\ UNCHANGED <<asked, stage, imf>> /\ RouteInv /\ Adapter!TypeOK
      /\ job \in [Calls -> Jobs]
      /\ AdapterActs \/ \E r \in Requests : CallArrives(r)
  BY DEF AdapterSteps, router, PathType, Adapter!TypeOK, Jobs, AdapterActs, AdapterWorks, AdapterFails
<1>2. PICK j \in [Calls -> Jobs] : j = job
  BY <1>1
<1>3. PICK k : k = job'
  OBVIOUS
<1>4. ASSUME NEW r \in Requests
      PROVE  OneCall(k, r, stage[r], CallOf(r), asked[r])
  <2>1. OneCall(j, r, stage[r], CallOf(r), asked[r])
    BY <1>2 DEF OneCallEach
  <2>2. CASE AdapterActs
    <3>1. k \in [Calls -> Jobs] /\ \A c \in Calls : JobFinishes(j[c], k[c])
      BY <1>1, <1>2, <1>3, <2>2, AdapterFinishes
    <3>2. CASE stage[r] = "infer"
      <4>1. CallOf(r) \in Calls
        BY <1>1, <3>2, CallOfType DEF Routing, RoutingStages
      <4> QED BY <2>1, <3>1, <4>1, FinishesOne
    <3>3. CASE stage[r] # "infer"
      <4>1. \A c \in Calls : Young(k, c) => Young(j, c)
        BY <3>1 DEF JobFinishes, Young
      <4> QED BY <2>1, <3>3, <4>1 DEF OneCall
    <3> QED BY <3>2, <3>3
  <2>3. CASE \E s \in Requests : CallArrives(s)
    <3>1. PICK s \in Requests : stage[s] = "infer" /\ Adapter!Infer(CallOf(s))
      BY <2>3 DEF CallArrives
    <3>2. CallOf(s) \in Calls /\ CallOf(s)[1] = s
      BY <1>1, <3>1, CallOfType DEF Routing, RoutingStages
    <3>3. PICK x \in Calls : x = CallOf(s)
      BY <3>2
    <3>4. /\ k \in [Calls -> Jobs]
          /\ j[x] = Adapter!NoJob /\ k[x] \in Adapter!Job /\ k[x].age = 0
          /\ \A c \in Calls : c # x => k[c] = j[c]
      BY <1>1, <1>2, <1>3, <3>1, <3>3, InferStarts
    <3>5. x[1] = r => r = s
      BY <3>2, <3>3
    <3>6. CASE stage[r] = "infer"
      <4>1. CallOf(r) \in Calls
        BY <1>1, <3>6, CallOfType DEF Routing, RoutingStages
      <4>2. x[1] = r => stage[r] = "infer" /\ x = CallOf(r)
        BY <3>3, <3>5, <3>6
      <4> QED BY <2>1, <3>4, <4>1, <4>2, StartsOne
    <3>7. CASE stage[r] # "infer"
      <4>1. x[1] # r
        BY <3>1, <3>5, <3>7
      <4>2. \A c \in Calls : c[1] = r => (Young(k, c) <=> Young(j, c))
        BY <3>4, <4>1 DEF Young
      <4> QED BY <2>1, <3>7, <4>2 DEF OneCall
    <3> QED BY <3>6, <3>7
  <2> QED BY <1>1, <2>2, <2>3
<1>5. ASSUME NEW r \in Requests
      PROVE  OneCall(job, r, stage[r], CallOf(r), asked[r])'
  <2>1. CallOf(r)' = CallOf(r)
    BY <1>1 DEF CallOf
  <2> QED BY <1>1, <1>3, <1>4, <2>1
<1> QED BY <1>5 DEF OneCallEach

LEMMA TickOne ==
    ASSUME PathType, OneCallEach, Tick
    PROVE  OneCallEach'
<1>1. /\ UNCHANGED <<stage, imf>> /\ RouteInv /\ Adapter!TypeOK
      /\ job \in [Calls -> Jobs] /\ asked \in [Requests -> 0..InferenceTimeout]
      /\ Adapter!Quiet /\ Adapter!Age /\ \A r \in Requests : ~Busy(r)
      /\ asked' = Waited(asked, {r \in Requests : stage[r] = "infer"})
  BY DEF Tick, router, PathType, FrontType, Adapter!TypeOK, Jobs
<1>2. PICK j \in [Calls -> Jobs] : j = job
  BY <1>1
<1>3. PICK k : k = job'
  OBVIOUS
<1>4. k \in [Calls -> Jobs] /\ \A c \in Calls : JobAges(j[c], k[c])
  BY <1>1, <1>2, <1>3, AdapterAges
<1>5. ASSUME NEW r \in Requests
      PROVE  OneCall(k, r, stage[r], CallOf(r), asked'[r])
  <2>1. OneCall(j, r, stage[r], CallOf(r), asked[r])
    BY <1>2 DEF OneCallEach
  <2>2. asked'[r] = IF stage[r] = "infer" THEN asked[r] + 1 ELSE asked[r]
    BY <1>1 DEF Waited
  <2>3. asked[r] \in Nat
    BY <1>1, PathAssumption DEF PathAssumption
  <2>4. CASE stage[r] = "infer"
    <3>1. CallOf(r) \in Calls
      BY <1>1, <2>4, CallOfType DEF Routing, RoutingStages
    <3>2. j[CallOf(r)].at \in AtWork
      BY <1>1, <1>2, <2>4 DEF Busy, Adapter!Running, AtWork
    <3> QED BY <1>4, <2>1, <2>2, <2>3, <3>1, <3>2, AgesOne
  <2>5. CASE stage[r] # "infer"
    <3>1. \A c \in Calls : Young(k, c) => Young(j, c)
      <4> SUFFICES ASSUME NEW c \in Calls, Young(k, c) PROVE Young(j, c)
        OBVIOUS
      <4>1. j[c].at \in AtWork /\ k[c].age = j[c].age + 1
        BY <1>4 DEF JobAges, Young
      <4>2. j[c].age \in Nat /\ OllamaTimeout \in Nat
        BY JobFacts, PathAssumption DEF PathAssumption
      <4>3. ~(k[c].age >= OllamaTimeout)
        BY DEF Young
      <4>4. ~(j[c].age >= OllamaTimeout)
        BY <4>1, <4>2, <4>3
      <4> QED BY <4>1, <4>4 DEF Young
    <3> QED BY <2>1, <2>5, <3>1 DEF OneCall
  <2> QED BY <2>4, <2>5
<1>6. ASSUME NEW r \in Requests
      PROVE  OneCall(job, r, stage[r], CallOf(r), asked[r])'
  <2>1. CallOf(r)' = CallOf(r)
    BY <1>1 DEF CallOf
  <2> QED BY <1>1, <1>3, <1>5, <2>1
<1> QED BY <1>6 DEF OneCallEach

LEMMA NextOne ==
    ASSUME PathType, OneCallEach, OllamaTimeout <= InferenceTimeout, Next
    PROVE  OneCallEach'
<1>1. CASE \E r \in Requests : Send(r)
  BY <1>1, SendOne
<1>2. CASE \E r \in Requests : FrontSteps(r)
  <2>1. UNCHANGED <<job, asked, stage, imf>>
    BY <1>2 DEF FrontSteps, Deliver, Broken, GatewayGivesUp, LayerGivesUp, router, adapter
  <2> QED BY <2>1, FrontOne
<1>3. CASE \E r \in Requests : RouterSteps(r)
  BY <1>3, RouterStepsOne
<1>4. CASE RouterDies
  BY <1>4, DiesOne
<1>5. CASE AdapterSteps
  BY <1>5, AdapterOne
<1>6. CASE Tick
  BY <1>6, TickOne
<1> QED BY <1>1, <1>2, <1>3, <1>4, <1>5, <1>6 DEF Next

LEMMA InitOne == Init => OneCallEach
<1> SUFFICES ASSUME Init, NEW r \in Requests PROVE OneCall(job, r, stage[r], CallOf(r), asked[r])
  BY DEF OneCallEach
<1>1. stage[r] = "new" /\ job = [c \in Calls |-> Adapter!NoJob]
  BY DEF Init, Router!Init, Adapter!Init
<1> QED BY <1>1 DEF OneCall, Young, Adapter!NoJob, AtWork

\* Where the adapter waits for Ollama no longer than the router waits for the
\* adapter, as the defaults of both have it, Ollama works on one text at a
\* time for each request, whatever falls back, times out, dies or restarts.
THEOREM OneTextAtATime ==
    ASSUME OllamaTimeout <= InferenceTimeout
    PROVE  Spec => []OneGenerationEach
<1>1. PathType /\ [Next]_vars => PathType'
  BY NextType, StayPathType
<1>2. PathType /\ OneCallEach /\ [Next]_vars => OneCallEach'
  <2>1. UNCHANGED vars => UNCHANGED <<job, asked, stage, imf>>
    BY DEF vars, router, adapter
  <2> QED BY <2>1, NextOne, FrontOne
<1> QED BY <1>1, <1>2, InitPathType, InitOne, OneCallSuffices, PTL DEF Spec

(***************************************************************************)
(* A slow model is not a broken one                                        *)
(***************************************************************************)
\* What becomes of a call while nothing goes wrong.
Sound(j) ==
    \/ j = Adapter!NoJob
    \/ j.at = "chat" /\ j.age <= MaxGeneration
    \/ j.at = "done" /\ j.age <= MaxGeneration /\ j.answer \in {"ok", "model_not_loaded"}

\* The adapter did not send the call to Ollama, and does not any more.
Unsent(j) == j = Adapter!NoJob \/ j.answer = "model_not_loaded"

\* A request that left its first model, or ended without a text of it, did so
\* because that one was not sent to Ollama.
LeftFirst(st, i, rep) ==
    \/ st \in RoutingStages /\ i.level # 0
    \/ st = "replied" /\ (~Says200(rep) \/ i.level # 0)

FirstOf(r, f) == <<r, f.chain[1]>>

SlowOf(j, r, st, f, i, rep) ==
    f.chain # <<>> /\ LeftFirst(st, i, rep) => Unsent(j[FirstOf(r, f)])

AskedOf(j, st, d, w) == st = "infer" => w <= j[d].age

AllThere == ollama.up /\ ollama.models = Models /\ loaded \subseteq Models

\* No name without an entry was sent to Ollama.
NamesUnsent(j) == \A c \in Calls : c[2] \notin Models => Unsent(j[c])

NothingBroke ==
    /\ AllThere /\ NamesUnsent(job)
    /\ \A c \in Calls : Sound(job[c])
    /\ \A r \in Requests : AskedOf(job, stage[r], CallOf(r), asked[r])
    /\ \A r \in Requests : SlowOf(job, r, stage[r], fallback[r], imf[r], reply[r])

SlowInv == faults = 0 => NothingBroke

LEMMA SlowSuffices == SlowInv => SlowIsNotBroken
<1> SUFFICES ASSUME SlowInv, NEW r \in Requests, faults = 0, stage[r] = "replied",
                    fallback[r].chain # <<>>,
                    job[<<r, fallback[r].chain[1]>>].answer \notin {"none", "model_not_loaded"}
             PROVE  reply[r].status = 200 /\ imf[r].level = 0
  BY DEF SlowIsNotBroken
<1>1. SlowOf(job, r, stage[r], fallback[r], imf[r], reply[r])
  BY DEF SlowInv, NothingBroke
<1>2. ~Unsent(job[FirstOf(r, fallback[r])])
  BY DEF Unsent, FirstOf, Adapter!NoJob
<1> QED BY <1>1, <1>2 DEF SlowOf, LeftFirst, Says200

\* A fault is counted.
LEMMA FaultCounts ==
    ASSUME FrontType, Fault
    PROVE  faults' # 0
BY PathAssumption DEF PathAssumption, Fault, FrontType

\* While nothing goes wrong, what the router does about r.
LEMMA SoundSteps ==
    ASSUME PathType, NothingBroke, NEW r \in Requests, RouterSteps(r), faults' = 0
    PROVE  /\ faults = 0
           /\ \/ Router!HealthOk(r) \/ Router!LookupMiss(r) \/ (\E e \in cache : Router!LookupHit(r, e))
              \/ Router!InferOk(r) \/ Router!Background(r)
              \/ (Router!InferFail(r) \/ Router!Raises(r)) /\ Unsent(job[CallOf(r)])
<1>1. FrontType /\ ~Fault
  BY FaultCounts DEF PathType
<1>2. CASE CheckHealth(r)
  BY <1>2 DEF CheckHealth, Fine
<1>3. CASE CheckFails(r)
  BY <1>1, <1>3 DEF CheckFails, NothingBroke, AllThere
<1>4. CASE Lookup(r)
  BY <1>1, <1>4 DEF Lookup, Fine
<1>5. CASE InferAnswered(r)
  <2>1. CallOf(r) \in Adapter!Answered /\ Fine
    BY <1>5 DEF InferAnswered
  <2>2. CallOf(r) \in Calls /\ job[CallOf(r)].at = "done"
    BY <2>1 DEF Adapter!Answered
  <2>3. job[CallOf(r)].answer \in {"ok", "model_not_loaded"}
    BY <2>2 DEF NothingBroke, Sound, Adapter!NoJob
  <2>4. \/ Router!InferOk(r)
        \/ Router!InferFail(r) /\ job[CallOf(r)].answer = "model_not_loaded"
    BY <1>5, <2>3 DEF InferAnswered
  <2> QED BY <2>1, <2>4 DEF Unsent, Fine
<1>6. CASE AdapterRefuses(r)
  BY <1>6 DEF AdapterRefuses, Unsent
<1>7. CASE RouterGivesUp(r)
  <2>1. stage[r] = "infer" /\ asked[r] >= InferenceTimeout
    BY <1>7 DEF RouterGivesUp, RouterDue
  <2>2. CallOf(r) \in Calls
    BY <2>1, CallOfType DEF PathType, Routing, RoutingStages
  <2>3. asked[r] <= job[CallOf(r)].age /\ Sound(job[CallOf(r)])
    BY <2>1, <2>2 DEF NothingBroke, AskedOf
  <2>4. job[CallOf(r)].age <= MaxGeneration
    BY <2>3, PathAssumption DEF PathAssumption, Sound, Adapter!NoJob
  <2>5. /\ job[CallOf(r)].age \in Nat /\ asked[r] \in 0..InferenceTimeout
        /\ MaxGeneration \in Nat /\ InferenceTimeout \in Nat /\ MaxGeneration < InferenceTimeout
    BY <1>1, <2>2, JobFacts, PathAssumption
    DEF PathAssumption, PathType, FrontType, Adapter!TypeOK, Jobs
  <2> QED BY <2>1, <2>3, <2>4, <2>5
<1>8. CASE Background(r)
  BY <1>1, <1>8 DEF Background, Router!Background, Fine
<1>9. CASE CheckRaises(r)
  <2>1. /\ Router!Raises(r) /\ faults = 0
        /\ Routing(r) /\ imf[r].selected \notin Models
    BY <1>1, <1>9 DEF CheckRaises, Fine, Routing, RoutingStages
  <2>2. CallOf(r) \in Calls /\ CallOf(r)[2] \notin Models
    BY <2>1, CallOfType DEF PathType, CallOf
  <2> QED BY <2>1, <2>2 DEF NothingBroke, NamesUnsent
<1> QED BY <1>2, <1>3, <1>4, <1>5, <1>6, <1>7, <1>8, <1>9 DEF RouterSteps

LEMMA LevelIsIndex ==
    ASSUME Router!TypeOK, NEW r \in Requests, InStep(r)
    PROVE  /\ imf[r].level = fallback[r].index /\ imf[r].level \in Nat
           /\ fallback[r].chain # <<>>
           /\ imf[r].selected = fallback[r].chain[imf[r].level + 1]
           /\ CallOf(r) = FirstOf(r, fallback[r]) <=> imf[r].level = 0
<1>1. PICK f \in Router!FallbackState : f = fallback[r]
  BY DEF Router!TypeOK
<1>2. PICK i : i = imf[r]
  OBVIOUS
<1>3. InStepOf(f, i)
  BY <1>1, <1>2 DEF InStep
<1>4. /\ i.level = f.index /\ f.index \in Nat /\ f.index < Len(f.chain) /\ Len(f.chain) \in Nat
      /\ i.selected = f.chain[f.index + 1] /\ f.chain # <<>>
  BY <1>3 DEF InStepOf, Router!SelectedModel, Router!FallbackState
<1>5. f.index + 1 \in 1..Len(f.chain) /\ 1 \in 1..Len(f.chain)
  BY <1>4
<1>6. f.chain[f.index + 1] = f.chain[1] <=> f.index = 0
  <2>1. f.chain[f.index + 1] = f.chain[1] => f.index + 1 = 1
    BY <1>3, <1>5 DEF InStepOf
  <2> QED BY <1>4, <2>1
<1>7. CallOf(r) = FirstOf(r, f) <=> i.selected = f.chain[1]
  BY <1>2 DEF CallOf, FirstOf
<1> QED BY <1>1, <1>2, <1>4, <1>6, <1>7

\* The first call of a request that has a chain is a call.
LEMMA FirstCall ==
    ASSUME NEW r \in Requests, NEW f \in Router!FallbackState, f.chain # <<>>
    PROVE  FirstOf(r, f) \in Calls /\ FirstOf(r, f)[1] = r
<1>1. f.chain[1] \in Router!Names
  BY DEF Router!FallbackState
<1> QED BY <1>1 DEF FirstOf, Calls, Router!Names

LEMMA SlowRouter ==
    ASSUME PathType, NothingBroke, NEW r \in Requests, RouterSteps(r), faults' = 0
    PROVE  NothingBroke'
<1>1. /\ UNCHANGED <<process, loaded, job, ollama>> /\ asked' = [asked EXCEPT ![r] = 0]
      /\ Router!TypeOK /\ RoutingInStep /\ RouteInv
      /\ asked \in [Requests -> 0..InferenceTimeout] /\ job \in [Calls -> Jobs]
  BY DEF RouterSteps, adapter, PathType, FrontType, RouteInv, Adapter!TypeOK, Jobs
<1>2. \/ Router!HealthOk(r) \/ Router!LookupMiss(r) \/ (\E e \in cache : Router!LookupHit(r, e))
      \/ Router!InferOk(r) \/ Router!Background(r)
      \/ (Router!InferFail(r) \/ Router!Raises(r)) /\ Unsent(job[CallOf(r)])
  BY SoundSteps
<1>3. asked'[r] = 0 /\ \A s \in Requests : s # r => asked'[s] = asked[s]
  BY <1>1
<1>4. OthersStay(r)
  <2>1. Router!Handler(r) \/ Router!Background(r)
    BY <1>2 DEF Router!Handler
  <2>2. Router!Handler(r) => OthersStay(r)
    BY <1>1, HandlerMoves DEF Moves
  <2>3. Router!Background(r) => OthersStay(r)
    BY BackgroundMoves DEF OthersStay
  <2> QED BY <2>1, <2>2, <2>3
<1>5. ASSUME NEW s \in Requests, s # r
      PROVE  /\ AskedOf(job, stage'[s], CallOf(s)', asked'[s])
             /\ SlowOf(job, s, stage'[s], fallback'[s], imf'[s], reply'[s])
  <2>1. stage'[s] = stage[s] /\ imf'[s] = imf[s] /\ fallback'[s] = fallback[s] /\ reply'[s] = reply[s]
    BY <1>4, <1>5 DEF OthersStay
  <2>2. CallOf(s)' = CallOf(s)
    BY <2>1 DEF CallOf
  <2>3. /\ AskedOf(job, stage[s], CallOf(s), asked[s])
        /\ SlowOf(job, s, stage[s], fallback[s], imf[s], reply[s])
    BY DEF NothingBroke
  <2> QED BY <1>3, <1>5, <2>1, <2>2, <2>3
<1>6. SlowOf(job, r, stage[r], fallback[r], imf[r], reply[r])
  BY DEF NothingBroke
<1>7. /\ stage'[r] = "infer" => CallOf(r)' \in Calls
      /\ SlowOf(job, r, stage'[r], fallback'[r], imf'[r], reply'[r])
  <2>1. CASE Router!HealthOk(r) \/ Router!LookupMiss(r)
    <3>1. GoesForth(r)
      BY <1>1, <2>1, CallStepMoves
    <3>2. Routing(r) /\ CallOf(r) \in Calls
      BY <1>1, <3>1, CallOfType DEF GoesForth, Routing, RoutingStages
    <3>3. CallOf(r)' = CallOf(r)
      BY <3>1 DEF CallOf, GoesForth, SameRoute
    <3>4. LeftFirst(stage'[r], imf'[r], reply'[r]) => LeftFirst(stage[r], imf[r], reply[r])
      BY <3>1, <3>2 DEF LeftFirst, GoesForth, SameRoute, Routing, RoutingStages
    <3> QED BY <1>6, <3>1, <3>2, <3>3, <3>4 DEF SlowOf, GoesForth
  <2>2. CASE (\E e \in cache : Router!LookupHit(r, e)) \/ Router!InferOk(r)
    <3>1. Ends(r) /\ Says200(reply'[r])
      <4>1. CASE \E e \in cache : Router!LookupHit(r, e)
        <5>1. PICK e \in cache : Router!LookupHit(r, e)
          BY <4>1
        <5>2. Router!TypeOK
          BY <1>1
        <5>3. Ends(r) /\ reply'[r] = [status |-> 200, error |-> "none"]
          BY <5>1, <5>2, HitMoves
        <5> QED BY <5>3 DEF Says200
      <4>2. CASE Router!InferOk(r)
        <5>1. Ends(r) /\ reply'[r] = [status |-> 200, error |-> "none"]
          BY <1>1, <4>2, OkMoves
        <5> QED BY <5>1 DEF Says200
      <4> QED BY <2>2, <4>1, <4>2
    <3>2. LeftFirst(stage'[r], imf'[r], reply'[r]) => LeftFirst(stage[r], imf[r], reply[r])
      BY <3>1 DEF LeftFirst, Ends, SameRoute, Routing, RoutingStages
    <3> QED BY <1>6, <3>1, <3>2 DEF SlowOf, Ends
  <2>3. CASE Router!Background(r)
    <3>1. UNCHANGED <<stage, fallback, imf, reply>> /\ stage[r] = "replied"
      BY <2>3, BackgroundMoves
    <3> QED BY <1>6, <3>1
  <2>4. CASE (Router!InferFail(r) \/ Router!Raises(r)) /\ Unsent(job[CallOf(r)])
    <3>1. Routing(r) /\ InStep(r)
      BY <1>1, <2>4 DEF Router!InferFail, Router!Raises, Routing, RoutingStages, RoutingInStep
    <3>2. FallsBack(r) \/ Ends(r)
      BY <1>1, <2>4, FailMoves, RaisesMoves
    <3>3. stage'[r] # "infer" /\ fallback'[r].chain = fallback[r].chain
      BY <1>1, <3>1, <3>2, FallsBackInStep DEF FallsBack, Ends
    <3>4. FirstOf(r, fallback'[r]) = FirstOf(r, fallback[r])
      BY <3>3 DEF FirstOf
    <3>5. Unsent(job[FirstOf(r, fallback[r])])
      <4>1. CASE imf[r].level = 0
        BY <1>1, <2>4, <3>1, <4>1, LevelIsIndex
      <4>2. CASE imf[r].level # 0
        BY <1>1, <1>6, <3>1, <4>2, LevelIsIndex DEF SlowOf, LeftFirst, Routing
      <4> QED BY <4>1, <4>2
    <3> QED BY <3>3, <3>4, <3>5 DEF SlowOf
  <2> QED BY <1>2, <2>1, <2>2, <2>3, <2>4
<1>8. AskedOf(job, stage'[r], CallOf(r)', asked'[r])
  <2> SUFFICES ASSUME stage'[r] = "infer" PROVE 0 <= job[CallOf(r)'].age
    BY <1>3 DEF AskedOf
  <2>1. PICK c \in Calls : c = CallOf(r)'
    BY <1>7
  <2>2. job[c].age \in Nat
    BY <1>1, JobFacts
  <2> QED BY <2>1, <2>2
<1>9. AllThere' /\ \A c \in Calls : Sound(job'[c])
  BY <1>1 DEF NothingBroke, AllThere
<1>10. \A s \in Requests :
          /\ AskedOf(job, stage'[s], CallOf(s)', asked'[s])
          /\ SlowOf(job, s, stage'[s], fallback'[s], imf'[s], reply'[s])
  BY <1>5, <1>7, <1>8
<1>11. job' = job /\ NamesUnsent(job)
  BY <1>1 DEF NothingBroke
<1> QED BY <1>9, <1>10, <1>11 DEF NothingBroke

LEMMA SlowSend ==
    ASSUME PathType, NothingBroke, NEW r \in Requests, Send(r)
    PROVE  NothingBroke'
<1>1. /\ UNCHANGED <<process, loaded, job, ollama, asked>> /\ RouteInv /\ Router!TypeOK
      /\ Router!Receive(r, BodyOf[r[1]]) /\ BodyOf[r[1]] \in Bodies
  BY DEF Send, adapter, PathType, RouteInv, Requests, Bodies
<1>2. OthersStay(r) /\ (Refusal(r) \/ Begins(r))
  BY <1>1, ReceiveMoves
<1>3. stage[r] = "new" /\ stage'[r] # "infer"
  BY <1>2 DEF Refusal, Begins
<1>4. SlowOf(job, r, stage'[r], fallback'[r], imf'[r], reply'[r])
  <2>1. CASE Refusal(r)
    <3>1. fallback'[r].chain = <<>>
      BY <1>1, <1>3, <2>1 DEF RouteInv, Refusal
    <3> QED BY <3>1 DEF SlowOf
  <2>2. CASE Begins(r)
    BY <2>2 DEF Begins, SlowOf, LeftFirst, InStepOf
  <2> QED BY <1>2, <2>1, <2>2
<1>5. ASSUME NEW s \in Requests
      PROVE  /\ AskedOf(job, stage'[s], CallOf(s)', asked[s])
             /\ SlowOf(job, s, stage'[s], fallback'[s], imf'[s], reply'[s])
  <2>1. CASE s = r
    BY <1>3, <1>4, <2>1 DEF AskedOf
  <2>2. CASE s # r
    <3>1. stage'[s] = stage[s] /\ imf'[s] = imf[s] /\ fallback'[s] = fallback[s] /\ reply'[s] = reply[s]
      BY <1>2, <2>2 DEF OthersStay
    <3>2. CallOf(s)' = CallOf(s)
      BY <3>1 DEF CallOf
    <3>3. /\ AskedOf(job, stage[s], CallOf(s), asked[s])
          /\ SlowOf(job, s, stage[s], fallback[s], imf[s], reply[s])
      BY DEF NothingBroke
    <3> QED BY <3>1, <3>2, <3>3
  <2> QED BY <2>1, <2>2
<1>6. AllThere' /\ NamesUnsent(job) /\ \A c \in Calls : Sound(job[c])
  BY <1>1 DEF NothingBroke, AllThere
<1> QED BY <1>1, <1>5, <1>6 DEF NothingBroke

LEMMA SlowFront ==
    ASSUME NothingBroke, UNCHANGED <<router, adapter, asked>>
    PROVE  NothingBroke'
<1>1. /\ UNCHANGED <<stage, fallback, imf, reply>>
      /\ UNCHANGED <<loaded, job, ollama, asked>>
  BY DEF router, adapter
<1>2. ASSUME NEW r \in Requests
      PROVE  /\ AskedOf(job, stage[r], CallOf(r)', asked[r])
             /\ SlowOf(job, r, stage[r], fallback[r], imf[r], reply[r])
  <2>1. CallOf(r)' = CallOf(r)
    BY <1>1 DEF CallOf
  <2> QED BY <2>1 DEF NothingBroke
<1>3. AllThere' /\ NamesUnsent(job) /\ \A c \in Calls : Sound(job[c])
  BY <1>1 DEF NothingBroke, AllThere
<1> QED BY <1>1, <1>2, <1>3 DEF NothingBroke

\* A call that goes on or ends, and one that starts, while nothing goes wrong.
LEMMA UnsentStays ==
    ASSUME NEW j \in Jobs, NEW k, Unsent(j), JobFinishes(j, k) \/ JobAges(j, k)
    PROVE  Unsent(k)
<1>1. j.at \notin AtWork
  BY JobFacts DEF Unsent, Adapter!NoJob, AtWork
<1> QED BY <1>1 DEF JobFinishes, JobAges

LEMMA SoundAges ==
    ASSUME NEW j \in Jobs, NEW k, Sound(j), JobAges(j, k),
           j.at = "chat" => j.age < MaxGeneration
    PROVE  Sound(k)
<1>1. MaxGeneration \in Nat /\ j.age \in Nat
  BY JobFacts, PathAssumption DEF PathAssumption
<1>2. CASE j.at = "chat"
  <2>1. k.at = "chat" /\ k.age = j.age + 1
    BY <1>2 DEF JobAges, AtWork
  <2>2. k.age <= MaxGeneration
    BY <1>1, <1>2, <2>1
  <2> QED BY <2>1, <2>2 DEF Sound
<1>3. CASE j.at # "chat"
  BY <1>3 DEF Sound, JobAges, AtWork, Adapter!NoJob
<1> QED BY <1>2, <1>3

\* The adapter and Ollama, nothing going wrong.
LEMMA WorksSound ==
    ASSUME Adapter!TypeOK, AllThere, \A c \in Calls : Sound(job[c]), AdapterWorks
    PROVE  AllThere' /\ \A c \in Calls : Sound(job'[c])
<1>1. CASE Adapter!Start \/ Adapter!Listed
  BY <1>1 DEF Adapter!Start, Adapter!Listed, AllThere
<1>2. ASSUME NEW c \in Calls, Adapter!Works(c)
      PROVE  AllThere' /\ \A d \in Calls : Sound(job'[d])
  <2>1. job \in [Calls -> Jobs] /\ Sound(job[c])
    BY DEF Adapter!TypeOK, Jobs
  <2>2. PICK j \in Jobs : j = job[c]
    BY <2>1
  <2>3. c \in Adapter!Running
    BY <1>2 DEF Adapter!Works, Adapter!Generated, Adapter!TurnedAway, Adapter!ChatTimesOut,
       Adapter!Answer
  <2>4. j.at = "chat" /\ j.age <= MaxGeneration
    BY <2>1, <2>2, <2>3 DEF Adapter!Running, Sound, Adapter!NoJob
  <2>5. ~(j.age >= OllamaTimeout)
    BY <2>2, <2>4, JobFacts, PathAssumption DEF PathAssumption
  <2>6. Adapter!Answer(c, "ok")
    BY <1>2, <2>2, <2>4, <2>5
    DEF Adapter!Works, Adapter!Generated, Adapter!TurnedAway, Adapter!ChatTimesOut, Adapter!Due
  <2>7. PICK k : k = Ended(j, "ok")
    OBVIOUS
  <2>8. "ok" \in Adapter!Answers /\ j.at \in AtWork
    BY <2>4 DEF Adapter!Answers, AtWork
  <2>9. k.at = "done" /\ k.age = j.age /\ k.answer = "ok"
    BY <2>7, <2>8, JobEnds
  <2>10. Sound(k)
    BY <2>4, <2>9 DEF Sound
  <2>11. job' = [job EXCEPT ![c] = k] /\ UNCHANGED <<loaded, ollama>>
    BY <2>2, <2>6, <2>7 DEF Adapter!Answer, Ended
  <2> QED BY <2>1, <2>10, <2>11 DEF AllThere
<1> QED BY <1>1, <1>2 DEF AdapterWorks

LEMMA InferSound ==
    ASSUME Adapter!TypeOK, AllThere, \A c \in Calls : Sound(job[c]),
           NEW x \in Calls, Adapter!Infer(x)
    PROVE  /\ AllThere' /\ \A c \in Calls : Sound(job'[c])
           /\ x[2] \notin Models => Unsent(job'[x])
<1>1. job \in [Calls -> Jobs] /\ MaxGeneration \in Nat
  BY PathAssumption DEF Adapter!TypeOK, Jobs, PathAssumption
<1>2. UNCHANGED <<loaded, ollama>> /\ job[x] = Adapter!NoJob
  BY DEF Adapter!Infer
<1>3. PICK n : n = [job[x] EXCEPT !.at = "done"]
  OBVIOUS
<1>4. n = [at |-> "done", age |-> 0, answer |-> "none"]
  BY <1>2, <1>3 DEF Adapter!NoJob
<1>5. PICK k : /\ k = IF ModelOf[x] \notin loaded THEN [n EXCEPT !.answer = "model_not_loaded"]
                      ELSE [job[x] EXCEPT !.at = "chat"]
               /\ job' = [job EXCEPT ![x] = k]
  BY <1>3 DEF Adapter!Infer, AllThere
<1>6. \/ k = [at |-> "done", age |-> 0, answer |-> "model_not_loaded"]
      \/ k = [at |-> "chat", age |-> 0, answer |-> "none"]
  BY <1>2, <1>4, <1>5 DEF Adapter!NoJob
<1>7. 0 <= MaxGeneration
  BY <1>1
<1>8. Sound(k)
  BY <1>6, <1>7 DEF Sound
<1>9. x[2] \notin Models => Unsent(k)
  <2>1. ModelOf[x] = x[2]
    BY DEF ModelOf
  <2> QED BY <1>2, <1>4, <1>5, <2>1 DEF Unsent, AllThere
<1> QED BY <1>1, <1>2, <1>5, <1>8, <1>9 DEF AllThere

LEMMA SlowAdapter ==
    ASSUME PathType, NothingBroke, AdapterSteps, faults' = 0
    PROVE  NothingBroke'
<1>1. /\ UNCHANGED <<asked, stage, imf, fallback, reply>> /\ RouteInv /\ Adapter!TypeOK
      /\ FrontType /\ job \in [Calls -> Jobs] /\ AllThere /\ \A c \in Calls : Sound(job[c])
      /\ NamesUnsent(job)
  BY DEF AdapterSteps, router, PathType, Adapter!TypeOK, Jobs, NothingBroke
<1>2. AdapterWorks \/ \E r \in Requests : CallArrives(r)
  BY <1>1, FaultCounts DEF AdapterSteps
<1>3. CASE AdapterWorks
  <2>1. AdapterActs
    BY <1>3 DEF AdapterWorks, AdapterActs
  <2>2. \A c \in Calls : JobFinishes(job[c], job'[c])
    BY <1>1, <2>1, AdapterFinishes
  <2>3. AllThere' /\ \A c \in Calls : Sound(job'[c])
    BY <1>1, <1>3, WorksSound
  <2>4. ASSUME NEW r \in Requests
        PROVE  /\ AskedOf(job', stage[r], CallOf(r)', asked[r])
               /\ SlowOf(job', r, stage[r], fallback[r], imf[r], reply[r])
    <3>1. /\ AskedOf(job, stage[r], CallOf(r), asked[r])
          /\ SlowOf(job, r, stage[r], fallback[r], imf[r], reply[r])
      BY DEF NothingBroke
    <3>2. CallOf(r)' = CallOf(r)
      BY <1>1 DEF CallOf
    <3>3. ASSUME stage[r] = "infer"
          PROVE  asked[r] <= job'[CallOf(r)].age
      <4>1. CallOf(r) \in Calls
        BY <1>1, <3>3, CallOfType DEF Routing, RoutingStages
      <4>2. job'[CallOf(r)].age = job[CallOf(r)].age
        BY <2>2, <4>1 DEF JobFinishes
      <4> QED BY <3>1, <3>3, <4>2 DEF AskedOf
    <3>4. ASSUME fallback[r].chain # <<>>, Unsent(job[FirstOf(r, fallback[r])])
          PROVE  Unsent(job'[FirstOf(r, fallback[r])])
      <4>1. PICK c \in Calls : c = FirstOf(r, fallback[r])
        BY <1>1, <3>4, FirstCall DEF RouteInv, Router!TypeOK
      <4>2. job[c] \in Jobs /\ Unsent(job[c]) /\ JobFinishes(job[c], job'[c])
        BY <1>1, <2>2, <3>4, <4>1
      <4>3. Unsent(job'[c])
        BY <4>2, UnsentStays
      <4> QED BY <4>1, <4>3
    <3> QED BY <3>1, <3>2, <3>3, <3>4 DEF AskedOf, SlowOf
  <2>5. NamesUnsent(job')
    BY <1>1, <2>2, UnsentStays DEF NamesUnsent
  <2> QED BY <1>1, <2>3, <2>4, <2>5 DEF NothingBroke
<1>4. CASE \E r \in Requests : CallArrives(r)
  <2>1. PICK s \in Requests : stage[s] = "infer" /\ Adapter!Infer(CallOf(s))
    BY <1>4 DEF CallArrives
  <2>2. CallOf(s) \in Calls /\ CallOf(s)[1] = s /\ Routing(s)
    BY <1>1, <2>1, CallOfType DEF Routing, RoutingStages
  <2>3. PICK x \in Calls : x = CallOf(s)
    BY <2>2
  <2>4. /\ job[x] = Adapter!NoJob /\ job'[x].age = 0
        /\ \A d \in Calls : d # x => job'[d] = job[d]
    BY <1>1, <2>1, <2>3, InferStarts
  <2>5. /\ AllThere' /\ \A c \in Calls : Sound(job'[c])
        /\ x[2] \notin Models => Unsent(job'[x])
    BY <1>1, <2>1, <2>3, InferSound
  <2>6. \A c \in Calls : job'[c].age = job[c].age
    BY <2>4 DEF Adapter!NoJob
  <2>7. ASSUME NEW r \in Requests
        PROVE  /\ AskedOf(job', stage[r], CallOf(r)', asked[r])
               /\ SlowOf(job', r, stage[r], fallback[r], imf[r], reply[r])
    <3>1. /\ AskedOf(job, stage[r], CallOf(r), asked[r])
          /\ SlowOf(job, r, stage[r], fallback[r], imf[r], reply[r])
      BY DEF NothingBroke
    <3>2. CallOf(r)' = CallOf(r)
      BY <1>1 DEF CallOf
    <3>3. ASSUME stage[r] = "infer"
          PROVE  asked[r] <= job'[CallOf(r)].age
      <4>1. CallOf(r) \in Calls
        BY <1>1, <3>3, CallOfType DEF Routing, RoutingStages
      <4>2. job'[CallOf(r)].age = job[CallOf(r)].age
        BY <2>6, <4>1
      <4> QED BY <3>1, <3>3, <4>2 DEF AskedOf
    <3>4. ASSUME fallback[r].chain # <<>>, LeftFirst(stage[r], imf[r], reply[r])
          PROVE  FirstOf(r, fallback[r]) # x
      <4> SUFFICES ASSUME FirstOf(r, fallback[r]) = x PROVE FALSE
        OBVIOUS
      <4>1. r = s
        BY <2>2, <2>3 DEF FirstOf
      <4>2. imf[r].level = 0
        BY <1>1, <2>2, <2>3, <4>1, LevelIsIndex DEF RouteInv, RoutingInStep
      <4> QED BY <2>1, <3>4, <4>1, <4>2 DEF LeftFirst
    <3>5. ASSUME fallback[r].chain # <<>>, LeftFirst(stage[r], imf[r], reply[r])
          PROVE  Unsent(job'[FirstOf(r, fallback[r])])
      <4>1. PICK c \in Calls : c = FirstOf(r, fallback[r])
        BY <1>1, <3>5, FirstCall DEF RouteInv, Router!TypeOK
      <4>2. job'[c] = job[c]
        BY <2>4, <3>4, <3>5, <4>1
      <4> QED BY <3>1, <3>5, <4>1, <4>2 DEF SlowOf
    <3> QED BY <3>2, <3>3, <3>5 DEF AskedOf, SlowOf
  <2>8. NamesUnsent(job')
    BY <1>1, <2>4, <2>5 DEF NamesUnsent
  <2> QED BY <1>1, <2>5, <2>7, <2>8 DEF NothingBroke
<1> QED BY <1>2, <1>3, <1>4

LEMMA SlowTick ==
    ASSUME PathType, NothingBroke, Tick
    PROVE  NothingBroke'
<1>1. /\ UNCHANGED <<stage, imf, fallback, reply, loaded, ollama>> /\ RouteInv /\ Adapter!TypeOK
      /\ job \in [Calls -> Jobs] /\ AllThere /\ \A c \in Calls : Sound(job[c])
      /\ asked \in [Requests -> 0..InferenceTimeout]
      /\ Adapter!Quiet /\ Adapter!Age /\ \A r \in Requests : ~Busy(r)
      /\ asked' = Waited(asked, {r \in Requests : stage[r] = "infer"})
  BY DEF Tick, router, PathType, FrontType, Adapter!TypeOK, Adapter!Age, Jobs, NothingBroke
<1>2. \A c \in Calls : JobAges(job[c], job'[c])
  BY <1>1, AdapterAges
<1>3. ASSUME NEW c \in Calls
      PROVE  Sound(job'[c])
  <2>1. job[c].at = "chat" => job[c].age < MaxGeneration
    BY <1>1 DEF Adapter!Quiet, Adapter!Running
  <2>2. job[c] \in Jobs /\ Sound(job[c]) /\ JobAges(job[c], job'[c])
    BY <1>1, <1>2
  <2> QED BY <2>1, <2>2, SoundAges
<1>4. ASSUME NEW r \in Requests
      PROVE  /\ AskedOf(job', stage[r], CallOf(r)', asked'[r])
             /\ SlowOf(job', r, stage[r], fallback[r], imf[r], reply[r])
  <2>1. /\ AskedOf(job, stage[r], CallOf(r), asked[r])
        /\ SlowOf(job, r, stage[r], fallback[r], imf[r], reply[r])
    BY DEF NothingBroke
  <2>2. CallOf(r)' = CallOf(r)
    BY <1>1 DEF CallOf
  <2>3. ASSUME stage[r] = "infer"
        PROVE  asked'[r] <= job'[CallOf(r)].age
    <3>1. PICK c \in Calls : c = CallOf(r)
      BY <1>1, <2>3, CallOfType DEF Routing, RoutingStages
    <3>2. job[c].at \in AtWork
      BY <1>1, <2>3, <3>1 DEF Busy, Adapter!Running, AtWork
    <3>3. job'[c].age = job[c].age + 1
      BY <1>2, <3>2 DEF JobAges
    <3>4. asked'[r] = asked[r] + 1
      BY <1>1, <2>3 DEF Waited
    <3>5. asked[r] <= job[c].age /\ asked[r] \in Nat /\ job[c].age \in Nat
      BY <1>1, <2>1, <2>3, <3>1, JobFacts, PathAssumption DEF AskedOf, PathAssumption
    <3> QED BY <3>1, <3>3, <3>4, <3>5
  <2>4. ASSUME fallback[r].chain # <<>>, Unsent(job[FirstOf(r, fallback[r])])
        PROVE  Unsent(job'[FirstOf(r, fallback[r])])
    <3>1. PICK c \in Calls : c = FirstOf(r, fallback[r])
      BY <1>1, <2>4, FirstCall DEF RouteInv, Router!TypeOK
    <3>2. job[c] \in Jobs /\ Unsent(job[c]) /\ JobAges(job[c], job'[c])
      BY <1>1, <1>2, <2>4, <3>1
    <3>3. Unsent(job'[c])
      BY <3>2, UnsentStays
    <3> QED BY <3>1, <3>3
  <2> QED BY <2>1, <2>2, <2>3, <2>4 DEF AskedOf, SlowOf
<1>5. AllThere'
  BY <1>1 DEF AllThere
<1>6. NamesUnsent(job')
  BY <1>1, <1>2, UnsentStays DEF NothingBroke, NamesUnsent
<1> QED BY <1>1, <1>3, <1>4, <1>5, <1>6 DEF NothingBroke

LEMMA NextSlow ==
    ASSUME PathType, SlowInv, Next
    PROVE  SlowInv'
<1> SUFFICES ASSUME faults' = 0 PROVE NothingBroke'
  BY DEF SlowInv
<1>1. ~Fault
  BY FaultCounts DEF PathType
<1>2. CASE \E r \in Requests : Send(r)
  BY <1>2, SlowSend DEF SlowInv, Send, Fine
<1>3. CASE \E r \in Requests : FrontSteps(r)
  <2>1. UNCHANGED <<router, adapter, asked, faults>>
    BY <1>3 DEF FrontSteps, Deliver, Broken, GatewayGivesUp, LayerGivesUp, Fine
  <2> QED BY <2>1, SlowFront DEF SlowInv
<1>4. CASE \E r \in Requests : RouterSteps(r)
  <2>1. PICK r \in Requests : RouterSteps(r)
    BY <1>4
  <2>2. faults = 0
    BY <1>1, <2>1 DEF RouterSteps, CheckHealth, CheckFails, CheckRaises, Lookup, InferAnswered,
       AdapterRefuses, RouterGivesUp, Background, Fine
  <2> QED BY <2>1, <2>2, SlowRouter DEF SlowInv
<1>5. CASE RouterDies
  BY <1>1, <1>5 DEF RouterDies
<1>6. CASE AdapterSteps
  <2>1. faults = 0
    BY <1>1, <1>6 DEF AdapterSteps, Fine
  <2> QED BY <1>6, <2>1, SlowAdapter DEF SlowInv
<1>7. CASE Tick
  BY <1>7, SlowTick DEF SlowInv, Tick, Fine
<1> QED BY <1>2, <1>3, <1>4, <1>5, <1>6, <1>7 DEF Next

LEMMA InitSlow == Init => SlowInv
<1> SUFFICES ASSUME Init PROVE NothingBroke
  BY DEF SlowInv
<1>1. /\ stage = [r \in Requests |-> "new"] /\ loaded = {}
      /\ job = [c \in Calls |-> Adapter!NoJob] /\ ollama = [up |-> TRUE, models |-> Models]
  BY DEF Init, Router!Init, Adapter!Init
<1>2. AllThere
  BY <1>1 DEF AllThere
<1>3. NamesUnsent(job) /\ \A c \in Calls : Sound(job[c])
  BY <1>1 DEF NamesUnsent, Unsent, Sound
<1>4. \A r \in Requests : stage[r] = "new"
  BY <1>1
<1> QED BY <1>2, <1>3, <1>4 DEF NothingBroke, AskedOf, SlowOf, LeftFirst, RoutingStages

\* As long as nothing goes wrong, no timeout on the way cuts off a text that
\* is coming: whatever the timeouts are, as long as the router and the adapter
\* wait longer than a text takes.
THEOREM SlowServed == Spec => []SlowIsNotBroken
<1>1. PathType /\ [Next]_vars => PathType'
  BY NextType, StayPathType
<1>2. PathType /\ SlowInv /\ [Next]_vars => SlowInv'
  <2>1. UNCHANGED vars => UNCHANGED <<router, adapter, asked, faults>>
    BY DEF vars
  <2> QED BY <2>1, NextSlow, SlowFront DEF SlowInv
<1> QED BY <1>1, <1>2, InitPathType, InitSlow, SlowSuffices, PTL DEF Spec

(***************************************************************************)
(* A client is timed out only as long as its first text takes              *)
(***************************************************************************)
\* The routes of a client's requests start the same and go on the same.
TaskOf(c) == Router!ClassifyTask(BodyOf[c].keywords)
FirstModel(c) == Router!SelectModel(BodyOf[c].mode, BodyOf[c].pinned, TaskOf(c))

Follows(chain) ==
    \A n \in 1..Len(chain) : n + 1 \in 1..Len(chain) => chain[n + 1] = FallbackOf[chain[n]]

RoutedBy(c, f, i) ==
    f.chain # <<>> =>
        i.task = TaskOf(c) /\ f.chain[1] = FirstModel(c) /\ Follows(f.chain)

RouteOf(r) ==
    /\ RoutedBy(r[1], fallback[r], imf[r])
    /\ stage[r] = "infer" => imf[r].hit = FALSE

\* A client sends one request at a time, and a request that is not sent is
\* nowhere.
EarlierDone(g, r) == \A k \in 1..(r[2] - 1) : g[<<r[1], k>>] = "done"

OrderOf(r) ==
    /\ gate[r] # "new" => EarlierDone(gate, r)
    /\ gate[r] = "waiting" => layer[r] = "waiting"
    /\ gate[r] = "new" => age[r] = 0 /\ layer[r] = "none"
    /\ stage[r] = "new" => \A c \in Calls : c[1] = r => job[c] = Adapter!NoJob

BaseInv == \A r \in Requests : RouteOf(r) /\ OrderOf(r)

LEMMA ReceiveRoute ==
    ASSUME RouteInv, NEW r \in Requests, BodyOf[r[1]] \in Bodies, Router!Receive(r, BodyOf[r[1]])
    PROVE  RoutedBy(r[1], fallback'[r], imf'[r])
<1>1. Router!TypeOK /\ stage[r] = "new" /\ fallback[r].chain = <<>>
  BY DEF RouteInv, Router!Receive
<1>2. CASE fallback' = fallback
  BY <1>1, <1>2 DEF RoutedBy
<1>3. PICK b : b = BodyOf[r[1]]
  OBVIOUS
<1>4. PICK task : task = Router!ClassifyTask(b.keywords)
  OBVIOUS
<1>5. CASE Router!StartRouting(r, b, task)
  <2>1. PICK chain \in Router!FallbackChains(Router!SelectModel(b.mode, b.pinned, task)) :
           /\ fallback' = [fallback EXCEPT ![r] = [chain |-> chain, index |-> 0, level |-> 0]]
           /\ imf' = [imf EXCEPT ![r] = [task |-> task, mode |-> b.mode, selected |-> chain[1],
                                         level |-> 0, hit |-> FALSE, content |-> Router!NoContent]]
    BY <1>5 DEF Router!StartRouting
  <2>2. fallback'[r].chain = chain /\ imf'[r].task = task
    BY <1>1, <2>1 DEF Router!TypeOK
  <2>3. chain \in Seq(Router!Names) /\ chain[1] = FirstModel(r[1]) /\ task = TaskOf(r[1])
    BY <1>3, <1>4, FallbackChainFacts DEF FirstModel, TaskOf
  <2>4. Follows(chain)
    <3>1. DOMAIN chain = 1..Len(chain)
      BY <2>3
    <3> QED BY <2>1, <3>1 DEF Follows, Router!FallbackChains
  <2> QED BY <2>2, <2>3, <2>4 DEF RoutedBy
<1> QED BY <1>2, <1>3, <1>4, <1>5 DEF Router!Receive, Router!Refused

LEMMA FallsBackTask ==
    ASSUME Router!TypeOK, NEW r \in Requests, InStep(r), FallsBack(r)
    PROVE  imf'[r].task = imf[r].task
<1>1. PICK f \in Router!FallbackState : f = fallback[r]
  BY DEF Router!TypeOK
<1>2. PICK i \in Router!Imf : i = imf[r]
  BY DEF Router!TypeOK
<1>3. PICK g : g = Router!Advance(f)
  OBVIOUS
<1>4. g \in Router!FallbackState /\ Router!SelectedModel(g) \in Router!Names
  BY <1>1, <1>3, AdvanceFacts DEF FallsBack
<1>5. PICK m \in Router!Names : m = Router!SelectedModel(g)
  BY <1>4
<1>6. g.level \in Nat
  BY <1>4 DEF Router!FallbackState
<1>7. Router!AtLevel(i, g.level, m).task = i.task
  BY <1>5, <1>6, AtLevelFacts
<1> QED BY <1>1, <1>2, <1>3, <1>5, <1>7 DEF FallsBack

LEMMA MissHit ==
    ASSUME Router!TypeOK, NEW r \in Requests, Router!LookupMiss(r)
    PROVE  imf'[r].hit = FALSE
BY DEF Router!LookupMiss, Router!TypeOK, Router!Imf

LEMMA StepsAreRouters ==
    ASSUME NEW r \in Requests, RouterSteps(r)
    PROVE  Router!Handler(r) \/ Router!Background(r)
BY DEF RouterSteps, CheckHealth, CheckFails, CheckRaises, Lookup, InferAnswered,
       AdapterRefuses, RouterGivesUp, Background, Router!Handler, Router!Background

LEMMA RouteOfRouter ==
    ASSUME RouteInv, NEW r \in Requests, RouteOf(r), Router!Handler(r) \/ Router!Background(r)
    PROVE  RouteOf(r)'
<1>1. Router!TypeOK /\ RoutingInStep /\ RoutedBy(r[1], fallback[r], imf[r])
  BY DEF RouteInv, RouteOf
<1>2. CASE Router!Background(r)
  BY <1>2, BackgroundMoves DEF RouteOf
<1>3. CASE Router!HealthOk(r) \/ Router!LookupMiss(r)
  <2>1. GoesForth(r)
    BY <1>1, <1>3, CallStepMoves
  <2>2. stage'[r] = "infer" => Router!LookupMiss(r)
    <3>1. Router!HealthOk(r) => stage[r] = "health"
      BY DEF Router!HealthOk
    <3>2. stage[r] = "health" => stage'[r] # "infer"
      BY <2>1 DEF GoesForth
    <3> QED BY <1>3, <3>1, <3>2
  <2>3. RoutedBy(r[1], fallback'[r], imf'[r])
    BY <1>1, <2>1 DEF GoesForth, SameRoute, RoutedBy
  <2> QED BY <1>1, <2>2, <2>3, MissHit DEF RouteOf
<1>4. CASE Router!Handler(r) /\ ~Router!HealthOk(r) /\ ~Router!LookupMiss(r)
  <2>1. FallsBack(r) \/ Ends(r)
    <3>1. CASE Router!HealthFail(r) \/ Router!InferFail(r)
      BY <1>1, <3>1, FailMoves
    <3>2. CASE Router!Raises(r)
      BY <1>1, <3>2, RaisesMoves
    <3>3. CASE \E e \in cache : Router!LookupHit(r, e)
      BY <1>1, <3>3, HitMoves
    <3>4. CASE Router!InferOk(r)
      BY <1>1, <3>4, OkMoves
    <3> QED BY <1>4, <3>1, <3>2, <3>3, <3>4 DEF Router!Handler
  <2>2. stage'[r] # "infer"
    BY <2>1 DEF FallsBack, Ends
  <2>3. CASE FallsBack(r)
    <3>1. InStep(r)
      BY <1>1, <2>3 DEF FallsBack, RoutingInStep, Routing, RoutingStages
    <3>2. imf'[r].task = imf[r].task /\ fallback'[r].chain = fallback[r].chain
      BY <1>1, <2>3, <3>1, FallsBackTask, FallsBackInStep
    <3> QED BY <1>1, <2>2, <3>2 DEF RouteOf, RoutedBy
  <2>4. CASE Ends(r)
    BY <1>1, <2>2, <2>4 DEF RouteOf, RoutedBy, Ends, SameRoute
  <2> QED BY <2>1, <2>3, <2>4
<1> QED BY <1>2, <1>3, <1>4


LEMMA SendBase ==
    ASSUME PathType, BaseInv, NEW r \in Requests, Send(r)
    PROVE  BaseInv'
<1>1. /\ UNCHANGED <<age, job>> /\ RouteInv /\ FrontType
      /\ Router!Receive(r, BodyOf[r[1]]) /\ BodyOf[r[1]] \in Bodies
      /\ gate[r] = "new" /\ gate' = [gate EXCEPT ![r] = "waiting"]
      /\ layer' = [layer EXCEPT ![r] = "waiting"]
  BY DEF Send, adapter, PathType, Requests, Bodies
<1>2. /\ gate'[r] = "waiting" /\ layer'[r] = "waiting"
      /\ \A s \in Requests \ {r} : gate'[s] = gate[s] /\ layer'[s] = layer[s]
  BY <1>1 DEF FrontType
<1>3. OthersStay(r) /\ stage'[r] \notin {"new", "infer"}
  BY <1>1, ReceiveMoves DEF RouteInv, Refusal, Begins
<1>4. ASSUME NEW s \in Requests
      PROVE  EarlierDone(gate, s) => EarlierDone(gate', s)
  <2> SUFFICES ASSUME NEW k \in 1..(s[2] - 1), gate[<<s[1], k>>] = "done"
               PROVE  gate'[<<s[1], k>>] = "done"
    BY DEF EarlierDone
  <2>1. CASE <<s[1], k>> = r
    BY <1>1, <2>1
  <2>2. CASE <<s[1], k>> # r
    BY <1>1, <2>2 DEF FrontType
  <2> QED BY <2>1, <2>2
<1>5. EarlierDone(gate, r)
  <2>1. PICK c \in Clients, n \in 1..MaxAttempts : r = <<c, n>>
    BY DEF Requests
  <2>2. r[1] = c /\ r[2] = n /\ n \in Nat \ {0} /\ MaxAttempts \in Nat
    BY <2>1, PathAssumption DEF PathAssumption
  <2>3. CASE n = 1
    BY <2>2, <2>3 DEF EarlierDone
  <2>4. CASE n > 1
    <3>1. PICK p : p = <<c, n - 1>>
      OBVIOUS
    <3>2. gate[p] = "done" /\ p \in Requests /\ p[1] = c /\ p[2] = n - 1
      BY <2>1, <2>2, <2>4, <3>1 DEF Send, Requests
    <3>3. EarlierDone(gate, p)
      BY <3>2 DEF BaseInv, OrderOf
    <3>4. \A k \in 1..(n - 1) : k = n - 1 \/ k \in 1..(n - 1 - 1)
      BY <2>2
    <3> QED BY <2>2, <3>1, <3>2, <3>3, <3>4 DEF EarlierDone
  <2> QED BY <2>2, <2>3, <2>4
<1>6. ASSUME NEW s \in Requests
      PROVE  RouteOf(s)' /\ OrderOf(s)'
  <2>1. RouteOf(s) /\ OrderOf(s)
    BY DEF BaseInv
  <2>2. CASE s = r
    <3>1. RouteOf(r)'
      BY <1>1, <1>3, ReceiveRoute DEF RouteOf
    <3>2. OrderOf(r)'
      BY <1>2, <1>3, <1>4, <1>5 DEF OrderOf
    <3> QED BY <2>2, <3>1, <3>2
  <2>3. CASE s # r
    <3>1. stage'[s] = stage[s] /\ imf'[s] = imf[s] /\ fallback'[s] = fallback[s]
      BY <1>3, <2>3 DEF OthersStay
    <3>2. RouteOf(s)'
      BY <2>1, <3>1 DEF RouteOf
    <3>3. OrderOf(s)'
      BY <1>1, <1>2, <1>4, <2>1, <2>3, <3>1 DEF OrderOf
    <3> QED BY <3>2, <3>3
  <2> QED BY <2>2, <2>3
<1> QED BY <1>6 DEF BaseInv

\* What the front does about a request that waits.
LEMMA FrontBase ==
    ASSUME PathType, BaseInv, NEW r \in Requests, FrontSteps(r)
    PROVE  BaseInv'
<1>1. /\ UNCHANGED <<age, job, stage, imf, fallback>> /\ FrontType
      /\ \/ gate' = gate \/ gate' = [gate EXCEPT ![r] = "done"]
      /\ \/ layer' = layer /\ gate' # gate
         \/ layer' = [layer EXCEPT ![r] = "done"] /\ gate'[r] # "waiting"
      /\ gate[r] # "new"
  <2>1. UNCHANGED <<age, job, stage, imf, fallback>> /\ FrontType
    BY DEF FrontSteps, Deliver, Broken, GatewayGivesUp, LayerGivesUp, router, adapter, PathType
  <2>2. gate[r] = "waiting" \/ layer[r] = "waiting"
    BY DEF FrontSteps, Deliver, Broken, GatewayGivesUp, LayerGivesUp
  <2>3. gate[r] # "new"
    BY <2>2 DEF BaseInv, OrderOf
  <2>4. CASE GatewayGivesUp(r)
    <3>1. layer' = layer /\ gate[r] = "waiting" /\ gate' = [gate EXCEPT ![r] = "done"]
      BY <2>4 DEF GatewayGivesUp, Close
    <3>2. gate'[r] = "done"
      BY <2>1, <3>1 DEF FrontType
    <3> QED BY <2>1, <2>3, <3>1, <3>2
  <2>5. CASE Deliver(r) \/ Broken(r) \/ LayerGivesUp(r)
    <3>1. /\ layer' = [layer EXCEPT ![r] = "done"]
          /\ IF gate[r] = "waiting" THEN gate' = [gate EXCEPT ![r] = "done"] ELSE gate' = gate
      BY <2>5 DEF Deliver, Broken, LayerGivesUp, Close
    <3>2. gate'[r] # "waiting"
      BY <2>1, <3>1 DEF FrontType
    <3> QED BY <2>1, <2>3, <3>1, <3>2
  <2> QED BY <2>4, <2>5 DEF FrontSteps
<1>2. /\ \A s \in Requests \ {r} : gate'[s] = gate[s] /\ layer'[s] = layer[s]
      /\ \A s : gate[s] = "done" /\ s \in Requests => gate'[s] = "done"
      /\ gate'[r] # "new"
      /\ gate'[r] = "waiting" => gate[r] = "waiting" /\ layer'[r] = layer[r]
  BY <1>1 DEF FrontType
<1>3. ASSUME NEW s \in Requests, EarlierDone(gate, s)
      PROVE  EarlierDone(gate', s)
  <2> SUFFICES ASSUME NEW k \in 1..(s[2] - 1) PROVE gate'[<<s[1], k>>] = "done"
    BY DEF EarlierDone
  <2>1. <<s[1], k>> \in Requests
    <3>1. PICK c \in Clients, n \in 1..MaxAttempts : s = <<c, n>>
      BY DEF Requests
    <3>2. s[1] = c /\ s[2] = n /\ MaxAttempts \in Nat
      BY <3>1, PathAssumption DEF PathAssumption
    <3>3. k \in 1..MaxAttempts
      BY <3>2
    <3> QED BY <3>2, <3>3 DEF Requests
  <2> QED BY <1>2, <1>3, <2>1 DEF EarlierDone
<1>4. ASSUME NEW s \in Requests
      PROVE  RouteOf(s)' /\ OrderOf(s)'
  <2>1. RouteOf(s) /\ OrderOf(s)
    BY DEF BaseInv
  <2>2. RouteOf(s)'
    BY <1>1, <2>1 DEF RouteOf
  <2>3. OrderOf(s)'
    BY <1>1, <1>2, <1>3, <2>1 DEF OrderOf
  <2> QED BY <2>2, <2>3
<1> QED BY <1>4 DEF BaseInv

LEMMA RouterBase ==
    ASSUME PathType, BaseInv, NEW r \in Requests, RouterSteps(r)
    PROVE  BaseInv'
<1>1. UNCHANGED <<age, job, gate, layer>> /\ RouteInv
  BY DEF RouterSteps, front, adapter, PathType
<1>2. Router!Handler(r) \/ Router!Background(r)
  BY StepsAreRouters
<1>3. OthersStay(r) /\ (stage[r] # "new" => stage'[r] # "new")
  <2>1. CASE Router!Handler(r)
    BY <1>1, <2>1, HandlerMoves DEF RouteInv, Moves, Refusal, Begins, GoesForth, FallsBack, Ends
  <2>2. CASE Router!Background(r)
    BY <2>2, BackgroundMoves DEF OthersStay
  <2> QED BY <1>2, <2>1, <2>2
<1>4. stage[r] # "new"
  BY <1>2, BackgroundMoves DEF Router!Handler, Router!HealthOk, Router!HealthFail, Router!Raises,
     Router!LookupMiss, Router!LookupHit, Router!InferOk, Router!InferFail
<1>5. ASSUME NEW s \in Requests
      PROVE  RouteOf(s)' /\ OrderOf(s)'
  <2>1. RouteOf(s) /\ OrderOf(s)
    BY DEF BaseInv
  <2>2. CASE s = r
    <3>1. RouteOf(r)'
      BY <1>1, <1>2, <2>1, <2>2, RouteOfRouter
    <3>2. OrderOf(r)'
      BY <1>1, <1>3, <1>4, <2>1, <2>2 DEF OrderOf
    <3> QED BY <2>2, <3>1, <3>2
  <2>3. CASE s # r
    <3>1. stage'[s] = stage[s] /\ imf'[s] = imf[s] /\ fallback'[s] = fallback[s]
      BY <1>3, <2>3 DEF OthersStay
    <3> QED BY <1>1, <2>1, <3>1 DEF RouteOf, OrderOf
  <2> QED BY <2>2, <2>3
<1> QED BY <1>5 DEF BaseInv

LEMMA DiesBase ==
    ASSUME PathType, BaseInv, RouterDies
    PROVE  BaseInv'
<1>1. UNCHANGED <<age, job, gate, layer, imf, fallback>>
  BY CrashMoves DEF RouterDies, front, adapter, PathType, RouteInv
<1>2. \A s \in Requests : stage'[s] = stage[s] \/ stage'[s] = "lost"
  BY CrashMoves DEF RouterDies, PathType, RouteInv
<1> QED BY <1>1, <1>2 DEF BaseInv, RouteOf, OrderOf

LEMMA AdapterBase ==
    ASSUME PathType, BaseInv, AdapterSteps \/ Tick
    PROVE  BaseInv'
<1>1. /\ UNCHANGED <<gate, layer, stage, imf, fallback>> /\ RouteInv /\ Adapter!TypeOK
      /\ job \in [Calls -> Jobs]
  BY DEF AdapterSteps, Tick, router, front, PathType, Adapter!TypeOK, Jobs
<1>2. ASSUME NEW s \in Requests, gate[s] = "new", layer[s] = "none", age[s] = 0
      PROVE  age'[s] = 0
  BY <1>2 DEF AdapterSteps, Tick, front, Waited
<1>3. ASSUME NEW s \in Requests, stage[s] = "new", NEW c \in Calls, c[1] = s, job[c] = Adapter!NoJob
      PROVE  job'[c] = Adapter!NoJob
  <2>1. CASE Tick
    <3>1. JobAges(job[c], job'[c])
      BY <1>1, <2>1, AdapterAges DEF Tick
    <3> QED BY <1>3, <3>1 DEF JobAges, Adapter!NoJob, AtWork
  <2>2. CASE AdapterWorks \/ AdapterFails
    <3>1. AdapterActs
      BY <2>2 DEF AdapterWorks, AdapterFails, AdapterActs
    <3>2. JobFinishes(job[c], job'[c])
      BY <1>1, <3>1, AdapterFinishes
    <3> QED BY <1>3, <3>2 DEF JobFinishes, Adapter!NoJob, AtWork
  <2>3. CASE \E r \in Requests : CallArrives(r)
    <3>1. PICK r \in Requests : stage[r] = "infer" /\ Adapter!Infer(CallOf(r))
      BY <2>3 DEF CallArrives
    <3>2. CallOf(r) \in Calls /\ CallOf(r)[1] = r
      BY <1>1, <3>1, CallOfType DEF Routing, RoutingStages
    <3>3. c # CallOf(r)
      BY <1>3, <3>1, <3>2
    <3> QED BY <1>1, <1>3, <3>1, <3>2, <3>3, InferStarts
  <2> QED BY <2>1, <2>2, <2>3 DEF AdapterSteps
<1>4. ASSUME NEW s \in Requests
      PROVE  RouteOf(s)' /\ OrderOf(s)'
  <2>1. RouteOf(s) /\ OrderOf(s)
    BY DEF BaseInv
  <2> QED BY <1>1, <1>2, <1>3, <2>1 DEF RouteOf, OrderOf
<1> QED BY <1>4 DEF BaseInv

LEMMA InitBase == Init => BaseInv
<1> SUFFICES ASSUME Init PROVE BaseInv
  OBVIOUS
<1>1. /\ stage = [r \in Requests |-> "new"] /\ gate = [r \in Requests |-> "new"]
      /\ job = [c \in Calls |-> Adapter!NoJob] /\ age = [r \in Requests |-> 0]
      /\ layer = [r \in Requests |-> "none"] /\ fallback = [r \in Requests |-> Router!NoFallback]
  BY DEF Init, Router!Init, Adapter!Init
<1>2. Router!NoFallback.chain = <<>>
  BY DEF Router!NoFallback
<1> QED BY <1>1, <1>2 DEF BaseInv, RouteOf, RoutedBy, OrderOf

LEMMA NextBase ==
    ASSUME PathType, BaseInv, Next
    PROVE  BaseInv'
BY SendBase, FrontBase, RouterBase, DiesBase, AdapterBase DEF Next


\* The models a call of which Ollama is sure to take, and those of which it is
\* sure to be refused, on the way or by Ollama, as long as nothing goes wrong.
Serves == {m \in Router!Names : process = "up" /\ ollama.up /\ m \in loaded /\ m \in ollama.models}
Refuses ==
    {m \in Router!Names : ~ollama.up \/ (process = "up" /\ ~(m \in loaded /\ m \in ollama.models))}

Goes(j) == j.at = "chat" \/ (j.at = "done" /\ j.answer = "ok")
Dead(j) == j.at = "turned_away" \/ (j.at = "done" /\ j.answer \in {"failed", "model_not_loaded"})

\* What becomes of a call of a request that nothing went wrong for.
Fits(j, m, S, R) ==
    \/ j = Adapter!NoJob
    \/ j.age <= MaxGeneration /\ Goes(j) /\ m \in S
    \/ j.age <= MaxGeneration /\ Dead(j) /\ m \in R

LEMMA ServesApart ==
    ASSUME Adapter!TypeOK, NEW m \in Serves
    PROVE  m \notin Refuses
BY DEF Serves, Refuses, Adapter!TypeOK

LEMMA GoesApart ==
    ASSUME NEW j \in Jobs, NEW m, NEW S, NEW R, Fits(j, m, S, R)
    PROVE  /\ Goes(j) => m \in S /\ ~Dead(j) /\ j # Adapter!NoJob
           /\ Dead(j) => m \in R /\ ~Goes(j) /\ j # Adapter!NoJob
           /\ j.age <= MaxGeneration
<1>1. j # Adapter!NoJob <=> j.at # "none"
  BY JobFacts
<1>2. ~(Goes(j) /\ Dead(j)) /\ (Goes(j) \/ Dead(j) => j.at # "none")
  BY DEF Goes, Dead
<1>3. MaxGeneration \in Nat /\ Adapter!NoJob.age = 0
  BY PathAssumption DEF PathAssumption, Adapter!NoJob
<1> QED BY <1>1, <1>2, <1>3 DEF Fits

LEMMA FitsMore ==
    ASSUME NEW j, NEW m, NEW S, NEW R, NEW T, NEW Q, Fits(j, m, S, R), S \subseteq T, R \subseteq Q
    PROVE  Fits(j, m, T, Q)
BY DEF Fits

\* What the adapter and Ollama make of a call while nothing goes wrong.
WorkedOn(j, k) ==
    \/ k = j
    \/ /\ j # Adapter!NoJob /\ k.age = j.age
       /\ j.age <= MaxGeneration => (Goes(j) => Goes(k)) /\ (Dead(j) => Dead(k))

LEMMA FitsWorked ==
    ASSUME NEW j, NEW k, NEW m, NEW S, NEW R, Fits(j, m, S, R), WorkedOn(j, k)
    PROVE  Fits(k, m, S, R) /\ k.age = j.age /\ (Goes(j) /\ j.age <= MaxGeneration => Goes(k))
BY DEF Fits, WorkedOn

LEMMA WorksOn ==
    ASSUME Adapter!TypeOK, AdapterWorks
    PROVE  /\ \A c \in Calls : WorkedOn(job[c], job'[c])
           /\ Serves \subseteq Serves' /\ Refuses \subseteq Refuses'
<1>1. CASE Adapter!Start \/ Adapter!Listed
  <2>1. job' = job /\ ollama' = ollama /\ process # "up"
    BY <1>1 DEF Adapter!Start, Adapter!Listed
  <2>2. Serves \subseteq Serves' /\ Refuses \subseteq Refuses'
    BY <2>1 DEF Serves, Refuses
  <2> QED BY <2>1, <2>2 DEF WorkedOn
<1>2. ASSUME NEW c \in Calls, Adapter!Works(c)
      PROVE  /\ \A d \in Calls : WorkedOn(job[d], job'[d])
             /\ Serves \subseteq Serves' /\ Refuses \subseteq Refuses'
  <2>1. job \in [Calls -> Jobs]
    BY DEF Adapter!TypeOK, Jobs
  <2>2. PICK j \in Jobs : j = job[c]
    BY <2>1
  <2>3. PICK answer \in {"ok", "failed"} :
           /\ Adapter!Answer(c, answer)
           /\ answer = "ok" => j.at = "chat"
           /\ answer = "failed" => j.at = "turned_away" \/ j.age >= OllamaTimeout
    BY <1>2, <2>2
    DEF Adapter!Works, Adapter!Generated, Adapter!TurnedAway, Adapter!ChatTimesOut, Adapter!Due
  <2>4. j.at \in AtWork /\ answer \in Adapter!Answers
    BY <2>2, <2>3 DEF Adapter!Answer, Adapter!Running, AtWork, Adapter!Answers
  <2>5. PICK k : k = Ended(j, answer)
    OBVIOUS
  <2>6. k.at = "done" /\ k.age = j.age /\ k.answer = answer
    BY <2>4, <2>5, JobEnds
  <2>7. job' = [job EXCEPT ![c] = k] /\ UNCHANGED <<process, loaded, ollama>>
    BY <2>2, <2>3, <2>5 DEF Adapter!Answer, Ended
  <2>8. WorkedOn(j, k)
    <3>1. j # Adapter!NoJob
      BY <2>4 DEF AtWork, Adapter!NoJob
    <3>2. j.age <= MaxGeneration => ~(j.age >= OllamaTimeout)
      BY JobFacts, PathAssumption DEF PathAssumption
    <3>3. j.age <= MaxGeneration => (Goes(j) => Goes(k)) /\ (Dead(j) => Dead(k))
      BY <2>3, <2>4, <2>6, <3>2 DEF Goes, Dead, AtWork
    <3> QED BY <2>6, <3>1, <3>3 DEF WorkedOn
  <2>9. \A d \in Calls : WorkedOn(job[d], job'[d])
    BY <2>1, <2>2, <2>7, <2>8 DEF WorkedOn
  <2>10. Serves \subseteq Serves' /\ Refuses \subseteq Refuses'
    BY <2>7 DEF Serves, Refuses
  <2> QED BY <2>9, <2>10
<1> QED BY <1>1, <1>2 DEF AdapterWorks

\* A call that arrives.
LEMMA InferFits ==
    ASSUME Adapter!TypeOK, NEW x \in Calls, Adapter!Infer(x)
    PROVE  Fits(job'[x], x[2], Serves, Refuses)
<1>1. job \in [Calls -> Jobs] /\ MaxGeneration \in Nat
  BY PathAssumption DEF Adapter!TypeOK, Jobs, PathAssumption
<1>2. process = "up" /\ job[x] = Adapter!NoJob /\ ModelOf[x] = x[2] /\ x[2] \in Router!Names
  BY DEF Adapter!Infer, ModelOf, Calls, Router!Names
<1>3. PICK n : n = [job[x] EXCEPT !.at = "done"]
  OBVIOUS
<1>4. n = [at |-> "done", age |-> 0, answer |-> "none"]
  BY <1>2, <1>3 DEF Adapter!NoJob
<1>5. PICK k : /\ k = IF x[2] \notin loaded THEN [n EXCEPT !.answer = "model_not_loaded"]
                      ELSE [job[x] EXCEPT !.at = IF ollama.up /\ x[2] \in ollama.models
                                                 THEN "chat" ELSE "turned_away"]
               /\ job' = [job EXCEPT ![x] = k]
  BY <1>2, <1>3 DEF Adapter!Infer
<1>6. job'[x] = k
  BY <1>1, <1>5
<1>7. 0 <= MaxGeneration
  BY <1>1
<1>8. CASE x[2] \notin loaded
  <2>1. k = [at |-> "done", age |-> 0, answer |-> "model_not_loaded"]
    BY <1>4, <1>5, <1>8
  <2>2. x[2] \in Refuses
    BY <1>2, <1>8 DEF Refuses
  <2> QED BY <1>6, <1>7, <2>1, <2>2 DEF Fits, Dead
<1>9. CASE x[2] \in loaded /\ ollama.up /\ x[2] \in ollama.models
  <2>1. k = [at |-> "chat", age |-> 0, answer |-> "none"]
    BY <1>2, <1>5, <1>9 DEF Adapter!NoJob
  <2>2. x[2] \in Serves
    BY <1>2, <1>9 DEF Serves
  <2> QED BY <1>6, <1>7, <2>1, <2>2 DEF Fits, Goes
<1>10. CASE x[2] \in loaded /\ ~(ollama.up /\ x[2] \in ollama.models)
  <2>1. k = [at |-> "turned_away", age |-> 0, answer |-> "none"]
    BY <1>2, <1>5, <1>10 DEF Adapter!NoJob
  <2>2. x[2] \in Refuses
    BY <1>2, <1>10 DEF Refuses
  <2> QED BY <1>6, <1>7, <2>1, <2>2 DEF Fits, Dead
<1> QED BY <1>8, <1>9, <1>10

\* Time passes.
LEMMA FitsAges ==
    ASSUME NEW j \in Jobs, NEW k, NEW m, NEW S, NEW R, Fits(j, m, S, R), JobAges(j, k),
           j.at = "chat" => j.age < MaxGeneration, j.at # "turned_away"
    PROVE  /\ Fits(k, m, S, R) /\ (Goes(j) => Goes(k))
           /\ j.at \in AtWork => j.at = "chat" /\ k.age = j.age + 1
           /\ j.at \notin AtWork => k = j
<1>1. MaxGeneration \in Nat /\ j.age \in Nat
  BY JobFacts, PathAssumption DEF PathAssumption
<1>2. CASE j.at \in AtWork
  <2>1. j.at = "chat"
    BY <1>2 DEF Fits, Goes, Dead, AtWork, Adapter!NoJob
  <2>2. k.at = "chat" /\ k.age = j.age + 1 /\ m \in S
    BY <1>2, <2>1 DEF JobAges, Fits, Dead, Adapter!NoJob
  <2>3. k.age <= MaxGeneration
    BY <1>1, <2>1, <2>2
  <2> QED BY <1>2, <2>1, <2>2, <2>3 DEF Fits, Goes
<1>3. CASE j.at \notin AtWork
  BY <1>3 DEF JobAges
<1> QED BY <1>2, <1>3


\* A request nothing goes wrong for: the models it left are refused, and it
\* has waited no longer than its call is old.
HealthyOf(r, st, f, i, w, j, S, R) ==
    /\ st \notin {"new", "lost"}
    /\ \A c \in Calls : c[1] = r => Fits(j[c], c[2], S, R)
    /\ \A n \in 1..i.level : f.chain[n] \in R
    /\ st = "infer" => w <= j[<<r, i.selected>>].age

Healthy(r) == HealthyOf(r, stage[r], fallback[r], imf[r], asked[r], job, Serves, Refuses)

\* What it will leave in the cache, and that it has, or is about to.
EntryOf(r, i) ==
    [kind |-> "cache_write", model |-> i.selected, task |-> i.task,
     content |-> [by |-> i.selected, for |-> r]]

InTasks(e, t) == \E n \in 1..Len(t) : t[n] = e

Cached(r) == EntryOf(r, imf[r]) \in cache

\* Its text is being generated, or was and is on its way to the cache.
GivenOf(r, st, i, t, j, h) ==
    /\ <<r, i.selected>> \in Calls /\ Goes(j[<<r, i.selected>>])
    /\ st = "infer" \/ (st = "replied" /\ (EntryOf(r, i) \in h \/ InTasks(EntryOf(r, i), t)))

Given(r) == InStep(r) /\ GivenOf(r, stage[r], imf[r], tasks[r], job, cache)

\* A step of the router about r while nothing goes wrong.
Calm(r) ==
    \/ Router!HealthOk(r)
    \/ Router!Raises(r) /\ stage[r] = "health"
    \/ \E e \in cache : Router!LookupHit(r, e)
    \/ Router!LookupMiss(r) /\ ~(\E e \in cache : SameKey(e, r))
    \/ Router!InferOk(r)
    \/ (Router!HealthFail(r) \/ Router!InferFail(r)) /\ imf[r].selected \in Refuses
    \/ /\ Router!Background(r)
       /\ Head(tasks[r]).kind = "cache_write" => Head(tasks[r]) \in cache'

LEMMA StepsCalm ==
    ASSUME PathType, NEW r \in Requests, RouterSteps(r), Healthy(r)
    PROVE  Impatience \/ (Fine /\ Calm(r))
<1>1. /\ FrontType /\ Router!TypeOK /\ Adapter!TypeOK /\ job \in [Calls -> Jobs]
      /\ Routing(r) => CallOf(r) \in Calls /\ CallOf(r)[1] = r /\ CallOf(r)[2] = imf[r].selected
  BY CallOfType DEF PathType, RouteInv, Adapter!TypeOK, Jobs, CallOf
<1>2. Models \subseteq Router!Names
  BY DEF Router!Names
<1>3. CASE CheckHealth(r)
  BY <1>3 DEF CheckHealth, Calm
<1>4. CASE CheckFails(r)
  <2>1. Router!HealthFail(r) /\ imf[r].selected \in Models
    BY <1>4 DEF CheckFails, Router!HealthFail
  <2> QED BY <1>2, <1>4, <2>1 DEF CheckFails, Fault, Calm, Refuses
<1>5. CASE CheckRaises(r)
  BY <1>5 DEF CheckRaises, Fault, Calm
<1>6. CASE Lookup(r)
  BY <1>6 DEF Lookup, Fault, Calm
<1>7. CASE InferAnswered(r)
  <2>1. CallOf(r) \in Adapter!Answered /\ Fine /\ stage[r] = "infer"
    BY <1>7 DEF InferAnswered
  <2>2. PICK c \in Calls : c = CallOf(r)
    BY <1>1, <2>1 DEF Routing, RoutingStages
  <2>3. PICK j \in Jobs : j = job[c]
    BY <1>1
  <2>4. Fits(j, imf[r].selected, Serves, Refuses) /\ j.at = "done"
    BY <1>1, <2>1, <2>2, <2>3 DEF Healthy, HealthyOf, Routing, RoutingStages, Adapter!Answered
  <2>5. \/ j.answer = "ok"
        \/ j.answer \in {"failed", "model_not_loaded"} /\ imf[r].selected \in Refuses
    BY <2>4 DEF Fits, Goes, Dead, Adapter!NoJob
  <2>6. \/ Router!InferOk(r)
        \/ Router!InferFail(r) /\ imf[r].selected \in Refuses
    BY <1>7, <2>2, <2>3, <2>5 DEF InferAnswered
  <2> QED BY <2>1, <2>6 DEF Calm
<1>8. CASE AdapterRefuses(r)
  BY <1>8 DEF AdapterRefuses
<1>9. CASE RouterGivesUp(r)
  <2>1. stage[r] = "infer" /\ asked[r] >= InferenceTimeout
    BY <1>9 DEF RouterGivesUp, RouterDue
  <2>2. PICK c \in Calls : c = CallOf(r)
    BY <1>1, <2>1 DEF Routing, RoutingStages
  <2>3. PICK j \in Jobs : j = job[c]
    BY <1>1
  <2>4. Fits(j, imf[r].selected, Serves, Refuses) /\ asked[r] <= j.age
    BY <1>1, <2>1, <2>2, <2>3 DEF Healthy, HealthyOf, Routing, RoutingStages, CallOf
  <2>5. j.age <= MaxGeneration
    BY <2>4, GoesApart
  <2>6. /\ j.age \in Nat /\ asked[r] \in 0..InferenceTimeout
        /\ MaxGeneration \in Nat /\ InferenceTimeout \in Nat /\ MaxGeneration < InferenceTimeout
    BY <1>1, JobFacts, PathAssumption DEF PathAssumption, FrontType
  <2> QED BY <2>1, <2>4, <2>5, <2>6
<1>10. CASE Background(r)
  <2>1. Fine \/ Fault
    BY <1>10 DEF Background
  <2>2. CASE Fault
    BY <2>2 DEF Fault
  <2>3. CASE Fine /\ ~Fault
    <3>1. Router!Background(r)
      BY <1>10 DEF Background, Router!Background
    <3>2. Router!PostAudit(r) => Head(tasks[r]).kind = "audit"
      BY DEF Router!PostAudit
    <3>3. Head(tasks[r]).kind = "cache_write" => Head(tasks[r]) \in cache'
      BY <1>10, <2>3, <3>2 DEF Background
    <3> QED BY <2>3, <3>1, <3>3 DEF Calm
  <2> QED BY <2>1, <2>2, <2>3
<1> QED BY <1>3, <1>4, <1>5, <1>6, <1>7, <1>8, <1>9, <1>10 DEF RouterSteps

\* What a calm step leaves alone.
LEMMA TasksStay ==
    ASSUME Router!TypeOK, NEW r \in Requests, Router!Handler(r) \/ Router!Background(r)
    PROVE  /\ \A s \in Requests \ {r} : tasks'[s] = tasks[s]
           /\ cache \subseteq cache'
<1>1. CASE Router!Background(r)
  BY <1>1, BackgroundMoves DEF Router!TypeOK
<1>2. CASE Router!Handler(r)
  <2>1. cache' = cache
    BY <1>2 DEF Router!Handler, Router!HealthOk, Router!HealthFail, Router!Raises,
       Router!LookupMiss, Router!LookupHit, Router!InferOk, Router!InferFail
  <2>2. tasks' = tasks \/ \E t : tasks' = [tasks EXCEPT ![r] = t]
    BY <1>2 DEF Router!Handler, Router!HealthOk, Router!HealthFail, Router!Raises,
       Router!LookupMiss, Router!LookupHit, Router!InferOk, Router!InferFail, Router!AddTasks
  <2> QED BY <2>1, <2>2 DEF Router!TypeOK
<1> QED BY <1>1, <1>2

LEMMA CalmHandles ==
    ASSUME NEW r \in Requests, Calm(r)
    PROVE  Router!Handler(r) \/ Router!Background(r)
BY DEF Calm, Router!Handler

LEMMA CalmMoves ==
    ASSUME Router!TypeOK, RoutingInStep, NEW r \in Requests, Calm(r)
    PROVE  /\ OthersStay(r)
           /\ \/ GoesForth(r)
              \/ Ends(r)
              \/ FallsBack(r) /\ imf[r].selected \in Refuses
              \/ stage[r] = "replied" /\ UNCHANGED <<stage, fallback, imf, reply>>
<1>1. Router!Handler(r) => OthersStay(r)
  BY HandlerMoves DEF Moves
<1>2. Router!Background(r) =>
         OthersStay(r) /\ stage[r] = "replied" /\ UNCHANGED <<stage, fallback, imf, reply>>
  BY BackgroundMoves DEF OthersStay
<1>3. CASE Router!HealthOk(r) \/ Router!LookupMiss(r)
  BY <1>1, <1>3, CallStepMoves DEF Router!Handler
<1>4. CASE Router!Raises(r) \/ \E e \in cache : Router!LookupHit(r, e)
  BY <1>1, <1>4, RaisesMoves, HitMoves DEF Router!Handler
<1>5. CASE Router!InferOk(r)
  BY <1>1, <1>5, OkMoves DEF Router!Handler
<1>6. CASE (Router!HealthFail(r) \/ Router!InferFail(r)) /\ imf[r].selected \in Refuses
  BY <1>1, <1>6, FailMoves DEF Router!Handler
<1>7. CASE Router!Background(r)
  BY <1>2, <1>7
<1> QED BY <1>3, <1>4, <1>5, <1>6, <1>7 DEF Calm


LEMMA HealthyCalm ==
    ASSUME PathType, NEW r \in Requests, RouterSteps(r), Calm(r), Healthy(r)
    PROVE  Healthy(r)'
<1>1. /\ Router!TypeOK /\ RoutingInStep /\ RouteInv /\ job \in [Calls -> Jobs]
      /\ job' = job /\ Serves' = Serves /\ Refuses' = Refuses /\ asked'[r] = 0
  BY DEF RouterSteps, adapter, PathType, RouteInv, FrontType, Adapter!TypeOK, Jobs, Serves, Refuses
<1>2. HealthyOf(r, stage[r], fallback[r], imf[r], asked[r], job, Serves, Refuses)
  BY DEF Healthy
<1>3. \/ GoesForth(r)
      \/ Ends(r)
      \/ FallsBack(r) /\ imf[r].selected \in Refuses
      \/ stage[r] = "replied" /\ UNCHANGED <<stage, fallback, imf, reply>>
  BY <1>1, CalmMoves
<1>4. HealthyOf(r, stage'[r], fallback'[r], imf'[r], 0, job, Serves, Refuses)
  <2>1. CASE GoesForth(r) \/ Ends(r)
    <3>1. /\ fallback'[r] = fallback[r] /\ imf'[r].level = imf[r].level
          /\ imf'[r].selected = imf[r].selected /\ stage'[r] \notin {"new", "lost"} /\ Routing(r)
      BY <2>1 DEF GoesForth, Ends, SameRoute, Routing, RoutingStages
    <3>2. <<r, imf[r].selected>> \in Calls
      BY <1>1, <3>1, CallOfType DEF CallOf
    <3>3. 0 <= job[<<r, imf[r].selected>>].age
      BY <1>1, <3>2, JobFacts
    <3> QED BY <1>2, <3>1, <3>3 DEF HealthyOf
  <2>2. CASE FallsBack(r) /\ imf[r].selected \in Refuses
    <3>1. InStep(r) /\ Router!HasNext(fallback[r]) /\ stage'[r] = "health"
      BY <1>1, <2>2 DEF FallsBack, RoutingInStep, Routing, RoutingStages
    <3>2. imf'[r].level = imf[r].level + 1 /\ fallback'[r].chain = fallback[r].chain
      BY <1>1, <2>2, <3>1, FallsBackInStep
    <3>3. imf[r].selected = fallback[r].chain[imf[r].level + 1] /\ imf[r].level \in Nat
      BY <1>1, <3>1, LevelIsIndex
    <3>4. \A n \in 1..(imf[r].level + 1) : n \in 1..imf[r].level \/ n = imf[r].level + 1
      BY <3>3
    <3> QED BY <1>2, <2>2, <3>1, <3>2, <3>3, <3>4 DEF HealthyOf
  <2>3. CASE stage[r] = "replied" /\ UNCHANGED <<stage, fallback, imf, reply>>
    BY <1>2, <2>3 DEF HealthyOf
  <2> QED BY <1>3, <2>1, <2>2, <2>3
<1> QED BY <1>1, <1>4 DEF Healthy

\* What an answer leaves to be done.
LEMMA OkSaves ==
    ASSUME RouteInv, NEW r \in Requests, Router!InferOk(r), imf[r].hit = FALSE
    PROVE  InTasks(EntryOf(r, imf[r]), tasks'[r])
<1>1. Router!TypeOK /\ InStep(r)
  BY DEF RouteInv, RoutingInStep, Routing, RoutingStages, Router!InferOk
<1>2. PICK w \in Router!Task : w = Router!CacheWriteTask(InferAnswer(r))
  BY <1>1, InferOkFacts DEF Router!Task
<1>3. w = EntryOf(r, imf[r])
  BY <1>1, <1>2, InferOkFacts DEF Router!CacheWriteTask, EntryOf
<1>4. PICK event \in Router!Task : event = Router!RoutingAudit(InferAnswer(r), "pass")
  BY <1>1, InferOkFacts
<1>5. PICK q \in Seq(Router!Task) : q = tasks[r]
  BY <1>1 DEF Router!TypeOK
<1>6. InferAnswer(r).hit = FALSE
  BY <1>1, InferOkFacts
<1>7. Router!AddTasks(r, <<w>> \o <<event>>)
  BY <1>2, <1>4, <1>6 DEF Router!InferOk, InferAnswer
<1>8. PICK e : e = <<w>> \o <<event>>
  OBVIOUS
<1>9. e \in Seq(Router!Task) /\ Len(e) = 2 /\ e[1] = w
  BY <1>8
<1>10. tasks'[r] = q \o e
  BY <1>1, <1>5, <1>7, <1>8 DEF Router!AddTasks, Router!TypeOK
<1>11. Len(q) + 1 \in 1..Len(q \o e) /\ (q \o e)[Len(q) + 1] = w
  BY <1>5, <1>9
<1> QED BY <1>3, <1>10, <1>11 DEF InTasks

LEMMA TailKeeps ==
    ASSUME NEW q \in Seq(Router!Task), q # <<>>, NEW e, InTasks(e, q), e # Head(q)
    PROVE  InTasks(e, Tail(q))
<1>1. PICK n \in 1..Len(q) : q[n] = e
  BY DEF InTasks
<1>2. n # 1 /\ n \in Nat
  BY <1>1
<1>3. n - 1 \in 1..Len(Tail(q)) /\ Tail(q)[n - 1] = q[n]
  BY <1>1, <1>2
<1> QED BY <1>1, <1>3 DEF InTasks

LEMMA GivenCalm ==
    ASSUME PathType, BaseInv, NEW r \in Requests, RouterSteps(r), Calm(r), Healthy(r), Given(r)
    PROVE  Given(r)' /\ SameRoute(imf[r], imf'[r]) /\ fallback'[r] = fallback[r]
<1>1. /\ Router!TypeOK /\ RoutingInStep /\ RouteInv /\ job' = job /\ Adapter!TypeOK
      /\ RouteOf(r) /\ cache \subseteq cache'
  BY CalmHandles, TasksStay DEF RouterSteps, adapter, PathType, RouteInv, BaseInv
<1>2. GivenOf(r, stage[r], imf[r], tasks[r], job, cache)
  BY DEF Given
<1>3. imf[r].selected \notin Refuses
  <2>1. PICK c \in Calls : c = <<r, imf[r].selected>>
    BY <1>2 DEF GivenOf
  <2>2. PICK j \in Jobs : j = job[c]
    BY <1>1, <2>1 DEF Adapter!TypeOK, Jobs
  <2>3. Fits(j, imf[r].selected, Serves, Refuses) /\ Goes(j)
    BY <1>2, <2>1, <2>2 DEF GivenOf, Healthy, HealthyOf
  <2> QED BY <1>1, <2>3, GoesApart, ServesApart
<1>4. InStepOf(fallback[r], imf[r])
  BY DEF Given, InStep
<1>5. CASE stage[r] = "infer"
  <2>1. Router!InferOk(r)
    BY <1>3, <1>5, BackgroundMoves
    DEF Calm, Router!HealthOk, Router!LookupMiss, Router!LookupHit
  <2>2. Ends(r)
    BY <1>1, <2>1, OkMoves
  <2>3. InTasks(EntryOf(r, imf[r]), tasks'[r])
    BY <1>1, <1>5, <2>1, OkSaves DEF RouteOf
  <2>4. EntryOf(r, imf'[r]) = EntryOf(r, imf[r]) /\ <<r, imf'[r].selected>> = <<r, imf[r].selected>>
    BY <2>2 DEF Ends, SameRoute, EntryOf
  <2>5. InStepOf(fallback'[r], imf'[r])
    BY <1>4, <2>2, SameRouteInStep DEF Ends
  <2> QED BY <1>1, <1>2, <2>2, <2>3, <2>4, <2>5 DEF Given, GivenOf, InStep, Ends
<1>6. CASE stage[r] # "infer"
  <2>1. stage[r] = "replied"
    BY <1>2, <1>6 DEF GivenOf
  <2>2. /\ Router!Background(r)
        /\ Head(tasks[r]).kind = "cache_write" => Head(tasks[r]) \in cache'
    BY <2>1 DEF Calm, Router!HealthOk, Router!LookupMiss, Router!LookupHit, Router!InferOk,
       Router!HealthFail, Router!InferFail
  <2>3. /\ UNCHANGED <<stage, imf, fallback>>
        /\ tasks[r] # <<>> /\ tasks' = [tasks EXCEPT ![r] = Tail(tasks[r])]
    BY <2>2, BackgroundMoves
  <2>4. PICK q \in Seq(Router!Task) : q = tasks[r]
    BY <1>1 DEF Router!TypeOK
  <2>5. PICK e : e = EntryOf(r, imf[r])
    OBVIOUS
  <2>6. e.kind = "cache_write"
    BY <2>5 DEF EntryOf
  <2>7. tasks'[r] = Tail(q)
    BY <1>1, <2>3, <2>4 DEF Router!TypeOK
  <2>8. e \in cache' \/ InTasks(e, Tail(q))
    BY <1>1, <1>2, <2>1, <2>2, <2>3, <2>4, <2>5, <2>6, TailKeeps DEF GivenOf
  <2> QED BY <1>1, <1>2, <1>4, <2>1, <2>3, <2>5, <2>7, <2>8 DEF Given, GivenOf, InStep, SameRoute
<1> QED BY <1>5, <1>6

\* A request on its way to the text that q left in the cache.
OnWayOf(st, i, g, k) ==
    \/ st = "replied"
    \/ /\ st \in RoutingStages /\ i.level <= k.level
       /\ i.selected = g.chain[i.level + 1]
       /\ st = "infer" => i.level # k.level

OnWay(r, q) == OnWayOf(stage[r], imf[r], fallback[q], imf[q])

LEMMA OnWayFalls ==
    ASSUME NEW f \in Router!FallbackState, NEW i, InStepOf(f, i), Follows(f.chain),
           NEW g \in Router!FallbackState, NEW k, InStepOf(g, k), Follows(g.chain),
           i.level <= k.level, i.selected = g.chain[i.level + 1], i.selected # k.selected,
           NEW h, NEW l, InStepOf(h, l), l.level = i.level + 1, h.chain = f.chain
    PROVE  OnWayOf("health", l, g, k)
<1>1. /\ f.index \in Nat /\ i.level = f.index /\ f.chain \in Seq(Router!Names)
      /\ g.index \in Nat /\ k.level = g.index /\ g.chain \in Seq(Router!Names)
      /\ h.index = l.level /\ h.index < Len(f.chain) /\ k.level < Len(g.chain)
  BY DEF InStepOf, Router!FallbackState
<1>2. PICK n \in Nat : n = i.level
  BY <1>1
<1>3. /\ i.selected = f.chain[n + 1] /\ k.selected = g.chain[k.level + 1]
      /\ l.selected = f.chain[n + 1 + 1]
  BY <1>1, <1>2 DEF InStepOf, Router!SelectedModel
<1>4. n # k.level
  BY <1>2, <1>3
<1>5. n + 1 <= k.level /\ k.level \in Nat /\ Len(f.chain) \in Nat /\ Len(g.chain) \in Nat
  BY <1>1, <1>2, <1>4
<1>6. /\ n + 1 \in 1..Len(f.chain) /\ n + 1 + 1 \in 1..Len(f.chain)
      /\ n + 1 \in 1..Len(g.chain) /\ n + 1 + 1 \in 1..Len(g.chain)
  BY <1>1, <1>2, <1>5
<1>7. /\ f.chain[n + 1 + 1] = FallbackOf[f.chain[n + 1]]
      /\ g.chain[n + 1 + 1] = FallbackOf[g.chain[n + 1]]
  BY <1>6 DEF Follows
<1>8. l.selected = g.chain[n + 1 + 1]
  BY <1>2, <1>3, <1>7
<1> QED BY <1>2, <1>5, <1>8 DEF OnWayOf, RoutingStages

LEMMA OnWayCalm ==
    ASSUME PathType, BaseInv, NEW r \in Requests, NEW q \in Requests, r[1] = q[1],
           RouterSteps(r), Calm(r),
           OnWay(r, q), InStep(q), imf[q].selected \in Serves, Cached(q)
    PROVE  OnWayOf(stage'[r], imf'[r], fallback[q], imf[q])
<1>1. /\ Router!TypeOK /\ RoutingInStep /\ RouteInv /\ Adapter!TypeOK
      /\ RouteOf(r) /\ RouteOf(q)
  BY DEF PathType, RouteInv, BaseInv
<1>2. OnWayOf(stage[r], imf[r], fallback[q], imf[q])
  BY DEF OnWay
<1>3. \/ GoesForth(r)
      \/ Ends(r)
      \/ FallsBack(r) /\ imf[r].selected \in Refuses
      \/ stage[r] = "replied" /\ UNCHANGED <<stage, fallback, imf, reply>>
  BY <1>1, CalmMoves
<1>4. CASE GoesForth(r)
  <2>1. /\ Routing(r) /\ stage'[r] \in RoutingStages /\ SameRoute(imf[r], imf'[r])
        /\ stage[r] \in RoutingStages /\ stage[r] # "replied"
        /\ stage'[r] = "infer" => stage[r] = "lookup"
    BY <1>4 DEF GoesForth, Routing, RoutingStages
  <2>2. ASSUME stage'[r] = "infer", imf[r].level = imf[q].level
        PROVE  FALSE
    <3>1. InStep(r) /\ imf[r].selected = imf[q].selected
      <4>1. InStep(r) /\ imf[q].selected = fallback[q].chain[imf[q].level + 1]
        BY <1>1, <2>1, LevelIsIndex DEF RoutingInStep
      <4> QED BY <1>2, <2>1, <2>2, <4>1 DEF OnWayOf
    <3>2. Router!LookupMiss(r) /\ ~(\E e \in cache : SameKey(e, r))
      <4>1. \A e \in cache : ~Router!LookupHit(r, e)
        BY <1>1, <2>2, HitMoves DEF Ends
      <4> QED BY <2>1, <2>2, <4>1, BackgroundMoves DEF Calm, Router!HealthOk,
             Router!InferOk, Router!HealthFail, Router!InferFail
    <3>3. fallback[r].chain # <<>> /\ fallback[q].chain # <<>>
      BY <1>1, <3>1, LevelIsIndex
    <3>4. imf[r].task = imf[q].task
      BY <1>1, <3>3 DEF RouteOf, RoutedBy
    <3>5. SameKey(EntryOf(q, imf[q]), r)
      BY <3>1, <3>4 DEF SameKey, EntryOf
    <3> QED BY <3>2, <3>5 DEF Cached
  <2> QED BY <1>2, <2>1, <2>2 DEF OnWayOf, SameRoute
<1>5. CASE Ends(r)
  BY <1>5 DEF Ends, OnWayOf
<1>6. CASE FallsBack(r) /\ imf[r].selected \in Refuses
  <2>1. InStep(r) /\ stage[r] \in RoutingStages /\ stage[r] # "replied" /\ stage'[r] = "health"
    BY <1>1, <1>6 DEF FallsBack, RoutingInStep, Routing, RoutingStages
  <2>2. /\ InStepOf(fallback'[r], imf'[r]) /\ imf'[r].level = imf[r].level + 1
        /\ fallback'[r].chain = fallback[r].chain
    BY <1>1, <1>6, <2>1, FallsBackInStep
  <2>3. imf[r].selected # imf[q].selected
    BY <1>1, <1>6, ServesApart
  <2>4. Follows(fallback[r].chain) /\ Follows(fallback[q].chain)
    BY <1>1, <2>1, LevelIsIndex DEF RouteOf, RoutedBy
  <2>5. PICK f \in Router!FallbackState : f = fallback[r]
    BY <1>1 DEF Router!TypeOK
  <2>6. PICK g \in Router!FallbackState : g = fallback[q]
    BY <1>1 DEF Router!TypeOK
  <2>7. PICK i : i = imf[r]
    OBVIOUS
  <2>8. PICK k : k = imf[q]
    OBVIOUS
  <2>9. PICK h : h = fallback'[r]
    OBVIOUS
  <2>10. PICK l : l = imf'[r]
    OBVIOUS
  <2>11. i.level <= k.level /\ i.selected = g.chain[i.level + 1]
    BY <1>2, <2>1, <2>6, <2>7, <2>8 DEF OnWayOf
  <2>12. InStepOf(f, i) /\ InStepOf(g, k)
    BY <2>1, <2>5, <2>6, <2>7, <2>8 DEF InStep
  <2>13. OnWayOf("health", l, g, k)
    BY <2>2, <2>3, <2>4, <2>5, <2>6, <2>7, <2>8, <2>9, <2>10, <2>11, <2>12, OnWayFalls
  <2> QED BY <2>1, <2>6, <2>8, <2>10, <2>13
<1>7. CASE stage[r] = "replied" /\ UNCHANGED <<stage, fallback, imf, reply>>
  BY <1>7 DEF OnWayOf
<1> QED BY <1>3, <1>4, <1>5, <1>6, <1>7


(***************************************************************************)
(* Of each client, the first request timed out leads                       *)
(***************************************************************************)
Waits(r, c, g) == r[1] = c /\ g[r] = "waiting"
CallAge(r) == job[CallOf(r)].age

\* A waiting request nothing went wrong for: it took no time, or all its time
\* went to its text.
Fresh(r) == Healthy(r) /\ (age[r] = 0 \/ (Given(r) /\ age[r] <= CallAge(r)))

\* As long as the text of q is not there, all the time the client has spent
\* since it sent q went to that text ...
Ahead(q) ==
    /\ streak[q[1]] * GatewayTimeout <= CallAge(q)
    /\ \A r \in Requests :
          Waits(r, q[1], gate) => streak[q[1]] * GatewayTimeout + age[r] <= CallAge(q)

\* ... and once it is in the cache, at most one more request was under way.
Backed(q) ==
    /\ Cached(q) /\ streak[q[1]] <= Patience
    /\ \A r \in Requests : Waits(r, q[1], gate) =>
          streak[q[1]] <= MaxGeneration \div GatewayTimeout \/ (age[r] = 0 /\ OnWay(r, q))

Leads(q) == gate[q] = "done" /\ Healthy(q) /\ Given(q) /\ (Ahead(q) \/ Backed(q))

ClientInv(c) ==
    streak[c] >= 0 =>
        /\ \A r \in Requests : Waits(r, c, gate) => Fresh(r)
        /\ streak[c] >= 1 => \E q \in Requests : q[1] = c /\ Leads(q)

TimeInv == BaseInv /\ \A c \in Clients : ClientInv(c)

\* The arithmetic of it.
LEMMA InTime ==
    ASSUME NEW s \in Nat, NEW g \in Nat \ {0}, NEW m \in Nat, s * g <= m
    PROVE  s <= m \div g
<1>1. PICK d \in Int : d = m \div g
  OBVIOUS
<1>2. m < (d + 1) * g
  BY <1>1
<1>3. s * g < (d + 1) * g
  BY <1>1, <1>2
<1>4. s < d + 1
  BY <1>1, <1>3
<1> QED BY <1>1, <1>4

LEMMA OneMore ==
    ASSUME NEW s \in Nat, NEW g \in Nat, NEW a \in Nat, NEW n \in Nat, s * g + a <= n, a >= g
    PROVE  (s + 1) * g <= n
OBVIOUS

LEMMA Constants ==
    /\ GatewayTimeout \in Nat \ {0} /\ MaxGeneration \in Nat
    /\ MaxGeneration \div GatewayTimeout \in Nat
    /\ Patience = MaxGeneration \div GatewayTimeout + 1
BY PathAssumption DEF PathAssumption, Patience

\* What the text of a request given up tells.
LEMMA GivenFacts ==
    ASSUME PathType, NEW q \in Requests, Healthy(q), Given(q)
    PROVE  /\ CallOf(q) \in Calls /\ CallAge(q) \in Nat /\ CallAge(q) <= MaxGeneration
           /\ imf[q].selected \in Serves
<1>1. job \in [Calls -> Jobs]
  BY DEF PathType, Adapter!TypeOK, Jobs
<1>2. PICK c \in Calls : c = CallOf(q)
  BY DEF Given, GivenOf, CallOf
<1>3. c[1] = q /\ c[2] = imf[q].selected
  BY <1>2 DEF CallOf
<1>4. PICK j \in Jobs : j = job[c]
  BY <1>1
<1>5. Fits(j, imf[q].selected, Serves, Refuses) /\ Goes(j)
  BY <1>2, <1>3, <1>4 DEF Given, GivenOf, Healthy, HealthyOf, CallOf
<1>6. j.age <= MaxGeneration /\ imf[q].selected \in Serves /\ j.age \in Nat
  BY <1>5, GoesApart, JobFacts
<1> QED BY <1>2, <1>4, <1>6 DEF CallAge

LEMMA LeadsBound ==
    ASSUME PathType, NEW q \in Requests, Leads(q), streak[q[1]] \in Nat
    PROVE  /\ streak[q[1]] <= Patience
           /\ Ahead(q) => streak[q[1]] <= MaxGeneration \div GatewayTimeout
<1>1. PICK n \in Nat : n = CallAge(q) /\ n <= MaxGeneration
  BY GivenFacts DEF Leads
<1>2. PICK s \in Nat : s = streak[q[1]]
  OBVIOUS
<1>3. ASSUME Ahead(q)
      PROVE  s <= MaxGeneration \div GatewayTimeout
  <2>1. s * GatewayTimeout <= n
    BY <1>1, <1>2, <1>3 DEF Ahead
  <2>2. s * GatewayTimeout \in Int
    BY <1>2, Constants
  <2>3. s * GatewayTimeout <= MaxGeneration
    BY <1>1, <2>1, <2>2, Constants
  <2> QED BY <2>3, InTime, Constants
<1>4. Backed(q) => s <= Patience
  BY <1>2 DEF Backed
<1> QED BY <1>2, <1>3, <1>4, Constants DEF Leads

LEMMA TimeSuffices ==
    ASSUME PathType, TimeInv
    PROVE  TimeoutsBounded
<1> SUFFICES ASSUME NEW c \in Clients PROVE streak[c] <= Patience
  BY DEF TimeoutsBounded
<1>1. PICK s \in -1..MaxAttempts : s = streak[c]
  BY DEF PathType, FrontType
<1>2. MaxAttempts \in Nat
  BY PathAssumption DEF PathAssumption
<1>3. CASE s >= 1
  <2>1. PICK q \in Requests : q[1] = c /\ Leads(q)
    BY <1>1, <1>3 DEF TimeInv, ClientInv
  <2>2. streak[q[1]] \in Nat
    BY <1>1, <1>2, <1>3, <2>1
  <2> QED BY <2>1, <2>2, LeadsBound
<1>4. CASE ~(s >= 1)
  <2>1. s <= 0
    BY <1>2, <1>4
  <2> QED BY <1>1, <1>2, <2>1, Constants
<1> QED BY <1>3, <1>4

\* A client waits for one request.
LEMMA OneWaits ==
    ASSUME NEW g, \A r \in Requests : g[r] # "new" => EarlierDone(g, r),
           NEW x \in Requests, NEW y \in Requests, x[1] = y[1],
           g[x] = "waiting", g[y] = "waiting"
    PROVE  x = y
<1>1. PICK c \in Clients, m \in 1..MaxAttempts : x = <<c, m>>
  BY DEF Requests
<1>2. PICK n \in 1..MaxAttempts : y = <<c, n>>
  BY <1>1 DEF Requests
<1>3. MaxAttempts \in Nat /\ x[1] = c /\ x[2] = m /\ y[1] = c /\ y[2] = n
  BY <1>1, <1>2, PathAssumption DEF PathAssumption
<1>4. ~(m < n)
  <2>1. m < n => m \in 1..(n - 1)
    BY <1>3
  <2> QED BY <1>1, <1>3, <2>1 DEF EarlierDone
<1>5. ~(n < m)
  <2>1. n < m => n \in 1..(m - 1)
    BY <1>3
  <2> QED BY <1>2, <1>3, <2>1 DEF EarlierDone
<1>6. m = n
  BY <1>3, <1>4, <1>5
<1> QED BY <1>1, <1>2, <1>6

\* A request the router leaves alone.
Aside(s) ==
    /\ stage'[s] = stage[s] /\ fallback'[s] = fallback[s] /\ imf'[s] = imf[s]
    /\ tasks'[s] = tasks[s] /\ asked'[s] = asked[s]

LEMMA AsideStays ==
    ASSUME NEW s \in Requests, Aside(s), job' = job, Serves \subseteq Serves',
           Refuses \subseteq Refuses', cache \subseteq cache'
    PROVE  /\ Healthy(s) => Healthy(s)'
           /\ Given(s) => Given(s)'
           /\ CallAge(s)' = CallAge(s)
           /\ Cached(s) => Cached(s)'
<1>1. CallAge(s)' = CallAge(s)
  BY DEF Aside, CallAge, CallOf
<1>2. Cached(s) => Cached(s)'
  BY DEF Aside, Cached
<1>3. Given(s) => Given(s)'
  BY DEF Aside, Given, GivenOf, InStep
<1>4. ASSUME Healthy(s)
      PROVE  Healthy(s)'
  <2>1. HealthyOf(s, stage[s], fallback[s], imf[s], asked[s], job, Serves, Refuses)
    BY <1>4 DEF Healthy
  <2>2. HealthyOf(s, stage[s], fallback[s], imf[s], asked[s], job, Serves', Refuses')
    BY <2>1, FitsMore DEF HealthyOf
  <2> QED BY <2>2 DEF Healthy, Aside
<1> QED BY <1>1, <1>2, <1>3, <1>4


\* What goes on as it was.
StaysFine(s) ==
    Healthy(s) => /\ Healthy(s)'
                  /\ Given(s) => /\ Given(s)' /\ CallAge(s)' = CallAge(s)
                                 /\ Cached(s) => Cached(s)'

StaysOnWay(r, q) ==
    Healthy(r) /\ Healthy(q) /\ Given(q) /\ Cached(q) /\ OnWay(r, q) => OnWay(r, q)'

LEMMA ClientKept ==
    ASSUME NEW c \in Clients, ClientInv(c), streak'[c] = streak[c],
           \A s \in Requests : s[1] = c =>
              /\ gate'[s] = "waiting" => gate[s] = "waiting"
              /\ gate[s] = "done" => gate'[s] = "done"
              /\ age'[s] = age[s] /\ StaysFine(s)
              /\ \A q \in Requests : q[1] = c => StaysOnWay(s, q)
    PROVE  ClientInv(c)'
<1> SUFFICES ASSUME streak[c] >= 0 PROVE ClientInv(c)'
  BY DEF ClientInv
<1>1. ASSUME NEW r \in Requests, Waits(r, c, gate')
      PROVE  Waits(r, c, gate) /\ Fresh(r) /\ Fresh(r)'
  <2>1. Waits(r, c, gate) /\ r[1] = c
    BY <1>1 DEF Waits
  <2>2. Fresh(r) /\ StaysFine(r) /\ age'[r] = age[r]
    BY <2>1 DEF ClientInv
  <2> QED BY <2>1, <2>2 DEF Fresh, StaysFine
<1>2. ASSUME NEW q \in Requests, q[1] = c, Leads(q)
      PROVE  Leads(q)'
  <2>1. /\ gate'[q] = "done" /\ Healthy(q)' /\ Given(q)' /\ CallAge(q)' = CallAge(q)
        /\ Cached(q) => Cached(q)'
    BY <1>2 DEF Leads, StaysFine
  <2>2. CASE Ahead(q)
    <3>1. \A r \in Requests : Waits(r, c, gate') => age'[r] = age[r] /\ Waits(r, c, gate)
      BY <1>1 DEF Waits
    <3>2. Ahead(q)'
      BY <1>2, <2>1, <2>2, <3>1 DEF Ahead
    <3> QED BY <2>1, <3>2 DEF Leads
  <2>3. CASE Backed(q)
    <3>1. ASSUME NEW r \in Requests, Waits(r, c, gate')
          PROVE  Waits(r, c, gate) /\ age'[r] = age[r] /\ (OnWay(r, q) => OnWay(r, q)')
      <4>1. Waits(r, c, gate) /\ Healthy(r) /\ r[1] = c
        BY <1>1, <3>1 DEF Fresh, Waits
      <4>2. StaysOnWay(r, q) /\ age'[r] = age[r]
        BY <1>2, <4>1
      <4> QED BY <1>2, <2>3, <4>1, <4>2 DEF StaysOnWay, Leads, Backed
    <3>2. Backed(q)'
      BY <1>2, <2>1, <2>3, <3>1 DEF Backed
    <3> QED BY <2>1, <3>2 DEF Leads
  <2> QED BY <1>2, <2>2, <2>3 DEF Leads
<1>3. streak[c] >= 1 => \E q \in Requests : q[1] = c /\ Leads(q)'
  BY <1>2 DEF ClientInv
<1> QED BY <1>1, <1>3 DEF ClientInv

\* Where something went wrong, nothing is left to say of who waits.
LEMMA ClientReset ==
    ASSUME NEW c \in Clients, Impatience, gate' = gate
    PROVE  ClientInv(c)'
<1>1. streak'[c] = IF \E r \in Requests : r[1] = c /\ gate[r] = "waiting" THEN -1 ELSE 0
  BY DEF Impatience
<1>2. CASE \E r \in Requests : r[1] = c /\ gate[r] = "waiting"
  <2>1. streak'[c] = -1
    BY <1>1, <1>2
  <2> QED BY <2>1 DEF ClientInv
<1>3. CASE ~(\E r \in Requests : r[1] = c /\ gate[r] = "waiting")
  <2>1. streak'[c] = 0 /\ \A r \in Requests : ~Waits(r, c, gate')
    BY <1>1, <1>3 DEF Waits
  <2> QED BY <2>1 DEF ClientInv
<1> QED BY <1>2, <1>3

LEMMA AsideFine ==
    ASSUME NEW s \in Requests, Aside(s), job' = job, Serves \subseteq Serves',
           Refuses \subseteq Refuses', cache \subseteq cache'
    PROVE  StaysFine(s)
BY AsideStays DEF StaysFine

LEMMA AsideOnWay ==
    ASSUME NEW r \in Requests, NEW q \in Requests, Aside(r), Aside(q)
    PROVE  StaysOnWay(r, q)
BY DEF Aside, StaysOnWay, OnWay

\* A request that is received.
LEMMA ReceiveLevel ==
    ASSUME RouteInv, NEW r \in Requests, NEW b \in Bodies, Router!Receive(r, b)
    PROVE  imf'[r].level = 0
<1>1. imf \in [Requests -> Router!Imf]
  BY DEF RouteInv, Router!TypeOK
<1>2. PICK task : task = Router!ClassifyTask(b.keywords)
  OBVIOUS
<1>3. PICK i : i = [Router!EmptyImf EXCEPT !.task = task]
  OBVIOUS
<1>4. i.level = 0 /\ Router!EmptyImf.level = 0
  BY <1>3 DEF Router!EmptyImf
<1>5. \/ imf' = [imf EXCEPT ![r] = Router!EmptyImf]
      \/ imf' = [imf EXCEPT ![r] = i]
      \/ \E chain : imf' = [imf EXCEPT ![r] = [task |-> task, mode |-> b.mode,
                                      selected |-> chain[1], level |-> 0, hit |-> FALSE,
                                      content |-> Router!NoContent]]
  BY <1>2, <1>3 DEF Router!Receive, Router!Refused, Router!StartRouting
<1> QED BY <1>1, <1>4, <1>5

LEMMA SendClient ==
    ASSUME PathType, BaseInv, BaseInv', NEW r \in Requests, Send(r), NEW c \in Clients, ClientInv(c)
    PROVE  ClientInv(c)'
<1>1. /\ RouteInv /\ FrontType /\ gate[r] = "new" /\ job' = job /\ UNCHANGED <<age, asked, streak>>
      /\ gate' = [gate EXCEPT ![r] = "waiting"] /\ Router!Receive(r, BodyOf[r[1]])
      /\ Serves' = Serves /\ Refuses' = Refuses /\ r[1] \in Clients /\ BodyOf[r[1]] \in Bodies
  BY DEF PathType, Send, adapter, Fine, Serves, Refuses, Requests, Bodies
<1>2. \A s \in Requests \ {r} : gate'[s] = gate[s]
  BY <1>1 DEF FrontType
<1>3. OthersStay(r) /\ (Refusal(r) \/ Begins(r)) /\ imf'[r].level = 0
  BY <1>1, ReceiveMoves, ReceiveLevel DEF RouteInv
<1>4. tasks' = tasks /\ cache' = cache
  BY <1>1, ReceiveKeeps
<1>5. ASSUME NEW s \in Requests \ {r}
      PROVE  Aside(s) /\ StaysFine(s)
  <2>1. Aside(s)
    BY <1>1, <1>3, <1>4 DEF OthersStay, Aside
  <2> QED BY <1>1, <1>4, <2>1, AsideFine
<1>6. CASE c # r[1]
  <2>1. ASSUME NEW s \in Requests, s[1] = c
        PROVE  /\ gate'[s] = gate[s] /\ age'[s] = age[s] /\ StaysFine(s)
               /\ \A q \in Requests : q[1] = c => StaysOnWay(s, q)
    BY <1>1, <1>2, <1>5, <1>6, <2>1, AsideOnWay
  <2> QED BY <1>1, <2>1, ClientKept
<1>7. CASE c = r[1]
  <2> SUFFICES ASSUME streak[c] >= 0 PROVE ClientInv(c)'
    BY <1>1 DEF ClientInv
  <2>1. gate'[r] = "waiting" /\ Waits(r, c, gate')
    BY <1>1, <1>7 DEF FrontType, Waits
  <2>2. ASSUME NEW x \in Requests, Waits(x, c, gate')
        PROVE  x = r
    <3>1. \A s \in Requests : gate'[s] # "new" => EarlierDone(gate', s)
      BY DEF BaseInv, OrderOf
    <3>2. x[1] = r[1] /\ gate'[x] = "waiting"
      BY <1>7, <2>2 DEF Waits
    <3> QED BY <2>1, <3>1, <3>2, OneWaits
  <2>3. age'[r] = 0 /\ age[r] = 0 /\ \A x \in Calls : x[1] = r => job[x] = Adapter!NoJob
    BY <1>1, <1>3 DEF BaseInv, OrderOf, Refusal, Begins
  <2>4. Fresh(r)'
    <3>1. stage'[r] \in {"replied", "health"}
      BY <1>3 DEF Refusal, Begins
    <3>2. \A n \in 1..imf'[r].level : FALSE
      BY <1>3
    <3>3. HealthyOf(r, stage'[r], fallback'[r], imf'[r], asked'[r], job', Serves', Refuses')
      BY <1>1, <2>3, <3>1, <3>2 DEF HealthyOf, Fits
    <3> QED BY <2>3, <3>3 DEF Fresh, Healthy
  <2>5. ASSUME NEW q \in Requests, q[1] = c, Leads(q)
        PROVE  Leads(q)'
    <3>1. q \in Requests \ {r}
      BY <1>1, <2>5 DEF Leads
    <3>2. /\ gate'[q] = "done" /\ Healthy(q)' /\ Given(q)' /\ CallAge(q)' = CallAge(q)
          /\ Cached(q) => Cached(q)'
      BY <1>2, <1>5, <2>5, <3>1 DEF Leads, StaysFine
    <3>3. PICK n \in Nat : n = CallAge(q)
      BY <2>5, GivenFacts DEF Leads
    <3>4. PICK s \in Nat : s = streak[c]
      BY <1>1 DEF FrontType
    <3>5. CASE Ahead(q)
      <4>1. s * GatewayTimeout <= n /\ s * GatewayTimeout \in Nat
        BY <2>5, <3>3, <3>4, <3>5, Constants DEF Ahead
      <4>2. s * GatewayTimeout + 0 <= n
        BY <4>1
      <4>3. Ahead(q)'
        BY <1>1, <2>2, <2>3, <2>5, <3>2, <3>3, <3>4, <4>1, <4>2 DEF Ahead
      <4> QED BY <3>2, <4>3 DEF Leads
    <3>6. CASE Backed(q)
      <4>1. OnWay(r, q)'
        <5>1. CASE Refusal(r)
          BY <5>1 DEF Refusal, OnWay, OnWayOf
        <5>2. CASE Begins(r)
          <6>1. stage'[r] = "health" /\ InStepOf(fallback'[r], imf'[r]) /\ Router!TypeOK'
            BY <1>1, <5>2, NextRoute DEF Begins, RouteInv, Next
          <6>2. /\ imf'[r].selected = fallback'[r].chain[1] /\ fallback'[r].chain # <<>>
            <7>1. PICK f : f = fallback'[r] /\ f \in Router!FallbackState
              BY <6>1 DEF Router!TypeOK
            <7>2. f.chain # <<>> /\ Router!SelectedModel(f) = f.chain[1]
              BY <1>3, <6>1, <7>1 DEF InStepOf, Router!FallbackState, Router!SelectedModel
            <7> QED BY <6>1, <7>1, <7>2 DEF InStepOf
          <6>3. RouteOf(r)' /\ RouteOf(q)
            BY DEF BaseInv
          <6>4. imf'[r].selected = FirstModel(c)
            BY <1>7, <6>2, <6>3 DEF RouteOf, RoutedBy
          <6>5. fallback[q].chain # <<>> /\ imf[q].level \in Nat
            BY <1>1, <2>5, LevelIsIndex DEF Leads, Given, RouteInv
          <6>6. fallback[q].chain[1] = FirstModel(c)
            BY <2>5, <6>3, <6>5 DEF RouteOf, RoutedBy
          <6>7. fallback'[q] = fallback[q] /\ imf'[q] = imf[q]
            BY <1>5, <3>1 DEF Aside
          <6>8. imf'[r].level + 1 = 1 /\ imf'[r].level <= imf'[q].level
            BY <1>3, <6>5, <6>7
          <6> QED BY <6>1, <6>4, <6>6, <6>7, <6>8 DEF OnWay, OnWayOf, RoutingStages
        <5> QED BY <1>3, <5>1, <5>2
      <4>2. Backed(q)'
        BY <1>1, <2>2, <2>3, <2>5, <3>2, <3>6, <4>1 DEF Backed
      <4> QED BY <3>2, <4>2 DEF Leads
    <3> QED BY <2>5, <3>5, <3>6 DEF Leads
  <2> QED BY <1>1, <2>2, <2>4, <2>5 DEF ClientInv
<1> QED BY <1>6, <1>7


\* A request the front gives up, or is done with.
TimesOut(r) ==
    /\ gate[r] = "waiting" /\ age[r] >= GatewayTimeout
    /\ gate' = [gate EXCEPT ![r] = "done"]
    /\ streak' = [streak EXCEPT ![r[1]] = streak[r[1]] + 1]

LEMMA FrontEither ==
    ASSUME FrontType, NEW r \in Requests, FrontSteps(r), GatewayTimeout <= RouterTimeout
    PROVE  \/ TimesOut(r)
           \/ streak' = streak /\ (gate' = gate \/ gate' = [gate EXCEPT ![r] = "done"])
<1>1. CASE Deliver(r) \/ Broken(r)
  BY <1>1 DEF Deliver, Broken, Close, Fine
<1>2. CASE GatewayGivesUp(r)
  BY <1>2 DEF GatewayGivesUp, Close, TimesOut
<1>3. CASE LayerGivesUp(r)
  <2>1. CASE gate[r] = "waiting"
    <3>1. /\ age[r] >= RouterTimeout /\ Close(r, GatewayStatus(504))
          /\ streak' = [streak EXCEPT ![r[1]] = streak[r[1]] + 1]
      BY <1>3, <2>1 DEF LayerGivesUp
    <3>2. age[r] \in Int /\ GatewayTimeout \in Int /\ RouterTimeout \in Int
      BY PathAssumption DEF PathAssumption, FrontType
    <3>3. age[r] >= GatewayTimeout
      BY <3>1, <3>2
    <3> QED BY <2>1, <3>1, <3>3 DEF TimesOut, Close
  <2>2. CASE gate[r] # "waiting"
    BY <1>3, <2>2 DEF LayerGivesUp
  <2> QED BY <2>1, <2>2
<1> QED BY <1>1, <1>2, <1>3 DEF FrontSteps

LEMMA StillFine ==
    ASSUME NEW s \in Requests,
           UNCHANGED <<stage, fallback, imf, tasks, asked, cache, process, loaded, job, ollama>>
    PROVE  StaysFine(s) /\ Aside(s)
<1>1. Aside(s) /\ Serves' = Serves /\ Refuses' = Refuses /\ job' = job /\ cache' = cache
  BY DEF Aside, Serves, Refuses
<1> QED BY <1>1, AsideFine

LEMMA FrontClient ==
    ASSUME PathType, BaseInv, NEW r \in Requests, FrontSteps(r), GatewayTimeout <= RouterTimeout,
           NEW c \in Clients, ClientInv(c)
    PROVE  ClientInv(c)'
<1>1. /\ UNCHANGED <<age, stage, fallback, imf, tasks, asked, cache, process, loaded, job, ollama>>
      /\ FrontType /\ r[1] \in Clients
  BY DEF FrontSteps, Deliver, Broken, GatewayGivesUp, LayerGivesUp, router, adapter,
         PathType, Requests
<1>2. ASSUME NEW s \in Requests
      PROVE  StaysFine(s) /\ Aside(s)
  BY <1>1, StillFine
<1>3. ASSUME streak'[c] = streak[c], gate' = gate \/ gate' = [gate EXCEPT ![r] = "done"]
      PROVE  ClientInv(c)'
  <2>1. ASSUME NEW s \in Requests
        PROVE  /\ gate'[s] = "waiting" => gate[s] = "waiting"
               /\ gate[s] = "done" => gate'[s] = "done"
    BY <1>1, <1>3 DEF FrontType
  <2>2. ASSUME NEW s \in Requests, NEW q \in Requests
        PROVE  StaysOnWay(s, q)
    BY <1>2, AsideOnWay
  <2> QED BY <1>1, <1>2, <1>3, <2>1, <2>2, ClientKept
<1>4. CASE TimesOut(r)
  <2>1. CASE c # r[1]
    <3>1. streak'[c] = streak[c]
      BY <1>1, <1>4, <2>1 DEF TimesOut, FrontType
    <3> QED BY <1>3, <1>4, <3>1 DEF TimesOut
  <2>2. CASE c = r[1]
    <3>1. PICK s \in -1..MaxAttempts : s = streak[c]
      BY <1>1 DEF FrontType
    <3>2. streak'[c] = s + 1 /\ MaxAttempts \in Nat
      BY <1>1, <1>4, <2>2, <3>1, PathAssumption DEF TimesOut, FrontType, PathAssumption
    <3>3. gate[r] = "waiting" /\ gate'[r] = "done" /\ \A x \in Requests \ {r} : gate'[x] = gate[x]
      BY <1>1, <1>4 DEF TimesOut, FrontType
    <3>4. ASSUME NEW x \in Requests, Waits(x, c, gate')
          PROVE  FALSE
      <4>1. x # r /\ gate[x] = "waiting" /\ x[1] = r[1]
        BY <2>2, <3>3, <3>4 DEF Waits
      <4>2. \A y \in Requests : gate[y] # "new" => EarlierDone(gate, y)
        BY DEF BaseInv, OrderOf
      <4> QED BY <3>3, <4>1, <4>2, OneWaits
    <3>5. CASE s = -1
      <4>1. streak'[c] = 0
        BY <3>2, <3>5
      <4> QED BY <3>4, <4>1 DEF ClientInv
    <3>6. CASE s # -1
      <4>1. s \in Nat /\ s >= 0 /\ Waits(r, c, gate)
        BY <2>2, <3>1, <3>2, <3>3, <3>6 DEF Waits
      <4>2. PICK a \in Nat : a = age[r]
        BY <1>1, PathAssumption DEF FrontType, PathAssumption
      <4>3. a >= GatewayTimeout /\ a # 0
        BY <1>4, <4>2, Constants DEF TimesOut
      <4>4. Healthy(r) /\ Given(r) /\ a <= CallAge(r)
        BY <3>1, <4>1, <4>2, <4>3 DEF ClientInv, Fresh
      <4>5. CASE s = 0
        <5>1. PICK n \in Nat : n = CallAge(r)
          BY <4>4, GivenFacts
        <5>2. Healthy(r)' /\ Given(r)' /\ CallAge(r)' = n
          BY <1>2, <4>4, <5>1 DEF StaysFine
        <5>3. 1 * GatewayTimeout <= n
          BY <4>2, <4>3, <4>4, <5>1, Constants
        <5>4. streak'[r[1]] = 1
          BY <2>2, <3>2, <4>5
        <5>5. Ahead(r)'
          BY <2>2, <3>4, <5>2, <5>3, <5>4 DEF Ahead
        <5>6. Leads(r)'
          BY <3>3, <5>2, <5>5 DEF Leads
        <5> QED BY <2>2, <3>4, <5>6 DEF ClientInv
      <4>6. CASE s # 0
        <5>1. PICK q \in Requests : q[1] = c /\ Leads(q)
          BY <3>1, <4>1, <4>6 DEF ClientInv
        <5>2. PICK n \in Nat : n = CallAge(q)
          BY <5>1, GivenFacts DEF Leads
        <5>3. Healthy(q)' /\ Given(q)' /\ CallAge(q)' = n /\ (Cached(q) => Cached(q)')
          BY <1>2, <5>1, <5>2 DEF StaysFine, Leads
        <5>4. gate'[q] = "done" /\ streak'[q[1]] = s + 1
          BY <3>2, <3>3, <5>1 DEF Leads
        <5>5. ASSUME Ahead(q)
             PROVE  Leads(q)'
          <6>1. s * GatewayTimeout + a <= n
            BY <3>1, <4>1, <4>2, <5>1, <5>2, <5>5 DEF Ahead
          <6>2. (s + 1) * GatewayTimeout <= n
            BY <4>1, <4>2, <4>3, <5>2, <6>1, OneMore, Constants
          <6>3. Ahead(q)'
            BY <3>4, <5>1, <5>3, <5>4, <6>2 DEF Ahead
          <6> QED BY <5>3, <5>4, <6>3 DEF Leads
        <5>6. ASSUME Backed(q)
             PROVE  Leads(q)'
          <6>1. s <= MaxGeneration \div GatewayTimeout
            BY <3>1, <4>1, <4>2, <4>3, <5>1, <5>6 DEF Backed
          <6>2. s + 1 <= Patience
            BY <4>1, <6>1, Constants
          <6>3. Patience' = Patience
            BY DEF Patience
          <6>4. Backed(q)'
            BY <3>4, <5>1, <5>3, <5>4, <5>6, <6>2, <6>3 DEF Backed
          <6> QED BY <5>3, <5>4, <6>4 DEF Leads
        <5>7. Leads(q)'
          BY <5>1, <5>5, <5>6 DEF Leads
        <5> QED BY <3>4, <5>1, <5>7 DEF ClientInv
      <4> QED BY <4>5, <4>6
    <3> QED BY <3>5, <3>6
  <2> QED BY <2>1, <2>2
<1> QED BY <1>1, <1>3, <1>4, FrontEither


\* A step of the router.
LEMMA RouterAside ==
    ASSUME PathType, NEW r \in Requests, RouterSteps(r)
    PROVE  /\ \A s \in Requests \ {r} : Aside(s)
           /\ cache \subseteq cache' /\ job' = job /\ Serves' = Serves /\ Refuses' = Refuses
           /\ gate' = gate /\ age' = age
<1>1. /\ UNCHANGED <<age, job, gate, process, loaded, ollama>> /\ RouteInv /\ FrontType
      /\ asked' = [asked EXCEPT ![r] = 0]
  BY DEF RouterSteps, front, adapter, PathType
<1>2. Router!Handler(r) \/ Router!Background(r)
  BY StepsAreRouters
<1>3. OthersStay(r)
  <2>1. CASE Router!Handler(r)
    BY <1>1, <2>1, HandlerMoves DEF RouteInv, Moves
  <2>2. CASE Router!Background(r)
    BY <2>2, BackgroundMoves DEF OthersStay
  <2> QED BY <1>2, <2>1, <2>2
<1>4. /\ \A s \in Requests \ {r} : tasks'[s] = tasks[s]
      /\ cache \subseteq cache'
  BY <1>1, <1>2, TasksStay DEF RouteInv
<1>5. \A s \in Requests \ {r} : asked'[s] = asked[s]
  BY <1>1 DEF FrontType
<1> QED BY <1>1, <1>3, <1>4, <1>5 DEF OthersStay, Aside, Serves, Refuses

LEMMA CalmFine ==
    ASSUME PathType, BaseInv, NEW r \in Requests, RouterSteps(r), Healthy(r) => Calm(r)
    PROVE  StaysFine(r)
<1> SUFFICES ASSUME Healthy(r) PROVE StaysFine(r)
  BY DEF StaysFine
<1>1. Healthy(r)'
  BY HealthyCalm
<1>2. ASSUME Given(r)
      PROVE  Given(r)' /\ CallAge(r)' = CallAge(r) /\ (Cached(r) => Cached(r)')
  <2>1. Given(r)' /\ SameRoute(imf[r], imf'[r])
    BY <1>2, GivenCalm
  <2>2. cache \subseteq cache' /\ job' = job
    BY RouterAside
  <2>3. CallOf(r)' = CallOf(r)
    BY <2>1 DEF CallOf, SameRoute
  <2>4. EntryOf(r, imf'[r]) = EntryOf(r, imf[r])
    BY <2>1 DEF EntryOf, SameRoute
  <2> QED BY <2>1, <2>2, <2>3, <2>4 DEF CallAge, Cached
<1> QED BY <1>1, <1>2 DEF StaysFine

LEMMA CalmOnWay ==
    ASSUME PathType, BaseInv, NEW r \in Requests, RouterSteps(r), Healthy(r) => Calm(r),
           NEW x \in Requests, NEW q \in Requests, x[1] = q[1]
    PROVE  StaysOnWay(x, q)
<1> SUFFICES ASSUME Healthy(x), Healthy(q), Given(q), Cached(q), OnWay(x, q)
             PROVE  OnWay(x, q)'
  BY DEF StaysOnWay
<1>1. OnWayOf(stage'[x], imf'[x], fallback[q], imf[q])
  <2>1. CASE x = r
    <3>1. InStep(q) /\ imf[q].selected \in Serves
      BY GivenFacts DEF Given
    <3> QED BY <2>1, <3>1, OnWayCalm
  <2>2. CASE x # r
    <3>1. Aside(x)
      BY <2>2, RouterAside
    <3> QED BY <3>1 DEF Aside, OnWay
  <2> QED BY <2>1, <2>2
<1>2. fallback'[q] = fallback[q] /\ SameRoute(imf[q], imf'[q])
  <2>1. CASE q = r
    BY <2>1, GivenCalm
  <2>2. CASE q # r
    <3>1. Aside(q)
      BY <2>2, RouterAside
    <3> QED BY <3>1 DEF Aside, SameRoute
  <2> QED BY <2>1, <2>2
<1> QED BY <1>1, <1>2 DEF OnWay, OnWayOf, SameRoute

LEMMA RouterClient ==
    ASSUME PathType, BaseInv, NEW r \in Requests, RouterSteps(r), NEW c \in Clients, ClientInv(c)
    PROVE  ClientInv(c)'
<1>1. gate' = gate /\ age' = age
  BY RouterAside
<1>2. CASE Impatience
  BY <1>1, <1>2, ClientReset
<1>3. CASE ~Impatience
  <2>1. streak' = streak
    BY <1>3 DEF RouterSteps, CheckHealth, CheckFails, CheckRaises, Lookup, InferAnswered,
       AdapterRefuses, RouterGivesUp, Background, Fine, Fault
  <2>2. Healthy(r) => Calm(r)
    BY <1>3, StepsCalm
  <2>3. ASSUME NEW s \in Requests
        PROVE  StaysFine(s)
    <3>1. CASE s = r
      BY <2>2, <3>1, CalmFine
    <3>2. CASE s # r
      BY <3>2, RouterAside, AsideFine
    <3> QED BY <3>1, <3>2
  <2>4. ASSUME NEW s \in Requests, NEW q \in Requests, s[1] = c, q[1] = c
        PROVE  StaysOnWay(s, q)
    BY <2>2, <2>4, CalmOnWay
  <2> QED BY <1>1, <2>1, <2>3, <2>4, ClientKept
<1> QED BY <1>2, <1>3

\* A step of the adapter, or of Ollama.
LEMMA AdapterClient ==
    ASSUME PathType, AdapterSteps, NEW c \in Clients, ClientInv(c)
    PROVE  ClientInv(c)'
<1>1. UNCHANGED <<gate, age, asked, stage, fallback, imf, tasks, cache>>
  BY DEF AdapterSteps, front, router
<1>2. CASE Impatience
  BY <1>1, <1>2, ClientReset
<1>3. CASE Fine /\ (AdapterWorks \/ \E r \in Requests : CallArrives(r))
  <2>1. Adapter!TypeOK /\ RouteInv /\ job \in [Calls -> Jobs]
    BY DEF PathType, Adapter!TypeOK, Jobs
  <2>2. PICK S : S = Serves'
    OBVIOUS
  <2>3. PICK R : R = Refuses'
    OBVIOUS
  <2>4. ASSUME NEW s \in Requests, Healthy(s)
        PROVE  /\ Serves \subseteq S /\ Refuses \subseteq R
               /\ \A x \in Calls : x[1] = s =>
                     /\ Fits(job'[x], x[2], S, R)
                     /\ job[x] # Adapter!NoJob => job'[x].age = job[x].age
                     /\ Goes(job[x]) => Goes(job'[x])
               /\ stage[s] = "infer" => asked[s] <= CallAge(s)'
    <3>1. \A x \in Calls : x[1] = s => Fits(job[x], x[2], Serves, Refuses)
      BY <2>4 DEF Healthy, HealthyOf
    <3>2. stage[s] = "infer" => asked[s] <= job[CallOf(s)].age
      BY <2>4 DEF Healthy, HealthyOf, CallOf
    <3>3. stage[s] = "infer" => CallOf(s) \in Calls /\ CallOf(s)[1] = s
      BY <2>1, CallOfType DEF Routing, RoutingStages
    <3>4. CallOf(s)' = CallOf(s)
      BY <1>1 DEF CallOf
    <3>5. CASE AdapterWorks
      <4>1. /\ \A x \in Calls : WorkedOn(job[x], job'[x])
            /\ Serves \subseteq S /\ Refuses \subseteq R
        BY <2>1, <2>2, <2>3, <3>5, WorksOn
      <4>2. ASSUME NEW x \in Calls, x[1] = s
            PROVE  /\ Fits(job'[x], x[2], S, R)
                   /\ job'[x].age = job[x].age
                   /\ Goes(job[x]) => Goes(job'[x])
        <5>1. Fits(job[x], x[2], S, R) /\ job[x] \in Jobs
          BY <2>1, <3>1, <4>1, <4>2, FitsMore
        <5>2. job[x].age <= MaxGeneration
          BY <5>1, GoesApart
        <5> QED BY <4>1, <5>1, <5>2, FitsWorked
      <4> QED BY <3>2, <3>3, <3>4, <4>1, <4>2 DEF CallAge
    <3>6. CASE \E r \in Requests : CallArrives(r)
      <4>1. PICK r \in Requests : stage[r] = "infer" /\ Adapter!Infer(CallOf(r))
        BY <3>6 DEF CallArrives
      <4>2. PICK y \in Calls : y = CallOf(r)
        BY <2>1, <4>1, CallOfType DEF Routing, RoutingStages
      <4>3. S = Serves /\ R = Refuses
        BY <2>2, <2>3, <4>1 DEF Adapter!Infer, Serves, Refuses
      <4>4. /\ job[y] = Adapter!NoJob /\ job'[y].age = 0 /\ Fits(job'[y], y[2], S, R)
            /\ \A x \in Calls : x # y => job'[x] = job[x]
        BY <2>1, <4>1, <4>2, <4>3, InferStarts, InferFits
      <4>5. ~Goes(job[y]) /\ job[y].age = 0
        BY <4>4 DEF Adapter!NoJob, Goes
      <4> QED BY <3>1, <3>2, <3>3, <3>4, <4>3, <4>4, <4>5 DEF CallAge
    <3> QED BY <1>3, <3>5, <3>6
  <2>5. ASSUME NEW s \in Requests
        PROVE  StaysFine(s)
    <3> SUFFICES ASSUME Healthy(s) PROVE StaysFine(s)
      BY DEF StaysFine
    <3>1. /\ Serves \subseteq S /\ Refuses \subseteq R
          /\ \A x \in Calls : x[1] = s =>
                /\ Fits(job'[x], x[2], S, R)
                /\ job[x] # Adapter!NoJob => job'[x].age = job[x].age
                /\ Goes(job[x]) => Goes(job'[x])
          /\ stage[s] = "infer" => asked[s] <= CallAge(s)'
      BY <2>4
    <3>2. HealthyOf(s, stage[s], fallback[s], imf[s], asked[s], job', S, R)
      <4>1. HealthyOf(s, stage[s], fallback[s], imf[s], asked[s], job, Serves, Refuses)
        BY DEF Healthy
      <4>2. CallAge(s)' = job'[<<s, imf[s].selected>>].age
        BY <1>1 DEF CallAge, CallOf
      <4> QED BY <3>1, <4>1, <4>2 DEF HealthyOf
    <3>3. ASSUME Given(s)
          PROVE  Given(s)' /\ CallAge(s)' = CallAge(s) /\ (Cached(s) => Cached(s)')
      <4>1. PICK y \in Calls : /\ y = CallOf(s) /\ y = <<s, imf[s].selected>>
                               /\ y[1] = s /\ Goes(job[y])
        BY <3>3 DEF Given, GivenOf, CallOf
      <4>2. job[y] # Adapter!NoJob
        BY <4>1 DEF Goes, Adapter!NoJob
      <4>3. Goes(job'[y]) /\ job'[y].age = job[y].age
        BY <3>1, <4>1, <4>2
      <4>4. GivenOf(s, stage[s], imf[s], tasks[s], job', cache)
        BY <3>3, <4>1, <4>3 DEF Given, GivenOf
      <4>5. Given(s)'
        BY <1>1, <3>3, <4>4 DEF Given, InStep
      <4>6. CallOf(s)' = CallOf(s)
        BY <1>1 DEF CallOf
      <4> QED BY <1>1, <4>1, <4>3, <4>5, <4>6 DEF CallAge, Cached
    <3> QED BY <1>1, <2>2, <2>3, <3>2, <3>3 DEF StaysFine, Healthy
  <2>6. ASSUME NEW s \in Requests, NEW q \in Requests
        PROVE  StaysOnWay(s, q)
    BY <1>1 DEF StaysOnWay, OnWay
  <2> QED BY <1>1, <1>3, <2>5, <2>6, ClientKept DEF Fine
<1> QED BY <1>2, <1>3 DEF AdapterSteps, Fault


\* Time passes.
LEMMA TickCalls ==
    ASSUME PathType, Tick, NEW x \in Requests, Healthy(x)
    PROVE  /\ Healthy(x)'
           /\ Given(x) =>
                 /\ Given(x)'
                 /\ CallOf(x) \in Adapter!Running => CallAge(x)' = CallAge(x) + 1
                 /\ CallOf(x) \notin Adapter!Running => CallAge(x)' = CallAge(x)
<1>1. /\ UNCHANGED <<stage, fallback, imf, tasks, cache>> /\ RouteInv /\ Adapter!TypeOK
      /\ job \in [Calls -> Jobs] /\ asked \in [Requests -> 0..InferenceTimeout]
      /\ Adapter!Quiet /\ Adapter!Age /\ ~Busy(x)
      /\ asked' = Waited(asked, {r \in Requests : stage[r] = "infer"})
      /\ CallOf(x)' = CallOf(x)
  BY DEF Tick, router, PathType, FrontType, Adapter!TypeOK, Jobs, CallOf
<1>2. Serves' = Serves /\ Refuses' = Refuses
  BY <1>1 DEF Adapter!Age, Serves, Refuses
<1>3. HealthyOf(x, stage[x], fallback[x], imf[x], asked[x], job, Serves, Refuses)
  BY DEF Healthy
<1>4. ASSUME NEW y \in Calls, y[1] = x
      PROVE  /\ Fits(job'[y], y[2], Serves, Refuses) /\ (Goes(job[y]) => Goes(job'[y]))
             /\ y \in Adapter!Running => job'[y].age = job[y].age + 1
             /\ y \notin Adapter!Running => job'[y] = job[y]
  <2>1. PICK j \in Jobs : j = job[y]
    BY <1>1
  <2>2. j.at \in AtWork <=> y \in Adapter!Running
    BY <2>1 DEF Adapter!Running, AtWork
  <2>3. (j.at = "chat" => j.age < MaxGeneration) /\ j.at # "turned_away"
    BY <1>1, <2>1 DEF Adapter!Quiet, Adapter!Running
  <2>4. Fits(j, y[2], Serves, Refuses) /\ JobAges(j, job'[y])
    BY <1>1, <1>3, <1>4, <2>1, AdapterAges DEF HealthyOf
  <2>5. /\ Fits(job'[y], y[2], Serves, Refuses) /\ (Goes(j) => Goes(job'[y]))
        /\ j.at \in AtWork => j.at = "chat" /\ job'[y].age = j.age + 1
        /\ j.at \notin AtWork => job'[y] = j
    BY <2>3, <2>4, FitsAges
  <2> QED BY <2>1, <2>2, <2>5
<1>5. stage[x] = "infer" => asked'[x] <= job'[<<x, imf[x].selected>>].age
  <2> SUFFICES ASSUME stage[x] = "infer" PROVE asked'[x] <= job'[<<x, imf[x].selected>>].age
    OBVIOUS
  <2>1. PICK y \in Calls : y = CallOf(x)
    BY <1>1, CallOfType DEF Routing, RoutingStages
  <2>2. y = <<x, imf[x].selected>> /\ y[1] = x
    BY <2>1 DEF CallOf
  <2>3. y \in Adapter!Running
    BY <1>1, <2>1 DEF Busy
  <2>4. asked'[x] = asked[x] + 1
    BY <1>1 DEF Waited
  <2>5. PICK n \in Nat : n = job[y].age
    BY <1>1, JobFacts
  <2>6. asked[x] \in Int /\ asked[x] <= n
    BY <1>1, <1>3, <2>2, <2>5, PathAssumption DEF HealthyOf, PathAssumption
  <2>7. job'[y].age = n + 1
    BY <1>4, <2>2, <2>3, <2>5
  <2> QED BY <2>2, <2>4, <2>6, <2>7
<1>6. HealthyOf(x, stage[x], fallback[x], imf[x], asked'[x], job', Serves, Refuses)
  BY <1>3, <1>4, <1>5 DEF HealthyOf
<1>7. ASSUME Given(x)
      PROVE  /\ Given(x)'
             /\ CallOf(x) \in Adapter!Running => CallAge(x)' = CallAge(x) + 1
             /\ CallOf(x) \notin Adapter!Running => CallAge(x)' = CallAge(x)
  <2>1. PICK y \in Calls : y = CallOf(x) /\ y[1] = x /\ y = <<x, imf[x].selected>> /\ Goes(job[y])
    BY <1>7 DEF Given, GivenOf, CallOf
  <2>2. GivenOf(x, stage[x], imf[x], tasks[x], job', cache)
    BY <1>4, <1>7, <2>1 DEF Given, GivenOf
  <2>3. Given(x)'
    BY <1>1, <1>7, <2>2 DEF Given, InStep
  <2> QED BY <1>1, <1>4, <2>1, <2>3 DEF CallAge
<1> QED BY <1>1, <1>2, <1>6, <1>7 DEF Healthy

LEMMA TickWaits ==
    ASSUME PathType, BaseInv, Tick, NEW x \in Requests, Healthy(x), gate[x] = "waiting"
    PROVE  /\ age'[x] = age[x] + 1 /\ stage[x] = "infer"
           /\ CallOf(x) \in Adapter!Running /\ Given(x)
<1>1. /\ RouteInv /\ job \in [Calls -> Jobs] /\ Adapter!Quiet /\ ~Busy(x)
      /\ age' = Waited(age, {r \in Requests : layer[r] = "waiting"})
      /\ layer[x] = "waiting" /\ stage \in [Requests -> Router!Stages]
  BY DEF Tick, PathType, Adapter!TypeOK, Jobs, BaseInv, OrderOf, RouteInv, Router!TypeOK
<1>2. age'[x] = age[x] + 1
  BY <1>1 DEF Waited
<1>3. stage[x] = "infer"
  BY <1>1 DEF Busy, Healthy, HealthyOf, Router!Stages
<1>4. PICK y \in Calls : y = CallOf(x) /\ y = <<x, imf[x].selected>> /\ y[1] = x
  BY <1>1, <1>3, CallOfType DEF Routing, RoutingStages, CallOf
<1>5. y \in Adapter!Running
  BY <1>1, <1>3, <1>4 DEF Busy
<1>6. Goes(job[y])
  <2>1. PICK j \in Jobs : j = job[y]
    BY <1>1
  <2>2. j.at \in AtWork /\ j.at # "turned_away"
    BY <1>1, <1>5, <2>1 DEF Adapter!Quiet, Adapter!Running, AtWork
  <2>3. Fits(j, y[2], Serves, Refuses)
    BY <1>4, <2>1 DEF Healthy, HealthyOf
  <2> QED BY <2>1, <2>2, <2>3 DEF Fits, Dead, AtWork, Adapter!NoJob
<1>7. InStep(x)
  BY <1>1, <1>3 DEF RouteInv, RoutingInStep, Routing, RoutingStages
<1> QED BY <1>2, <1>3, <1>4, <1>5, <1>6, <1>7 DEF Given, GivenOf

\* What awaits Ollama is not on its way to the text of a request that had to
\* fall back further.
LEMMA NotOnWay ==
    ASSUME PathType, NEW x \in Requests, NEW q \in Requests,
           Healthy(x), Healthy(q), Given(x), Given(q), stage[x] = "infer"
    PROVE  ~OnWay(x, q)
<1> SUFFICES ASSUME OnWay(x, q) PROVE FALSE
  OBVIOUS
<1>1. /\ imf[x].level <= imf[q].level /\ imf[x].level # imf[q].level
      /\ imf[x].selected = fallback[q].chain[imf[x].level + 1]
  BY DEF OnWay, OnWayOf
<1>2. imf[x].level \in Nat /\ imf[q].level \in Nat
  BY LevelIsIndex DEF Given, PathType, RouteInv
<1>3. imf[x].level + 1 \in 1..imf[q].level
  BY <1>1, <1>2
<1>4. imf[x].selected \in Refuses
  BY <1>1, <1>3 DEF Healthy, HealthyOf
<1>5. imf[x].selected \in Serves
  BY GivenFacts
<1> QED BY <1>4, <1>5, ServesApart DEF PathType

\* What is not generated any more is in the cache.
LEMMA DoneCached ==
    ASSUME PathType, Tick, NEW q \in Requests, Given(q), CallOf(q) \notin Adapter!Running
    PROVE  Cached(q)
<1>1. ~Busy(q)
  BY DEF Tick
<1>2. stage[q] = "replied" /\ tasks[q] = <<>>
  BY <1>1 DEF Busy, Given, GivenOf
<1> QED BY <1>2 DEF Given, GivenOf, InTasks, Cached

LEMMA TickClient ==
    ASSUME PathType, BaseInv, Tick, NEW c \in Clients, ClientInv(c)
    PROVE  ClientInv(c)'
<1>1. /\ UNCHANGED <<gate, streak, imf, cache>> /\ FrontType
  BY DEF Tick, Fine, router, PathType
<1> SUFFICES ASSUME streak[c] >= 0 PROVE ClientInv(c)'
  BY <1>1 DEF ClientInv
<1>2. ASSUME NEW r \in Requests, Waits(r, c, gate)
      PROVE  /\ Fresh(r)' /\ age'[r] = age[r] + 1 /\ age[r] \in Nat
             /\ stage[r] = "infer" /\ Healthy(r) /\ Given(r)
  <2>1. Fresh(r) /\ Healthy(r) /\ gate[r] = "waiting"
    BY <1>2 DEF ClientInv, Fresh, Waits
  <2>2. /\ age'[r] = age[r] + 1 /\ stage[r] = "infer"
        /\ CallOf(r) \in Adapter!Running /\ Given(r)
    BY <2>1, TickWaits
  <2>3. Healthy(r)' /\ Given(r)' /\ CallAge(r)' = CallAge(r) + 1
    BY <2>1, <2>2, TickCalls
  <2>4. PICK n \in Nat : n = CallAge(r)
    BY <2>1, <2>2, GivenFacts
  <2>5. PICK a \in Nat : a = age[r]
    BY <1>1, PathAssumption DEF FrontType, PathAssumption
  <2>6. a <= n
    BY <2>1, <2>4, <2>5 DEF Fresh
  <2>7. age'[r] <= CallAge(r)'
    BY <2>2, <2>3, <2>4, <2>5, <2>6
  <2> QED BY <2>1, <2>2, <2>3, <2>5, <2>7 DEF Fresh
<1>3. ASSUME NEW q \in Requests, q[1] = c, Leads(q)
      PROVE  Leads(q)'
  <2>1. gate'[q] = "done" /\ Healthy(q)' /\ Given(q)'
    BY <1>1, <1>3, TickCalls DEF Leads
  <2>2. PICK s \in Nat : s = streak[c]
    BY <1>1 DEF FrontType
  <2>3. PICK n \in Nat : n = CallAge(q)
    BY <1>3, GivenFacts DEF Leads
  <2>4. EntryOf(q, imf'[q]) = EntryOf(q, imf[q]) /\ Patience' = Patience
    BY <1>1 DEF EntryOf, Patience
  <2>5. CASE Backed(q)
    <3>1. ASSUME NEW r \in Requests, Waits(r, c, gate)
          PROVE  s <= MaxGeneration \div GatewayTimeout
      <4>1. ~OnWay(r, q)
        BY <1>2, <1>3, <3>1, NotOnWay DEF Leads
      <4> QED BY <1>3, <2>2, <2>5, <3>1, <4>1 DEF Backed
    <3>2. Backed(q)'
      BY <1>1, <1>3, <2>2, <2>4, <2>5, <3>1 DEF Backed, Cached
    <3> QED BY <2>1, <3>2 DEF Leads
  <2>6. CASE Ahead(q) /\ CallOf(q) \in Adapter!Running
    <3>1. CallAge(q)' = n + 1
      BY <1>3, <2>3, <2>6, TickCalls DEF Leads
    <3>2. PICK t \in Nat : t = s * GatewayTimeout
      BY <2>2, Constants
    <3>3. t <= n + 1
      <4>1. t <= n
        BY <1>3, <2>2, <2>3, <2>6, <3>2 DEF Ahead
      <4> QED BY <3>2, <4>1
    <3>4. ASSUME NEW r \in Requests, Waits(r, c, gate)
          PROVE  t + age'[r] <= n + 1
      <4>1. t + age[r] <= n
        BY <1>3, <2>2, <2>3, <2>6, <3>2, <3>4 DEF Ahead
      <4>2. age'[r] = age[r] + 1 /\ age[r] \in Nat
        BY <1>2, <3>4
      <4> QED BY <4>1, <4>2
    <3>5. Ahead(q)'
      BY <1>1, <1>3, <2>2, <3>1, <3>2, <3>3, <3>4 DEF Ahead
    <3> QED BY <2>1, <3>5 DEF Leads
  <2>7. CASE Ahead(q) /\ CallOf(q) \notin Adapter!Running
    <3>1. s <= Patience /\ s <= MaxGeneration \div GatewayTimeout
      BY <1>3, <2>2, <2>7, LeadsBound
    <3>2. Cached(q)
      BY <1>3, <2>7, DoneCached DEF Leads
    <3>3. Backed(q)'
      BY <1>1, <1>3, <2>2, <2>4, <3>1, <3>2 DEF Backed, Cached
    <3> QED BY <2>1, <3>3 DEF Leads
  <2> QED BY <1>3, <2>5, <2>6, <2>7 DEF Leads
<1>4. \A r \in Requests : Waits(r, c, gate') => Fresh(r)'
  BY <1>1, <1>2
<1>5. streak[c] >= 1 => \E q \in Requests : q[1] = c /\ Leads(q)'
  BY <1>3 DEF ClientInv
<1> QED BY <1>1, <1>4, <1>5 DEF ClientInv

LEMMA TimeNext ==
    ASSUME PathType, TimeInv, GatewayTimeout <= RouterTimeout, Next
    PROVE  TimeInv'
<1>1. BaseInv /\ BaseInv'
  BY NextBase DEF TimeInv
<1>2. ASSUME NEW c \in Clients
      PROVE  ClientInv(c)'
  <2>1. ClientInv(c)
    BY DEF TimeInv
  <2>2. CASE \E r \in Requests : Send(r)
    BY <1>1, <2>1, <2>2, SendClient
  <2>3. CASE \E r \in Requests : FrontSteps(r)
    BY <1>1, <2>1, <2>3, FrontClient
  <2>4. CASE \E r \in Requests : RouterSteps(r)
    BY <1>1, <2>1, <2>4, RouterClient
  <2>5. CASE RouterDies
    <3>1. Impatience /\ gate' = gate
      BY <2>5 DEF RouterDies, Fault, front
    <3> QED BY <3>1, ClientReset
  <2>6. CASE AdapterSteps
    BY <2>1, <2>6, AdapterClient
  <2>7. CASE Tick
    BY <1>1, <2>1, <2>7, TickClient
  <2> QED BY <2>2, <2>3, <2>4, <2>5, <2>6, <2>7 DEF Next
<1> QED BY <1>1, <1>2 DEF TimeInv

LEMMA TimeStays ==
    ASSUME PathType, TimeInv, UNCHANGED vars
    PROVE  TimeInv'
<1>1. /\ UNCHANGED <<age, gate, layer, streak, asked, stage, fallback, imf, tasks, cache>>
      /\ UNCHANGED <<process, loaded, job, ollama>>
  BY DEF vars, front, router, adapter
<1>2. BaseInv'
  BY <1>1 DEF TimeInv, BaseInv, RouteOf, OrderOf
<1>3. ASSUME NEW c \in Clients
      PROVE  ClientInv(c)'
  <2>1. ClientInv(c)
    BY DEF TimeInv
  <2>2. ASSUME NEW s \in Requests, NEW q \in Requests
        PROVE  StaysFine(s) /\ StaysOnWay(s, q)
    BY <1>1, StillFine, AsideOnWay
  <2> QED BY <1>1, <2>1, <2>2, ClientKept
<1> QED BY <1>2, <1>3 DEF TimeInv

LEMMA InitTime == Init => TimeInv
<1> SUFFICES ASSUME Init PROVE TimeInv
  OBVIOUS
<1>1. gate = [r \in Requests |-> "new"] /\ streak = [c \in Clients |-> 0]
  BY DEF Init
<1>2. ASSUME NEW c \in Clients
      PROVE  ClientInv(c)
  BY <1>1 DEF ClientInv, Waits
<1> QED BY <1>2, InitBase DEF TimeInv

\* A client whose requests the gateway gives up is not told so longer than
\* its first text takes: as long as nothing goes wrong, the text goes on being
\* generated for the request that was given up, gets to the cache, and the
\* next request is answered from there.  The gateway gives up no later than
\* the Security Layer, as the defaults of both have it.
THEOREM TimeoutsAreBounded ==
    ASSUME GatewayTimeout <= RouterTimeout
    PROVE  Spec => []TimeoutsBounded
<1>1. PathType /\ [Next]_vars => PathType'
  BY NextType, StayPathType
<1>2. PathType /\ TimeInv /\ [Next]_vars => TimeInv'
  BY TimeNext, TimeStays
<1> QED BY <1>1, <1>2, InitPathType, InitTime, TimeSuffices, PTL DEF Spec


(***************************************************************************)
(* The parts of the path                                                   *)
(***************************************************************************)
\* What the path does to its router and to its adapter is what the modules
\* RouterPipeline and InferenceAdapter allow: what holds in every behaviour of
\* one of them by its steps alone holds on the path too.
THEOREM PathImplementsParts ==
    Spec => /\ Router!Init /\ [][Router!Next]_router
            /\ Adapter!Init /\ [][Adapter!Next]_adapter
<1>1. PathType /\ [Next]_vars => PathType'
  BY NextType, StayPathType
<1>2. Init => Router!Init /\ Adapter!Init
  BY DEF Init
<1>3. [Next]_vars => [Router!Next]_router
  BY PathStepRouter DEF vars
<1>4. PathType /\ [Next]_vars => [Adapter!Next]_adapter
  BY PathStepAdapter DEF vars, PathType, RouteInv
<1> QED BY <1>1, <1>2, <1>3, <1>4, InitPathType, PTL DEF Spec

================================================================================
