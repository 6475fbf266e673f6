------------------------- MODULE RouterPipelineProofs -------------------------
(***************************************************************************)
(* Proofs about RouterPipeline for every matrix, every set of requests and *)
(* any number of crashes.                                                  *)
(***************************************************************************)
EXTENDS RouterPipeline, FiniteSetTheorems, TLAPS

(***************************************************************************)
(* The pure helpers                                                        *)
(***************************************************************************)
\* A classified task type is one of the matrix's task types, whatever
\* keywords the messages hold.
LEMMA ClassifyTaskType ==
    ASSUME NEW k \in SUBSET KeywordTasks
    PROVE  ClassifyTask(k) \in TaskTypes
<1>1. CASE k = {}
  BY <1>1 DEF ClassifyTask, TaskTypes
<1>2. CASE k # {}
  <2> DEFINE P(i) == /\ PriorityOrder[i] \in k
                     /\ \A j \in 1..(i - 1) : PriorityOrder[j] \notin k
  <2>1. PICK n \in 1..5 : PriorityOrder[n] \in k
    BY <1>2 DEF KeywordTasks
  <2>2. \E i \in 1..5 : P(i)
    <3>1. CASE PriorityOrder[1] \in k
      <4>1. P(1) BY <3>1
      <4> QED BY <4>1
    <3>2. CASE PriorityOrder[1] \notin k /\ PriorityOrder[2] \in k
      <4>1. P(2) BY <3>2
      <4> QED BY <4>1
    <3>3. CASE /\ PriorityOrder[1] \notin k /\ PriorityOrder[2] \notin k
               /\ PriorityOrder[3] \in k
      <4>1. P(3) BY <3>3
      <4> QED BY <4>1
    <3>4. CASE /\ PriorityOrder[1] \notin k /\ PriorityOrder[2] \notin k
               /\ PriorityOrder[3] \notin k /\ PriorityOrder[4] \in k
      <4>1. P(4) BY <3>4
      <4> QED BY <4>1
    <3>5. CASE /\ PriorityOrder[1] \notin k /\ PriorityOrder[2] \notin k
               /\ PriorityOrder[3] \notin k /\ PriorityOrder[4] \notin k
      <4>1. P(5) BY <3>5, <2>1
      <4> QED BY <4>1
    <3> HIDE DEF P
    <3> QED BY <3>1, <3>2, <3>3, <3>4, <3>5
  <2>3. (CHOOSE i \in 1..5 : P(i)) \in 1..5
    <3> HIDE DEF P
    <3> QED BY <2>2
  <2>4. ClassifyTask(k) = PriorityOrder[CHOOSE i \in 1..5 : P(i)]
    BY <1>2 DEF ClassifyTask
  <2> HIDE DEF P
  <2> QED BY <2>3, <2>4 DEF TaskTypes, KeywordTasks
<1> QED BY <1>1, <1>2

\* A fallback chain is a non-empty list of distinct names that starts with
\* the selected model.
LEMMA FallbackChainFacts ==
    ASSUME NEW m, NEW c \in FallbackChains(m)
    PROVE  /\ c \in Seq(Names)
           /\ Len(c) \in Nat \ {0}
           /\ c[1] = m
           /\ m \in Names
           /\ \A i, j \in 1..Len(c) : c[i] = c[j] => i = j
<1>1. Cardinality(Names) \in Nat
  BY MatrixAssumption, FS_CardinalityType DEF MatrixAssumption
<1>2. PICK n \in 1..Cardinality(Names) : c \in [1..n -> Names]
  BY DEF FallbackChains
<1>3. n \in Nat \ {0}
  BY <1>1, <1>2
<1>4. c \in Seq(Names) /\ Len(c) = n
  BY <1>2, <1>3
<1>5. c[1] = m /\ c[1] \in Names
  BY <1>2, <1>3 DEF FallbackChains
<1>6. \A i, j \in DOMAIN c : c[i] = c[j] => i = j
  BY DEF FallbackChains
<1> QED BY <1>2, <1>3, <1>4, <1>5, <1>6

\* A default that auto mode selects is a name of the matrix file.
LEMMA SelectedName ==
    ASSUME NEW b \in Body, NEW task \in TaskTypes,
           ~InvalidPinnedModel(b.mode, b.pinned), ~NoModelForTask(b.mode, task)
    PROVE  SelectModel(b.mode, b.pinned, task) \in Names
<1>1. "chat" \in TaskTypes
  <2>1. PriorityOrder[5] = "chat"
    BY DEF PriorityOrder
  <2> QED BY <2>1 DEF TaskTypes, KeywordTasks
<1>2. CASE b.mode = "pinned"
  BY <1>2 DEF InvalidPinnedModel, SelectModel, Names
<1>3. CASE b.mode = "auto"
  <2>1. AutoModel(task) \in Names \cup {NoModel}
    BY <1>1, MatrixAssumption DEF MatrixAssumption, AutoModel
  <2> QED BY <2>1, <1>3 DEF NoModelForTask, SelectModel
<1> QED BY <1>2, <1>3 DEF Body

(***************************************************************************)
(* Type correctness                                                        *)
(***************************************************************************)
\* Counting keeps the counters natural numbers.
LEMMA CountType ==
    ASSUME NEW m \in Metrics,
           NEW counter \in {"requests", "errors", "cacheHits", "fallbacks"}
    PROVE  Count(m, counter) \in Metrics
BY DEF Count, Metrics

\* The two updates of an IMF set the fields they name and keep the others.
LEMMA AtLevelFacts ==
    ASSUME NEW i \in Imf, NEW level \in Nat, NEW model \in Names \cup {NoModel}
    PROVE  /\ AtLevel(i, level, model) \in Imf
           /\ AtLevel(i, level, model).task = i.task
           /\ AtLevel(i, level, model).mode = i.mode
           /\ AtLevel(i, level, model).level = level
           /\ AtLevel(i, level, model).selected = model
           /\ AtLevel(i, level, model).hit = i.hit
           /\ AtLevel(i, level, model).content = i.content
<1> DEFINE x == [i EXCEPT !.level = level]
<1>1. /\ x \in Imf /\ x.task = i.task /\ x.mode = i.mode /\ x.level = level
      /\ x.hit = i.hit /\ x.content = i.content
  BY DEF Imf
<1>2. AtLevel(i, level, model) = [x EXCEPT !.selected = model]
  BY DEF AtLevel
<1> HIDE DEF x
<1> QED BY <1>1, <1>2 DEF Imf

LEMMA AnsweredFacts ==
    ASSUME NEW i \in Imf, NEW hit \in BOOLEAN, NEW content \in Content
    PROVE  /\ Answered(i, hit, content) \in Imf
           /\ Answered(i, hit, content).task = i.task
           /\ Answered(i, hit, content).mode = i.mode
           /\ Answered(i, hit, content).level = i.level
           /\ Answered(i, hit, content).selected = i.selected
           /\ Answered(i, hit, content).hit = hit
           /\ Answered(i, hit, content).content = content
<1> DEFINE x == [i EXCEPT !.hit = hit]
<1>1. /\ x \in Imf /\ x.task = i.task /\ x.mode = i.mode /\ x.level = i.level
      /\ x.hit = hit /\ x.selected = i.selected
  BY DEF Imf
<1>2. Answered(i, hit, content) = [x EXCEPT !.content = content]
  BY DEF Answered
<1> HIDE DEF x
<1> QED BY <1>1, <1>2 DEF Imf

\* advance() keeps the chain and stays within it.
LEMMA AdvanceFacts ==
    ASSUME NEW f \in FallbackState
    PROVE  /\ Advance(f) \in FallbackState
           /\ Advance(f).chain = f.chain
           /\ HasNext(f) => /\ Advance(f).index = f.index + 1
                            /\ Advance(f).level = f.level + 1
                            /\ SelectedModel(Advance(f)) = f.chain[f.index + 2]
                            /\ SelectedModel(Advance(f)) \in Names
           /\ ~HasNext(f) => Advance(f) = f
           /\ f.index < Len(f.chain) => Advance(f).index < Len(f.chain)
BY DEF Advance, Advanced, HasNext, SelectedModel, FallbackState

\* What Respond leaves behind is well typed.
LEMMA RespondType ==
    ASSUME TypeOK, NEW r \in Requests, NEW b, NEW i, NEW m,
           NEW status \in {200, 400, 422, 500, 503},
           NEW error \in {"none", "governance_check_failed", "invalid_pinned_model",
                          "no_model_for_task", "all_backends_exhausted", "internal_error"},
           m \in Metrics,
           Respond(r, b, status, error, i, m)
    PROVE  /\ stage' \in [Requests -> Stages]
           /\ reply' \in [Requests -> Reply]
           /\ metrics' \in Metrics
           /\ calls' = calls
<1>1. stage' \in [Requests -> Stages]
  BY DEF Respond, TypeOK, Stages
<1>2. reply' \in [Requests -> Reply]
  BY DEF Respond, TypeOK, Reply
<1>3. RouteMetrics(b, m, error, i) \in Metrics
  <2>1. Count(m, "requests") \in Metrics
    BY CountType
  <2>2. /\ Count(Count(m, "requests"), "errors") \in Metrics
        /\ Count(Count(m, "requests"), "cacheHits") \in Metrics
        /\ Count(Count(m, "requests"), "fallbacks") \in Metrics
    BY <2>1, CountType
  <2> QED BY <2>1, <2>2 DEF RouteMetrics
<1> QED BY <1>1, <1>2, <1>3 DEF Respond

\* What Call leaves behind is well typed.
LEMMA CallType ==
    ASSUME TypeOK, NEW r \in Requests, NEW m \in Names,
           NEW service \in {"health", "lookup", "infer"}, Call(r, service, m)
    PROVE  /\ stage' \in [Requests -> Stages]
           /\ calls' \in [Requests -> Seq({"health", "lookup", "infer"} \X Names)]
BY DEF Call, TypeOK, Stages

LEMMA InitType == Init => TypeOK
<1> SUFFICES ASSUME Init PROVE TypeOK
  OBVIOUS
<1>1. imf \in [Requests -> Imf]
  BY DEF Init, EmptyImf, Imf
<1>2. fallback \in [Requests -> FallbackState]
  BY DEF Init, NoFallback, FallbackState
<1>3. reply \in [Requests -> Reply]
  BY DEF Init, NoReply, Reply
<1>4. crashes \in 0..MaxCrashes
  BY CrashAssumption DEF CrashAssumption, Init
<1> QED BY <1>1, <1>2, <1>3, <1>4 DEF Init, TypeOK, Stages, CacheEntry, Metrics, NoMetrics

\* While a request is routed its FallbackState points into its chain, and
\* the routing fields of its IMF say the same as the FallbackState does.
RoutingStages == {"health", "lookup", "infer"}
Routing(r) == stage[r] \in RoutingStages

InStepOf(f, i) ==
    /\ f.index < Len(f.chain)
    /\ f.level = f.index
    /\ i.level = f.index
    /\ i.selected = SelectedModel(f)
    /\ i.task \in TaskTypes
    /\ \A j, k \in 1..Len(f.chain) : f.chain[j] = f.chain[k] => j = k

InStep(r) == InStepOf(fallback[r], imf[r])

RoutingInStep == \A r \in Requests : Routing(r) => InStep(r)

LEMMA SelectedIsName ==
    ASSUME TypeOK, NEW r \in Requests, InStep(r)
    PROVE  imf[r].selected \in Names /\ imf[r] \in Imf /\ fallback[r] \in FallbackState
BY DEF TypeOK, InStep, InStepOf, SelectedModel, FallbackState

LEMMA ReceiveType ==
    ASSUME TypeOK, NEW r \in Requests, NEW b \in Bodies, Receive(r, b)
    PROVE  TypeOK'
<1> DEFINE task == ClassifyTask(b.keywords)
           classified == [EmptyImf EXCEPT !.task = task]
<1>1. b \in Body /\ b.keywords \in SUBSET KeywordTasks /\ b.mode \in {"auto", "pinned"}
  BY BodiesAssumption DEF BodiesAssumption, Body
<1>2. task \in TaskTypes
  BY <1>1, ClassifyTaskType
<1> HIDE DEF task
<1>3. EmptyImf \in Imf /\ classified \in Imf
  BY <1>2 DEF EmptyImf, Imf
<1>4. body' \in [Requests -> Bodies \cup {NoBody}]
  BY DEF Receive, TypeOK
<1>5. ASSUME NEW status \in {400, 422, 503},
             NEW error \in {"governance_check_failed", "invalid_pinned_model",
                            "no_model_for_task"},
             NEW i \in Imf, Refused(r, b, status, error, i)
      PROVE  TypeOK'
  <2>1. imf' \in [Requests -> Imf] /\ Respond(r, b, status, error, i, metrics)
    BY <1>5 DEF Refused, TypeOK
  <2>2. metrics \in Metrics
    BY DEF TypeOK
  <2>3. /\ stage' \in [Requests -> Stages]
        /\ reply' \in [Requests -> Reply]
        /\ metrics' \in Metrics
        /\ calls' = calls
    BY <2>1, <2>2, RespondType
  <2> QED BY <1>4, <1>5, <2>1, <2>3 DEF Refused, TypeOK
<1>6. ASSUME ~InvalidPinnedModel(b.mode, b.pinned), ~NoModelForTask(b.mode, task),
             StartRouting(r, b, task)
      PROVE  TypeOK'
  <2>1. PICK chain \in FallbackChains(SelectModel(b.mode, b.pinned, task)) :
           /\ fallback' = [fallback EXCEPT ![r] = [chain |-> chain, index |-> 0, level |-> 0]]
           /\ imf' = [imf EXCEPT ![r] = [task |-> task, mode |-> b.mode, selected |-> chain[1],
                                         level |-> 0, hit |-> FALSE, content |-> NoContent]]
           /\ Call(r, "health", chain[1])
           /\ UNCHANGED <<tasks, reply, posted, cache, metrics, crashes>>
    BY <1>6 DEF StartRouting
  <2>2. chain \in Seq(Names) /\ chain[1] \in Names
    BY FallbackChainFacts
  <2>3. fallback' \in [Requests -> FallbackState]
    BY <2>1, <2>2 DEF TypeOK, FallbackState
  <2>4. imf' \in [Requests -> Imf]
    BY <1>1, <1>2, <2>1, <2>2 DEF TypeOK, Imf
  <2>5. /\ stage' \in [Requests -> Stages]
        /\ calls' \in [Requests -> Seq({"health", "lookup", "infer"} \X Names)]
    BY <2>1, <2>2, CallType
  <2> QED BY <1>4, <2>1, <2>3, <2>4, <2>5 DEF TypeOK
<1>7. \/ Refused(r, b, 400, "governance_check_failed", EmptyImf)
      \/ Refused(r, b, 422, "invalid_pinned_model", classified)
      \/ Refused(r, b, 503, "no_model_for_task", classified)
      \/ /\ ~InvalidPinnedModel(b.mode, b.pinned)
         /\ ~NoModelForTask(b.mode, task)
         /\ StartRouting(r, b, task)
  BY DEF Receive, task
<1> HIDE DEF classified
<1> QED BY <1>3, <1>5, <1>6, <1>7

LEMMA CallStepType ==
    ASSUME TypeOK, RoutingInStep, NEW r \in Requests, HealthOk(r) \/ LookupMiss(r)
    PROVE  TypeOK'
<1>1. Routing(r)
  BY DEF HealthOk, LookupMiss, Routing, RoutingStages
<1>2. imf[r].selected \in Names /\ imf[r] \in Imf
  BY <1>1, SelectedIsName DEF RoutingInStep
<1>3. CASE HealthOk(r)
  <2>1. /\ stage' \in [Requests -> Stages]
        /\ calls' \in [Requests -> Seq({"health", "lookup", "infer"} \X Names)]
    BY <1>2, <1>3, CallType DEF HealthOk
  <2> QED BY <1>3, <2>1 DEF HealthOk, TypeOK
<1>4. CASE LookupMiss(r)
  <2>1. /\ stage' \in [Requests -> Stages]
        /\ calls' \in [Requests -> Seq({"health", "lookup", "infer"} \X Names)]
    BY <1>2, <1>4, CallType DEF LookupMiss
  <2>2. [imf[r] EXCEPT !.hit = FALSE] \in Imf
    BY <1>2 DEF Imf
  <2>3. imf' = [imf EXCEPT ![r] = [imf[r] EXCEPT !.hit = FALSE]]
    BY <1>4 DEF LookupMiss
  <2>4. imf' \in [Requests -> Imf]
    BY <2>2, <2>3 DEF TypeOK
  <2> QED BY <1>4, <2>1, <2>4 DEF LookupMiss, TypeOK
<1> QED BY <1>3, <1>4

LEMMA RaisesType ==
    ASSUME TypeOK, NEW r \in Requests, Raises(r)
    PROVE  TypeOK'
<1>1. metrics \in Metrics
  BY DEF TypeOK
<1>2. /\ stage' \in [Requests -> Stages]
      /\ reply' \in [Requests -> Reply]
      /\ metrics' \in Metrics
      /\ calls' = calls
  BY <1>1, RespondType DEF Raises
<1> QED BY <1>2 DEF Raises, TypeOK

\* The audit events of the pipeline are well typed.
LEMMA AuditType ==
    ASSUME NEW i \in Imf, NEW outcome \in {"pass", "error"}
    PROVE  /\ RoutingAudit(i, outcome) \in Task
           /\ CacheHitAudit(i) \in Task
BY DEF RoutingAudit, CacheHitAudit, Task, Event, Imf

LEMMA FallbackAuditType ==
    ASSUME NEW i \in Imf, NEW f \in FallbackState, f.index <= Len(f.chain)
    PROVE  FallbackAudit(i, f) \in Task
<1>1. f.index > 0 => f.chain[f.index] \in Names
  BY DEF FallbackState
<1> QED BY <1>1 DEF FallbackAudit, Task, Event, Imf, FallbackState

LEMMA AdvancedAuditType ==
    ASSUME NEW i \in Imf, NEW f \in FallbackState, f.index < Len(f.chain)
    PROVE  FallbackAudit(i, Advance(f)) \in Task
<1>1. /\ Advance(f) \in FallbackState
      /\ Advance(f).chain = f.chain
      /\ Advance(f).index < Len(f.chain)
  BY AdvanceFacts
<1>2. Advance(f).index <= Len(Advance(f).chain)
  BY <1>1 DEF FallbackState
<1> QED BY <1>1, <1>2, FallbackAuditType

\* A failed attempt either selects the next model of the chain or answers 503.
LEMMA FailType ==
    ASSUME TypeOK, NEW r \in Requests, NEW event \in Task, InStep(r),
           fallback' = [fallback EXCEPT ![r] = Advance(fallback[r])],
           AddTasks(r, <<event>>),
           \/ /\ HasNext(fallback[r])
              /\ TryNext(r, Advance(fallback[r]))
              /\ metrics' = Count(metrics, "fallbacks")
           \/ Exhausted(r, Advance(fallback[r]), Count(metrics, "fallbacks")),
           UNCHANGED <<body, posted, cache, crashes>>
    PROVE  TypeOK'
<1> DEFINE f == Advance(fallback[r])
           m == Count(metrics, "fallbacks")
<1>1. /\ fallback[r] \in FallbackState /\ imf[r] \in Imf /\ imf[r].selected \in Names
      /\ metrics \in Metrics
  BY SelectedIsName DEF TypeOK
<1>2. m \in Metrics
  BY <1>1, CountType
<1>3. f \in FallbackState /\ (HasNext(fallback[r]) => SelectedModel(f) \in Names)
  BY <1>1, AdvanceFacts
<1>4. f.level \in Nat
  BY <1>3 DEF FallbackState
<1> HIDE DEF f, m
<1>5. fallback' \in [Requests -> FallbackState]
  BY <1>3 DEF TypeOK, f
<1>6. tasks' \in [Requests -> Seq(Task)]
  BY DEF AddTasks, TypeOK
<1>7. CASE HasNext(fallback[r]) /\ TryNext(r, f) /\ metrics' = m
  <2>1. AtLevel(imf[r], f.level, SelectedModel(f)) \in Imf
    BY <1>1, <1>3, <1>4, <1>7, AtLevelFacts
  <2>2. imf' \in [Requests -> Imf] /\ reply' = reply
    BY <1>7, <2>1 DEF TryNext, TypeOK
  <2>3. /\ stage' \in [Requests -> Stages]
        /\ calls' \in [Requests -> Seq({"health", "lookup", "infer"} \X Names)]
    BY <1>3, <1>7, CallType DEF TryNext
  <2> QED BY <1>2, <1>5, <1>6, <1>7, <2>2, <2>3 DEF TypeOK
<1>8. CASE Exhausted(r, f, m)
  <2>1. AtLevel(imf[r], f.level, imf[r].selected) \in Imf
    BY <1>1, <1>4, AtLevelFacts
  <2>2. imf' \in [Requests -> Imf]
    BY <1>8, <2>1 DEF Exhausted, TypeOK
  <2>3. /\ stage' \in [Requests -> Stages]
        /\ reply' \in [Requests -> Reply]
        /\ metrics' \in Metrics
        /\ calls' = calls
    BY <1>2, <1>8, RespondType DEF Exhausted
  <2> QED BY <1>5, <1>6, <2>2, <2>3 DEF TypeOK
<1> QED BY <1>7, <1>8 DEF f, m

LEMMA HealthFailType ==
    ASSUME TypeOK, RoutingInStep, NEW r \in Requests, HealthFail(r)
    PROVE  TypeOK'
<1>1. InStep(r) /\ imf[r] \in Imf /\ fallback[r] \in FallbackState
  BY SelectedIsName DEF HealthFail, RoutingInStep, Routing, RoutingStages
<1>2. CASE HasNext(fallback[r])
  <2>1. FallbackAudit(imf[r], Advance(fallback[r])) \in Task
    BY <1>1, AdvancedAuditType DEF InStep, InStepOf
  <2> QED BY <1>1, <1>2, <2>1, FailType DEF HealthFail
<1>3. CASE ~HasNext(fallback[r])
  <2>1. RoutingAudit(imf[r], "error") \in Task
    BY <1>1, AuditType
  <2> QED BY <1>1, <1>3, <2>1, FailType DEF HealthFail
<1> QED BY <1>2, <1>3

LEMMA InferFailType ==
    ASSUME TypeOK, RoutingInStep, NEW r \in Requests, InferFail(r)
    PROVE  TypeOK'
<1>1. InStep(r) /\ imf[r] \in Imf /\ fallback[r] \in FallbackState
  BY SelectedIsName DEF InferFail, RoutingInStep, Routing, RoutingStages
<1>2. FallbackAudit(imf[r], Advance(fallback[r])) \in Task
  BY <1>1, AdvancedAuditType DEF InStep, InStepOf
<1> QED BY <1>1, <1>2, FailType DEF InferFail

\* A request answered from the cache or by its model.
LEMMA AnswerType ==
    ASSUME TypeOK, NEW r \in Requests, NEW i \in Imf, NEW new \in Seq(Task),
           NEW m \in Metrics,
           imf' = [imf EXCEPT ![r] = i], AddTasks(r, new),
           Respond(r, body[r], 200, "none", i, m),
           UNCHANGED <<body, fallback, posted, cache, crashes>>
    PROVE  TypeOK'
<1>1. imf' \in [Requests -> Imf]
  BY DEF TypeOK
<1>2. tasks' \in [Requests -> Seq(Task)]
  BY DEF AddTasks, TypeOK
<1>3. /\ stage' \in [Requests -> Stages]
      /\ reply' \in [Requests -> Reply]
      /\ metrics' \in Metrics
      /\ calls' = calls
  BY RespondType
<1> QED BY <1>1, <1>2, <1>3 DEF TypeOK

LEMMA LookupHitType ==
    ASSUME TypeOK, RoutingInStep, NEW r \in Requests, NEW e \in cache, LookupHit(r, e)
    PROVE  TypeOK'
<1> DEFINE answered == Answered(imf[r], TRUE, e.content)
<1>1. imf[r] \in Imf /\ e.content \in Content /\ metrics \in Metrics
  BY DEF TypeOK, CacheEntry
<1>2. answered \in Imf
  BY <1>1, AnsweredFacts
<1>3. imf' = [imf EXCEPT ![r] = answered] /\ AddTasks(r, <<CacheHitAudit(answered)>>)
      /\ Respond(r, body[r], 200, "none", answered, Count(metrics, "cacheHits"))
      /\ UNCHANGED <<body, fallback, posted, cache, crashes>>
  BY DEF LookupHit
<1> HIDE DEF answered
<1>4. <<CacheHitAudit(answered)>> \in Seq(Task)
  BY <1>2, AuditType
<1>5. Count(metrics, "cacheHits") \in Metrics
  BY <1>1, CountType
<1> QED BY <1>2, <1>3, <1>4, <1>5, AnswerType

\* What InferOk makes of the request: its IMF and its background tasks.
InferAnswer(r) == Answered(imf[r], imf[r].hit, [by |-> imf[r].selected, for |-> r])
InferTasks(r) ==
    (IF InferAnswer(r).hit THEN <<>> ELSE <<CacheWriteTask(InferAnswer(r))>>)
       \o <<RoutingAudit(InferAnswer(r), "pass")>>

LEMMA InferOkFacts ==
    ASSUME TypeOK, NEW r \in Requests, InStep(r)
    PROVE  /\ InferAnswer(r) \in Imf
           /\ InferAnswer(r).content = [by |-> imf[r].selected, for |-> r]
           /\ InferAnswer(r).selected = imf[r].selected
           /\ InferAnswer(r).task = imf[r].task
           /\ InferAnswer(r).hit = imf[r].hit
           /\ CacheWriteTask(InferAnswer(r)) \in CacheEntry
           /\ RoutingAudit(InferAnswer(r), "pass") \in Task
<1>1. imf[r] \in Imf /\ imf[r].selected \in Names /\ imf[r].task \in TaskTypes
  BY SelectedIsName DEF InStep, InStepOf
<1>2. [by |-> imf[r].selected, for |-> r] \in Content /\ imf[r].hit \in BOOLEAN
  BY <1>1 DEF Content, Imf
<1>3. /\ InferAnswer(r) \in Imf
      /\ InferAnswer(r).content = [by |-> imf[r].selected, for |-> r]
      /\ InferAnswer(r).selected = imf[r].selected
      /\ InferAnswer(r).task = imf[r].task
      /\ InferAnswer(r).hit = imf[r].hit
  BY <1>1, <1>2, AnsweredFacts DEF InferAnswer
<1>4. CacheWriteTask(InferAnswer(r)) \in CacheEntry
  BY <1>1, <1>2, <1>3 DEF CacheWriteTask, CacheEntry
<1>5. RoutingAudit(InferAnswer(r), "pass") \in Task
  BY <1>3, AuditType
<1> QED BY <1>3, <1>4, <1>5

LEMMA InferOkType ==
    ASSUME TypeOK, RoutingInStep, NEW r \in Requests, InferOk(r)
    PROVE  TypeOK'
<1>1. InStep(r)
  BY DEF InferOk, RoutingInStep, Routing, RoutingStages
<1>2. InferTasks(r) \in Seq(Task)
  <2> DEFINE w == CacheWriteTask(InferAnswer(r))
             e == RoutingAudit(InferAnswer(r), "pass")
  <2>1. w \in Task /\ e \in Task
    BY <1>1, InferOkFacts DEF Task
  <2> HIDE DEF w, e
  <2>2. InferTasks(r) = (IF InferAnswer(r).hit THEN <<>> ELSE <<w>>) \o <<e>>
    BY DEF InferTasks, w, e
  <2>3. CASE InferAnswer(r).hit
    BY <2>1, <2>2, <2>3
  <2>4. CASE ~InferAnswer(r).hit
    BY <2>1, <2>2, <2>4
  <2> QED BY <2>3, <2>4
<1>3. imf' = [imf EXCEPT ![r] = InferAnswer(r)] /\ AddTasks(r, InferTasks(r))
      /\ Respond(r, body[r], 200, "none", InferAnswer(r), metrics)
      /\ UNCHANGED <<body, fallback, posted, cache, crashes>>
  BY DEF InferOk, InferAnswer, InferTasks
<1>4. metrics \in Metrics
  BY DEF TypeOK
<1> QED BY <1>1, <1>2, <1>3, <1>4, InferOkFacts, AnswerType

\* Background tasks and crashes.
LEMMA NextTaskFacts ==
    ASSUME TypeOK, NEW r \in Requests, NextTask(r)
    PROVE  /\ tasks' \in [Requests -> Seq(Task)]
           /\ Head(tasks[r]) \in Task
           /\ tasks[r] \in Seq(Task)
           /\ tasks[r] # <<>>
BY DEF NextTask, TypeOK

LEMMA BackgroundType ==
    ASSUME TypeOK, NEW r \in Requests, Background(r)
    PROVE  TypeOK'
<1>1. NextTask(r)
  BY DEF Background, PostAudit, WriteCache
<1>2. tasks' \in [Requests -> Seq(Task)] /\ Head(tasks[r]) \in Task
  BY <1>1, NextTaskFacts
<1>3. CASE PostAudit(r)
  <2>1. Head(tasks[r]) \in Event
    BY <1>2, <1>3 DEF PostAudit, Task, Event, CacheEntry
  <2>2. PICK result \in {"stored", "refused", "lost"} : Posted(r, Head(tasks[r]), result)
    BY <1>3 DEF PostAudit
  <2>3. posted' \in [Requests -> Seq([event : Event, result : {"stored", "refused", "lost"}])]
    <3> DEFINE sent == [event |-> Head(tasks[r]), result |-> result]
               Sent == [event : Event, result : {"stored", "refused", "lost"}]
    <3>1. sent \in Sent
      BY <2>1
    <3>2. posted' = [posted EXCEPT ![r] = Append(posted[r], sent)]
      BY <2>2 DEF Posted
    <3>3. posted \in [Requests -> Seq(Sent)]
      BY DEF TypeOK
    <3> HIDE DEF sent, Sent
    <3>4. posted' \in [Requests -> Seq(Sent)]
      BY <3>1, <3>2, <3>3
    <3> QED BY <3>4 DEF Sent
  <2> QED BY <1>1, <1>2, <1>3, <2>3 DEF PostAudit, NextTask, TypeOK
<1>4. CASE WriteCache(r)
  <2>1. Head(tasks[r]) \in CacheEntry
    BY <1>2, <1>4 DEF WriteCache, Task, Event, CacheEntry
  <2>2. cache' \subseteq CacheEntry
    BY <1>4, <2>1 DEF WriteCache, TypeOK
  <2> QED BY <1>1, <1>2, <1>4, <2>2 DEF WriteCache, NextTask, TypeOK
<1> QED BY <1>3, <1>4 DEF Background

LEMMA CrashType ==
    ASSUME TypeOK, Crash
    PROVE  TypeOK'
<1>1. stage' \in [Requests -> Stages]
  BY DEF Crash, TypeOK, Stages
<1>2. tasks' \in [Requests -> Seq(Task)] /\ metrics' \in Metrics
  BY DEF Crash, Metrics, NoMetrics
<1>3. crashes' \in 0..MaxCrashes
  BY CrashAssumption DEF CrashAssumption, Crash, TypeOK
<1> QED BY <1>1, <1>2, <1>3 DEF Crash, TypeOK

(***************************************************************************)
(* The trace of downstream calls                                           *)
(***************************************************************************)
\* The invariant is stated of the stage st, the calls c, the FallbackState f,
\* the IMF i and the reply rep of one request, so that a step's lemma speaks
\* of the values it replaces.
Services == {"health", "lookup", "infer"}
Rank(service) == IF service = "health" THEN 1 ELSE IF service = "lookup" THEN 2 ELSE 3

NothingYet(st, c, rep) == st = "new" => c = <<>> /\ rep = NoReply

\* The last call is the one the handler awaits, and the calls for the
\* selected model went no further.
AwaitsLast(st, c, i) ==
    st \in RoutingStages =>
        /\ c # <<>>
        /\ c[Len(c)] = <<st, i.selected>>
        /\ \A n \in 1..Len(c) : c[n][2] = i.selected => Rank(c[n][1]) <= Rank(st)

Stepped(c, f, i) == c # <<>> => InStepOf(f, i)

\* The calls name the models of the chain up to the current one, and each
\* of those was checked.
CallsOfChain(c, f) ==
    \A n \in 1..Len(c) : \E k \in 1..(f.index + 1) : c[n][2] = f.chain[k]
ChainChecked(c, f) ==
    c # <<>> => \A k \in 1..(f.index + 1) :
                    \E n \in 1..Len(c) : c[n] = <<"health", f.chain[k]>>

Distinct(c) == \A n, k \in 1..Len(c) : c[n] = c[k] => n = k

Ordered(c) ==
    \A n \in 1..Len(c) :
        /\ c[n][1] = "lookup" => n > 1 /\ c[n - 1] = <<"health", c[n][2]>>
        /\ c[n][1] = "infer" => n > 1 /\ c[n - 1] = <<"lookup", c[n][2]>>

ExhaustedLast(c, f, rep) ==
    rep.error = "all_backends_exhausted" => c # <<>> /\ ~HasNext(f)

Trace(st, c, f, i, rep) ==
    /\ NothingYet(st, c, rep)
    /\ AwaitsLast(st, c, i)
    /\ Stepped(c, f, i)
    /\ CallsOfChain(c, f)
    /\ ChainChecked(c, f)
    /\ Distinct(c)
    /\ Ordered(c)
    /\ ExhaustedLast(c, f, rep)

TraceOf(r) == Trace(stage[r], calls[r], fallback[r], imf[r], reply[r])
CallsTrace == \A r \in Requests : TraceOf(r)

LEMMA TraceInStep == CallsTrace => RoutingInStep
BY DEF CallsTrace, TraceOf, Trace, AwaitsLast, Stepped, RoutingInStep, Routing, InStep

LEMMA AppendFacts ==
    ASSUME NEW S, NEW c \in Seq(S), NEW e \in S
    PROVE  /\ Append(c, e) \in Seq(S)
           /\ Len(c) \in Nat
           /\ Len(Append(c, e)) = Len(c) + 1
           /\ Append(c, e) # <<>>
           /\ Append(c, e)[Len(c) + 1] = e
           /\ \A n \in 1..Len(c) : Append(c, e)[n] = c[n]
OBVIOUS

\* Steps that make no call and keep the routing fields: the request is
\* answered, lost, or what changes is not part of the trace.
LEMMA KeepTrace ==
    ASSUME NEW st, NEW c, NEW f, NEW i, NEW rep, Trace(st, c, f, i, rep),
           NEW st1, NEW i1, NEW rep1,
           \/ c = <<>>
           \/ i1.level = i.level /\ i1.selected = i.selected /\ i1.task = i.task,
           \/ st1 = st /\ rep1 = rep
           \/ st1 \in {"replied", "lost"},
           st1 \in RoutingStages => c # <<>>,
           rep1.error = "all_backends_exhausted" =>
              rep = rep1 \/ (c # <<>> /\ ~HasNext(f))
    PROVE  Trace(st1, c, f, i1, rep1)
<1>1. NothingYet(st1, c, rep1)
  BY DEF Trace, NothingYet
<1>2. AwaitsLast(st1, c, i1)
  BY DEF Trace, AwaitsLast, RoutingStages
<1>3. Stepped(c, f, i1)
  BY DEF Trace, Stepped, InStepOf
<1>4. ExhaustedLast(c, f, rep1)
  BY DEF Trace, ExhaustedLast
<1> QED BY <1>1, <1>2, <1>3, <1>4 DEF Trace

\* Stages 1 and 2: the first model is checked.
LEMMA FirstTrace ==
    ASSUME NEW chain \in Seq(Names), Len(chain) \in Nat \ {0},
           \A j, k \in 1..Len(chain) : chain[j] = chain[k] => j = k,
           NEW i, i.level = 0, i.selected = chain[1], i.task \in TaskTypes,
           NEW rep, rep.error # "all_backends_exhausted"
    PROVE  Trace("health", <<<<"health", chain[1]>>>>,
                 [chain |-> chain, index |-> 0, level |-> 0], i, rep)
<1> DEFINE e == <<"health", chain[1]>>
           c == <<e>>
           f == [chain |-> chain, index |-> 0, level |-> 0]
<1>1. /\ c # <<>> /\ Len(c) = 1 /\ c[1] = e /\ e[1] = "health" /\ e[2] = chain[1]
      /\ \A n \in 1..Len(c) : n = 1
  OBVIOUS
<1>2. f.chain = chain /\ f.index = 0 /\ f.level = 0 /\ (\A k \in 1..(f.index + 1) : k = 1)
  OBVIOUS
<1>3. InStepOf(f, i)
  BY <1>2 DEF InStepOf, SelectedModel
<1> HIDE DEF c, f
<1>4. AwaitsLast("health", c, i)
  BY <1>1 DEF AwaitsLast, Rank
<1>5. CallsOfChain(c, f)
  BY <1>1, <1>2 DEF CallsOfChain
<1>6. ChainChecked(c, f)
  BY <1>1, <1>2 DEF ChainChecked
<1>7. Distinct(c) /\ Ordered(c)
  BY <1>1 DEF Distinct, Ordered
<1>8. Trace("health", c, f, i, rep)
  BY <1>3, <1>4, <1>5, <1>6, <1>7 DEF Trace, NothingYet, Stepped, ExhaustedLast
<1> QED BY <1>8 DEF c, f

\* The next stage of the model at hand.
LEMMA StageTrace ==
    ASSUME NEW st \in RoutingStages, NEW f, NEW i, NEW rep,
           NEW c \in Seq(Services \X Names), Trace(st, c, f, i, rep),
           i.selected \in Names, f.index \in Nat,
           NEW st1 \in {"lookup", "infer"}, Rank(st1) = Rank(st) + 1,
           NEW i1, i1.level = i.level, i1.selected = i.selected, i1.task = i.task
    PROVE  Trace(st1, Append(c, <<st1, i.selected>>), f, i1, rep)
<1> DEFINE n == Len(c)
           e == <<st1, i.selected>>
           d == Append(c, e)
<1>1. e \in Services \X Names /\ e[1] = st1 /\ e[2] = i.selected
  BY DEF Services
<1>2. /\ n \in Nat
      /\ Len(d) = n + 1
      /\ d # <<>>
      /\ d[n + 1] = e
      /\ \A k \in 1..n : d[k] = c[k]
  <2> DEFINE S == Services \X Names
  <2>1. c \in Seq(S) /\ e \in S
    BY <1>1
  <2> HIDE DEF S, e
  <2> QED BY <2>1, AppendFacts
<1>3. /\ c # <<>> /\ c[n] = <<st, i.selected>>
      /\ \A k \in 1..n : c[k][2] = i.selected => Rank(c[k][1]) <= Rank(st)
  BY DEF Trace, AwaitsLast
<1>4. n > 0
  BY <1>2, <1>3
<1> HIDE DEF n, e, d
<1>5. Rank(st) \in Nat /\ Rank(st1) \in Nat
  BY DEF Rank
<1>6. AwaitsLast(st1, d, i1)
  <2>1. ASSUME NEW k \in 1..(n + 1), d[k][2] = i1.selected
        PROVE  Rank(d[k][1]) <= Rank(st1)
    <3>1. CASE k = n + 1
      BY <1>1, <1>2, <1>5, <3>1
    <3>2. CASE k # n + 1
      <4>1. k \in 1..n /\ d[k] = c[k]
        BY <1>2, <3>2
      <4>2. Rank(c[k][1]) <= Rank(st)
        BY <1>3, <2>1, <4>1
      <4> QED BY <4>1, <4>2, <1>5 DEF Rank
    <3> QED BY <3>1, <3>2
  <2> QED BY <1>2, <2>1 DEF AwaitsLast, e
<1>7. Stepped(d, f, i1)
  BY <1>3 DEF Trace, Stepped, InStepOf
<1>8. CallsOfChain(d, f)
  <2>1. ASSUME NEW k \in 1..(n + 1)
        PROVE  \E j \in 1..(f.index + 1) : d[k][2] = f.chain[j]
    <3>1. CASE k = n + 1
      <4>1. e[2] = f.chain[f.index + 1]
        BY <1>1, <1>3 DEF Trace, Stepped, InStepOf, SelectedModel
      <4> QED BY <1>2, <3>1, <4>1
    <3>2. CASE k # n + 1
      <4>1. k \in 1..n /\ d[k] = c[k]
        BY <1>2, <3>2
      <4> QED BY <4>1 DEF Trace, CallsOfChain, n
    <3> QED BY <3>1, <3>2
  <2> QED BY <1>2, <2>1 DEF CallsOfChain
<1>9. ChainChecked(d, f)
  <2>1. ASSUME NEW k \in 1..(f.index + 1)
        PROVE  \E j \in 1..(n + 1) : d[j] = <<"health", f.chain[k]>>
    <3>1. PICK j \in 1..n : c[j] = <<"health", f.chain[k]>>
      BY <1>3 DEF Trace, ChainChecked, n
    <3>2. j \in 1..(n + 1) /\ d[j] = <<"health", f.chain[k]>>
      BY <1>2, <3>1
    <3> QED BY <3>2
  <2> QED BY <1>2, <2>1 DEF ChainChecked
<1>10. Distinct(d)
  <2>1. \A k \in 1..n : c[k] # e
    <3> SUFFICES ASSUME NEW k \in 1..n, c[k] = e PROVE FALSE
      OBVIOUS
    <3>1. Rank(st1) <= Rank(st)
      BY <1>1, <1>3
    <3> QED BY <1>5, <3>1
  <2> QED BY <1>2, <2>1 DEF Trace, Distinct, n
<1>11. Ordered(d)
  <2>1. ASSUME NEW k \in 1..(n + 1)
        PROVE  /\ d[k][1] = "lookup" => k > 1 /\ d[k - 1] = <<"health", d[k][2]>>
               /\ d[k][1] = "infer" => k > 1 /\ d[k - 1] = <<"lookup", d[k][2]>>
    <3>1. CASE k = n + 1
      <4>1. d[k] = e /\ d[k - 1] = c[n] /\ k > 1
        BY <1>2, <1>4, <3>1
      <4>2. /\ st1 = "lookup" => st = "health"
            /\ st1 = "infer" => st = "lookup"
        BY DEF Rank, RoutingStages
      <4> QED BY <1>1, <1>3, <4>1, <4>2
    <3>2. CASE k # n + 1
      <4>1. k \in 1..n /\ d[k] = c[k] /\ (k > 1 => k - 1 \in 1..n)
        BY <1>2, <3>2
      <4>2. k > 1 => d[k - 1] = c[k - 1]
        BY <1>2, <4>1
      <4> QED BY <4>1, <4>2 DEF Trace, Ordered, n
    <3> QED BY <3>1, <3>2
  <2> QED BY <1>2, <2>1 DEF Ordered
<1>12. ExhaustedLast(d, f, rep)
  BY <1>2 DEF Trace, ExhaustedLast
<1>13. Trace(st1, d, f, i1, rep)
  BY <1>6, <1>7, <1>8, <1>9, <1>10, <1>11, <1>12 DEF Trace, NothingYet
<1> QED BY <1>13 DEF d, e

\* A failed attempt with a next model: that model is checked, and it was
\* never called before.
LEMMA NextTrace ==
    ASSUME NEW st \in RoutingStages, NEW f \in FallbackState, NEW i, NEW rep,
           NEW c \in Seq(Services \X Names), Trace(st, c, f, i, rep),
           HasNext(f), NEW m, m = f.chain[f.index + 2], m \in Names,
           NEW i1, i1.level = f.index + 1, i1.selected = m, i1.task = i.task
    PROVE  Trace("health", Append(c, <<"health", m>>), Advanced(f), i1, rep)
<1> DEFINE n == Len(c)
           e == <<"health", m>>
           d == Append(c, e)
           g == Advanced(f)
<1>1. e \in Services \X Names /\ e[1] = "health" /\ e[2] = m
  BY DEF Services
<1>2. /\ n \in Nat
      /\ Len(d) = n + 1
      /\ d # <<>>
      /\ d[n + 1] = e
      /\ \A k \in 1..n : d[k] = c[k]
  <2> DEFINE S == Services \X Names
  <2>1. c \in Seq(S) /\ e \in S
    BY <1>1
  <2> HIDE DEF S, e
  <2> QED BY <2>1, AppendFacts
<1>3. c # <<>> /\ InStepOf(f, i) /\ ~(rep.error = "all_backends_exhausted")
  BY DEF Trace, AwaitsLast, Stepped, ExhaustedLast
<1>4. /\ f.index \in Nat /\ g.chain = f.chain /\ g.index = f.index + 1 /\ g.level = f.level + 1
      /\ f.level = f.index /\ Len(f.chain) \in Nat /\ f.index + 1 < Len(f.chain)
  BY <1>3 DEF FallbackState, Advanced, InStepOf, HasNext
<1> HIDE DEF n, e, d, g
<1>5. \A k \in 1..n : c[k][2] # m
  <2> SUFFICES ASSUME NEW k \in 1..n, c[k][2] = m PROVE FALSE
    OBVIOUS
  <2>1. PICK j \in 1..(f.index + 1) : c[k][2] = f.chain[j]
    BY DEF Trace, CallsOfChain, n
  <2>2. j \in 1..Len(f.chain) /\ f.index + 2 \in 1..Len(f.chain) /\ j # f.index + 2
    BY <1>4
  <2> QED BY <1>3, <2>1, <2>2 DEF InStepOf
<1>6. AwaitsLast("health", d, i1)
  <2>1. ASSUME NEW k \in 1..(n + 1), d[k][2] = i1.selected
        PROVE  Rank(d[k][1]) <= Rank("health")
    <3>1. k = n + 1
      BY <1>2, <1>5, <2>1
    <3> QED BY <1>1, <1>2, <3>1 DEF Rank
  <2> QED BY <1>2, <2>1 DEF AwaitsLast, e
<1>7. InStepOf(g, i1)
  <2>1. i.task \in TaskTypes /\ i1.selected = SelectedModel(g)
    BY <1>3, <1>4 DEF InStepOf, SelectedModel
  <2> QED BY <1>3, <1>4, <2>1 DEF InStepOf
<1>8. CallsOfChain(d, g)
  <2>1. ASSUME NEW k \in 1..(n + 1)
        PROVE  \E j \in 1..(g.index + 1) : d[k][2] = g.chain[j]
    <3>1. CASE k = n + 1
      <4>1. g.index + 1 \in 1..(g.index + 1) /\ d[k][2] = g.chain[g.index + 1]
        BY <1>1, <1>2, <1>4, <3>1
      <4> QED BY <4>1
    <3>2. CASE k # n + 1
      <4>1. k \in 1..n /\ d[k] = c[k]
        BY <1>2, <3>2
      <4>2. PICK j \in 1..(f.index + 1) : c[k][2] = f.chain[j]
        BY <4>1 DEF Trace, CallsOfChain, n
      <4>3. j \in 1..(g.index + 1)
        BY <1>4
      <4> QED BY <1>4, <4>1, <4>2, <4>3
    <3> QED BY <3>1, <3>2
  <2> QED BY <1>2, <2>1 DEF CallsOfChain
<1>9. ChainChecked(d, g)
  <2>1. ASSUME NEW k \in 1..(g.index + 1)
        PROVE  \E j \in 1..(n + 1) : d[j] = <<"health", g.chain[k]>>
    <3>1. CASE k = g.index + 1
      <4>1. d[n + 1] = <<"health", g.chain[k]>>
        BY <1>2, <1>4, <3>1 DEF e
      <4> QED BY <1>2, <4>1
    <3>2. CASE k # g.index + 1
      <4>1. k \in 1..(f.index + 1)
        BY <1>4, <3>2
      <4>2. PICK j \in 1..n : c[j] = <<"health", f.chain[k]>>
        BY <1>3, <4>1 DEF Trace, ChainChecked, n
      <4>3. j \in 1..(n + 1) /\ d[j] = <<"health", g.chain[k]>>
        BY <1>2, <1>4, <4>2
      <4> QED BY <4>3
    <3> QED BY <3>1, <3>2
  <2> QED BY <1>2, <2>1 DEF ChainChecked
<1>10. Distinct(d)
  <2>1. \A k \in 1..n : c[k] # e
    BY <1>1, <1>5
  <2> QED BY <1>2, <2>1 DEF Trace, Distinct, n
<1>11. Ordered(d)
  <2>1. ASSUME NEW k \in 1..(n + 1)
        PROVE  /\ d[k][1] = "lookup" => k > 1 /\ d[k - 1] = <<"health", d[k][2]>>
               /\ d[k][1] = "infer" => k > 1 /\ d[k - 1] = <<"lookup", d[k][2]>>
    <3>1. CASE k = n + 1
      BY <1>1, <1>2, <3>1
    <3>2. CASE k # n + 1
      <4>1. k \in 1..n /\ d[k] = c[k] /\ (k > 1 => k - 1 \in 1..n)
        BY <1>2, <3>2
      <4>2. k > 1 => d[k - 1] = c[k - 1]
        BY <1>2, <4>1
      <4> QED BY <4>1, <4>2 DEF Trace, Ordered, n
    <3> QED BY <3>1, <3>2
  <2> QED BY <1>2, <2>1 DEF Ordered
<1>12. Trace("health", d, g, i1, rep)
  BY <1>3, <1>6, <1>7, <1>8, <1>9, <1>10, <1>11
  DEF Trace, NothingYet, Stepped, ExhaustedLast
<1> QED BY <1>12 DEF d, e, g

(***************************************************************************)
(* The steps of the router and the trace                                   *)
(***************************************************************************)
\* What TypeOK says of one request, in the terms of the trace lemmas.
LEMMA TypeOfRequest ==
    ASSUME TypeOK, NEW r \in Requests
    PROVE  /\ calls[r] \in Seq(Services \X Names)
           /\ fallback[r] \in FallbackState
           /\ fallback[r].index \in Nat
           /\ imf[r] \in Imf
BY DEF TypeOK, Services, FallbackState

LEMMA InitTrace == Init => CallsTrace
BY DEF Init, CallsTrace, TraceOf, Trace, NothingYet, AwaitsLast, Stepped, CallsOfChain,
       ChainChecked, Distinct, Ordered, ExhaustedLast, RoutingStages, NoReply

\* Requests other than the one that steps keep their trace.
LEMMA OthersTrace ==
    ASSUME CallsTrace, NEW r \in Requests, TraceOf(r)',
           \A q \in Requests \ {r} :
              /\ stage'[q] = stage[q] /\ calls'[q] = calls[q]
              /\ fallback'[q] = fallback[q] /\ imf'[q] = imf[q] /\ reply'[q] = reply[q]
    PROVE  CallsTrace'
BY DEF CallsTrace, TraceOf

LEMMA ReceiveTrace ==
    ASSUME TypeOK, CallsTrace, NEW r \in Requests, NEW b \in Bodies, Receive(r, b)
    PROVE  CallsTrace'
<1> DEFINE task == ClassifyTask(b.keywords)
           classified == [EmptyImf EXCEPT !.task = task]
<1>1. b.keywords \in SUBSET KeywordTasks
  BY BodiesAssumption DEF BodiesAssumption, Body
<1>2. task \in TaskTypes
  BY <1>1, ClassifyTaskType
<1>3. TraceOf(r) /\ stage[r] = "new" /\ calls[r] = <<>> /\ reply[r] = NoReply
  BY DEF Receive, CallsTrace, TraceOf, Trace, NothingYet
<1> HIDE DEF task
<1>4. ASSUME NEW status,
             NEW error \in {"governance_check_failed", "invalid_pinned_model",
                            "no_model_for_task"},
             NEW i, Refused(r, b, status, error, i)
      PROVE  CallsTrace'
  <2>1. /\ stage' = [stage EXCEPT ![r] = "replied"]
        /\ reply' = [reply EXCEPT ![r] = [status |-> status, error |-> error]]
        /\ imf' = [imf EXCEPT ![r] = i]
        /\ calls' = calls /\ fallback' = fallback
    BY <1>4 DEF Refused, Respond
  <2>2. Trace("replied", <<>>, fallback[r], i, [status |-> status, error |-> error])
    BY <1>3, KeepTrace DEF TraceOf, RoutingStages
  <2>3. TraceOf(r)'
    BY <1>3, <2>1, <2>2 DEF TraceOf, TypeOK
  <2> QED BY <2>1, <2>3, OthersTrace DEF TypeOK
<1>5. ASSUME StartRouting(r, b, task)
      PROVE  CallsTrace'
  <2>1. PICK chain \in FallbackChains(SelectModel(b.mode, b.pinned, task)) :
           /\ fallback' = [fallback EXCEPT ![r] = [chain |-> chain, index |-> 0, level |-> 0]]
           /\ imf' = [imf EXCEPT ![r] = [task |-> task, mode |-> b.mode, selected |-> chain[1],
                                         level |-> 0, hit |-> FALSE, content |-> NoContent]]
           /\ Call(r, "health", chain[1])
           /\ UNCHANGED <<tasks, reply, posted, cache, metrics, crashes>>
    BY <1>5 DEF StartRouting
  <2>2. /\ chain \in Seq(Names) /\ Len(chain) \in Nat \ {0}
        /\ \A j, k \in 1..Len(chain) : chain[j] = chain[k] => j = k
    BY FallbackChainFacts
  <2>3. /\ stage' = [stage EXCEPT ![r] = "health"]
        /\ calls' = [calls EXCEPT ![r] = <<<<"health", chain[1]>>>>]
        /\ reply' = reply
    BY <1>3, <2>1 DEF Call, TypeOK
  <2> DEFINE i == [task |-> task, mode |-> b.mode, selected |-> chain[1],
                   level |-> 0, hit |-> FALSE, content |-> NoContent]
  <2>4. i.level = 0 /\ i.selected = chain[1] /\ i.task \in TaskTypes
    BY <1>2
  <2>5. reply[r].error # "all_backends_exhausted"
    BY <1>3 DEF NoReply
  <2>6. imf' = [imf EXCEPT ![r] = i]
    BY <2>1
  <2> HIDE DEF i
  <2>7. Trace("health", <<<<"health", chain[1]>>>>,
              [chain |-> chain, index |-> 0, level |-> 0], i, reply[r])
    BY <2>2, <2>4, <2>5, FirstTrace
  <2>8. TraceOf(r)'
    BY <2>1, <2>3, <2>6, <2>7 DEF TraceOf, TypeOK
  <2> QED BY <2>1, <2>3, <2>6, <2>8, OthersTrace DEF TypeOK
<1>6. \/ Refused(r, b, 400, "governance_check_failed", EmptyImf)
      \/ Refused(r, b, 422, "invalid_pinned_model", classified)
      \/ Refused(r, b, 503, "no_model_for_task", classified)
      \/ StartRouting(r, b, task)
  BY DEF Receive, task
<1> HIDE DEF classified
<1> QED BY <1>4, <1>5, <1>6

LEMMA CallStepTrace ==
    ASSUME TypeOK, CallsTrace, NEW r \in Requests, HealthOk(r) \/ LookupMiss(r)
    PROVE  CallsTrace'
<1>1. TraceOf(r) /\ Routing(r)
  BY DEF CallsTrace, HealthOk, LookupMiss, Routing, RoutingStages
<1>2. InStep(r)
  BY <1>1, TraceInStep DEF RoutingInStep
<1>3. imf[r].selected \in Names /\ imf[r] \in Imf
  BY <1>2, SelectedIsName
<1>4. ASSUME NEW st \in {"lookup", "infer"}, Rank(st) = Rank(stage[r]) + 1,
             Call(r, st, imf[r].selected),
             fallback' = fallback, reply' = reply,
             NEW i, imf' = [imf EXCEPT ![r] = i],
             i.level = imf[r].level, i.selected = imf[r].selected, i.task = imf[r].task
      PROVE  CallsTrace'
  <2>1. /\ stage' = [stage EXCEPT ![r] = st]
        /\ calls' = [calls EXCEPT ![r] = Append(calls[r], <<st, imf[r].selected>>)]
    BY <1>4 DEF Call
  <2>2. Trace(st, Append(calls[r], <<st, imf[r].selected>>), fallback[r], i, reply[r])
    BY <1>1, <1>3, <1>4, TypeOfRequest, StageTrace DEF TraceOf, Routing
  <2>3. TraceOf(r)'
    BY <1>4, <2>1, <2>2 DEF TraceOf, TypeOK
  <2> QED BY <1>4, <2>1, <2>3, OthersTrace DEF TypeOK
<1>5. CASE HealthOk(r)
  <2>1. imf' = [imf EXCEPT ![r] = imf[r]]
    BY <1>5 DEF HealthOk, TypeOK
  <2>2. Rank("lookup") = Rank(stage[r]) + 1
    BY <1>5 DEF HealthOk, Rank
  <2> QED BY <1>4, <1>5, <2>1, <2>2 DEF HealthOk
<1>6. CASE LookupMiss(r)
  <2> DEFINE i == [imf[r] EXCEPT !.hit = FALSE]
  <2>1. imf' = [imf EXCEPT ![r] = i]
    BY <1>6 DEF LookupMiss
  <2>2. i.level = imf[r].level /\ i.selected = imf[r].selected /\ i.task = imf[r].task
    BY <1>3 DEF Imf
  <2>3. Rank("infer") = Rank(stage[r]) + 1
    BY <1>6 DEF LookupMiss, Rank
  <2> HIDE DEF i
  <2> QED BY <1>4, <1>6, <2>1, <2>2, <2>3 DEF LookupMiss
<1> QED BY <1>5, <1>6

\* The request is answered without a further call.
LEMMA AnswerTrace ==
    ASSUME TypeOK, CallsTrace, NEW r \in Requests, Routing(r),
           stage' = [stage EXCEPT ![r] = "replied"],
           \A q \in Requests \ {r} : reply'[q] = reply[q],
           reply'[r].error = "all_backends_exhausted" => ~HasNext(fallback[r]),
           UNCHANGED <<calls, fallback>>,
           \A q \in Requests \ {r} : imf'[q] = imf[q],
           /\ imf'[r].level = imf[r].level
           /\ imf'[r].selected = imf[r].selected
           /\ imf'[r].task = imf[r].task
    PROVE  CallsTrace'
<1>1. TraceOf(r) /\ calls[r] # <<>>
  BY DEF CallsTrace, TraceOf, Trace, AwaitsLast, Routing
<1>2. Trace("replied", calls[r], fallback[r], imf'[r], reply'[r])
  BY <1>1, KeepTrace DEF TraceOf, RoutingStages
<1>3. TraceOf(r)'
  BY <1>2 DEF TraceOf, TypeOK
<1> QED BY <1>3, OthersTrace DEF TypeOK

LEMMA FailTrace ==
    ASSUME TypeOK, CallsTrace, NEW r \in Requests, HealthFail(r) \/ InferFail(r)
    PROVE  CallsTrace'
<1> DEFINE f == Advance(fallback[r])
           m == Count(metrics, "fallbacks")
<1>1. TraceOf(r) /\ Routing(r)
  BY DEF CallsTrace, HealthFail, InferFail, Routing, RoutingStages
<1>2. InStep(r)
  BY <1>1, TraceInStep DEF RoutingInStep
<1>3. fallback[r] \in FallbackState /\ imf[r] \in Imf /\ imf[r].selected \in Names
  BY <1>2, SelectedIsName
<1>4. fallback' = [fallback EXCEPT ![r] = f]
  BY DEF HealthFail, InferFail
<1>5. CASE HasNext(fallback[r]) /\ TryNext(r, f)
  <2>1. /\ f = Advanced(fallback[r])
        /\ SelectedModel(f) = fallback[r].chain[fallback[r].index + 2]
        /\ SelectedModel(f) \in Names
        /\ f.level = fallback[r].index + 1 /\ f.level \in Nat
    BY <1>2, <1>3, <1>5, AdvanceFacts DEF Advance, InStep, InStepOf, FallbackState
  <2> DEFINE next == SelectedModel(f)
             i == AtLevel(imf[r], f.level, next)
  <2>2. i.level = fallback[r].index + 1 /\ i.selected = next /\ i.task = imf[r].task
    BY <1>3, <2>1, AtLevelFacts
  <2>3. /\ imf' = [imf EXCEPT ![r] = i]
        /\ stage' = [stage EXCEPT ![r] = "health"]
        /\ calls' = [calls EXCEPT ![r] = Append(calls[r], <<"health", next>>)]
        /\ reply' = reply
    BY <1>5 DEF TryNext, Call
  <2> HIDE DEF f, next, i
  <2>4. Trace("health", Append(calls[r], <<"health", next>>), Advanced(fallback[r]), i, reply[r])
    BY <1>1, <1>3, <1>5, <2>1, <2>2, TypeOfRequest, NextTrace DEF TraceOf, Routing, next
  <2>5. TraceOf(r)'
    BY <1>4, <2>1, <2>3, <2>4 DEF TraceOf, TypeOK
  <2> QED BY <1>4, <2>3, <2>5, OthersTrace DEF TypeOK
<1>6. CASE ~HasNext(fallback[r]) /\ Exhausted(r, f, m)
  <2>1. f = fallback[r] /\ f.level = imf[r].level /\ f.level \in Nat
    BY <1>2, <1>3, <1>6, AdvanceFacts DEF InStep, InStepOf, FallbackState
  <2> DEFINE i == AtLevel(imf[r], f.level, imf[r].selected)
  <2>2. i.level = imf[r].level /\ i.selected = imf[r].selected /\ i.task = imf[r].task
    BY <1>3, <2>1, AtLevelFacts
  <2>3. /\ imf' = [imf EXCEPT ![r] = i]
        /\ Respond(r, body[r], 503, "all_backends_exhausted", imf[r], m)
    BY <1>6 DEF Exhausted
  <2>4. fallback' = fallback
    BY <1>4, <2>1 DEF TypeOK
  <2> HIDE DEF i, m
  <2>5. /\ imf'[r] = i
        /\ \A q \in Requests \ {r} : imf'[q] = imf[q]
        /\ stage' = [stage EXCEPT ![r] = "replied"]
        /\ \A q \in Requests \ {r} : reply'[q] = reply[q]
        /\ reply'[r].error = "all_backends_exhausted"
        /\ UNCHANGED <<calls, fallback>>
    BY <2>3, <2>4 DEF Respond, TypeOK
  <2> QED BY <1>1, <1>6, <2>2, <2>4, <2>5, AnswerTrace
<1> QED BY <1>5, <1>6 DEF HealthFail, InferFail

LEMMA ReplyTrace ==
    ASSUME TypeOK, CallsTrace, NEW r \in Requests,
           Raises(r) \/ InferOk(r) \/ (\E e \in cache : LookupHit(r, e))
    PROVE  CallsTrace'
<1>1. Routing(r)
  BY DEF Raises, InferOk, LookupHit, Routing, RoutingStages
<1>2. InStep(r) /\ imf[r] \in Imf /\ imf \in [Requests -> Imf]
  BY <1>1, TraceInStep, SelectedIsName DEF RoutingInStep, TypeOK
<1>3. CASE Raises(r)
  <2>1. imf' = [imf EXCEPT ![r] = imf[r]] /\ fallback' = fallback
        /\ Respond(r, body[r], 500, "internal_error", imf[r], metrics)
    BY <1>2, <1>3 DEF Raises
  <2>2. /\ imf'[r] = imf[r]
        /\ \A q \in Requests \ {r} : imf'[q] = imf[q]
        /\ stage' = [stage EXCEPT ![r] = "replied"]
        /\ \A q \in Requests \ {r} : reply'[q] = reply[q]
        /\ reply'[r].error = "internal_error"
        /\ UNCHANGED <<calls, fallback>>
    BY <1>2, <2>1 DEF Respond, TypeOK
  <2> QED BY <1>1, <2>1, <2>2, AnswerTrace
<1>4. CASE InferOk(r)
  <2>1. imf' = [imf EXCEPT ![r] = InferAnswer(r)] /\ fallback' = fallback
        /\ Respond(r, body[r], 200, "none", InferAnswer(r), metrics)
    BY <1>4 DEF InferOk, InferAnswer
  <2>2. /\ InferAnswer(r).level = imf[r].level
        /\ InferAnswer(r).selected = imf[r].selected
        /\ InferAnswer(r).task = imf[r].task
    <3>1. [by |-> imf[r].selected, for |-> r] \in Content /\ imf[r].hit \in BOOLEAN
      BY <1>2, SelectedIsName DEF Content, Imf
    <3> QED BY <1>2, <3>1, AnsweredFacts DEF InferAnswer
  <2>3. /\ imf'[r] = InferAnswer(r)
        /\ \A q \in Requests \ {r} : imf'[q] = imf[q]
        /\ stage' = [stage EXCEPT ![r] = "replied"]
        /\ \A q \in Requests \ {r} : reply'[q] = reply[q]
        /\ reply'[r].error = "none"
        /\ UNCHANGED <<calls, fallback>>
    BY <1>2, <2>1 DEF Respond, TypeOK
  <2> QED BY <1>1, <2>1, <2>2, <2>3, AnswerTrace
<1>5. CASE \E e \in cache : LookupHit(r, e)
  <2>1. PICK e \in cache : LookupHit(r, e)
    BY <1>5
  <2> DEFINE answered == Answered(imf[r], TRUE, e.content)
             m == Count(metrics, "cacheHits")
  <2>2. e.content \in Content
    BY DEF TypeOK, CacheEntry
  <2>3. /\ answered.level = imf[r].level
        /\ answered.selected = imf[r].selected
        /\ answered.task = imf[r].task
    BY <1>2, <2>2, AnsweredFacts
  <2>4. imf' = [imf EXCEPT ![r] = answered] /\ fallback' = fallback
        /\ Respond(r, body[r], 200, "none", answered, m)
    BY <2>1 DEF LookupHit
  <2> HIDE DEF answered, m
  <2>5. /\ imf'[r] = answered
        /\ \A q \in Requests \ {r} : imf'[q] = imf[q]
        /\ stage' = [stage EXCEPT ![r] = "replied"]
        /\ \A q \in Requests \ {r} : reply'[q] = reply[q]
        /\ reply'[r].error = "none"
        /\ UNCHANGED <<calls, fallback>>
    BY <1>2, <2>4 DEF Respond, TypeOK
  <2> QED BY <1>1, <2>3, <2>4, <2>5, AnswerTrace
<1> QED BY <1>3, <1>4, <1>5

LEMMA CrashTrace ==
    ASSUME TypeOK, CallsTrace, Crash
    PROVE  CallsTrace'
<1> SUFFICES ASSUME NEW r \in Requests PROVE TraceOf(r)'
  BY DEF CallsTrace
<1>1. /\ stage'[r] = stage[r] \/ stage'[r] = "lost"
      /\ calls' = calls /\ fallback' = fallback /\ imf' = imf /\ reply' = reply
  BY DEF Crash
<1>2. TraceOf(r)
  BY DEF CallsTrace
<1>3. CASE stage'[r] = stage[r]
  BY <1>1, <1>2, <1>3 DEF TraceOf
<1>4. CASE stage'[r] = "lost"
  <2> DEFINE st == stage[r]
             c == calls[r]
             f == fallback[r]
             i == imf[r]
             rep == reply[r]
  <2>1. Trace(st, c, f, i, rep)
    BY <1>2 DEF TraceOf
  <2> HIDE DEF st, c, f, i, rep
  <2>2. NothingYet("lost", c, rep) /\ AwaitsLast("lost", c, i)
    BY DEF NothingYet, AwaitsLast, RoutingStages
  <2>3. Trace("lost", c, f, i, rep)
    BY <2>1, <2>2 DEF Trace
  <2> QED BY <1>1, <1>4, <2>3 DEF TraceOf, st, c, f, i, rep
<1> QED BY <1>1, <1>3, <1>4

LEMMA BackgroundTrace ==
    ASSUME CallsTrace, NEW r \in Requests, Background(r)
    PROVE  CallsTrace'
BY DEF Background, PostAudit, WriteCache, NextTask, CallsTrace, TraceOf

(***************************************************************************)
(* The inductive invariant                                                 *)
(***************************************************************************)
RouterInv == TypeOK /\ CallsTrace

LEMMA RouterInvStep == RouterInv /\ [Next]_vars => RouterInv'
<1> SUFFICES ASSUME TypeOK, CallsTrace, [Next]_vars PROVE RouterInv'
  BY DEF RouterInv
<1>1. RoutingInStep
  BY TraceInStep
<1>2. ASSUME NEW r \in Requests, NEW b \in Bodies, Receive(r, b) PROVE RouterInv'
  BY <1>2, ReceiveType, ReceiveTrace DEF RouterInv
<1>3. ASSUME NEW r \in Requests, HealthOk(r) \/ LookupMiss(r) PROVE RouterInv'
  BY <1>1, <1>3, CallStepType, CallStepTrace DEF RouterInv
<1>4. ASSUME NEW r \in Requests, HealthFail(r) PROVE RouterInv'
  BY <1>1, <1>4, HealthFailType, FailTrace DEF RouterInv
<1>5. ASSUME NEW r \in Requests, InferFail(r) PROVE RouterInv'
  BY <1>1, <1>5, InferFailType, FailTrace DEF RouterInv
<1>6. ASSUME NEW r \in Requests, Raises(r) PROVE RouterInv'
  BY <1>6, RaisesType, ReplyTrace DEF RouterInv
<1>7. ASSUME NEW r \in Requests, NEW e \in cache, LookupHit(r, e) PROVE RouterInv'
  BY <1>1, <1>7, LookupHitType, ReplyTrace DEF RouterInv
<1>8. ASSUME NEW r \in Requests, InferOk(r) PROVE RouterInv'
  BY <1>1, <1>8, InferOkType, ReplyTrace DEF RouterInv
<1>9. ASSUME NEW r \in Requests, Background(r) PROVE RouterInv'
  BY <1>9, BackgroundType, BackgroundTrace DEF RouterInv
<1>10. CASE Crash
  BY <1>10, CrashType, CrashTrace DEF RouterInv
<1>11. CASE UNCHANGED vars
  BY <1>11 DEF vars, RouterInv, TypeOK, CallsTrace, TraceOf
<1> QED BY <1>2, <1>3, <1>4, <1>5, <1>6, <1>7, <1>8, <1>9, <1>10, <1>11 DEF Next, Handler

LEMMA RouterInvariant == Spec => []RouterInv
<1>1. Init => RouterInv
  BY InitType, InitTrace DEF RouterInv
<1> QED BY <1>1, RouterInvStep, PTL DEF Spec

\* Every variable keeps its type: a step of any stage leaves a well-formed
\* IMF, FallbackState, task list, reply and audit trail.
THEOREM TypeCorrect == Spec => []TypeOK
<1>1. RouterInv => TypeOK
  BY DEF RouterInv
<1> QED BY <1>1, RouterInvariant, PTL

\* Whatever the matrix, cycles and links to names without an entry included,
\* the pipeline never makes the same downstream call twice for a request.
THEOREM CallsNeverRepeat == Spec => []NoCallRepeated
<1>1. RouterInv => NoCallRepeated
  <2> SUFFICES ASSUME RouterInv, NEW r \in Requests
               PROVE  \A i, j \in DOMAIN calls[r] : calls[r][i] = calls[r][j] => i = j
    BY DEF NoCallRepeated
  <2>1. DOMAIN calls[r] = 1..Len(calls[r])
    BY TypeOfRequest DEF RouterInv
  <2> QED BY <2>1 DEF RouterInv, CallsTrace, TraceOf, Trace, Distinct
<1> QED BY <1>1, RouterInvariant, PTL

\* Each model is checked, then looked up, then asked to infer: no stage is
\* entered on the strength of another model's health check.
THEOREM StagesInOrder == Spec => []CallsInOrder
<1>1. RouterInv => CallsInOrder
  <2> SUFFICES ASSUME RouterInv, NEW r \in Requests, NEW n \in DOMAIN calls[r]
               PROVE  /\ calls[r][n][1] = "lookup" =>
                            n > 1 /\ calls[r][n - 1] = <<"health", calls[r][n][2]>>
                      /\ calls[r][n][1] = "infer" =>
                            n > 1 /\ calls[r][n - 1] = <<"lookup", calls[r][n][2]>>
    BY DEF CallsInOrder
  <2>1. n \in 1..Len(calls[r])
    BY TypeOfRequest DEF RouterInv
  <2> QED BY <2>1 DEF RouterInv, CallsTrace, TraceOf, Trace, Ordered
<1> QED BY <1>1, RouterInvariant, PTL

\* A request is told that all backends are exhausted only after each model
\* of its fallback chain was checked.
THEOREM ExhaustionIsComplete == Spec => []ExhaustedAfterAll
<1>1. RouterInv => ExhaustedAfterAll
  <2> SUFFICES ASSUME RouterInv, NEW r \in Requests,
                      reply[r].error = "all_backends_exhausted",
                      NEW k \in DOMAIN fallback[r].chain
               PROVE  fallback[r].chain[k] \in Checked(r)
    BY DEF ExhaustedAfterAll
  <2>1. /\ fallback[r] \in FallbackState /\ calls[r] \in Seq(Services \X Names)
        /\ TraceOf(r)
    BY TypeOfRequest DEF RouterInv, CallsTrace
  <2>2. calls[r] # <<>> /\ ~HasNext(fallback[r])
    BY <2>1 DEF TraceOf, Trace, ExhaustedLast
  <2>3. k \in 1..(fallback[r].index + 1)
    BY <2>1, <2>2 DEF FallbackState, HasNext
  <2>4. PICK n \in 1..Len(calls[r]) : calls[r][n] = <<"health", fallback[r].chain[k]>>
    BY <2>1, <2>2, <2>3 DEF TraceOf, Trace, ChainChecked
  <2>5. fallback[r].chain[k] \in Names /\ n \in DOMAIN calls[r]
    BY <2>1 DEF FallbackState
  <2> QED BY <2>4, <2>5 DEF Checked
<1> QED BY <1>1, RouterInvariant, PTL

(***************************************************************************)
(* What the router stores in the cache and what it replies with: text and  *)
(* metadata belong together, whatever runs concurrently.                   *)
(***************************************************************************)

(***************************************************************************)
(* The inductive invariant of the cache                                    *)
(***************************************************************************)
Open(r) == stage[r] = "new" \/ Routing(r)

\* e is what its request was answered with, and that request is over.
Served(e) ==
    LET r == e.content.for
    IN  /\ ~Open(r)
        /\ reply[r].status = 200 /\ imf[r].content = e.content /\ ~imf[r].hit
        /\ e.model = e.content.by /\ e.task = imf[r].task

Elements(s) == {s[k] : k \in 1..Len(s)}
Queued(r) == Elements(tasks[r])
QueuedWrites(r) == {t \in Queued(r) : t.kind = "cache_write"}

\* The reply of r, once it is 200, has its text from the cache or its model.
Provenance(r) ==
    reply[r].status = 200 =>
        IF imf[r].hit
        THEN \E e \in cache : e.content = imf[r].content /\ e.task = imf[r].task
        ELSE /\ imf[r].content = [by |-> imf[r].selected, for |-> r]
             /\ calls[r][Len(calls[r])] = <<"infer", imf[r].selected>>

\* No request has its answer before it is over, and a model is only asked
\* after a miss.
Unanswered(r) == /\ Open(r) => reply[r].status # 200
                 /\ stage[r] = "infer" => ~imf[r].hit

RequestInv(r) == Unanswered(r) /\ Provenance(r) /\ \A t \in QueuedWrites(r) : Served(t)
CacheInv == (\A e \in cache : Served(e)) /\ \A r \in Requests : RequestInv(r)

(***************************************************************************)
(* Steps of one request                                                    *)
(***************************************************************************)
\* Whatever r does, nothing changes for the others.
OthersKept(r) ==
    \A q \in Requests \ {r} :
        /\ stage'[q] = stage[q] /\ imf'[q] = imf[q] /\ tasks'[q] = tasks[q]
        /\ reply'[q] = reply[q] /\ calls'[q] = calls[q]

LEMMA ServedStays ==
    ASSUME NEW e, Served(e), e.content.for \in Requests,
           NEW r \in Requests, Open(r), OthersKept(r)
    PROVE  Served(e)'
<1>1. e.content.for # r
  BY DEF Served
<1> QED BY <1>1 DEF Served, OthersKept, Open, Routing

LEMMA WriteIsOfRequest ==
    ASSUME TypeOK
    PROVE  /\ \A e \in cache : e.content.for \in Requests
           /\ \A r \in Requests, t \in Task : t.kind = "cache_write" => t.content.for \in Requests
           /\ \A r \in Requests : Queued(r) \subseteq Task
<1>1. \A t \in CacheEntry : t.content.for \in Requests
  BY DEF CacheEntry, Content
<1>2. \A t \in Task : t.kind = "cache_write" => t \in CacheEntry
  BY DEF Task, Event
<1>3. \A r \in Requests : Queued(r) \subseteq Task
  BY DEF TypeOK, Queued, Elements
<1> QED BY <1>1, <1>2, <1>3 DEF TypeOK

LEMMA OpenStep ==
    ASSUME TypeOK, CacheInv, NEW r \in Requests, Open(r), OthersKept(r), cache' = cache,
           Unanswered(r)', Provenance(r)',
           \A t \in QueuedWrites(r)' : t \in QueuedWrites(r) \/ Served(t)'
    PROVE  CacheInv'
<1>1. \A e \in cache : Served(e)'
  BY ServedStays, WriteIsOfRequest DEF CacheInv
<1>2. ASSUME NEW q \in Requests, NEW t \in QueuedWrites(q)
      PROVE  Served(t)'
  <2>1. Served(t)
    BY <1>2 DEF CacheInv, RequestInv
  <2>2. t.content.for \in Requests
    BY <1>2, WriteIsOfRequest DEF QueuedWrites
  <2> QED BY <2>1, <2>2, ServedStays
<1>3. RequestInv(r)'
  BY <1>2 DEF RequestInv
<1>4. ASSUME NEW q \in Requests, q # r
      PROVE  RequestInv(q)'
  <2>1. /\ stage'[q] = stage[q] /\ imf'[q] = imf[q] /\ tasks'[q] = tasks[q]
        /\ reply'[q] = reply[q] /\ calls'[q] = calls[q]
    BY <1>4 DEF OthersKept
  <2>2. Unanswered(q)' /\ Provenance(q)'
    BY <1>4, <2>1 DEF CacheInv, RequestInv, Unanswered, Provenance, Open, Routing
  <2>3. QueuedWrites(q)' = QueuedWrites(q)
    BY <2>1 DEF QueuedWrites, Queued, Elements
  <2> QED BY <1>2, <2>2, <2>3 DEF RequestInv
<1> QED BY <1>1, <1>3, <1>4 DEF CacheInv

LEMMA ElementsOfConcatenation ==
    ASSUME NEW s \in Seq(Task), NEW t \in Seq(Task)
    PROVE  Elements(s \o t) = Elements(s) \cup Elements(t)
<1>1. /\ Len(s) \in Nat /\ Len(t) \in Nat /\ Len(s \o t) = Len(s) + Len(t)
      /\ \A k \in 1..Len(s) : (s \o t)[k] = s[k]
      /\ \A k \in 1..Len(t) : (s \o t)[Len(s) + k] = t[k]
  OBVIOUS
<1> DEFINE u == s \o t
           left == {s[k] : k \in 1..Len(s)}
           right == {t[k] : k \in 1..Len(t)}
           all == {u[k] : k \in 1..Len(u)}
<1>2. /\ Len(s) \in Nat /\ Len(t) \in Nat /\ Len(u) = Len(s) + Len(t)
      /\ \A k \in 1..Len(s) : u[k] = s[k]
      /\ \A k \in 1..Len(t) : u[Len(s) + k] = t[k]
  BY <1>1
<1> HIDE DEF u
<1>3. ASSUME NEW k \in 1..Len(u)
      PROVE  u[k] \in left \cup right
  <2>1. CASE k \in 1..Len(s)
    BY <1>2, <2>1
  <2>2. CASE k \notin 1..Len(s)
    <3> DEFINE j == k - Len(s)
    <3>1. j \in 1..Len(t) /\ k = Len(s) + j
      BY <1>2, <2>2
    <3> HIDE DEF j
    <3>2. u[k] = t[j]
      BY <1>2, <3>1
    <3> QED BY <3>1, <3>2
  <2> QED BY <2>1, <2>2
<1>4. ASSUME NEW k \in 1..Len(s)
      PROVE  s[k] \in all
  <2>1. k \in 1..Len(u) /\ u[k] = s[k]
    BY <1>2
  <2> QED BY <2>1
<1>5. ASSUME NEW k \in 1..Len(t)
      PROVE  t[k] \in all
  <2> DEFINE j == Len(s) + k
  <2>1. j \in 1..Len(u) /\ u[j] = t[k]
    BY <1>2
  <2> HIDE DEF j
  <2> QED BY <2>1
<1>6. all = left \cup right
  <2>1. all \subseteq left \cup right
    BY <1>3
  <2>2. left \subseteq all
    BY <1>4
  <2>3. right \subseteq all
    BY <1>5
  <2> HIDE DEF all, left, right
  <2> QED BY <2>1, <2>2, <2>3
<1> QED BY <1>6 DEF u, Elements

\* What is queued once one event, or a write and an event, are added.
LEMMA ElementsOfOne ==
    ASSUME NEW event
    PROVE  Elements(<<event>>) = {event}
BY DEF Elements

LEMMA QueueGrowsByOne ==
    ASSUME TypeOK, NEW r \in Requests, NEW event \in Task, AddTasks(r, <<event>>)
    PROVE  Queued(r)' = Queued(r) \cup {event}
<1> DEFINE s == tasks[r]
<1>1. tasks'[r] = s \o <<event>> /\ s \in Seq(Task) /\ <<event>> \in Seq(Task)
  BY DEF AddTasks, TypeOK
<1> HIDE DEF s
<1>2. Elements(s \o <<event>>) = Elements(s) \cup {event}
  BY <1>1, ElementsOfOne, ElementsOfConcatenation, Zenon
<1> QED BY <1>1, <1>2 DEF Queued, s

LEMMA QueueGrowsByTwo ==
    ASSUME TypeOK, NEW r \in Requests, NEW w \in Task, NEW event \in Task,
           AddTasks(r, <<w>> \o <<event>>)
    PROVE  Queued(r)' = Queued(r) \cup {w, event}
<1> DEFINE s == tasks[r]
           new == <<w>> \o <<event>>
<1>1. tasks'[r] = s \o new /\ s \in Seq(Task) /\ new \in Seq(Task)
  BY DEF AddTasks, TypeOK
<1>2. Elements(new) = {w} \cup {event}
  <2>1. <<w>> \in Seq(Task) /\ <<event>> \in Seq(Task)
    OBVIOUS
  <2> QED BY <2>1, ElementsOfOne, ElementsOfConcatenation, Zenon
<1> HIDE DEF s, new
<1>3. Elements(s \o new) = Elements(s) \cup {w, event}
  BY <1>1, <1>2, ElementsOfConcatenation
<1> QED BY <1>1, <1>3 DEF Queued, s

\* A step that answers nobody with 200.
LEMMA QuietStep ==
    ASSUME TypeOK, CacheInv, NEW r \in Requests, Open(r), OthersKept(r), cache' = cache,
           reply'[r].status # 200, stage'[r] = "infer" => ~imf'[r].hit,
           QueuedWrites(r)' \subseteq QueuedWrites(r)
    PROVE  CacheInv'
BY OpenStep DEF Unanswered, Provenance

LEMMA ReceiveCache ==
    ASSUME TypeOK, CacheInv, NEW r \in Requests, NEW b \in Bodies, Receive(r, b)
    PROVE  CacheInv'
<1>1. Open(r) /\ reply[r].status # 200
  BY DEF Receive, Open, CacheInv, RequestInv, Unanswered
<1>2. ASSUME NEW status \in {400, 422, 503}, NEW error, NEW i, Refused(r, b, status, error, i)
      PROVE  CacheInv'
  <2>1. /\ stage' = [stage EXCEPT ![r] = "replied"]
        /\ reply' = [reply EXCEPT ![r] = [status |-> status, error |-> error]]
        /\ imf' = [imf EXCEPT ![r] = i]
        /\ UNCHANGED <<calls, tasks, cache>>
    BY <1>2 DEF Refused, Respond
  <2>2. OthersKept(r) /\ reply'[r].status # 200 /\ stage'[r] # "infer"
    BY <2>1 DEF OthersKept, TypeOK
  <2> QED BY <1>1, <2>1, <2>2, QuietStep DEF QueuedWrites, Queued, Elements
<1>3. ASSUME NEW task, StartRouting(r, b, task)
      PROVE  CacheInv'
  <2>1. \E i, model :
           /\ imf' = [imf EXCEPT ![r] = i]
           /\ Call(r, "health", model)
           /\ UNCHANGED <<tasks, reply, cache>>
    BY <1>3 DEF StartRouting
  <2>2. OthersKept(r) /\ stage'[r] # "infer" /\ UNCHANGED <<tasks, reply, cache>>
    BY <2>1 DEF Call, OthersKept, TypeOK
  <2> QED BY <1>1, <2>2, QuietStep DEF QueuedWrites, Queued, Elements
<1> QED BY <1>2, <1>3 DEF Receive

LEMMA CallStepCache ==
    ASSUME TypeOK, CacheInv, NEW r \in Requests, HealthOk(r) \/ LookupMiss(r)
    PROVE  CacheInv'
<1>1. Open(r) /\ reply[r].status # 200
  BY DEF HealthOk, LookupMiss, Open, Routing, RoutingStages, CacheInv, RequestInv, Unanswered
<1>2. UNCHANGED <<tasks, reply, cache>>
  BY DEF HealthOk, LookupMiss
<1>3. OthersKept(r) /\ (stage'[r] = "infer" => ~imf'[r].hit)
  <2>1. CASE HealthOk(r)
    BY <2>1 DEF HealthOk, Call, OthersKept, TypeOK
  <2>2. CASE LookupMiss(r)
    <3>1. /\ imf' = [imf EXCEPT ![r] = [imf[r] EXCEPT !.hit = FALSE]]
          /\ imf[r] \in Imf /\ imf \in [Requests -> Imf]
      BY <2>2 DEF LookupMiss, TypeOK
    <3>2. [imf[r] EXCEPT !.hit = FALSE].hit = FALSE
      BY <3>1 DEF Imf
    <3>3. imf'[r].hit = FALSE
      BY <3>1, <3>2
    <3>4. OthersKept(r)
      BY <2>2, <3>1 DEF LookupMiss, Call, OthersKept, TypeOK
    <3> QED BY <3>3, <3>4
  <2> QED BY <2>1, <2>2
<1> QED BY <1>1, <1>2, <1>3, QuietStep DEF QueuedWrites, Queued, Elements

LEMMA FailCache ==
    ASSUME TypeOK, CacheInv, RoutingInStep, NEW r \in Requests, HealthFail(r) \/ InferFail(r)
    PROVE  CacheInv'
<1>1. Routing(r) /\ Open(r) /\ reply[r].status # 200 /\ cache' = cache
  BY DEF HealthFail, InferFail, Open, Routing, RoutingStages, CacheInv, RequestInv, Unanswered
<1>2. imf[r] \in Imf /\ fallback[r] \in FallbackState /\ InStep(r)
  BY <1>1, SelectedIsName DEF RoutingInStep
<1>3. PICK event \in Task : AddTasks(r, <<event>>) /\ event.kind = "audit"
  <2>1. CASE HasNext(fallback[r]) \/ InferFail(r)
    <3>1. FallbackAudit(imf[r], Advance(fallback[r])) \in Task
      BY <1>2, AdvancedAuditType DEF InStep, InStepOf
    <3>2. FallbackAudit(imf[r], Advance(fallback[r])).kind = "audit"
      BY DEF FallbackAudit
    <3> QED BY <2>1, <3>1, <3>2 DEF HealthFail, InferFail
  <2>2. CASE ~HasNext(fallback[r]) /\ HealthFail(r)
    <3>1. RoutingAudit(imf[r], "error") \in Task
      BY <1>2, AuditType
    <3>2. RoutingAudit(imf[r], "error").kind = "audit"
      BY DEF RoutingAudit
    <3> QED BY <2>2, <3>1, <3>2 DEF HealthFail
  <2> QED BY <2>1, <2>2
<1>4. QueuedWrites(r)' \subseteq QueuedWrites(r)
  <2>1. Queued(r)' = Queued(r) \cup {event}
    BY <1>3, QueueGrowsByOne
  <2> QED BY <1>3, <2>1 DEF QueuedWrites
<1>5. OthersKept(r) /\ reply'[r].status # 200 /\ stage'[r] # "infer"
  <2>1. ASSUME NEW f, TryNext(r, f)
        PROVE  OthersKept(r) /\ reply'[r].status # 200 /\ stage'[r] # "infer"
    BY <1>1, <1>3, <2>1 DEF TryNext, Call, AddTasks, OthersKept, TypeOK
  <2>2. ASSUME NEW f, NEW m, Exhausted(r, f, m)
        PROVE  OthersKept(r) /\ reply'[r].status # 200 /\ stage'[r] # "infer"
    BY <1>1, <1>3, <2>2 DEF Exhausted, Respond, AddTasks, OthersKept, TypeOK
  <2> QED BY <2>1, <2>2 DEF HealthFail, InferFail
<1> QED BY <1>1, <1>4, <1>5, QuietStep

LEMMA RaisesCache ==
    ASSUME TypeOK, CacheInv, NEW r \in Requests, Raises(r)
    PROVE  CacheInv'
<1>1. Open(r) /\ UNCHANGED <<tasks, imf, cache>>
  BY DEF Raises, Open, Routing, RoutingStages
<1>2. OthersKept(r) /\ reply'[r].status # 200 /\ stage'[r] # "infer"
  BY <1>1 DEF Raises, Respond, OthersKept, TypeOK
<1> QED BY <1>1, <1>2, QuietStep DEF QueuedWrites, Queued, Elements

\* What a request answered with 200 leaves.
LEMMA AnswerKeeps ==
    ASSUME TypeOK, NEW r \in Requests, NEW i, NEW m, NEW new,
           imf' = [imf EXCEPT ![r] = i], AddTasks(r, new),
           Respond(r, body[r], 200, "none", i, m)
    PROVE  /\ OthersKept(r) /\ imf'[r] = i /\ stage'[r] = "replied"
           /\ reply'[r].status = 200 /\ calls' = calls /\ ~Open(r)'
<1>1. /\ stage'[r] = "replied" /\ imf'[r] = i /\ reply'[r] = [status |-> 200, error |-> "none"]
      /\ calls' = calls
  BY DEF Respond, TypeOK
<1>2. OthersKept(r)
  BY DEF Respond, AddTasks, OthersKept, TypeOK
<1> QED BY <1>1, <1>2 DEF Open, Routing, RoutingStages

LEMMA LookupHitCache ==
    ASSUME TypeOK, CacheInv, RoutingInStep, NEW r \in Requests, NEW e \in cache, LookupHit(r, e)
    PROVE  CacheInv'
<1>1. Open(r) /\ cache' = cache /\ e.task = imf[r].task
  BY DEF LookupHit, Matches, Open, Routing, RoutingStages
<1>2. imf[r] \in Imf /\ e.content \in Content
  BY DEF TypeOK, CacheEntry
<1>3. PICK answered \in Imf : answered = Answered(imf[r], TRUE, e.content)
  BY <1>2, AnsweredFacts
<1>4. answered.hit = TRUE /\ answered.content = e.content /\ answered.task = imf[r].task
  BY <1>2, <1>3, AnsweredFacts
<1>5. PICK m : /\ imf' = [imf EXCEPT ![r] = answered]
               /\ AddTasks(r, <<CacheHitAudit(answered)>>)
               /\ Respond(r, body[r], 200, "none", answered, m)
  BY <1>3 DEF LookupHit
<1>6. /\ OthersKept(r) /\ imf'[r] = answered /\ stage'[r] = "replied"
      /\ reply'[r].status = 200 /\ ~Open(r)'
  <2>1. /\ stage'[r] = "replied" /\ imf'[r] = answered
        /\ reply'[r] = [status |-> 200, error |-> "none"]
    BY <1>5 DEF Respond, TypeOK
  <2>2. OthersKept(r)
    BY <1>5 DEF Respond, AddTasks, OthersKept, TypeOK
  <2> QED BY <2>1, <2>2 DEF Open, Routing, RoutingStages
<1>7. Unanswered(r)' /\ Provenance(r)'
  BY <1>1, <1>4, <1>6 DEF Unanswered, Provenance
<1>8. QueuedWrites(r)' \subseteq QueuedWrites(r)
  <2> DEFINE event == CacheHitAudit(answered)
  <2>1. event \in Task /\ event.kind = "audit"
    BY <1>3, AuditType DEF CacheHitAudit
  <2> HIDE DEF event
  <2>2. AddTasks(r, <<event>>)
    BY <1>5 DEF event
  <2>3. Queued(r)' = Queued(r) \cup {event}
    BY <2>1, <2>2, QueueGrowsByOne
  <2> QED BY <2>1, <2>3 DEF QueuedWrites
<1> QED BY <1>1, <1>6, <1>7, <1>8, OpenStep

LEMMA InferOkCache ==
    ASSUME RouterInv, CacheInv, RoutingInStep, NEW r \in Requests, InferOk(r)
    PROVE  CacheInv'
<1>1. TypeOK /\ Open(r) /\ InStep(r) /\ cache' = cache /\ ~imf[r].hit
  BY DEF RouterInv, InferOk, Open, Routing, RoutingStages, RoutingInStep, CacheInv,
         RequestInv, Unanswered
<1>2. PICK i, w, event : i = InferAnswer(r) /\ w = CacheWriteTask(i) /\ event = RoutingAudit(i, "pass")
  OBVIOUS
<1>3. /\ i.content = [by |-> imf[r].selected, for |-> r] /\ i.selected = imf[r].selected
      /\ i.task = imf[r].task /\ i.hit = imf[r].hit
      /\ w \in CacheEntry /\ event \in Task
      /\ w.model = i.selected /\ w.task = i.task /\ w.content = i.content /\ event.kind = "audit"
  <2>1. /\ i.content = [by |-> imf[r].selected, for |-> r] /\ i.selected = imf[r].selected
        /\ i.task = imf[r].task /\ i.hit = imf[r].hit
        /\ w \in CacheEntry /\ event \in Task
    BY <1>1, <1>2, InferOkFacts
  <2> QED BY <1>2, <2>1 DEF CacheWriteTask, RoutingAudit
<1>4. imf' = [imf EXCEPT ![r] = i] /\ AddTasks(r, <<w>> \o <<event>>)
      /\ Respond(r, body[r], 200, "none", i, metrics)
  <2>1. imf' = [imf EXCEPT ![r] = i] /\ AddTasks(r, InferTasks(r))
        /\ Respond(r, body[r], 200, "none", i, metrics)
    BY <1>2 DEF InferOk, InferAnswer, InferTasks
  <2>2. ~InferAnswer(r).hit
    BY <1>1, <1>2, <1>3
  <2>3. InferTasks(r) = <<w>> \o <<event>>
    BY <1>2, <2>2 DEF InferTasks
  <2> QED BY <2>1, <2>3
<1>5. /\ OthersKept(r) /\ imf'[r] = i /\ stage'[r] = "replied"
      /\ reply'[r].status = 200 /\ calls' = calls /\ ~Open(r)'
  BY <1>1, <1>4, AnswerKeeps
<1>6. calls[r][Len(calls[r])] = <<"infer", imf[r].selected>>
  BY DEF InferOk, RouterInv, CallsTrace, TraceOf, Trace, AwaitsLast, RoutingStages
<1>7. Unanswered(r)' /\ Provenance(r)'
  BY <1>1, <1>3, <1>5, <1>6 DEF Unanswered, Provenance
<1>8. Served(w)'
  <2>1. w.content.for = r /\ w.content.by = i.selected
    BY <1>3
  <2> QED BY <1>1, <1>3, <1>5, <2>1 DEF Served
<1>9. \A t \in QueuedWrites(r)' : t \in QueuedWrites(r) \/ Served(t)'
  <2>1. w \in Task
    BY <1>3 DEF Task
  <2>2. Queued(r)' = Queued(r) \cup {w, event}
    BY <1>1, <1>3, <1>4, <2>1, QueueGrowsByTwo
  <2>3. ASSUME NEW t \in QueuedWrites(r)'
        PROVE  t \in QueuedWrites(r) \/ t = w
    BY <1>3, <2>2 DEF QueuedWrites
  <2> QED BY <1>8, <2>3
<1> QED BY <1>1, <1>5, <1>7, <1>9, OpenStep

(***************************************************************************)
(* Background tasks and process death                                      *)
(***************************************************************************)
LEMMA BackgroundCache ==
    ASSUME TypeOK, CacheInv, NEW r \in Requests, Background(r)
    PROVE  CacheInv'
<1>1. /\ NextTask(r) /\ UNCHANGED <<stage, imf, reply, calls>>
      /\ tasks' = [tasks EXCEPT ![r] = Tail(tasks[r])]
      /\ tasks[r] \in Seq(Task) /\ tasks[r] # <<>>
      /\ cache' = cache \/ (cache' = cache \cup {Head(tasks[r])} /\ Head(tasks[r]).kind = "cache_write")
  BY DEF Background, PostAudit, WriteCache, NextTask, TypeOK
<1>2. Head(tasks[r]) \in Queued(r) /\ Queued(r)' \subseteq Queued(r)
  <2> DEFINE s == tasks[r]
  <2>1. s \in Seq(Task) /\ s # <<>> /\ tasks'[r] = Tail(s)
    BY <1>1 DEF TypeOK
  <2> HIDE DEF s
  <2>2. /\ Head(s) \in {s[k] : k \in 1..Len(s)}
        /\ {Tail(s)[k] : k \in 1..Len(Tail(s))} \subseteq {s[k] : k \in 1..Len(s)}
    BY <2>1
  <2> QED BY <2>1, <2>2 DEF Queued, Elements, s
<1>3. \A t : Served(t)' <=> Served(t)
  BY <1>1 DEF Served, Open, Routing
<1>4. \A e \in cache' : Served(e)
  BY <1>1, <1>2 DEF CacheInv, RequestInv, QueuedWrites
<1>5. ASSUME NEW q \in Requests
      PROVE  RequestInv(q)'
  <2>1. Queued(q)' \subseteq Queued(q)
    <3>1. CASE q # r
      BY <1>1, <3>1 DEF Queued, TypeOK
    <3> QED BY <1>2, <3>1
  <2>2. Unanswered(q)' /\ Provenance(q)'
    BY <1>1 DEF CacheInv, RequestInv, Unanswered, Provenance, Open, Routing
  <2> QED BY <1>3, <2>1, <2>2 DEF CacheInv, RequestInv, QueuedWrites
<1> QED BY <1>3, <1>4, <1>5 DEF CacheInv

LEMMA CrashCache ==
    ASSUME TypeOK, CacheInv, Crash
    PROVE  CacheInv'
<1>1. /\ UNCHANGED <<imf, reply, calls, cache>>
      /\ \A r \in Requests : stage'[r] \in {"lost", stage[r]} /\ tasks'[r] = <<>>
  BY DEF Crash
<1>2. \A r \in Requests : Open(r)' => Open(r)
  BY <1>1 DEF Open, Routing, RoutingStages
<1>3. \A e \in cache : Served(e)'
  BY <1>1, <1>2, WriteIsOfRequest DEF CacheInv, Served
<1>4. ASSUME NEW r \in Requests
      PROVE  RequestInv(r)'
  <2>1. QueuedWrites(r)' = {}
    BY <1>1 DEF QueuedWrites, Queued, Elements
  <2>2. Unanswered(r)' /\ Provenance(r)'
    BY <1>1, <1>2 DEF CacheInv, RequestInv, Unanswered, Provenance
  <2> QED BY <2>1, <2>2 DEF RequestInv
<1> QED BY <1>1, <1>3, <1>4 DEF CacheInv

LEMMA InitCache == Init => CacheInv
BY DEF Init, CacheInv, RequestInv, Unanswered, Provenance, QueuedWrites, Queued, Elements, NoReply

LEMMA CacheInvStep == RouterInv /\ CacheInv /\ [Next]_vars => CacheInv'
<1> SUFFICES ASSUME RouterInv, CacheInv, [Next]_vars PROVE CacheInv'
  OBVIOUS
<1>1. TypeOK /\ RoutingInStep
  BY TraceInStep DEF RouterInv
<1>2. ASSUME NEW r \in Requests, NEW b \in Bodies, Receive(r, b) PROVE CacheInv'
  BY <1>1, <1>2, ReceiveCache
<1>3. ASSUME NEW r \in Requests, Handler(r) PROVE CacheInv'
  BY <1>1, <1>3, CallStepCache, FailCache, RaisesCache, LookupHitCache, InferOkCache DEF Handler
<1>4. ASSUME NEW r \in Requests, Background(r) PROVE CacheInv'
  BY <1>1, <1>4, BackgroundCache
<1>5. CASE Crash
  BY <1>1, <1>5, CrashCache
<1>6. CASE UNCHANGED vars
  BY <1>6 DEF vars, CacheInv, RequestInv, Unanswered, Provenance, QueuedWrites, Queued, Elements,
     Served, Open, Routing
<1> QED BY <1>2, <1>3, <1>4, <1>5, <1>6 DEF Next

LEMMA CacheInvariant == Spec => []CacheInv
BY RouterInvariant, InitCache, CacheInvStep, PTL DEF Spec

\* Whatever requests run side by side, fall back or are lost, an entry of the
\* cache is what its request was answered with, filed under the model that
\* generated it and the task type of its prompt; and no served entry returns.
THEOREM CacheAlwaysHoldsServed == Spec => []CacheHoldsServedResponses
<1>1. CacheInv => CacheHoldsServedResponses
  BY DEF CacheInv, Served, CacheHoldsServedResponses
<1> QED BY <1>1, CacheInvariant, PTL

\* A reply with 200 is the text of the model it names, generated for this
\* request, or one the cache holds for the task type.
THEOREM RepliesAlwaysHaveProvenance == Spec => []RepliesHaveProvenance
<1>1. CacheInv => RepliesHaveProvenance
  BY DEF CacheInv, RequestInv, Provenance, RepliesHaveProvenance
<1> QED BY <1>1, CacheInvariant, PTL

(***************************************************************************)
(* The audit trail                                                         *)
(***************************************************************************)
\* Stated of the tasks t and the posts p of one request with FallbackState f
\* and IMF i; z is how its routing ended.  While it is routed all its events
\* wait, one for each level.
Begun(t, p, f, i) ==
    /\ p = <<>> /\ Len(t) = i.level
    /\ \A j \in 1..Len(t) : IsAudit(t[j]) /\ Abandoned(t[j], j, f)

Sent(p, f, i, z) == \A n \in 1..Len(p) : TellsAt(p[n].event, n, f, i, z)

\* What still waits after n posts: the rest of the trail, with or without
\* the cache write in front of its last event.
Rest(t, n, f, i, z) ==
    /\ n + Len(t) = i.level + 1
    /\ \A j \in 1..Len(t) : IsAudit(t[j]) /\ TellsAt(t[j], n + j, f, i, z)

RestWithWrite(t, n, f, i, z) ==
    /\ n <= i.level /\ n + Len(t) = i.level + 2
    /\ \A j \in 1..(i.level - n) : IsAudit(t[j]) /\ TellsAt(t[j], n + j, f, i, z)
    /\ t[i.level - n + 1].kind = "cache_write"
    /\ IsAudit(t[i.level - n + 2]) /\ TellsAt(t[i.level - n + 2], i.level + 1, f, i, z)

Ended(t, p, f, i, z) ==
    /\ Sent(p, f, i, z)
    /\ Rest(t, Len(p), f, i, z) \/ RestWithWrite(t, Len(p), f, i, z)

Underway == {"new"} \cup RoutingStages

TrailInv(st, t, p, f, i, answer, z) ==
    /\ st \in Underway => answer = NoReply
    /\ st = "new" => t = <<>> /\ p = <<>> /\ i.level = 0
    /\ st \in RoutingStages => Begun(t, p, f, i)
    /\ st = "replied" /\ Concluded(answer) => Ended(t, p, f, i, z)

TrailOf(r) ==
    TrailInv(stage[r], tasks[r], posted[r], fallback[r], imf[r], reply[r], Ending(r))
Trails == \A r \in Requests : TrailOf(r)

Post == [event : Event, result : {"stored", "refused", "lost"}]

LEMMA AppendTask ==
    ASSUME NEW t \in Seq(Task), NEW e
    PROVE  /\ Len(t) \in Nat /\ Len(t \o <<e>>) = Len(t) + 1
           /\ \A j \in 1..Len(t) : (t \o <<e>>)[j] = t[j]
           /\ (t \o <<e>>)[Len(t) + 1] = e
OBVIOUS

\* A failed attempt adds its event; the trail so far says the same.
LEMMA BegunNext ==
    ASSUME NEW t \in Seq(Task), NEW p, NEW f, NEW i, Begun(t, p, f, i), i.level \in Nat,
           NEW g, NEW k, g.chain = f.chain, k.level = i.level + 1,
           NEW e, IsAudit(e), Abandoned(e, k.level, g)
    PROVE  Begun(t \o <<e>>, p, g, k)
<1>1. /\ Len(t) = i.level /\ Len(t \o <<e>>) = Len(t) + 1
      /\ \A j \in 1..Len(t) : (t \o <<e>>)[j] = t[j]
      /\ (t \o <<e>>)[Len(t) + 1] = e
  BY AppendTask DEF Begun
<1>2. PICK u : u = t \o <<e>>
  OBVIOUS
<1>3. ASSUME NEW j \in 1..Len(u)
      PROVE  IsAudit(u[j]) /\ Abandoned(u[j], j, g)
  <2>1. CASE j = Len(t) + 1
    BY <1>1, <1>2, <2>1
  <2>2. CASE j # Len(t) + 1
    <3>1. j \in 1..Len(t) /\ u[j] = t[j]
      BY <1>1, <1>2, <2>2
    <3>2. IsAudit(t[j]) /\ Abandoned(t[j], j, f)
      BY <3>1 DEF Begun
    <3> QED BY <3>1, <3>2 DEF Abandoned
  <2> QED BY <2>1, <2>2
<1> QED BY <1>1, <1>2, <1>3 DEF Begun

\* The end adds the last event, with a cache write before it or without.
LEMMA EndedByAnswer ==
    ASSUME NEW t \in Seq(Task), NEW p, NEW f, NEW i, Begun(t, p, f, i), i.level \in Nat,
           NEW k, k.level = i.level,
           NEW z, NEW e, IsAudit(e), TellsAt(e, i.level + 1, f, k, z)
    PROVE  Ended(t \o <<e>>, p, f, k, z)
<1>1. /\ Len(t) = i.level /\ Len(t \o <<e>>) = Len(t) + 1
      /\ \A j \in 1..Len(t) : (t \o <<e>>)[j] = t[j]
      /\ (t \o <<e>>)[Len(t) + 1] = e
  BY AppendTask DEF Begun
<1>2. PICK u : u = t \o <<e>>
  OBVIOUS
<1>3. Len(p) = 0 /\ p = <<>>
  BY DEF Begun
<1>4. ASSUME NEW j \in 1..Len(u)
      PROVE  IsAudit(u[j]) /\ TellsAt(u[j], 0 + j, f, k, z)
  <2>1. CASE j = Len(t) + 1
    BY <1>1, <1>2, <2>1
  <2>2. CASE j # Len(t) + 1
    <3>1. j \in 1..Len(t) /\ u[j] = t[j] /\ j <= i.level /\ j <= k.level /\ 0 + j = j
      BY <1>1, <1>2, <2>2
    <3>2. IsAudit(t[j]) /\ Abandoned(t[j], j, f)
      BY <3>1 DEF Begun
    <3> QED BY <3>1, <3>2 DEF TellsAt
  <2> QED BY <2>1, <2>2
<1>5. Rest(u, 0, f, k, z)
  BY <1>1, <1>2, <1>4 DEF Rest
<1> QED BY <1>2, <1>3, <1>5 DEF Ended, Sent

LEMMA Concatenated ==
    ASSUME NEW s \in Seq(Task), NEW t \in Seq(Task)
    PROVE  /\ Len(s) \in Nat /\ Len(s \o t) = Len(s) + Len(t)
           /\ \A k \in 1..Len(s) : (s \o t)[k] = s[k]
           /\ \A k \in 1..Len(t) : (s \o t)[Len(s) + k] = t[k]
OBVIOUS

LEMMA AppendTwo ==
    ASSUME NEW t \in Seq(Task), NEW w \in Task, NEW e \in Task
    PROVE  /\ Len(t) \in Nat /\ Len(t \o (<<w>> \o <<e>>)) = Len(t) + 2
           /\ \A j \in 1..Len(t) : (t \o (<<w>> \o <<e>>))[j] = t[j]
           /\ (t \o (<<w>> \o <<e>>))[Len(t) + 1] = w
           /\ (t \o (<<w>> \o <<e>>))[Len(t) + 2] = e
<1>1. PICK d : d = <<w>> \o <<e>>
  OBVIOUS
<1>2. d \in Seq(Task) /\ Len(d) = 2 /\ d[1] = w /\ d[2] = e
  BY <1>1
<1>3. /\ Len(t) \in Nat /\ Len(t \o d) = Len(t) + Len(d)
      /\ \A j \in 1..Len(t) : (t \o d)[j] = t[j]
      /\ \A j \in 1..Len(d) : (t \o d)[Len(t) + j] = d[j]
  BY <1>2, Concatenated
<1>4. 1 \in 1..Len(d) /\ 2 \in 1..Len(d)
  BY <1>2
<1> QED BY <1>1, <1>2, <1>3, <1>4

LEMMA EndedByInference ==
    ASSUME NEW t \in Seq(Task), NEW p, NEW f, NEW i, Begun(t, p, f, i), i.level \in Nat,
           NEW k, k.level = i.level, NEW w \in Task, w.kind = "cache_write",
           NEW z, NEW e \in Task, IsAudit(e), TellsAt(e, i.level + 1, f, k, z)
    PROVE  Ended(t \o (<<w>> \o <<e>>), p, f, k, z)
<1>1. PICK u : u = t \o (<<w>> \o <<e>>)
  OBVIOUS
<1>2. /\ Len(t) = i.level /\ Len(u) = Len(t) + 2
      /\ \A j \in 1..Len(t) : u[j] = t[j]
      /\ u[Len(t) + 1] = w /\ u[Len(t) + 2] = e
  <2>1. Len(t) = i.level
    BY DEF Begun
  <2>2. /\ Len(t \o (<<w>> \o <<e>>)) = Len(t) + 2
        /\ \A j \in 1..Len(t) : (t \o (<<w>> \o <<e>>))[j] = t[j]
        /\ (t \o (<<w>> \o <<e>>))[Len(t) + 1] = w
        /\ (t \o (<<w>> \o <<e>>))[Len(t) + 2] = e
    BY AppendTwo
  <2> QED BY <1>1, <2>1, <2>2
<1>3. Len(p) = 0 /\ p = <<>>
  BY DEF Begun
<1>4. ASSUME NEW j \in 1..k.level
      PROVE  IsAudit(u[j]) /\ TellsAt(u[j], 0 + j, f, k, z)
  <2>1. j \in 1..Len(t) /\ u[j] = t[j] /\ j <= i.level /\ j <= k.level /\ 0 + j = j
    BY <1>2
  <2>2. IsAudit(t[j]) /\ Abandoned(t[j], j, f)
    BY <2>1 DEF Begun
  <2> QED BY <2>1, <2>2 DEF TellsAt
<1>5. /\ k.level - 0 = k.level /\ k.level - 0 + 1 = Len(t) + 1 /\ k.level - 0 + 2 = Len(t) + 2
      /\ 0 <= k.level /\ 0 + Len(u) = k.level + 2
  BY <1>2
<1>6. RestWithWrite(u, 0, f, k, z)
  BY <1>2, <1>4, <1>5 DEF RestWithWrite
<1> QED BY <1>1, <1>3, <1>6 DEF Ended, Sent

LEMMA TailFacts ==
    ASSUME NEW t \in Seq(Task), t # <<>>
    PROVE  /\ Len(t) \in Nat /\ Len(t) > 0 /\ Head(t) = t[1]
           /\ Len(Tail(t)) = Len(t) - 1
           /\ \A j \in 1..(Len(t) - 1) : Tail(t)[j] = t[j + 1]
OBVIOUS

\* A post takes the first event to the sent ones.
LEMMA EndedPost ==
    ASSUME NEW t \in Seq(Task), t # <<>>, NEW p \in Seq(Post), NEW f, NEW i, i.level \in Nat,
           NEW z, Ended(t, p, f, i, z), IsAudit(Head(t)), NEW x \in Post, x.event = Head(t)
    PROVE  Ended(Tail(t), Append(p, x), f, i, z)
<1>1. PICK u, q, n : u = Tail(t) /\ q = Append(p, x) /\ n = Len(p)
  OBVIOUS
<1>2. /\ Len(t) \in Nat /\ Len(t) > 0 /\ Head(t) = t[1]
      /\ Len(u) = Len(t) - 1
      /\ \A j \in 1..(Len(t) - 1) : u[j] = t[j + 1]
  BY <1>1, TailFacts
<1>3. /\ n \in Nat /\ Len(q) = n + 1 /\ q[n + 1] = x /\ \A j \in 1..n : q[j] = p[j]
  BY <1>1
<1>4. TellsAt(t[1], n + 1, f, i, z)
  <2>1. CASE Rest(t, n, f, i, z)
    <3>1. 1 \in 1..Len(t)
      BY <1>2
    <3> QED BY <2>1, <3>1 DEF Rest
  <2>2. CASE RestWithWrite(t, n, f, i, z)
    <3>1. i.level - n + 1 # 1
      BY <1>2, <2>2 DEF RestWithWrite, IsAudit
    <3>2. n <= i.level
      BY <2>2 DEF RestWithWrite
    <3>3. 1 \in 1..(i.level - n)
      BY <1>3, <3>1, <3>2
    <3> QED BY <2>2, <3>3 DEF RestWithWrite
  <2> QED BY <1>1, <2>1, <2>2 DEF Ended
<1>5. Sent(q, f, i, z)
  <2>1. ASSUME NEW j \in 1..Len(q)
        PROVE  TellsAt(q[j].event, j, f, i, z)
    <3>1. CASE j = n + 1
      BY <1>2, <1>3, <1>4, <3>1
    <3>2. CASE j # n + 1
      <4>1. j \in 1..n /\ q[j] = p[j]
        BY <1>3, <3>2
      <4> QED BY <1>1, <4>1 DEF Ended, Sent
    <3> QED BY <3>1, <3>2
  <2> QED BY <2>1 DEF Sent
<1>6. CASE Rest(t, n, f, i, z)
  <2>1. ASSUME NEW j \in 1..Len(u)
        PROVE  IsAudit(u[j]) /\ TellsAt(u[j], (n + 1) + j, f, i, z)
    <3>1. u[j] = t[j + 1] /\ j + 1 \in 1..Len(t) /\ n + (j + 1) = (n + 1) + j
      BY <1>2, <1>3
    <3>2. IsAudit(t[j + 1]) /\ TellsAt(t[j + 1], n + (j + 1), f, i, z)
      BY <1>6, <3>1 DEF Rest
    <3> QED BY <3>1, <3>2
  <2>2. (n + 1) + Len(u) = i.level + 1
    BY <1>2, <1>3, <1>6 DEF Rest
  <2>3. Rest(u, Len(q), f, i, z)
    BY <1>3, <2>1, <2>2 DEF Rest
  <2> QED BY <1>1, <1>5, <2>3 DEF Ended
<1>7. CASE RestWithWrite(t, n, f, i, z)
  <2>1. n <= i.level /\ n + Len(t) = i.level + 2 /\ n # i.level
    <3>1. n <= i.level /\ n + Len(t) = i.level + 2 /\ t[i.level - n + 1].kind = "cache_write"
      BY <1>7 DEF RestWithWrite
    <3>2. t[1].kind = "audit"
      BY <1>2 DEF IsAudit
    <3>3. n = i.level => i.level - n + 1 = 1
      BY <1>3
    <3>4. n # i.level
      BY <3>1, <3>2, <3>3
    <3> QED BY <3>1, <3>4
  <2>2. ASSUME NEW j \in 1..(i.level - (n + 1))
        PROVE  IsAudit(u[j]) /\ TellsAt(u[j], (n + 1) + j, f, i, z)
    <3>1. PICK l \in Nat : l = i.level
      OBVIOUS
    <3>2. j \in 1..(l - (n + 1)) /\ n + Len(t) = l + 2
      BY <2>1, <3>1
    <3>3. j + 1 \in 1..(l - n) /\ n + (j + 1) = (n + 1) + j /\ j \in 1..(Len(t) - 1)
      BY <1>2, <1>3, <3>2
    <3>4. u[j] = t[j + 1]
      BY <1>2, <3>3
    <3>5. IsAudit(t[j + 1]) /\ TellsAt(t[j + 1], n + (j + 1), f, i, z)
      BY <1>7, <3>1, <3>3 DEF RestWithWrite
    <3> QED BY <3>3, <3>4, <3>5
  <2>3. /\ u[i.level - (n + 1) + 1] = t[i.level - n + 1]
        /\ u[i.level - (n + 1) + 2] = t[i.level - n + 2]
        /\ n + 1 <= i.level /\ (n + 1) + Len(u) = i.level + 2
    <3>1. PICK a \in Nat : a = i.level - n
      BY <1>3, <2>1
    <3>2. /\ i.level - (n + 1) + 1 = a /\ i.level - (n + 1) + 2 = a + 1
          /\ a \in 1..(Len(t) - 1) /\ a + 1 \in 1..(Len(t) - 1)
      <4>1. PICK m \in Nat : m = Len(t)
        BY <1>2
      <4>2. PICK l \in Nat : l = i.level
        OBVIOUS
      <4>3. n \in Nat /\ n <= l /\ n + m = l + 2 /\ n # l /\ a = l - n
        BY <1>3, <2>1, <3>1, <4>1, <4>2
      <4>4. l - (n + 1) + 1 = a /\ l - (n + 1) + 2 = a + 1 /\ a >= 1 /\ m = a + 2
        BY <4>3
      <4> QED BY <4>1, <4>2, <4>4
    <3>3. u[a] = t[a + 1] /\ u[a + 1] = t[a + 2]
      BY <1>2, <3>2
    <3>4. n + 1 <= i.level /\ (n + 1) + Len(u) = i.level + 2
      BY <1>2, <1>3, <2>1
    <3> QED BY <3>1, <3>2, <3>3, <3>4
  <2>4. RestWithWrite(u, Len(q), f, i, z)
    BY <1>3, <1>7, <2>2, <2>3 DEF RestWithWrite
  <2> QED BY <1>1, <1>5, <2>4 DEF Ended
<1> QED BY <1>1, <1>6, <1>7 DEF Ended

\* The cache write goes, and the last event is left.
LEMMA EndedWrite ==
    ASSUME NEW t \in Seq(Task), t # <<>>, NEW p \in Seq(Post), NEW f, NEW i, i.level \in Nat,
           NEW z, Ended(t, p, f, i, z), Head(t).kind = "cache_write"
    PROVE  Ended(Tail(t), p, f, i, z)
<1>1. PICK u, n : u = Tail(t) /\ n = Len(p)
  OBVIOUS
<1>2. /\ Len(t) \in Nat /\ Len(t) > 0 /\ Head(t) = t[1]
      /\ Len(u) = Len(t) - 1
      /\ \A j \in 1..(Len(t) - 1) : u[j] = t[j + 1]
  BY <1>1, TailFacts
<1>3. n \in Nat
  BY <1>1
<1>4. RestWithWrite(t, n, f, i, z)
  <2>1. 1 \in 1..Len(t) /\ ~IsAudit(t[1])
    BY <1>2 DEF IsAudit
  <2>2. ~Rest(t, n, f, i, z)
    BY <2>1 DEF Rest
  <2>3. Rest(t, n, f, i, z) \/ RestWithWrite(t, n, f, i, z)
    BY <1>1 DEF Ended
  <2> QED BY <2>2, <2>3
<1>5. n = i.level
  <2>1. CASE n # i.level
    <3>1. 1 \in 1..(i.level - n)
      BY <1>3, <1>4, <2>1 DEF RestWithWrite
    <3>2. IsAudit(t[1])
      BY <1>4, <3>1 DEF RestWithWrite
    <3> QED BY <1>2, <3>2 DEF IsAudit
  <2> QED BY <2>1
<1>6. Len(t) = 2 /\ i.level - n + 2 = 2
  <2>1. n + Len(t) = n + 2 /\ i.level = n
    BY <1>4, <1>5 DEF RestWithWrite
  <2>2. PICK m \in Nat : m = Len(t)
    BY <1>2
  <2>3. m = 2 /\ n - n + 2 = 2
    <3>1. n + m = n + 2
      BY <2>1, <2>2
    <3> QED BY <1>3, <3>1
  <2> QED BY <2>1, <2>2, <2>3
<1>7. IsAudit(t[2]) /\ TellsAt(t[2], i.level + 1, f, i, z)
  BY <1>4, <1>6 DEF RestWithWrite
<1>8. Len(u) = 1 /\ u[1] = t[2]
  BY <1>2, <1>6
<1>9. Rest(u, n, f, i, z)
  BY <1>5, <1>7, <1>8 DEF Rest
<1> QED BY <1>1, <1>9 DEF Ended

\* Whatever r does, the trails of the others stay.
TrailsKept(r) ==
    \A q \in Requests \ {r} :
        /\ stage'[q] = stage[q] /\ tasks'[q] = tasks[q] /\ posted'[q] = posted[q]
        /\ fallback'[q] = fallback[q] /\ imf'[q] = imf[q] /\ reply'[q] = reply[q]
        /\ calls'[q] = calls[q]

LEMMA TrailStep ==
    ASSUME Trails, NEW r \in Requests, TrailsKept(r),
           TrailInv(stage'[r], tasks'[r], posted'[r], fallback'[r], imf'[r], reply'[r],
                    Ending(r)')
    PROVE  Trails'
BY DEF Trails, TrailOf, TrailsKept, Ending

LEMMA ReceiveTrail ==
    ASSUME TypeOK, Trails, CacheInv, NEW r \in Requests, NEW b \in Bodies, Receive(r, b)
    PROVE  Trails'
<1>1. /\ stage[r] = "new" /\ tasks[r] = <<>> /\ posted[r] = <<>> /\ reply[r] = NoReply
      /\ UNCHANGED <<tasks, posted>>
  BY DEF Receive, Refused, StartRouting, Trails, TrailOf, TrailInv, Underway
<1>2. ASSUME NEW status \in {400, 422, 503}, NEW error, error # "all_backends_exhausted",
             NEW i, Refused(r, b, status, error, i)
      PROVE  Trails'
  <2>1. /\ stage'[r] = "replied" /\ reply'[r] = [status |-> status, error |-> error]
        /\ TrailsKept(r)
    BY <1>2 DEF Refused, Respond, TrailsKept, TypeOK
  <2>2. ~Concluded(reply'[r])
    BY <1>2, <2>1 DEF Concluded
  <2> QED BY <2>1, <2>2, TrailStep DEF TrailInv, RoutingStages, Underway
<1>3. ASSUME NEW task, StartRouting(r, b, task)
      PROVE  Trails'
  <2>1. \E i, f, model :
           /\ fallback' = [fallback EXCEPT ![r] = f]
           /\ imf' = [imf EXCEPT ![r] = i] /\ i.level = 0
           /\ Call(r, "health", model)
           /\ UNCHANGED <<tasks, reply, posted>>
    <3>1. PICK chain : /\ fallback' = [fallback EXCEPT ![r] = [chain |-> chain, index |-> 0, level |-> 0]]
                       /\ imf' = [imf EXCEPT ![r] = [task |-> task, mode |-> b.mode, selected |-> chain[1],
                                                     level |-> 0, hit |-> FALSE, content |-> NoContent]]
                       /\ Call(r, "health", chain[1])
                       /\ UNCHANGED <<tasks, reply, posted>>
      BY <1>3 DEF StartRouting
    <3>2. PICK i : i = [task |-> task, mode |-> b.mode, selected |-> chain[1],
                        level |-> 0, hit |-> FALSE, content |-> NoContent]
      OBVIOUS
    <3>3. i.level = 0
      BY <3>2
    <3> QED BY <3>1, <3>2, <3>3
  <2>2. /\ TrailsKept(r) /\ stage'[r] = "health" /\ imf'[r].level = 0
        /\ reply'[r] = NoReply
    BY <1>1, <2>1 DEF Call, TrailsKept, TypeOK
  <2>3. tasks'[r] = <<>> /\ posted'[r] = <<>> /\ Len(tasks'[r]) = 0
    BY <1>1
  <2>4. Begun(tasks'[r], posted'[r], fallback'[r], imf'[r])
    BY <2>2, <2>3 DEF Begun
  <2> QED BY <2>2, <2>4, TrailStep DEF TrailInv
<1> QED BY <1>2, <1>3 DEF Receive

LEMMA CallStepTrail ==
    ASSUME TypeOK, Trails, NEW r \in Requests, HealthOk(r) \/ LookupMiss(r)
    PROVE  Trails'
<1>1. /\ Begun(tasks[r], posted[r], fallback[r], imf[r])
      /\ reply[r] = NoReply /\ UNCHANGED <<tasks, posted, fallback, reply>>
  BY DEF HealthOk, LookupMiss, RoutingStages, Trails, TrailOf, TrailInv, Underway
<1>2. /\ stage'[r] \in RoutingStages /\ imf'[r].level = imf[r].level
      /\ TrailsKept(r)
  <2>1. CASE HealthOk(r)
    BY <2>1 DEF HealthOk, Call, TrailsKept, TypeOK, RoutingStages
  <2>2. CASE LookupMiss(r)
    <3>1. /\ imf' = [imf EXCEPT ![r] = [imf[r] EXCEPT !.hit = FALSE]]
          /\ imf[r] \in Imf /\ imf \in [Requests -> Imf]
      BY <2>2 DEF LookupMiss, TypeOK
    <3>2. [imf[r] EXCEPT !.hit = FALSE].level = imf[r].level
      BY <3>1 DEF Imf
    <3>3. imf'[r].level = imf[r].level
      BY <3>1, <3>2
    <3>4. TrailsKept(r) /\ stage'[r] \in RoutingStages
      BY <2>2, <3>1 DEF LookupMiss, Call, TrailsKept, TypeOK, RoutingStages
    <3> QED BY <3>3, <3>4
  <2> QED BY <2>1, <2>2
<1>3. Begun(tasks'[r], posted'[r], fallback'[r], imf'[r])
  <2>1. /\ tasks'[r] = tasks[r] /\ posted'[r] = posted[r] /\ fallback'[r] = fallback[r]
    BY <1>1
  <2>2. PICK t, p, f, i, k : /\ t = tasks[r] /\ p = posted[r] /\ f = fallback[r]
                             /\ i = imf[r] /\ k = imf'[r]
    OBVIOUS
  <2>3. Begun(t, p, f, i) /\ k.level = i.level
    BY <1>1, <1>2, <2>2
  <2>4. p = <<>> /\ Len(t) = k.level /\ Len(t) = i.level
    BY <2>3 DEF Begun
  <2>5. Begun(t, p, f, k)
    BY <2>3, <2>4 DEF Begun
  <2> QED BY <2>1, <2>2, <2>5
<1> QED BY <1>1, <1>2, <1>3, TrailStep DEF TrailInv, RoutingStages, Underway

\* The event of a failed attempt says which model was left and for which level.
LEMMA FallbackTells ==
    ASSUME NEW i \in Imf, NEW f \in FallbackState, InStepOf(f, i), HasNext(f),
           NEW k, k.level = Advance(f).level
    PROVE  /\ k.level = i.level + 1 /\ Advance(f).chain = f.chain
           /\ IsAudit(FallbackAudit(i, Advance(f)))
           /\ Abandoned(FallbackAudit(i, Advance(f)), k.level, Advance(f))
<1>1. PICK g : g = Advance(f)
  OBVIOUS
<1>2. /\ g.chain = f.chain /\ g.index = f.index + 1 /\ g.level = f.level + 1
      /\ f.index \in Nat /\ f.level = f.index /\ i.level = f.index
  BY <1>1, AdvanceFacts DEF FallbackState, InStepOf
<1>3. g.index > 0 /\ g.level = g.index /\ k.level = g.index /\ k.level = i.level + 1
  BY <1>1, <1>2
<1>4. FallbackAudit(i, g) = [kind |-> "audit", type |-> "inference_start", outcome |-> "fallback",
                             model |-> g.chain[g.index], level |-> g.level]
  BY <1>3 DEF FallbackAudit
<1>5. PICK e : e = FallbackAudit(i, g)
  OBVIOUS
<1>6. e.kind = "audit" /\ e.outcome = "fallback" /\ e.model = g.chain[k.level] /\ e.level = k.level
  <2>1. PICK m : m = g.chain[g.index]
    OBVIOUS
  <2>2. e = [kind |-> "audit", type |-> "inference_start", outcome |-> "fallback",
             model |-> m, level |-> g.level]
    BY <1>4, <1>5, <2>1
  <2>3. e.kind = "audit" /\ e.outcome = "fallback" /\ e.model = m /\ e.level = g.level
    BY <2>2
  <2> QED BY <1>3, <2>1, <2>3
<1>7. IsAudit(e) /\ Abandoned(e, k.level, g)
  BY <1>6 DEF Abandoned, IsAudit
<1> QED BY <1>1, <1>2, <1>3, <1>5, <1>7

\* The last model failed: its event says at which call.
LEMMA LastFailureTells ==
    ASSUME NEW st, NEW i \in Imf, NEW f \in FallbackState, InStepOf(f, i), NEW k, k.level = i.level,
           NEW z, z.status = 503, z.call = <<st, i.selected>>, NEW e,
           \/ st = "health" /\ e = RoutingAudit(i, "error")
           \/ st = "infer" /\ e = FallbackAudit(i, f)
    PROVE  IsAudit(e) /\ TellsAt(e, i.level + 1, f, k, z)
<1>1. PICK n \in Nat : n = i.level
  BY DEF Imf
<1>2. f.index = n /\ f.level = n /\ i.selected = f.chain[n + 1] /\ ~(n + 1 <= k.level)
  BY <1>1 DEF InStepOf, SelectedModel
<1>3. CASE st = "health"
  <2>1. e.kind = "audit" /\ e.outcome = "error" /\ e.model = i.selected
    BY <1>3 DEF RoutingAudit
  <2>2. z.call = <<"health", f.chain[n + 1]>>
    BY <1>2, <1>3
  <2> QED BY <1>1, <1>2, <2>1, <2>2 DEF IsAudit, TellsAt, Concludes
<1>4. CASE st = "infer"
  <2>1. e.kind = "audit" /\ e.outcome = "fallback" /\ e.level = f.level
    BY <1>4 DEF FallbackAudit
  <2>2. z.call = <<"infer", f.chain[n + 1]>> /\ z.call # <<"health", f.chain[n + 1]>>
    BY <1>2, <1>4
  <2> QED BY <1>1, <1>2, <2>1, <2>2 DEF IsAudit, TellsAt, Concludes
<1> QED BY <1>3, <1>4

LEMMA ExhaustedTrail ==
    ASSUME RouterInv, Trails, NEW r \in Requests, HealthFail(r) \/ InferFail(r),
           imf[r] \in Imf, fallback[r] \in FallbackState, InStepOf(fallback[r], imf[r]),
           Begun(tasks[r], posted[r], fallback[r], imf[r]), ~HasNext(fallback[r])
    PROVE  Trails'
<1>1. TypeOK /\ stage[r] \in {"health", "infer"} /\ Advance(fallback[r]) = fallback[r]
  BY DEF RouterInv, HealthFail, InferFail, Advance
<1>2. \E m, e : /\ AddTasks(r, <<e>>) /\ Exhausted(r, fallback[r], m)
                /\ \/ stage[r] = "health" /\ e = RoutingAudit(imf[r], "error")
                   \/ stage[r] = "infer" /\ e = FallbackAudit(imf[r], fallback[r])
  BY <1>1 DEF HealthFail, InferFail
<1>3. PICK m, e : /\ AddTasks(r, <<e>>) /\ Exhausted(r, fallback[r], m)
                  /\ \/ stage[r] = "health" /\ e = RoutingAudit(imf[r], "error")
                     \/ stage[r] = "infer" /\ e = FallbackAudit(imf[r], fallback[r])
  BY <1>2
<1>4. posted' = posted /\ fallback' = fallback
  BY <1>1 DEF HealthFail, InferFail, TypeOK
<1>5. PICK k : k = AtLevel(imf[r], fallback[r].level, imf[r].selected)
  OBVIOUS
<1>6. k.level = imf[r].level /\ imf[r].level \in Nat
  <2>1. fallback[r].level \in Nat /\ imf[r].selected \in Names /\ imf[r].level \in Nat
    BY <1>1, SelectedIsName DEF FallbackState, InStep, Imf
  <2>2. k.level = fallback[r].level
    BY <1>5, <2>1, AtLevelFacts
  <2> QED BY <2>1, <2>2 DEF InStepOf
<1>7. /\ stage' = [stage EXCEPT ![r] = "replied"] /\ imf' = [imf EXCEPT ![r] = k]
      /\ tasks' = [tasks EXCEPT ![r] = tasks[r] \o <<e>>]
      /\ reply' = [reply EXCEPT ![r] = [status |-> 503, error |-> "all_backends_exhausted"]]
      /\ calls' = calls
  BY <1>3, <1>5 DEF Exhausted, Respond, AddTasks
<1>8. /\ stage'[r] = "replied" /\ imf'[r] = k /\ tasks'[r] = tasks[r] \o <<e>>
      /\ fallback'[r] = fallback[r] /\ posted'[r] = posted[r] /\ TrailsKept(r)
  BY <1>1, <1>4, <1>7 DEF TrailsKept, TypeOK
<1>9. PICK z : z = [status |-> 503, call |-> calls[r][Len(calls[r])]]
  OBVIOUS
<1>10. Ending(r)' = z
  <2>1. reply'[r] = [status |-> 503, error |-> "all_backends_exhausted"]
    BY <1>1, <1>7 DEF TypeOK
  <2> QED BY <1>7, <1>9, <2>1 DEF Ending
<1>11. z.status = 503 /\ z.call = <<stage[r], imf[r].selected>>
  <2>1. AwaitsLast(stage[r], calls[r], imf[r])
    BY DEF RouterInv, CallsTrace, TraceOf, Trace
  <2> QED BY <1>1, <1>9, <2>1 DEF AwaitsLast, RoutingStages
<1>12. IsAudit(e) /\ TellsAt(e, imf[r].level + 1, fallback[r], k, z)
  BY <1>3, <1>6, <1>11, LastFailureTells
<1>13. tasks[r] \in Seq(Task)
  BY <1>1 DEF TypeOK
<1>14. Ended(tasks[r] \o <<e>>, posted[r], fallback[r], k, z)
  BY <1>6, <1>12, <1>13, EndedByAnswer
<1> QED BY <1>8, <1>10, <1>14, TrailStep DEF TrailInv, RoutingStages, Underway

LEMMA FailTrail ==
    ASSUME RouterInv, RoutingInStep, Trails, NEW r \in Requests, HealthFail(r) \/ InferFail(r)
    PROVE  Trails'
<1>0. TypeOK
  BY DEF RouterInv
<1>1. /\ Routing(r) /\ posted' = posted
      /\ fallback' = [fallback EXCEPT ![r] = Advance(fallback[r])]
  BY DEF HealthFail, InferFail, Routing, RoutingStages
<1>2. imf[r] \in Imf /\ fallback[r] \in FallbackState /\ InStepOf(fallback[r], imf[r])
  BY <1>0, <1>1, SelectedIsName DEF RoutingInStep, InStep
<1>3. Begun(tasks[r], posted[r], fallback[r], imf[r]) /\ reply[r] = NoReply
  BY <1>1 DEF Trails, TrailOf, TrailInv, Routing, Underway
<1>4. CASE HasNext(fallback[r])
  <2>1. /\ AddTasks(r, <<FallbackAudit(imf[r], Advance(fallback[r]))>>)
        /\ TryNext(r, Advance(fallback[r]))
    BY <1>4 DEF HealthFail, InferFail
  <2>2. PICK k : k = AtLevel(imf[r], Advance(fallback[r]).level, SelectedModel(Advance(fallback[r])))
    OBVIOUS
  <2>3. k.level = Advance(fallback[r]).level
    <3>1. /\ Advance(fallback[r]).level \in Nat
          /\ SelectedModel(Advance(fallback[r])) \in Names
      BY <1>2, <1>4, AdvanceFacts DEF FallbackState
    <3> QED BY <1>2, <2>2, <3>1, AtLevelFacts
  <2>4. PICK g, e : g = Advance(fallback[r]) /\ e = FallbackAudit(imf[r], g)
    OBVIOUS
  <2>5. /\ k.level = imf[r].level + 1 /\ g.chain = fallback[r].chain
        /\ IsAudit(e) /\ Abandoned(e, k.level, g)
    BY <1>2, <1>4, <2>3, <2>4, FallbackTells
  <2>6. /\ stage' = [stage EXCEPT ![r] = "health"] /\ imf' = [imf EXCEPT ![r] = k]
        /\ tasks' = [tasks EXCEPT ![r] = tasks[r] \o <<e>>]
        /\ fallback' = [fallback EXCEPT ![r] = g] /\ UNCHANGED <<posted, reply>>
        /\ \E d : calls' = [calls EXCEPT ![r] = d]
    BY <1>1, <2>1, <2>2, <2>4 DEF TryNext, Call, AddTasks
  <2>7. /\ stage'[r] = "health" /\ imf'[r] = k /\ tasks'[r] = tasks[r] \o <<e>>
        /\ fallback'[r] = g /\ posted'[r] = posted[r] /\ TrailsKept(r)
    BY <1>0, <2>6 DEF TrailsKept, TypeOK
  <2>8. tasks[r] \in Seq(Task) /\ imf[r].level \in Nat
    BY <1>0, <1>2 DEF TypeOK, Imf
  <2>9. Begun(tasks[r] \o <<e>>, posted[r], g, k)
    BY <1>3, <2>5, <2>8, BegunNext
  <2>10. reply'[r] = NoReply
    BY <1>3, <2>6
  <2> QED BY <2>7, <2>9, <2>10, TrailStep DEF TrailInv
<1>5. CASE ~HasNext(fallback[r])
  BY <1>2, <1>3, <1>5, ExhaustedTrail
<1> QED BY <1>4, <1>5

LEMMA RaisesTrail ==
    ASSUME TypeOK, Trails, NEW r \in Requests, Raises(r)
    PROVE  Trails'
<1>1. /\ stage'[r] = "replied" /\ TrailsKept(r)
      /\ reply'[r] = [status |-> 500, error |-> "internal_error"]
  BY DEF Raises, Respond, TrailsKept, TypeOK
<1>2. ~Concluded(reply'[r])
  BY <1>1 DEF Concluded
<1> QED BY <1>1, <1>2, TrailStep DEF TrailInv, RoutingStages, Underway

LEMMA LookupHitTrail ==
    ASSUME TypeOK, Trails, NEW r \in Requests, NEW c \in cache, LookupHit(r, c)
    PROVE  Trails'
<1>0. PICK z : z = [status |-> 200, call |-> calls[r][Len(calls[r])]]
  OBVIOUS
<1>1. Begun(tasks[r], posted[r], fallback[r], imf[r]) /\ UNCHANGED <<posted, fallback>>
  BY DEF LookupHit, RoutingStages, Trails, TrailOf, TrailInv
<1>2. imf[r] \in Imf /\ c.content \in Content /\ tasks[r] \in Seq(Task) /\ imf[r].level \in Nat
  BY DEF TypeOK, CacheEntry, Imf
<1>3. PICK k : k = Answered(imf[r], TRUE, c.content)
  OBVIOUS
<1>4. k.hit = TRUE /\ k.level = imf[r].level /\ k.selected = imf[r].selected
  <2>1. PICK j \in Imf : j = imf[r]
    BY <1>2
  <2>2. PICK x \in Content : x = c.content
    BY <1>2
  <2>3. PICK y \in BOOLEAN : y = TRUE
    OBVIOUS
  <2>4. k = Answered(j, y, x)
    BY <1>3, <2>1, <2>2, <2>3
  <2>5. k.hit = y /\ k.level = j.level /\ k.selected = j.selected
    BY <2>4, AnsweredFacts
  <2> QED BY <2>1, <2>3, <2>5
<1>5. PICK e : e = CacheHitAudit(k)
  OBVIOUS
<1>6. IsAudit(e) /\ TellsAt(e, imf[r].level + 1, fallback[r], k, z)
  <2>1. ~(imf[r].level + 1 <= k.level)
    BY <1>2, <1>4
  <2> QED BY <1>0, <1>4, <1>5, <2>1 DEF CacheHitAudit, IsAudit, TellsAt, Concludes
<1>7. PICK m : /\ imf' = [imf EXCEPT ![r] = k] /\ AddTasks(r, <<e>>)
               /\ Respond(r, body[r], 200, "none", k, m)
  BY <1>3, <1>5 DEF LookupHit
<1>8. /\ stage'[r] = "replied" /\ imf'[r] = k /\ tasks'[r] = tasks[r] \o <<e>>
      /\ fallback'[r] = fallback[r] /\ posted'[r] = posted[r] /\ TrailsKept(r)
  BY <1>1, <1>7 DEF Respond, AddTasks, TrailsKept, TypeOK
<1>9. Ended(tasks[r] \o <<e>>, posted[r], fallback[r], k, z)
  BY <1>1, <1>2, <1>4, <1>6, EndedByAnswer
<1>10. Ending(r)' = z
  BY <1>0, <1>7 DEF Respond, Ending, TypeOK
<1> QED BY <1>8, <1>9, <1>10, TrailStep DEF TrailInv, RoutingStages, Underway

LEMMA InferOkTrail ==
    ASSUME TypeOK, RoutingInStep, CacheInv, Trails, NEW r \in Requests, InferOk(r)
    PROVE  Trails'
<1>0. PICK z : z = [status |-> 200, call |-> calls[r][Len(calls[r])]]
  OBVIOUS
<1>1. /\ Begun(tasks[r], posted[r], fallback[r], imf[r]) /\ UNCHANGED <<posted, fallback>>
      /\ InStep(r) /\ ~imf[r].hit
  BY DEF InferOk, RoutingStages, Routing, RoutingInStep, Trails, TrailOf, TrailInv,
         CacheInv, RequestInv, Unanswered
<1>2. imf[r] \in Imf /\ tasks[r] \in Seq(Task) /\ imf[r].level \in Nat
  BY DEF TypeOK, Imf
<1>3. PICK k, w, e : k = InferAnswer(r) /\ w = CacheWriteTask(k) /\ e = RoutingAudit(k, "pass")
  OBVIOUS
<1>4. /\ k.hit = imf[r].hit /\ k.selected = imf[r].selected
      /\ w \in Task /\ e \in Task /\ w.kind = "cache_write"
  <2>1. k.hit = imf[r].hit /\ k.selected = imf[r].selected /\ w \in CacheEntry /\ e \in Task
    BY <1>1, <1>3, InferOkFacts
  <2> QED BY <1>3, <2>1 DEF CacheWriteTask, Task
<1>5. k.level = imf[r].level
  <2>1. imf[r].selected \in Names /\ imf[r].hit \in BOOLEAN
    BY <1>1, <1>2, SelectedIsName DEF Imf
  <2>2. [by |-> imf[r].selected, for |-> r] \in Content
    BY <2>1 DEF Content
  <2> QED BY <1>2, <1>3, <2>1, <2>2, AnsweredFacts DEF InferAnswer
<1>6. IsAudit(e) /\ TellsAt(e, imf[r].level + 1, fallback[r], k, z)
  <2>1. ~(imf[r].level + 1 <= k.level)
    BY <1>2, <1>5
  <2> QED BY <1>0, <1>1, <1>3, <1>4, <2>1 DEF RoutingAudit, IsAudit, TellsAt, Concludes
<1>7. imf' = [imf EXCEPT ![r] = k] /\ AddTasks(r, <<w>> \o <<e>>)
      /\ Respond(r, body[r], 200, "none", k, metrics)
  BY <1>1, <1>3, <1>4 DEF InferOk, InferAnswer
<1>8. /\ stage'[r] = "replied" /\ imf'[r] = k /\ tasks'[r] = tasks[r] \o (<<w>> \o <<e>>)
      /\ fallback'[r] = fallback[r] /\ posted'[r] = posted[r] /\ TrailsKept(r)
  BY <1>1, <1>7 DEF Respond, AddTasks, TrailsKept, TypeOK
<1>9. Ended(tasks[r] \o (<<w>> \o <<e>>), posted[r], fallback[r], k, z)
  BY <1>1, <1>2, <1>4, <1>5, <1>6, EndedByInference
<1>10. Ending(r)' = z
  BY <1>0, <1>7 DEF Respond, Ending, TypeOK
<1> QED BY <1>8, <1>9, <1>10, TrailStep DEF TrailInv, RoutingStages, Underway

LEMMA BackgroundTrail ==
    ASSUME TypeOK, Trails, NEW r \in Requests, Background(r)
    PROVE  Trails'
<1>1. PICK t, p, f, i, z : /\ t = tasks[r] /\ p = posted[r] /\ f = fallback[r]
                          /\ i = imf[r] /\ z = Ending(r)
  OBVIOUS
<1>2. /\ stage[r] = "replied" /\ t # <<>> /\ tasks' = [tasks EXCEPT ![r] = Tail(t)]
      /\ UNCHANGED <<stage, fallback, imf, reply, calls>>
  BY <1>1 DEF Background, PostAudit, WriteCache, NextTask
<1>3. /\ t \in Seq(Task) /\ p \in Seq(Post) /\ i.level \in Nat /\ tasks'[r] = Tail(t)
      /\ Ending(r)' = z
  BY <1>1, <1>2 DEF TypeOK, Imf, Post, Ending
<1>4. Concluded(reply[r]) => Ended(t, p, f, i, z)
  BY <1>1, <1>2 DEF Trails, TrailOf, TrailInv
<1>5. CASE PostAudit(r)
  <2>1. IsAudit(Head(t)) /\ \E result \in {"stored", "refused", "lost"} : Posted(r, Head(t), result)
    BY <1>1, <1>5 DEF PostAudit, IsAudit
  <2>2. PICK result \in {"stored", "refused", "lost"} : Posted(r, Head(t), result)
    BY <2>1
  <2>3. PICK x : x = [event |-> Head(t), result |-> result]
    OBVIOUS
  <2>4. posted' = [posted EXCEPT ![r] = Append(p, x)] /\ x.event = Head(t)
    BY <1>1, <2>2, <2>3 DEF Posted
  <2>5. x \in Post
    <3>1. Head(t) \in Task
      BY <1>2, <1>3
    <3>2. Head(t) \in Event
      BY <2>1, <3>1 DEF Task, CacheEntry, IsAudit
    <3> QED BY <2>3, <3>2 DEF Post
  <2>6. posted'[r] = Append(p, x) /\ TrailsKept(r)
    BY <1>2, <2>4 DEF TypeOK, TrailsKept
  <2>7. Concluded(reply[r]) => Ended(Tail(t), Append(p, x), f, i, z)
    BY <1>2, <1>3, <1>4, <2>1, <2>4, <2>5, EndedPost
  <2> QED BY <1>1, <1>2, <1>3, <2>6, <2>7, TrailStep DEF TrailInv, RoutingStages, Underway
<1>6. CASE WriteCache(r)
  <2>1. Head(t).kind = "cache_write" /\ posted' = posted
    BY <1>1, <1>6 DEF WriteCache
  <2>2. posted'[r] = p /\ TrailsKept(r)
    BY <1>1, <1>2, <2>1 DEF TypeOK, TrailsKept
  <2>3. Concluded(reply[r]) => Ended(Tail(t), p, f, i, z)
    BY <1>2, <1>3, <1>4, <2>1, EndedWrite
  <2> QED BY <1>1, <1>2, <1>3, <2>2, <2>3, TrailStep DEF TrailInv, RoutingStages, Underway
<1> QED BY <1>5, <1>6 DEF Background

LEMMA CrashTrail ==
    ASSUME TypeOK, Trails, Crash
    PROVE  Trails'
<1>1. ASSUME NEW r \in Requests
      PROVE  TrailOf(r)'
  <2>1. /\ UNCHANGED <<posted, fallback, imf, reply, calls>>
        /\ stage'[r] = (IF Pending(r) THEN "lost" ELSE stage[r]) /\ tasks'[r] = <<>>
    BY DEF Crash
  <2>2. CASE Pending(r)
    BY <2>1, <2>2 DEF TrailOf, TrailInv, RoutingStages, Underway
  <2>3. CASE ~Pending(r)
    <3>1. tasks[r] = <<>> /\ stage'[r] = stage[r] /\ tasks'[r] = tasks[r]
      BY <2>1, <2>3 DEF Pending
    <3> QED BY <2>1, <3>1 DEF Trails, TrailOf, Ending
  <2> QED BY <2>2, <2>3
<1> QED BY <1>1 DEF Trails

LEMMA InitTrail == Init => Trails
BY DEF Init, Trails, TrailOf, TrailInv, RoutingStages, EmptyImf, Underway

LEMMA TrailsStep == RouterInv /\ CacheInv /\ Trails /\ [Next]_vars => Trails'
<1> SUFFICES ASSUME RouterInv, CacheInv, Trails, [Next]_vars PROVE Trails'
  OBVIOUS
<1>1. TypeOK /\ RoutingInStep
  BY TraceInStep DEF RouterInv
<1>2. ASSUME NEW r \in Requests, NEW b \in Bodies, Receive(r, b) PROVE Trails'
  BY <1>1, <1>2, ReceiveTrail
<1>3. ASSUME NEW r \in Requests, Handler(r) PROVE Trails'
  BY <1>1, <1>3, CallStepTrail, FailTrail, RaisesTrail, LookupHitTrail, InferOkTrail DEF Handler
<1>4. ASSUME NEW r \in Requests, Background(r) PROVE Trails'
  BY <1>1, <1>4, BackgroundTrail
<1>5. CASE Crash
  BY <1>1, <1>5, CrashTrail
<1>6. CASE UNCHANGED vars
  BY <1>6 DEF vars, Trails, TrailOf, Ending
<1> QED BY <1>2, <1>3, <1>4, <1>5, <1>6 DEF Next

LEMMA TrailsInvariant == Spec => []Trails
BY RouterInvariant, CacheInvariant, InitTrail, TrailsStep, PTL DEF Spec

\* What is left of a trail is counted by its positions.
LEMMA Counted ==
    ASSUME NEW j \in Nat
    PROVE  IsFiniteSet(1..j) /\ Cardinality(1..j) = j
<1>1. 1 \in Int /\ j \in Int
  OBVIOUS
<1>2. IsFiniteSet(1..j) /\ Cardinality(1..j) = IF 1 > j THEN 0 ELSE j - 1 + 1
  BY <1>1, FS_Interval
<1> QED BY <1>2

LEMMA CountedBut ==
    ASSUME NEW j \in Nat, NEW h \in 1..j
    PROVE  Cardinality((1..j) \ {h}) = j - 1
<1>1. IsFiniteSet(1..j) /\ Cardinality(1..j) = j
  BY Counted
<1>2. Cardinality((1..j) \ {h}) = Cardinality(1..j) - 1
  BY <1>1, FS_RemoveElement
<1> QED BY <1>1, <1>2

AuditsIn(t) == {j \in DOMAIN t : IsAudit(t[j])}
UpTo(q, j) == Cardinality({k \in q : k <= j})
AllBut(h) == (1..(h + 1)) \ {h}

\* The positions up to h + 1 without h.
LEMMA AllButOne ==
    ASSUME NEW h \in Nat \ {0}, NEW q, q = AllBut(h)
    PROVE  /\ Cardinality(q) = h
           /\ UpTo(q, h + 1) = h
           /\ \A j \in q : j # h + 1 => /\ j \in 1..(h - 1) /\ j \in Nat
                                       /\ UpTo(q, j) = j
<1>1. q = (1..(h + 1)) \ {h}
  BY DEF AllBut
<1>2. Cardinality(q) = h
  <2>1. h + 1 \in Nat /\ h \in 1..(h + 1) /\ (h + 1) - 1 = h
    OBVIOUS
  <2> QED BY <1>1, <2>1, CountedBut
<1>3. UpTo(q, h + 1) = h
  <2>1. {k \in q : k <= h + 1} = q
    BY <1>1
  <2> QED BY <1>2, <2>1 DEF UpTo
<1>4. ASSUME NEW j \in q, j # h + 1
      PROVE  j \in 1..(h - 1) /\ j \in Nat /\ UpTo(q, j) = j
  <2>1. j \in 1..(h - 1) /\ j \in Nat
    BY <1>4, <1>1
  <2>2. {k \in q : k <= j} = 1..j
    BY <1>1, <2>1
  <2>3. Cardinality(1..j) = j
    BY <2>1, Counted
  <2> QED BY <2>1, <2>2, <2>3 DEF UpTo
<1> QED BY <1>2, <1>3, <1>4

\* The rest of the trail goes on where the posts sent stop.
LEMMA EndedTells ==
    ASSUME NEW t \in Seq(Task), NEW p \in Seq(Post), NEW f, NEW i, i.level \in Nat,
           NEW z, Ended(t, p, f, i, z), NEW q, q = AuditsIn(t)
    PROVE  /\ Len(p) + Cardinality(q) = i.level + 1
           /\ \A m \in DOMAIN p : TellsAt(p[m].event, m, f, i, z)
           /\ \A j \in q : TellsAt(t[j], Len(p) + UpTo(q, j), f, i, z)
<1>1. PICK n \in Nat : n = Len(p)
  OBVIOUS
<1>2. i.level \in Nat
  OBVIOUS
<1>3. n \in Nat /\ DOMAIN p = 1..n /\ Len(t) \in Nat /\ DOMAIN t = 1..Len(t)
  BY <1>1
<1>4. \A m \in DOMAIN p : TellsAt(p[m].event, m, f, i, z)
  BY <1>1, <1>3 DEF Ended, Sent
<1>5. q = {j \in 1..Len(t) : IsAudit(t[j])}
  BY <1>3 DEF AuditsIn
<1>6. CASE Rest(t, n, f, i, z)
  <2>1. q = 1..Len(t)
    BY <1>5, <1>6 DEF Rest
  <2>2. n + Cardinality(q) = i.level + 1
    BY <1>3, <1>6, <2>1, Counted DEF Rest
  <2>3. ASSUME NEW j \in q
        PROVE  TellsAt(t[j], n + UpTo(q, j), f, i, z)
    <3>1. {k \in q : k <= j} = 1..j /\ j \in Nat /\ j \in 1..Len(t)
      BY <1>3, <2>1
    <3>2. Cardinality(1..j) = j
      BY <3>1, Counted
    <3>3. TellsAt(t[j], n + j, f, i, z)
      BY <1>6, <3>1 DEF Rest
    <3> QED BY <3>1, <3>2, <3>3 DEF UpTo
  <2> QED BY <1>1, <1>4, <2>2, <2>3
<1>7. CASE RestWithWrite(t, n, f, i, z)
  <2>1. PICK h \in Nat : h = i.level - n + 1
    <3>1. PICK l \in Nat : l = i.level
      BY <1>2
    <3>2. n <= l
      BY <1>7, <3>1 DEF RestWithWrite
    <3>3. l - n + 1 \in Nat
      BY <1>3, <3>2
    <3> QED BY <3>1, <3>3
  <2>2. /\ Len(t) = h + 1 /\ h >= 1 /\ n + h = i.level + 1
        /\ i.level - n = h - 1 /\ i.level - n + 2 = h + 1
    <3>1. n <= i.level /\ n + Len(t) = i.level + 2
      BY <1>7 DEF RestWithWrite
    <3>2. PICK m \in Nat : m = Len(t)
      BY <1>3
    <3>3. PICK l \in Nat : l = i.level
      BY <1>2
    <3>4. n \in Nat /\ n <= l /\ n + m = l + 2 /\ h = l - n + 1
      BY <1>3, <2>1, <3>1, <3>2, <3>3
    <3>5. m = h + 1 /\ h >= 1 /\ n + h = l + 1 /\ l - n = h - 1 /\ l - n + 2 = h + 1
      BY <3>4
    <3> QED BY <3>2, <3>3, <3>5
  <2>3. /\ \A j \in 1..(h - 1) : IsAudit(t[j]) /\ TellsAt(t[j], n + j, f, i, z)
        /\ ~IsAudit(t[h]) /\ IsAudit(t[h + 1]) /\ TellsAt(t[h + 1], n + h, f, i, z)
    <3>1. t[h].kind = "cache_write"
      BY <1>7, <2>1 DEF RestWithWrite
    <3>2. IsAudit(t[h + 1]) /\ TellsAt(t[h + 1], n + h, f, i, z)
      BY <1>7, <2>2 DEF RestWithWrite
    <3>3. \A j \in 1..(h - 1) : IsAudit(t[j]) /\ TellsAt(t[j], n + j, f, i, z)
      BY <1>7, <2>2 DEF RestWithWrite
    <3> QED BY <3>1, <3>2, <3>3 DEF IsAudit
  <2>4. q = AllBut(h)
    <3>1. \A j \in 1..(h + 1) : j = h \/ j = h + 1 \/ j \in 1..(h - 1)
      OBVIOUS
    <3>2. \A j \in 1..(h + 1) : IsAudit(t[j]) <=> j # h
      BY <2>3, <3>1
    <3> QED BY <1>5, <2>2, <3>2 DEF AllBut
  <2>5. /\ Cardinality(q) = h /\ UpTo(q, h + 1) = h
        /\ \A j \in q : j # h + 1 => /\ j \in 1..(h - 1) /\ j \in Nat
                                    /\ UpTo(q, j) = j
    <3>1. h \in Nat \ {0}
      BY <2>2
    <3> QED BY <2>4, <3>1, AllButOne
  <2>6. ASSUME NEW j \in q
        PROVE  TellsAt(t[j], n + UpTo(q, j), f, i, z)
    <3>1. CASE j = h + 1
      BY <2>3, <2>5, <3>1
    <3>2. CASE j # h + 1
      <4>1. j \in 1..(h - 1) /\ UpTo(q, j) = j
        BY <2>5, <3>2
      <4>2. TellsAt(t[j], n + j, f, i, z)
        BY <2>3, <4>1
      <4> QED BY <4>1, <4>2
    <3> QED BY <3>1, <3>2
  <2>7. n + Cardinality(q) = i.level + 1
    BY <2>2, <2>5
  <2> QED BY <1>1, <1>4, <2>6, <2>7
<1> QED BY <1>1, <1>6, <1>7 DEF Ended

\* An exhausted chain was left at its last model.
LEMMA ExhaustedAtTheEnd ==
    ASSUME RouterInv, NEW r \in Requests, reply[r].error = "all_backends_exhausted"
    PROVE  imf[r].level + 1 = Len(fallback[r].chain)
<1>1. Stepped(calls[r], fallback[r], imf[r]) /\ ExhaustedLast(calls[r], fallback[r], reply[r])
  BY DEF RouterInv, CallsTrace, TraceOf, Trace
<1>2. InStepOf(fallback[r], imf[r]) /\ ~HasNext(fallback[r])
  BY <1>1 DEF Stepped, ExhaustedLast
<1>3. fallback[r] \in FallbackState
  BY DEF RouterInv, TypeOK
<1>4. fallback[r].index \in Nat /\ Len(fallback[r].chain) \in Nat
  BY <1>3 DEF FallbackState
<1> QED BY <1>2, <1>4 DEF InStepOf, HasNext

\* The audit trail of a request that was answered or that no model could
\* answer, sent or still waiting, tells its route: however many models fail,
\* whichever stage they fail at, and whatever the text came from.
THEOREM TrailAlwaysTellsRoute == Spec => []AuditTrailTellsRoute
<1>1. RouterInv /\ CacheInv /\ Trails => AuditTrailTellsRoute
  <2> SUFFICES ASSUME RouterInv, CacheInv, Trails, NEW r \in Requests,
                      Concluded(reply[r]), stage[r] # "lost"
               PROVE  /\ Len(posted[r]) + Cardinality(QueuedAudits(r)) = imf[r].level + 1
                      /\ reply[r].status # 200 => imf[r].level + 1 = Len(fallback[r].chain)
                      /\ \A n \in DOMAIN posted[r] :
                             TellsAt(posted[r][n].event, n, fallback[r], imf[r], Ending(r))
                      /\ \A j \in QueuedAudits(r) :
                             TellsAt(tasks[r][j], Place(r, j), fallback[r], imf[r], Ending(r))
    BY DEF AuditTrailTellsRoute
  <2>1. tasks[r] \in Seq(Task) /\ stage[r] \in Stages
    BY DEF RouterInv, TypeOK
  <2>2. posted[r] \in Seq(Post)
    <3>1. posted \in [Requests -> Seq(Post)]
      BY DEF RouterInv, TypeOK, Post
    <3> QED BY <3>1
  <2>3. imf[r].level \in Nat
    BY DEF RouterInv, TypeOK, Imf
  <2>4. stage[r] = "replied"
    <3>1. CASE stage[r] \in Underway
      <4>1. reply[r] = NoReply
        BY <3>1 DEF Trails, TrailOf, TrailInv
      <4> QED BY <4>1 DEF Concluded, NoReply
    <3> QED BY <2>1, <3>1 DEF Stages, Underway, RoutingStages
  <2>5. Ended(tasks[r], posted[r], fallback[r], imf[r], Ending(r))
    BY <2>4 DEF Trails, TrailOf, TrailInv
  <2>6. PICK q : q = QueuedAudits(r)
    OBVIOUS
  <2>7. q = AuditsIn(tasks[r])
    BY <2>6 DEF QueuedAudits, AuditsIn
  <2>8. /\ Len(posted[r]) + Cardinality(q) = imf[r].level + 1
        /\ \A m \in DOMAIN posted[r] : TellsAt(posted[r][m].event, m, fallback[r], imf[r], Ending(r))
        /\ \A j \in q : TellsAt(tasks[r][j], Len(posted[r]) + UpTo(q, j),
                             fallback[r], imf[r], Ending(r))
    <3>1. PICK t \in Seq(Task) : t = tasks[r]
      BY <2>1
    <3>2. PICK p \in Seq(Post) : p = posted[r]
      BY <2>2
    <3>3. PICK f, i, z : f = fallback[r] /\ i = imf[r] /\ z = Ending(r)
      OBVIOUS
    <3>4. i.level \in Nat /\ Ended(t, p, f, i, z) /\ q = AuditsIn(t)
      BY <2>3, <2>5, <2>7, <3>1, <3>2, <3>3
    <3>5. /\ Len(p) + Cardinality(q) = i.level + 1
          /\ \A m \in DOMAIN p : TellsAt(p[m].event, m, f, i, z)
          /\ \A j \in q : TellsAt(t[j], Len(p) + UpTo(q, j), f, i, z)
      BY <3>4, EndedTells
    <3> QED BY <3>1, <3>2, <3>3, <3>5
  <2>9. reply[r].status # 200 => imf[r].level + 1 = Len(fallback[r].chain)
    BY ExhaustedAtTheEnd DEF Concluded
  <2> QED BY <2>6, <2>8, <2>9 DEF Place, UpTo
<1> QED BY <1>1, RouterInvariant, CacheInvariant, TrailsInvariant, PTL
=============================================================================
