------------------------------ MODULE ServingPath ------------------------------
(***************************************************************************)
(* The way of a chat request through all four services, with their nested  *)
(* timeouts: a client repeats its request until it is answered 200; the    *)
(* gateway gives up first, then the Security Layer, then the router, then  *)
(* the adapter, and each goes on with what its caller gave up.  The router *)
(* and the adapter are the modules of their own; gateway and Security      *)
(* Layer are two waits (module Ingress has what they check), with the text *)
(* of each client passing the checks.  A tick passes only when nothing     *)
(* that is fast is left to do, so what takes time is the text Ollama       *)
(* generates, and the timeouts.                                            *)
(***************************************************************************)
EXTENDS Integers, Sequences, FiniteSets

CONSTANTS
    Clients,
    MaxAttempts,       \* bound: how often a client sends its request
    BodyOf,            \* what each client sends
    GatewayTimeout,    \* DOWNSTREAM_TIMEOUT_SECONDS, in ticks
    RouterTimeout,     \* ROUTER_TIMEOUT of the Security Layer
    InferenceTimeout,  \* INFERENCE_TIMEOUT_SECONDS of the router
    OllamaTimeout, MaxGeneration, DefaultModel,                              \* the adapter
    Models, UnknownModels, NoModel, FallbackOf, TaskDefaults, DefaultTask,   \* the router
    MaxFaults          \* bound: what goes wrong

\* Attempt k of client c, and the call of a model for it.
Requests == Clients \X (1..MaxAttempts)
Calls == Requests \X (Models \cup UnknownModels)
ModelOf == [c \in Calls |-> c[2]]
Bodies == {BodyOf[c] : c \in Clients}

ASSUME PathAssumption ==
    /\ MaxAttempts \in Nat \ {0} /\ MaxFaults \in Nat
    /\ {GatewayTimeout, RouterTimeout, InferenceTimeout, OllamaTimeout} \subseteq Nat \ {0}
    /\ MaxGeneration \in Nat /\ MaxGeneration < InferenceTimeout /\ MaxGeneration < OllamaTimeout
    /\ DefaultModel \in Models

VARIABLES
    gate,     \* the gateway: new, waiting, done
    got,      \* the status the client got, 0 before
    layer,    \* the Security Layer: none, waiting, done
    age,      \* ticks since the request was forwarded, as long as one waits
    asked,    \* ticks the router has waited for the adapter
    streak,   \* history: requests of a client timed out in a row, nothing going wrong
    faults,
    stage, body, fallback, imf, tasks, reply, calls, posted, cache, metrics, crashes,
    process, loaded, job, ollama

front == <<gate, got, layer, age>>
router == <<stage, body, fallback, imf, tasks, reply, calls, posted, cache, metrics, crashes>>
adapter == <<process, loaded, job, ollama>>
clocks == <<age, asked>>
vars == <<front, asked, streak, faults, router, adapter>>

Router == INSTANCE RouterPipeline WITH MaxCrashes <- MaxFaults
Adapter == INSTANCE InferenceAdapter WITH ModelNames <- Models \cup UnknownModels

\* What the router takes for granted of the matrix and of the bodies it gets.
ASSUME RouterAssumption ==
    /\ IsFiniteSet(Router!Names) /\ NoModel \notin Router!Names
    /\ FallbackOf \in [Models -> Router!Names \cup {NoModel}]
    /\ TaskDefaults \in [Router!TaskTypes -> Router!Names \cup {NoModel}]
    /\ Bodies \subseteq Router!Body
    /\ \A b \in Bodies : b.entry = "openai" => Router!ImfOfOpenAI(b)

\* What goes wrong is counted, and a client's patience starts again: with its
\* next request, if one is under way.
Impatience ==
    streak' = [c \in Clients |->
                  IF \E r \in Requests : r[1] = c /\ gate[r] = "waiting" THEN -1 ELSE 0]

Fault == faults < MaxFaults /\ faults' = faults + 1 /\ Impatience

Fine == UNCHANGED <<faults, streak>>

(***************************************************************************)
(* Client, gateway and Security Layer                                      *)
(***************************************************************************)
\* The gateway forwards, the Security Layer finds nothing, the router receives.
Send(r) ==
    /\ gate[r] = "new"
    /\ r[2] > 1 => LET previous == <<r[1], r[2] - 1>>
                   IN  gate[previous] = "done" /\ got[previous] # 200
    /\ gate' = [gate EXCEPT ![r] = "waiting"]
    /\ layer' = [layer EXCEPT ![r] = "waiting"]
    /\ Router!Receive(r, BodyOf[r[1]])
    /\ UNCHANGED <<got, age, asked, adapter>>
    /\ Fine

Close(r, status) ==
    /\ gate' = [gate EXCEPT ![r] = "done"]
    /\ got' = [got EXCEPT ![r] = status]

\* Mutant: the gateway hands on whatever the Security Layer answered.
GatewayStatusRelayed(status) == status

\* What the gateway makes of a status of the Security Layer: blocks are handed
\* on, every other error becomes 502.
GatewayStatus(status) == IF status \in {200, 400, 403, 429} THEN status ELSE 502

\* What the router replied goes back to whoever still waits: as it is from the
\* Security Layer, as the gateway converts it to the client.
Deliver(r) ==
    /\ stage[r] = "replied" /\ layer[r] = "waiting"
    /\ layer' = [layer EXCEPT ![r] = "done"]
    /\ IF gate[r] = "waiting" THEN Close(r, GatewayStatus(reply[r].status)) ELSE UNCHANGED <<gate, got>>
    /\ UNCHANGED <<age, asked, router, adapter>>
    /\ Fine

\* The router died: a broken connection is a 500 of the Security Layer, which
\* the client never sees.
Broken(r) ==
    /\ stage[r] = "lost" /\ layer[r] = "waiting"
    /\ layer' = [layer EXCEPT ![r] = "done"]
    /\ IF gate[r] = "waiting" THEN Close(r, GatewayStatus(500)) ELSE UNCHANGED <<gate, got>>
    /\ UNCHANGED <<age, asked, router, adapter>>
    /\ Fine

\* 502 of the gateway; the layers behind go on.
GatewayGivesUp(r) ==
    /\ gate[r] = "waiting" /\ age[r] >= GatewayTimeout
    /\ Close(r, 502)
    /\ streak' = [streak EXCEPT ![r[1]] = @ + 1]
    /\ UNCHANGED <<layer, age, asked, faults, router, adapter>>

\* 504 of the Security Layer, for a gateway that still waits.
LayerGivesUp(r) ==
    /\ layer[r] = "waiting" /\ age[r] >= RouterTimeout
    /\ layer' = [layer EXCEPT ![r] = "done"]
    /\ IF gate[r] = "waiting"
       THEN Close(r, GatewayStatus(504)) /\ streak' = [streak EXCEPT ![r[1]] = @ + 1]
       ELSE UNCHANGED <<gate, got, streak>>
    /\ UNCHANGED <<age, asked, faults, router, adapter>>

(***************************************************************************)
(* The router                                                              *)
(***************************************************************************)
CallOf(r) == <<r, imf[r].selected>>

\* The health check looks at Ollama, not at the adapter nor at the model.
CheckHealth(r) ==
    /\ ollama.up /\ Router!HealthOk(r)
    /\ Fine
CheckFails(r) ==
    /\ Router!HealthFail(r)
    /\ \/ ~ollama.up /\ Fine
       \/ ollama.up /\ Fault

\* Any other error of the check ends the request; a name without an entry has
\* no URL, which is one.
CheckRaises(r) ==
    /\ stage[r] = "health" /\ Router!Raises(r)
    /\ \/ imf[r].selected \notin Models /\ Fine
       \/ imf[r].selected \in Models /\ Fault

\* Mutant: the key of an entry also has the request.
SameRequest(e, r) ==
    e.content.for = r /\ e.model = imf[r].selected /\ e.task = imf[r].task

\* The key of an entry is the prompt, the model and the task type.
SameKey(e, r) ==
    e.content.for[1] = r[1] /\ e.model = imf[r].selected /\ e.task = imf[r].task

\* A lookup that fails, or finds that the entry has expired, is a miss; a
\* similar prompt may be served.
Lookup(r) ==
    \/ (\E e \in cache : Router!LookupHit(r, e)) /\ Fine
    \/ /\ Router!LookupMiss(r)
       /\ IF \E e \in cache : SameKey(e, r) THEN Fault ELSE Fine

\* Mutant: a 200 without a text passes for an answer.
InferAnsweredEmpty(r) ==
    /\ stage[r] = "infer"
    /\ CallOf(r) \in Adapter!Answered
    /\ CASE job[CallOf(r)].answer \in {"ok", "empty"} -> Router!InferOk(r)
         [] job[CallOf(r)].answer = "dropped" -> Router!Raises(r)
         [] OTHER -> Router!InferFail(r)
    /\ Fine

\* The router has an answer of the adapter.
InferAnswered(r) ==
    /\ stage[r] = "infer"
    /\ CallOf(r) \in Adapter!Answered
    /\ CASE job[CallOf(r)].answer = "ok" -> Router!InferOk(r)
         [] job[CallOf(r)].answer = "dropped" -> Router!Raises(r)
         [] OTHER -> Router!InferFail(r)
    /\ Fine

\* The adapter refuses the connection.
AdapterRefuses(r) ==
    /\ stage[r] = "infer" /\ process # "up"
    /\ job[CallOf(r)] = Adapter!NoJob
    /\ Router!InferFail(r)
    /\ UNCHANGED faults /\ Impatience

\* Mutant: the router waits no longer than the gateway.
RouterDueEarly(r) == asked[r] >= GatewayTimeout

RouterDue(r) == asked[r] >= InferenceTimeout

\* The router gives up; the adapter goes on.
RouterGivesUp(r) ==
    /\ stage[r] = "infer" /\ RouterDue(r)
    /\ Router!InferFail(r)
    /\ Fine

Background(r) ==
    \/ Router!PostAudit(r) /\ posted'[r][Len(posted'[r])].result # "lost" /\ Fine
    \/ /\ Router!WriteCache(r)
       /\ IF Head(tasks[r]) \in cache' THEN Fine ELSE Fault

RouterSteps(r) ==
    /\ \/ CheckHealth(r) \/ CheckFails(r) \/ CheckRaises(r) \/ Lookup(r)
       \/ InferAnswered(r) \/ AdapterRefuses(r) \/ RouterGivesUp(r)
       \/ Background(r)
    /\ asked' = [asked EXCEPT ![r] = 0]
    /\ UNCHANGED <<front, adapter>>

RouterDies ==
    /\ Router!Crash
    /\ Fault
    /\ UNCHANGED <<front, asked, adapter>>

(***************************************************************************)
(* The adapter and Ollama                                                  *)
(***************************************************************************)
\* A call of the router reaches the adapter.
CallArrives(r) == stage[r] = "infer" /\ Adapter!Infer(CallOf(r))

AdapterWorks == Adapter!Start \/ Adapter!Listed \/ \E c \in Calls : Adapter!Works(c)

AdapterFails ==
    \/ Adapter!ListFails \/ Adapter!MetricsPortTaken \/ Adapter!Stop
    \/ Adapter!ModelsChange \/ Adapter!OllamaFlips
    \/ \E c \in Calls : Adapter!Fails(c)

AdapterSteps ==
    /\ \/ (AdapterWorks \/ \E r \in Requests : CallArrives(r)) /\ Fine
       \/ AdapterFails /\ Fault
    /\ UNCHANGED <<front, asked, router>>

(***************************************************************************)
(* Time                                                                    *)
(***************************************************************************)
\* A service has something to do about r that takes no time.
Busy(r) ==
    \/ stage[r] \in {"health", "lookup"}
    \/ stage[r] = "replied" /\ tasks[r] # << >>
    \/ stage[r] = "infer" /\ (RouterDue(r) \/ CallOf(r) \notin Adapter!Running)
    \/ layer[r] = "waiting" /\ (stage[r] \in {"replied", "lost"} \/ age[r] >= RouterTimeout)
    \/ gate[r] = "waiting" /\ age[r] >= GatewayTimeout

Waited(clock, S) == [r \in Requests |-> IF r \in S THEN clock[r] + 1 ELSE clock[r]]

Tick ==
    /\ Adapter!Running # {} \/ \E r \in Requests : layer[r] = "waiting" \/ stage[r] = "infer"
    /\ \A r \in Requests : ~Busy(r)
    /\ Adapter!Quiet /\ Adapter!Age
    /\ age' = Waited(age, {r \in Requests : layer[r] = "waiting"})
    /\ asked' = Waited(asked, {r \in Requests : stage[r] = "infer"})
    /\ UNCHANGED <<gate, got, layer, router>>
    /\ Fine

(***************************************************************************)
(* The system                                                              *)
(***************************************************************************)
Init ==
    /\ Router!Init /\ Adapter!Init
    /\ ollama = [up |-> TRUE, models |-> Models]
    /\ gate = [r \in Requests |-> "new"] /\ layer = [r \in Requests |-> "none"]
    /\ got = [r \in Requests |-> 0]
    /\ age = [r \in Requests |-> 0] /\ asked = [r \in Requests |-> 0]
    /\ streak = [c \in Clients |-> 0]
    /\ faults = 0

FrontSteps(r) == Deliver(r) \/ Broken(r) \/ GatewayGivesUp(r) \/ LayerGivesUp(r)

Next ==
    \/ \E r \in Requests : Send(r) \/ FrontSteps(r) \/ RouterSteps(r)
    \/ RouterDies
    \/ AdapterSteps
    \/ Tick

\* As long as a process or a timer can go on, one does; nothing makes a client
\* send, nor a fault happen.
GoesOn ==
    \/ \E r \in Requests : FrontSteps(r) \/ RouterSteps(r)
    \/ /\ AdapterWorks \/ \E r \in Requests : CallArrives(r)
       /\ Fine /\ UNCHANGED <<front, asked, router>>
    \/ Tick

Fairness == WF_vars(GoesOn)

Spec == Init /\ [][Next]_vars /\ Fairness

(***************************************************************************)
(* Properties                                                              *)
(***************************************************************************)
TypeOK ==
    /\ Router!TypeOK /\ Adapter!TypeOK
    /\ gate \in [Requests -> {"new", "waiting", "done"}]
    /\ layer \in [Requests -> {"none", "waiting", "done"}]
    /\ got \in [Requests -> {0, 200, 400, 502}]
    /\ age \in [Requests -> 0..RouterTimeout]
    /\ asked \in [Requests -> 0..InferenceTimeout]
    /\ streak \in [Clients -> -1..MaxAttempts]
    /\ faults \in 0..MaxFaults

\* A client whose request takes longer than the gateway waits is served from
\* the cache by the request it gave up: its requests are not timed out (502)
\* more often in a row than the timeouts that fit into one text and one, if
\* nothing goes wrong meanwhile.
Patience == MaxGeneration \div GatewayTimeout + 1
TimeoutsBounded == \A c \in Clients : streak[c] <= Patience

\* Ollama works for a request on one text at a time: when the router falls
\* back, the adapter has given up the text the router no longer waits for.
OneGenerationEach ==
    \A r \in Requests :
        Cardinality({c \in Adapter!Running : c[1] = r /\ ~Adapter!Due(c)}) <= 1

\* As long as nothing goes wrong, a request whose first model the adapter
\* sent to Ollama is answered 200 with that model's text, however slow it is:
\* no timeout on the way cuts off a text that is coming.
SlowIsNotBroken ==
    \A r \in Requests :
        /\ faults = 0 /\ stage[r] = "replied" /\ fallback[r].chain # << >>
        /\ job[<<r, fallback[r].chain[1]>>].answer \notin {"none", "model_not_loaded"}
        => reply[r].status = 200 /\ imf[r].level = 0

\* What a client is served is a whole text that Ollama generated under the
\* name it was asked by, for this request or for one that was given up.
ServedAsGenerated ==
    \A r \in Requests : got[r] = 200 =>
        LET content == imf[r].content
        IN  job[<<content.for, content.by>>].answer = "ok"

\* Every request comes to rest everywhere: the client has a status, the
\* router has run its tasks, the adapter has let go of Ollama.
ComesToRest ==
    \A r \in Requests :
        gate[r] = "waiting" ~>
            /\ gate[r] = "done" /\ layer[r] = "done"
            /\ stage[r] \in {"replied", "lost"} /\ tasks[r] = << >>
            /\ \A c \in Adapter!Running : c[1] # r

(***************************************************************************)
(* What the documents of the repository say and the code does not do       *)
(***************************************************************************)
\* design.md: when Ollama was away at startup, "the health endpoint
\* immediately returns 503 ollama_unreachable, preventing Kubernetes from
\* routing traffic": an adapter that answers 200 takes calls for the model
\* it names.
HealthyServes == Adapter!Health = "ok" => DefaultModel \in loaded
================================================================================
