--------------------------- MODULE InferenceAdapter ---------------------------
(***************************************************************************)
(* The Inference Adapter: startup, POST /infer, GET /health and shutdown,  *)
(* in front of Ollama, which is seen through what it may answer.  The list *)
(* of models is read once, in the lifespan, and never again; /health asks  *)
(* Ollama every time and changes nothing.  A call awaits Ollama once; time *)
(* passes in ticks.  Texts, token counts, latencies and metrics are left   *)
(* out, as are the two checks of an IMF's shape, which no IMF of the       *)
(* router fails (it has messages and a selected model).                    *)
(***************************************************************************)
EXTENDS Integers, FiniteSets

CONSTANTS
    Calls,          \* the calls of POST /infer
    ModelNames,
    ModelOf,        \* routing.selected_model of each call
    DefaultModel,   \* DEFAULT_MODEL
    OllamaTimeout,  \* OLLAMA_TIMEOUT_SECONDS, in ticks
    MaxGeneration   \* the ticks a text takes at most, unless Ollama hangs

VARIABLES
    process,  \* the adapter: down, starting (the lifespan), up
    loaded,   \* app.state.ollama_models
    job,      \* each call: where it is, its age in ticks, what it was answered
    ollama    \* Ollama: does it answer, and the models it has

vars == <<process, loaded, job, ollama>>

\* What a call is answered: "ok" and "empty" (a text or none, status 200),
\* "failed" (the error bodies with 503, 422, 502 and 500, which the router
\* does not tell apart), or "dropped" for a connection that breaks off.
Answers == {"ok", "empty", "failed", "dropped", "model_not_loaded"}

NoJob == [at |-> "none", age |-> 0, answer |-> "none"]
\* Ollama works on it, says nothing any more, or turns it away.
Job == [at : {"chat", "hung", "turned_away"}, age : 0..OllamaTimeout, answer : {"none"}]
           \cup [at : {"done"}, age : 0..OllamaTimeout, answer : Answers]

\* The calls that await Ollama, and those that have their answer.
Running == {c \in Calls : job[c].at \in {"chat", "hung", "turned_away"}}
Answered == {c \in Calls : job[c].at = "done"}

(***************************************************************************)
(* The lifespan and GET /health                                            *)
(***************************************************************************)
Start ==
    /\ process = "down"
    /\ process' = "starting"
    /\ UNCHANGED <<loaded, job, ollama>>

\* list_models answered, or failed: degraded mode, without any model.
Listed ==
    /\ process = "starting"
    /\ process' = "up"
    /\ loaded' = IF ollama.up THEN ollama.models ELSE {}
    /\ UNCHANGED <<job, ollama>>

\* Ollama answers something else than its list; an error status with JSON
\* reads as a list without models.
ListFails ==
    /\ process = "starting"
    /\ process' = "up"
    /\ loaded' = {}
    /\ UNCHANGED <<job, ollama>>

\* The metrics port is taken: the client is closed and the process exits.
MetricsPortTaken ==
    /\ process = "starting"
    /\ process' = "down"
    /\ UNCHANGED <<loaded, job, ollama>>

\* Shutdown or death: the connections of the calls break off.
Stop ==
    /\ process = "up"
    /\ process' = "down"
    /\ loaded' = {}
    /\ job' = [c \in Calls |->
                  IF c \in Running THEN [job[c] EXCEPT !.at = "done", !.answer = "dropped"]
                  ELSE job[c]]
    /\ UNCHANGED ollama

\* What GET /health answers now.
Health ==
    IF process # "up" THEN "starting"
    ELSE IF ~ollama.up THEN "ollama_unreachable"
    ELSE IF DefaultModel \notin ollama.models THEN "model_not_loaded"
    ELSE "ok"

(***************************************************************************)
(* POST /infer                                                             *)
(***************************************************************************)
Answer(c, answer) ==
    /\ c \in Running
    /\ job' = [job EXCEPT ![c] = [@ EXCEPT !.at = "done", !.answer = answer]]
    /\ UNCHANGED <<process, loaded, ollama>>

\* A call arrives: refused at once, or sent to Ollama, which takes it if it
\* is up and has the model.
Infer(c) ==
    /\ process = "up"
    /\ job[c] = NoJob
    /\ job' = [job EXCEPT ![c] =
                  IF ModelOf[c] \notin loaded
                  THEN [@ EXCEPT !.at = "done", !.answer = "model_not_loaded"]
                  ELSE [@ EXCEPT !.at = IF ollama.up /\ ModelOf[c] \in ollama.models
                                        THEN "chat" ELSE "turned_away"]]
    /\ UNCHANGED <<process, loaded, ollama>>

Generated(c) == job[c].at = "chat" /\ Answer(c, "ok")

\* A message without text: handed on with 200.
GeneratedEmpty(c) == job[c].at = "chat" /\ Answer(c, "empty")

\* An error status, no JSON, not all of the fields, a broken connection.
ChatFails(c) == job[c].at = "chat" /\ Answer(c, "failed")

\* No connection, or 404 for a model that Ollama does not have.
TurnedAway(c) == job[c].at = "turned_away" /\ Answer(c, "failed")

\* Ollama takes the call and never answers it.
Hangs(c) ==
    /\ job[c].at = "chat"
    /\ job' = [job EXCEPT ![c].at = "hung"]
    /\ UNCHANGED <<process, loaded, ollama>>

Due(c) == c \in Running /\ job[c].age >= OllamaTimeout

ChatTimesOut(c) == Due(c) /\ Answer(c, "failed")

(***************************************************************************)
(* Ollama and time                                                         *)
(***************************************************************************)
\* A model is pulled or removed.
ModelsChange ==
    /\ ollama.up
    /\ \E m \in ModelNames :
          ollama' = [ollama EXCEPT !.models = IF m \in @ THEN @ \ {m} ELSE @ \cup {m}]
    /\ UNCHANGED <<process, loaded, job>>

\* The server goes, with its connections, or comes.
OllamaFlips ==
    /\ ollama' = [ollama EXCEPT !.up = ~@]
    /\ job' = [c \in Calls |->
                  IF c \in Running /\ ollama.up THEN [job[c] EXCEPT !.at = "turned_away"] ELSE job[c]]
    /\ UNCHANGED <<process, loaded>>

\* Nothing that takes less than a tick is under way.
Quiet ==
    /\ process = "up"
    /\ \A c \in Running :
          /\ ~Due(c)
          /\ job[c].at = "chat" => job[c].age < MaxGeneration
          /\ job[c].at # "turned_away"

Age ==
    /\ job' = [c \in Calls |-> IF c \in Running THEN [job[c] EXCEPT !.age = @ + 1] ELSE job[c]]
    /\ UNCHANGED <<process, loaded, ollama>>

Init ==
    /\ process = "down"
    /\ loaded = {}
    /\ job = [c \in Calls |-> NoJob]
    /\ ollama \in [up : BOOLEAN, models : SUBSET ModelNames]

\* What happens when nothing goes wrong, and what may go wrong.
Works(c) == Generated(c) \/ TurnedAway(c) \/ ChatTimesOut(c)
Fails(c) == GeneratedEmpty(c) \/ ChatFails(c) \/ Hangs(c)

Next ==
    \/ Start \/ Listed \/ ListFails \/ MetricsPortTaken \/ Stop
    \/ \E c \in Calls : Infer(c) \/ Works(c) \/ Fails(c)
    \/ ModelsChange \/ OllamaFlips
    \/ Quiet /\ Age

Spec == Init /\ [][Next]_vars

(***************************************************************************)
(* Properties                                                              *)
(***************************************************************************)
TypeOK ==
    /\ process \in {"down", "starting", "up"}
    /\ loaded \subseteq ModelNames
    /\ job \in [Calls -> Job \cup {NoJob}]
    /\ ollama \in [up : BOOLEAN, models : SUBSET ModelNames]
================================================================================
