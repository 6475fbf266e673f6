----------------------------- MODULE ModelSelector -----------------------------
(***************************************************************************)
(* The pure part of the Intelligent Router: task classification, model     *)
(* selection and the fallback chain, over a loaded model matrix.  The      *)
(* matrix is what load_model_matrix accepts: a name in task_defaults or in *)
(* a fallback link need not have an entry.                                 *)
(***************************************************************************)
EXTENDS Integers, Sequences, FiniteSets

CONSTANTS
    Models,        \* keys of ModelMatrix.models
    UnknownModels, \* names the matrix file mentions without an entry
    NoModel,       \* None: no fallback, no default, no pinned model
    FallbackOf,    \* ModelEntry.fallback
    TaskDefaults,  \* ModelMatrix.task_defaults, NoModel where absent
    DefaultTask    \* ClassifierRules.default

Names == Models \cup UnknownModels

PriorityOrder == <<"code", "reasoning", "summarization", "translation", "chat">>
KeywordTasks == {PriorityOrder[i] : i \in 1..5}
TaskTypes == KeywordTasks \cup {DefaultTask}

ASSUME MatrixAssumption ==
    /\ IsFiniteSet(Names)
    /\ NoModel \notin Names
    /\ FallbackOf \in [Models -> Names \cup {NoModel}]
    /\ TaskDefaults \in [TaskTypes -> Names \cup {NoModel}]

\* The first task type of PRIORITY_ORDER with a keyword in the messages.
\* keywords is the set of task types one of whose keywords occurs in them.
ClassifyTask(keywords) ==
    IF keywords = {} THEN DefaultTask
    ELSE LET first == CHOOSE i \in 1..5 :
                        /\ PriorityOrder[i] \in keywords
                        /\ \A j \in 1..(i - 1) : PriorityOrder[j] \notin keywords
         IN  PriorityOrder[first]

\* Auto mode: the default of the task type, else the default of "chat".
AutoModel(task) ==
    IF TaskDefaults[task] # NoModel THEN TaskDefaults[task] ELSE TaskDefaults["chat"]

\* select_model and the two exceptions it raises.
SelectModel(mode, pinned, task) == IF mode = "pinned" THEN pinned ELSE AutoModel(task)
InvalidPinnedModel(mode, pinned) == mode = "pinned" /\ pinned \notin Models
NoModelForTask(mode, task) == mode = "auto" /\ AutoModel(task) = NoModel

\* Mutant: the visited set is forgotten.
FallbackChainsUnvisited(m) ==
    {c \in UNION {[1..n -> Names] : n \in 1..(Cardinality(Names) + 1)} :
        /\ c[1] = m
        /\ \A i \in DOMAIN c : i + 1 \in DOMAIN c =>
              c[i] \in Models /\ c[i + 1] = FallbackOf[c[i]]}

\* The lists get_fallback_chain can return for model m: follow the fallback
\* links from m until None, a name without an entry, or a name already
\* visited.  There is exactly one (module FallbackChain compares it with the
\* loop of the code).
FallbackChains(m) ==
    {c \in UNION {[1..n -> Names] : n \in 1..Cardinality(Names)} :
        /\ c[1] = m
        /\ \A i, j \in DOMAIN c : c[i] = c[j] => i = j
        /\ \A i \in DOMAIN c : i + 1 \in DOMAIN c =>
              c[i] \in Models /\ c[i + 1] = FallbackOf[c[i]]
        /\ \A i \in DOMAIN c : i + 1 \notin DOMAIN c /\ c[i] \in Models =>
              FallbackOf[c[i]] \in {NoModel} \cup {c[j] : j \in DOMAIN c}}
================================================================================
