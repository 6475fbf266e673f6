----------------------------- MODULE FallbackChain -----------------------------
(***************************************************************************)
(* The loop of get_fallback_chain, one iteration per step, over every      *)
(* matrix: what it returns is the one list FallbackChains describes.       *)
(***************************************************************************)
EXTENDS Integers, Sequences, FiniteSets

CONSTANTS Models, UnknownModels, NoModel

VARIABLES
    links,   \* the fallback links of the matrix
    start,   \* model_name
    chain,   \* the list built so far
    visited, \* the set of the names in it
    current  \* the next name to look at, NoModel at the end

vars == <<links, start, chain, visited, current>>

Selector == INSTANCE ModelSelector
    WITH FallbackOf <- links, DefaultTask <- "chat",
         TaskDefaults <- [t \in {"code", "reasoning", "summarization", "translation", "chat"} |-> NoModel]

Names == Models \cup UnknownModels

ASSUME ChainAssumption == IsFiniteSet(Names) /\ NoModel \notin Names

Init ==
    /\ links \in [Models -> Names \cup {NoModel}]
    /\ start \in Names
    /\ chain = <<>>
    /\ visited = {}
    /\ current = start

\* The condition of the while loop.
Continues == current # NoModel /\ current \notin visited

\* Mutant: the walk stops before a name without an entry.
StepShort ==
    /\ Continues
    /\ chain' = Append(chain, current)
    /\ visited' = visited \cup {current}
    /\ current' = IF current \in Models /\ links[current] \in Models
                  THEN links[current] ELSE NoModel
    /\ UNCHANGED <<links, start>>

\* One iteration.
Step ==
    /\ Continues
    /\ chain' = Append(chain, current)
    /\ visited' = visited \cup {current}
    /\ current' = IF current \in Models THEN links[current] ELSE NoModel
    /\ UNCHANGED <<links, start>>

Next == Step

Spec == Init /\ [][Next]_vars

\* When the loop has ended its list is the only one that starts at the given
\* model, follows the fallback links, repeats no name and stops where they do.
ReturnsTheChain == ~Continues => Selector!FallbackChains(start) = {chain}
================================================================================
