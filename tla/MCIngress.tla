------------------------------- MODULE MCIngress -------------------------------
(***************************************************************************)
(* Instances of Ingress for TLC.                                           *)
(***************************************************************************)
EXTENDS Ingress, TLC

Chat(key, valid, stream, text) ==
    [path |-> "chat", key |-> key, valid |-> valid, stream |-> stream, text |-> text]

Docs(key) ==
    [path |-> "docs", key |-> key, valid |-> TRUE, stream |-> FALSE, text |-> {}]

MCCalls ==
    {Chat("key", TRUE, FALSE, {"pii"}), Chat("key", TRUE, FALSE, {"pii", "unsafe"}),
     Chat("key", TRUE, TRUE, {"injection"}), Chat("key", TRUE, TRUE, {}),
     Chat("key", FALSE, FALSE, {}), Chat("other", TRUE, FALSE, {}), Docs("other")}

\* What the router may answer: what it forwards, other JSON, no JSON, an error.
MCRouterAnswers ==
    {[status |-> 200, body |-> "imf"], [status |-> 200, body |-> "odd"],
     [status |-> 200, body |-> "text"], [status |-> 503, body |-> "odd"]}

Symmetry == Permutations(Requests)
================================================================================
