---------------------------- MODULE MCServingPath ----------------------------
(***************************************************************************)
(* Instances of ServingPath for TLC.                                       *)
(***************************************************************************)
EXTENDS ServingPath, TLC

CONSTANTS a, b, u, one

\* One client whose default is a, which falls back to b, and b to a name
\* without an entry.
MCFallbackOf == (a :> b) @@ (b :> u)
MCTaskDefaults ==
    [code |-> a, reasoning |-> NoModel, summarization |-> NoModel, translation |-> NoModel, chat |-> a]
MCBodyOf ==
    one :> [entry |-> "route", safe |-> TRUE, mode |-> "auto", pinned |-> NoModel, keywords |-> {"chat"}]
================================================================================
