--------------------------- MODULE MCRouterPipeline ---------------------------
(***************************************************************************)
(* Instances of RouterPipeline for TLC.                                    *)
(***************************************************************************)
EXTENDS RouterPipeline, TLC

CONSTANTS a, b, c, u

\* Three models whose fallback links form a cycle; summarization defaults to
\* a name without an entry and translation has no default.
MCFallbackOf == (a :> b) @@ (b :> c) @@ (c :> a)

\* A fallback link to a name without an entry.
MCFallbackDangling == (a :> u) @@ (b :> a) @@ (c :> b)

MCTaskDefaults ==
    [code |-> a, reasoning |-> b, summarization |-> u, translation |-> NoModel, chat |-> a]

\* No default for chat: a task type without a default has no model.
MCTaskDefaultsNoChat ==
    [code |-> a, reasoning |-> NoModel, summarization |-> u, translation |-> NoModel,
     chat |-> NoModel]

BodyOf(entry, safe, mode, pinned, keywords) ==
    [entry |-> entry, safe |-> safe, mode |-> mode, pinned |-> pinned, keywords |-> keywords]

\* An auto and a pinned request, one on each endpoint, of two task types.
MCBodies ==
    { BodyOf("route", TRUE, "auto", NoModel, {"chat", "code"}),
      BodyOf("openai", TRUE, "pinned", b, {}) }

\* Every way to be refused, to be sent to a name without an entry, and to
\* fall back to the default of chat.
MCBodiesOdd ==
    { BodyOf("route", FALSE, "auto", NoModel, {"chat"}),
      BodyOf("route", TRUE, "pinned", u, {}),
      BodyOf("route", TRUE, "pinned", NoModel, {}),
      BodyOf("route", TRUE, "auto", b, {"summarization"}),
      BodyOf("route", TRUE, "auto", NoModel, {"translation"}),
      BodyOf("openai", TRUE, "auto", NoModel, {"reasoning", "chat"}),
      BodyOf("route", TRUE, "pinned", a, {"code", "translation"}) }

Symmetry == Permutations(Requests)
================================================================================
