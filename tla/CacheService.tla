----------------------------- MODULE CacheService -----------------------------
(***************************************************************************)
(* The Cache Service: POST /cache/lookup, POST /cache/write, GET /health   *)
(* and the start of the process, over one Redis.  Every Redis command is   *)
(* an await, so an action is one command and the code up to the next one.  *)
(* Prometheus counters and the log are left out.                           *)
(***************************************************************************)
EXTENDS Integers, Sequences, FiniteSets

CONSTANTS
    Lookups,        \* calls of POST /cache/lookup
    Writes,         \* calls of POST /cache/write
    Prompts,        \* normalised prompt texts: stripped and lower-cased
    ModelNames,
    TaskTypes,
    TTL,            \* seconds an exact entry lives, by task type
    Score,          \* cosine similarity of two prompts' embeddings
    Threshold,      \* SIMILARITY_THRESHOLD
    MaxSemantic,    \* MAX_SEMANTIC_ENTRIES
    MaxWriters,     \* bound: writes the router has in flight at once
    MaxTime,        \* bound: the clock
    MaxFaults       \* bound: outages of Redis and restarts of the service

ASSUME CacheAssumption ==
    /\ Lookups \cap Writes = {}
    /\ IsFiniteSet(Writes)
    /\ TTL \in [TaskTypes -> Nat \ {0}]
    /\ Score \in [Prompts \X Prompts -> Nat]
    /\ Threshold \in Nat
    /\ MaxSemantic \in Nat /\ MaxWriters \in Nat \ {0}
    /\ MaxTime \in Nat /\ MaxFaults \in Nat

Ops == Lookups \cup Writes

\* make_cache_key: SHA-256 of prompt, model and task type, taken as injective.
Key == [prompt : Prompts, model : ModelNames, task : TaskTypes]

VARIABLES
    pc,       \* where each call awaits
    key,      \* the key of each call
    answer,   \* what each call returned
    exact,    \* Redis strings: the entry under each key
    lists,    \* Redis lists: the semantic entries of each task type
    up,       \* Redis answers
    client,   \* app.state.redis is set
    services, \* the _redis of ExactCacheService and SemanticCacheService is set
    embedder, \* the embedding model is loaded
    health,   \* the status of the last GET /health, 0 before the first
    now,
    setAt,    \* history: when each write stored its exact entry
    order,    \* history: the writes that did since Redis last lost its data
    faults

redis == <<exact, lists, up>>
process == <<client, services, embedder>>
history == <<setAt, order>>
vars == <<pc, key, answer, redis, process, health, now, history, faults>>

NoKey == [prompt |-> "none"]
NoEntry == [by |-> "none", expires |-> 0]

\* The response a write stores is known by that write.
Entry == [by : Writes, expires : Nat]
SemanticEntry == [by : Writes, prompt : Prompts, model : ModelNames]

\* hit: "none", "exact" or "semantic"; by: the write whose response is returned.
Answer == [status : {200, 422, 500, 503}, hit : {"none", "exact", "semantic"},
           by : Writes \cup {"none"}]
NoAnswer == [status |-> 0, hit |-> "none", by |-> "none"]
Never == MaxTime + 1

Answers(o, status, hit, by) ==
    /\ pc' = [pc EXCEPT ![o] = "done"]
    /\ answer' = [answer EXCEPT ![o] = [status |-> status, hit |-> hit, by |-> by]]

Goto(o, where) == pc' = [pc EXCEPT ![o] = where]

InFlight == {"set", "count", "push"}
Writing == {w \in Writes : pc[w] \in InFlight}
Pushing(t) == {w \in Writes : pc[w] = "push" /\ key[w].task = t}

(***************************************************************************)
(* POST /cache/lookup                                                      *)
(***************************************************************************)
ReceiveLookup(o, k) ==
    /\ pc[o] = "new"
    /\ key' = [key EXCEPT ![o] = k]
    /\ Goto(o, "get")
    /\ UNCHANGED <<answer, redis, process, health, now, history, faults>>

\* Mutant: the entry is stored without EX and never expires.
LiveForever(k) == exact[k] # NoEntry

\* What GET returns: the entry, unless it has expired.
Live(k) == exact[k] # NoEntry /\ now < exact[k].expires

\* The exact cache first.  A client of None is no RedisError: the call ends
\* in a 500.  On a miss the prompt is encoded before the next await.
Get(o) ==
    /\ pc[o] = "get"
    /\ \/ ~services /\ Answers(o, 500, "none", "none")
       \/ services /\ ~up /\ Answers(o, 200, "none", "none")
       \/ services /\ up /\ Live(key[o]) /\ Answers(o, 200, "exact", exact[key[o]].by)
       \/ /\ services /\ up /\ ~Live(key[o])
          /\ \/ Answers(o, 200, "none", "none")    \* EmbeddingEncodeError
             \/ embedder /\ Goto(o, "scan") /\ UNCHANGED answer
    /\ UNCHANGED <<key, redis, process, health, now, history, faults>>

Similarity(e, prompt) == Score[<<e.prompt, prompt>>]

\* Mutant: the last entry above the threshold, whatever its score.
MatchesLast(list, prompt) ==
    {i \in DOMAIN list :
        /\ Similarity(list[i], prompt) >= Threshold
        /\ \A j \in (i + 1)..Len(list) : Similarity(list[j], prompt) < Threshold}

\* The first of the entries with the highest score, if that score is enough.
Matches(list, prompt) ==
    {i \in DOMAIN list :
        /\ Similarity(list[i], prompt) >= Threshold
        /\ \A j \in DOMAIN list :
              IF j < i THEN Similarity(list[j], prompt) < Similarity(list[i], prompt)
                       ELSE Similarity(list[j], prompt) <= Similarity(list[i], prompt)}

Scan(o) ==
    LET list == lists[key[o].task]
        found == Matches(list, key[o].prompt)
    IN  /\ pc[o] = "scan"
        /\ \/ (~up \/ found = {}) /\ Answers(o, 200, "none", "none")
           \/ up /\ \E i \in found : Answers(o, 200, "semantic", list[i].by)
        /\ UNCHANGED <<key, redis, process, health, now, history, faults>>

(***************************************************************************)
(* POST /cache/write                                                       *)
(***************************************************************************)
ReceiveWrite(o, k) ==
    /\ pc[o] = "new"
    /\ key' = [key EXCEPT ![o] = k]
    /\ \/ /\ Cardinality(Writing) < MaxWriters
          /\ Goto(o, "set")
          /\ UNCHANGED answer
       \/ Answers(o, 422, "none", "none")         \* response null
    /\ UNCHANGED <<redis, process, health, now, history, faults>>

\* The exact entry is stored and the prompt encoded, or not, before the next await.
Stored(o) ==
    /\ exact' = [exact EXCEPT ![key[o]] = [by |-> o, expires |-> now + TTL[key[o].task]]]
    /\ setAt' = [setAt EXCEPT ![o] = now]
    /\ order' = Append(order, o)
    /\ \/ Answers(o, 200, "none", "none")
       \/ embedder /\ Goto(o, "count") /\ UNCHANGED answer

\* Mutant: the write goes on to the semantic cache after a RedisError.
SetGoesOn(o) ==
    /\ pc[o] = "set"
    /\ \/ ~services /\ Answers(o, 500, "none", "none") /\ UNCHANGED <<exact, history>>
       \/ services /\ ~up /\ Goto(o, "count") /\ UNCHANGED <<answer, exact, history>>
       \/ services /\ up /\ Stored(o)
    /\ UNCHANGED <<key, lists, up, process, health, now, faults>>

Set(o) ==
    /\ pc[o] = "set"
    /\ \/ ~services /\ Answers(o, 500, "none", "none") /\ UNCHANGED <<exact, history>>
       \/ services /\ ~up /\ Answers(o, 503, "none", "none") /\ UNCHANGED <<exact, history>>
       \/ services /\ up /\ Stored(o)
    /\ UNCHANGED <<key, lists, up, process, health, now, faults>>

\* Mutant: the list may grow one entry past the limit.
HasRoomOffByOne(t) == Len(lists[t]) <= MaxSemantic

HasRoom(t) == Len(lists[t]) < MaxSemantic

\* LLEN: full, or a RedisError, and the write is complete without it.
Count(o) ==
    /\ pc[o] = "count"
    /\ \/ (~up \/ ~HasRoom(key[o].task)) /\ Answers(o, 200, "none", "none")
       \/ up /\ HasRoom(key[o].task) /\ Goto(o, "push") /\ UNCHANGED answer
    /\ UNCHANGED <<key, redis, process, health, now, history, faults>>

\* Mutant: the key of the entry is not stored with it.
PushUnkeyed(o) ==
    /\ pc[o] = "push"
    /\ lists' = [lists EXCEPT ![key[o].task] = Append(@, [by |-> o, prompt |-> key[o].prompt])]
    /\ Answers(o, 200, "none", "none")
    /\ UNCHANGED <<key, exact, up, process, health, now, history, faults>>

\* RPUSH, whatever the length of the list is by now.
Push(o) ==
    LET t == key[o].task
        entry == [by |-> o, prompt |-> key[o].prompt, model |-> key[o].model]
    IN  /\ pc[o] = "push"
        /\ lists' = IF up THEN [lists EXCEPT ![t] = Append(@, entry)] ELSE lists
        /\ Answers(o, 200, "none", "none")
        /\ UNCHANGED <<key, exact, up, process, health, now, history, faults>>

(***************************************************************************)
(* GET /health, the process and Redis                                      *)
(***************************************************************************)
\* A client that failed at startup is made anew when Redis answers; the two
\* services keep the client they were built with.
Health ==
    /\ \/ ~embedder /\ health' = 503 /\ UNCHANGED client
       \/ embedder /\ up /\ health' = 200 /\ client' = TRUE
       \/ embedder /\ ~up /\ health' = 503 /\ UNCHANGED client
    /\ UNCHANGED <<pc, key, answer, redis, services, embedder, now, history, faults>>

Fault == faults < MaxFaults /\ faults' = faults + 1

\* lifespan: connect to Redis, load the model, build the services.  The
\* calls in progress are lost.
Restart ==
    /\ Fault
    /\ pc' = [o \in Ops |-> IF pc[o] \in {"new", "done"} THEN pc[o] ELSE "lost"]
    /\ client' = up
    /\ services' = up
    /\ embedder' \in BOOLEAN
    /\ health' = 0
    /\ UNCHANGED <<key, answer, redis, now, history>>

RedisDown ==
    /\ up
    /\ Fault
    /\ up' = FALSE
    /\ UNCHANGED <<pc, key, answer, exact, lists, process, health, now, history>>

\* Redis comes back with its data or, not persisted, without.
RedisUp ==
    /\ ~up
    /\ up' = TRUE
    /\ \/ UNCHANGED <<exact, lists, order>>
       \/ /\ exact' = [k \in Key |-> NoEntry]
          /\ lists' = [t \in TaskTypes |-> <<>>]
          /\ order' = <<>>
    /\ UNCHANGED <<pc, key, answer, process, health, now, setAt, faults>>

Tick ==
    /\ now < MaxTime
    /\ now' = now + 1
    /\ UNCHANGED <<pc, key, answer, redis, process, health, history, faults>>

Init ==
    /\ pc = [o \in Ops |-> "new"]
    /\ key = [o \in Ops |-> NoKey]
    /\ answer = [o \in Ops |-> NoAnswer]
    /\ exact = [k \in Key |-> NoEntry]
    /\ lists = [t \in TaskTypes |-> <<>>]
    /\ up \in BOOLEAN
    /\ client = up /\ services = up /\ embedder \in BOOLEAN
    /\ health = 0 /\ now = 0 /\ faults = 0
    /\ setAt = [w \in Writes |-> Never] /\ order = <<>>

Next ==
    \/ \E o \in Lookups : (\E k \in Key : ReceiveLookup(o, k)) \/ Get(o) \/ Scan(o)
    \/ \E o \in Writes : \/ \E k \in Key : ReceiveWrite(o, k)
                         \/ Set(o) \/ Count(o) \/ Push(o)
    \/ Health \/ Restart \/ RedisDown \/ RedisUp \/ Tick

Spec == Init /\ [][Next]_vars

(***************************************************************************)
(* Properties                                                              *)
(***************************************************************************)
TypeOK ==
    /\ pc \in [Ops -> {"new", "get", "scan", "set", "count", "push", "done", "lost"}]
    /\ key \in [Ops -> Key \cup {NoKey}]
    /\ \A o \in Ops : pc[o] # "new" => key[o] \in Key
    /\ answer \in [Ops -> Answer \cup {NoAnswer}]
    /\ exact \in [Key -> Entry \cup {NoEntry}]
    /\ lists \in [TaskTypes -> Seq(SemanticEntry)]
    /\ up \in BOOLEAN /\ client \in BOOLEAN /\ services \in BOOLEAN /\ embedder \in BOOLEAN
    /\ health \in {0, 200, 503}
    /\ now \in 0..MaxTime /\ faults \in 0..MaxFaults
    /\ setAt \in [Writes -> 0..Never] /\ order \in Seq(Writes)

\* The writes to key k that Redis holds as far as it has not expired them,
\* by position, and the response a read of k must find: of the latest one,
\* unless that has outlived the time to live of its task type.
WritesTo(k) == {i \in DOMAIN order : key[order[i]] = k}
LatestTo(k) == {order[i] : i \in {n \in WritesTo(k) : \A j \in WritesTo(k) : j <= n}}
Readable(k) == {w \in LatestTo(k) : now < setAt[w] + TTL[k.task]}

\* A lookup that reads the exact cache returns the response of the latest
\* write of its key, however writes to this and other keys interleave, until
\* it expires (requirements.md Property 1, write-then-read), and nothing else.
ExactReadsLatestWrite ==
    [][\A o \in Lookups : pc[o] = "get" /\ pc'[o] \in {"scan", "done"} =>
          {w \in {answer'[o].by} : answer'[o].hit = "exact"}
             = IF up /\ services THEN Readable(key[o]) ELSE {}]_vars

\* The semantic cache never holds a response that the exact cache did not
\* take first, under the same key, and never holds a write's response twice:
\* a write that fails half way leaves no semantic entry behind.
SemanticFollowsExact ==
    \A t \in TaskTypes : \A i \in DOMAIN lists[t] :
        LET entry == lists[t][i]
        IN  /\ setAt[entry.by] <= now
            /\ key[entry.by] = [prompt |-> entry.prompt, model |-> entry.model, task |-> t]
            /\ \A j \in DOMAIN lists[t] : lists[t][j].by = entry.by => j = i

\* A list outgrows MAX_SEMANTIC_ENTRIES by less than the number of writers:
\* the length is read in one command and the entry pushed in a later one.
OvershootBoundedByWriters ==
    \A t \in TaskTypes :
        Len(lists[t]) + Cardinality(Pushing(t)) <= MaxSemantic + MaxWriters - 1

\* A semantic hit is the response of a write of the same task type to a
\* prompt similar enough, and of all the prompts cached for that task type
\* the most similar (requirements 5.5 and 5.7), in whatever order they were pushed.
ServesTheBestMatch ==
    [][\A o \in Lookups : answer[o].hit # "semantic" /\ answer'[o].hit = "semantic" =>
          LET w == answer'[o].by
              similarity == Score[<<key[w].prompt, key[o].prompt>>]
          IN  /\ key[w].task = key[o].task
              /\ similarity >= Threshold
              /\ \A i \in DOMAIN lists[key[o].task] :
                    Score[<<lists[key[o].task][i].prompt, key[o].prompt>>] <= similarity]_vars
================================================================================
