-------------------------- MODULE CacheServiceProofs --------------------------
(***************************************************************************)
(* Proofs of what the runs check of the Cache Service, for every number of *)
(* calls, prompts and task types and every list limit: an exact read finds *)
(* the latest write of its key, the semantic cache follows the exact one,  *)
(* its hits are the best match, and its lists outgrow their limit by less  *)
(* than the number of writers.                                             *)
(***************************************************************************)
EXTENDS CacheService, FiniteSetTheorems, TLAPS

(***************************************************************************)
(* Types                                                                   *)
(***************************************************************************)
Places == {"new", "get", "scan", "set", "count", "push", "done", "lost"}

LEMMA AnswersTyped ==
    ASSUME TypeOK, NEW o \in Ops, NEW status \in {200, 422, 500, 503},
           NEW hit \in {"none", "exact", "semantic"}, NEW by \in Writes \cup {"none"},
           Answers(o, status, hit, by)
    PROVE  /\ pc' \in [Ops -> Places]
           /\ answer' \in [Ops -> Answer \cup {NoAnswer}]
<1>1. [status |-> status, hit |-> hit, by |-> by] \in Answer
  BY DEF Answer
<1>2. pc \in [Ops -> Places] /\ answer \in [Ops -> Answer \cup {NoAnswer}] /\ "done" \in Places
  BY DEF TypeOK, Places
<1> QED BY <1>1, <1>2 DEF Answers

LEMMA GotoTyped ==
    ASSUME TypeOK, NEW o \in Ops, NEW where \in Places, Goto(o, where)
    PROVE  pc' \in [Ops -> Places]
BY DEF TypeOK, Places, Goto

\* A call that answers or goes on changes no other call.
LEMMA OnlyItsOwn ==
    ASSUME TypeOK, NEW o \in Ops,
           \/ \E where \in Places : Goto(o, where) /\ UNCHANGED answer
           \/ \E status, hit, by : Answers(o, status, hit, by)
    PROVE  \A p \in Ops \ {o} : pc'[p] = pc[p] /\ answer'[p] = answer[p]
BY DEF TypeOK, Goto, Answers

\* Steps of a call that has its key.
LEMMA CallTyped ==
    ASSUME TypeOK, NEW o \in Ops, pc[o] # "new",
           \A p \in Ops \ {o} : pc'[p] = pc[p],
           pc' \in [Ops -> Places], answer' \in [Ops -> Answer \cup {NoAnswer}],
           exact' \in [Key -> Entry \cup {NoEntry}], lists' \in [TaskTypes -> Seq(SemanticEntry)],
           setAt' \in [Writes -> 0..Never], order' \in Seq(Writes),
           UNCHANGED <<key, up, process, health, now, faults>>
    PROVE  TypeOK'
BY DEF TypeOK, Places, process

LEMMA ReadTyped ==
    ASSUME TypeOK, NEW o \in Ops, pc[o] # "new",
           \A p \in Ops \ {o} : pc'[p] = pc[p],
           pc' \in [Ops -> Places], answer' \in [Ops -> Answer \cup {NoAnswer}],
           UNCHANGED <<key, redis, process, health, now, history, faults>>
    PROVE  TypeOK'
<1>1. /\ exact' \in [Key -> Entry \cup {NoEntry}] /\ lists' \in [TaskTypes -> Seq(SemanticEntry)]
      /\ setAt' \in [Writes -> 0..Never] /\ order' \in Seq(Writes)
  BY DEF TypeOK, redis, history
<1>2. UNCHANGED <<key, up, process, health, now, faults>>
  BY DEF redis
<1> QED BY <1>1, <1>2, CallTyped

LEMMA ReceiveTyped ==
    ASSUME TypeOK, NEW o \in Ops, NEW k \in Key,
           \/ o \in Lookups /\ ReceiveLookup(o, k)
           \/ o \in Writes /\ ReceiveWrite(o, k)
    PROVE  TypeOK'
<1>1. /\ key' = [key EXCEPT ![o] = k]
      /\ UNCHANGED <<redis, process, health, now, history, faults>>
      /\ \/ (Goto(o, "get") \/ Goto(o, "set")) /\ UNCHANGED answer
         \/ Answers(o, 422, "none", "none")
  BY DEF ReceiveLookup, ReceiveWrite
<1>2. pc' \in [Ops -> Places] /\ answer' \in [Ops -> Answer \cup {NoAnswer}]
  <2>1. CASE Answers(o, 422, "none", "none")
    BY <2>1, AnswersTyped
  <2>2. CASE (Goto(o, "get") \/ Goto(o, "set")) /\ UNCHANGED answer
    <3>1. answer' \in [Ops -> Answer \cup {NoAnswer}]
      BY <2>2 DEF TypeOK
    <3> QED BY <2>2, <3>1, GotoTyped DEF Places
  <2> QED BY <1>1, <2>1, <2>2
<1>3. key' \in [Ops -> Key \cup {NoKey}]
  BY <1>1 DEF TypeOK
<1>4. ASSUME NEW p \in Ops, pc'[p] # "new" PROVE key'[p] \in Key
  <2>1. CASE p = o
    BY <1>1, <2>1 DEF TypeOK
  <2>2. CASE p # o
    <3>1. pc'[p] = pc[p]
      BY <1>1, <2>2, OnlyItsOwn DEF Places
    <3> QED BY <1>1, <1>4, <2>2, <3>1 DEF TypeOK
  <2> QED BY <2>1, <2>2
<1> QED BY <1>1, <1>2, <1>3, <1>4 DEF TypeOK, Places, redis, process, history

LEMMA GetTyped ==
    ASSUME TypeOK, NEW o \in Lookups, Get(o)
    PROVE  TypeOK'
<1>1. /\ o \in Ops /\ pc[o] # "new" /\ UNCHANGED <<key, redis, process, health, now, history, faults>>
      /\ \/ Answers(o, 500, "none", "none") \/ Answers(o, 200, "none", "none")
         \/ Live(key[o]) /\ Answers(o, 200, "exact", exact[key[o]].by)
         \/ Goto(o, "scan") /\ UNCHANGED answer
  BY DEF Get, Ops
<1>2. CASE Answers(o, 500, "none", "none") \/ Answers(o, 200, "none", "none")
  <2>1. pc' \in [Ops -> Places] /\ answer' \in [Ops -> Answer \cup {NoAnswer}]
    BY <1>1, <1>2, AnswersTyped
  <2> QED BY <1>1, <1>2, <2>1, ReadTyped, OnlyItsOwn
<1>3. CASE Live(key[o]) /\ Answers(o, 200, "exact", exact[key[o]].by)
  <2>1. exact[key[o]].by \in Writes
    BY <1>1, <1>3 DEF TypeOK, Live, Entry
  <2>2. pc' \in [Ops -> Places] /\ answer' \in [Ops -> Answer \cup {NoAnswer}]
    BY <1>1, <1>3, <2>1, AnswersTyped
  <2> QED BY <1>1, <1>3, <2>2, ReadTyped, OnlyItsOwn
<1>4. CASE Goto(o, "scan") /\ UNCHANGED answer
  <2>1. pc' \in [Ops -> Places] /\ "scan" \in Places
    BY <1>1, <1>4, GotoTyped DEF Places
  <2>2. answer' \in [Ops -> Answer \cup {NoAnswer}]
    BY <1>4 DEF TypeOK
  <2> QED BY <1>1, <1>4, <2>1, <2>2, ReadTyped, OnlyItsOwn
<1> QED BY <1>1, <1>2, <1>3, <1>4

LEMMA EntryTyped ==
    ASSUME NEW list \in Seq(SemanticEntry), NEW i \in DOMAIN list
    PROVE  list[i].by \in Writes /\ list[i].prompt \in Prompts /\ list[i].model \in ModelNames
<1>1. list[i] \in SemanticEntry
  OBVIOUS
<1> QED BY <1>1 DEF SemanticEntry

LEMMA ScanTyped ==
    ASSUME TypeOK, NEW o \in Lookups, Scan(o)
    PROVE  TypeOK'
<1> DEFINE list == lists[key[o].task]
<1>1. /\ o \in Ops /\ pc[o] # "new" /\ UNCHANGED <<key, redis, process, health, now, history, faults>>
      /\ \/ Answers(o, 200, "none", "none")
         \/ \E i \in DOMAIN list : Answers(o, 200, "semantic", list[i].by)
  BY DEF Scan, Ops, Matches
<1>2. CASE Answers(o, 200, "none", "none")
  <2>1. pc' \in [Ops -> Places] /\ answer' \in [Ops -> Answer \cup {NoAnswer}]
    BY <1>1, <1>2, AnswersTyped
  <2> QED BY <1>1, <1>2, <2>1, ReadTyped, OnlyItsOwn
<1>3. ASSUME NEW i \in DOMAIN list, Answers(o, 200, "semantic", list[i].by)
      PROVE  TypeOK'
  <2>1. list \in Seq(SemanticEntry)
    BY <1>1 DEF TypeOK, Key
  <2>2. PICK by \in Writes : by = list[i].by
    BY <2>1, EntryTyped
  <2>3. Answers(o, 200, "semantic", by) /\ o \in Ops
    BY <1>1, <1>3, <2>2
  <2>4. pc' \in [Ops -> Places] /\ answer' \in [Ops -> Answer \cup {NoAnswer}]
    BY <2>3, AnswersTyped
  <2> QED BY <1>1, <1>3, <2>4, ReadTyped, OnlyItsOwn
<1> QED BY <1>1, <1>2, <1>3

LEMMA SetTyped ==
    ASSUME TypeOK, NEW o \in Writes, Set(o)
    PROVE  TypeOK'
<1>1. /\ o \in Ops /\ pc[o] # "new" /\ UNCHANGED <<key, lists, up, process, health, now, faults>>
  BY DEF Set, Ops
<1>2. pc' \in [Ops -> Places] /\ answer' \in [Ops -> Answer \cup {NoAnswer}]
      /\ \A p \in Ops \ {o} : pc'[p] = pc[p]
  <2>1. CASE \E status \in {200, 500, 503} : Answers(o, status, "none", "none")
    BY <1>1, <2>1, AnswersTyped, OnlyItsOwn
  <2>2. CASE Goto(o, "count") /\ UNCHANGED answer
    <3>1. answer' \in [Ops -> Answer \cup {NoAnswer}] /\ "count" \in Places
      BY <2>2 DEF TypeOK, Places
    <3> QED BY <1>1, <2>2, <3>1, GotoTyped, OnlyItsOwn
  <2> QED BY <2>1, <2>2 DEF Set, Stored
<1>3. /\ exact' \in [Key -> Entry \cup {NoEntry}] /\ setAt' \in [Writes -> 0..Never]
      /\ order' \in Seq(Writes)
  <2>1. CASE Stored(o)
    <3>1. /\ exact' = [exact EXCEPT ![key[o]] = [by |-> o, expires |-> now + TTL[key[o].task]]]
          /\ setAt' = [setAt EXCEPT ![o] = now]
          /\ order' = Append(order, o)
      BY <2>1 DEF Stored
    <3>2. key[o] \in Key /\ key[o].task \in TaskTypes
      BY <1>1 DEF TypeOK, Key
    <3>3. now \in Nat /\ TTL[key[o].task] \in Nat /\ now \in 0..Never
      BY <3>2, CacheAssumption DEF TypeOK, Never
    <3>4. [by |-> o, expires |-> now + TTL[key[o].task]] \in Entry
      BY <3>3 DEF Entry
    <3> QED BY <3>1, <3>2, <3>3, <3>4 DEF TypeOK
  <2>2. CASE UNCHANGED <<exact, history>>
    BY <2>2 DEF TypeOK, history
  <2> QED BY <2>1, <2>2 DEF Set
<1>4. lists' \in [TaskTypes -> Seq(SemanticEntry)]
  BY <1>1 DEF TypeOK
<1> QED BY <1>1, <1>2, <1>3, <1>4, CallTyped

LEMMA CountTyped ==
    ASSUME TypeOK, NEW o \in Writes, Count(o)
    PROVE  TypeOK'
<1>1. /\ o \in Ops /\ pc[o] # "new" /\ UNCHANGED <<key, redis, process, health, now, history, faults>>
  BY DEF Count, Ops
<1>2. pc' \in [Ops -> Places] /\ answer' \in [Ops -> Answer \cup {NoAnswer}]
      /\ \A p \in Ops \ {o} : pc'[p] = pc[p]
  <2>1. CASE Answers(o, 200, "none", "none")
    BY <1>1, <2>1, AnswersTyped, OnlyItsOwn
  <2>2. CASE Goto(o, "push") /\ UNCHANGED answer
    <3>1. answer' \in [Ops -> Answer \cup {NoAnswer}] /\ "push" \in Places
      BY <2>2 DEF TypeOK, Places
    <3> QED BY <1>1, <2>2, <3>1, GotoTyped, OnlyItsOwn
  <2> QED BY <2>1, <2>2 DEF Count
<1> QED BY <1>1, <1>2, ReadTyped

LEMMA PushTyped ==
    ASSUME TypeOK, NEW o \in Writes, Push(o)
    PROVE  TypeOK'
<1> DEFINE entry == [by |-> o, prompt |-> key[o].prompt, model |-> key[o].model]
           t == key[o].task
<1>1. /\ o \in Ops /\ pc[o] # "new" /\ UNCHANGED <<key, exact, up, process, health, now, history, faults>>
      /\ Answers(o, 200, "none", "none")
      /\ lists' = [lists EXCEPT ![t] = Append(@, entry)] \/ lists' = lists
  BY DEF Push, Ops
<1>2. pc' \in [Ops -> Places] /\ answer' \in [Ops -> Answer \cup {NoAnswer}]
      /\ \A p \in Ops \ {o} : pc'[p] = pc[p]
  BY <1>1, AnswersTyped, OnlyItsOwn
<1>3. lists' \in [TaskTypes -> Seq(SemanticEntry)]
  <2>1. key[o] \in Key
    BY <1>1 DEF TypeOK
  <2>2. entry \in SemanticEntry /\ t \in TaskTypes
    BY <2>1 DEF Key, SemanticEntry
  <2>3. lists \in [TaskTypes -> Seq(SemanticEntry)] /\ Append(lists[t], entry) \in Seq(SemanticEntry)
    BY <2>2 DEF TypeOK
  <2>4. CASE lists' = [lists EXCEPT ![t] = Append(@, entry)]
    BY <2>2, <2>3, <2>4
  <2> QED BY <1>1, <2>3, <2>4
<1>4. /\ exact' \in [Key -> Entry \cup {NoEntry}]
      /\ setAt' \in [Writes -> 0..Never] /\ order' \in Seq(Writes)
  BY <1>1 DEF TypeOK, history
<1>5. UNCHANGED <<key, up, process, health, now, faults>>
  BY <1>1
<1> QED BY <1>1, <1>2, <1>3, <1>4, <1>5, CallTyped

LEMMA FaultTyped ==
    ASSUME TypeOK, Fault
    PROVE  faults' \in 0..MaxFaults
BY CacheAssumption DEF TypeOK, Fault

LEMMA AmbientTyped ==
    ASSUME TypeOK, Health \/ Restart \/ RedisDown \/ RedisUp \/ Tick \/ UNCHANGED vars
    PROVE  TypeOK'
<1>1. CASE Health
  <2>1. client' \in BOOLEAN /\ health' \in {0, 200, 503}
    <3>1. client' = client \/ client' = TRUE
      BY <1>1 DEF Health
    <3>2. health' \in {200, 503}
      BY <1>1 DEF Health
    <3>3. client \in BOOLEAN
      BY DEF TypeOK
    <3>4. client' \in BOOLEAN
      BY <3>1, <3>3
    <3> QED BY <3>2, <3>4
  <2> QED BY <1>1, <2>1 DEF TypeOK, Health, redis, history
<1>2. CASE Restart
  BY <1>2, FaultTyped DEF TypeOK, Restart, redis, history
<1>3. CASE RedisDown
  <2>1. faults' \in 0..MaxFaults /\ up' \in BOOLEAN
    BY <1>3, FaultTyped DEF RedisDown
  <2> QED BY <1>3, <2>1 DEF TypeOK, RedisDown, process, history
<1>4. CASE RedisUp
  <2>1. CASE UNCHANGED <<exact, lists, order>>
    BY <1>4, <2>1 DEF TypeOK, RedisUp, process
  <2>2. CASE /\ exact' = [k \in Key |-> NoEntry]
             /\ lists' = [t \in TaskTypes |-> <<>>] /\ order' = <<>>
    <3>1. exact' \in [Key -> Entry \cup {NoEntry}]
      BY <2>2
    <3>2. lists' \in [TaskTypes -> Seq(SemanticEntry)] /\ order' \in Seq(Writes)
      BY <2>2
    <3> QED BY <1>4, <3>1, <3>2 DEF TypeOK, RedisUp, process
  <2> QED BY <1>4, <2>1, <2>2 DEF RedisUp
<1>5. CASE Tick
  <2>1. now' \in 0..MaxTime
    BY <1>5, CacheAssumption DEF TypeOK, Tick
  <2> QED BY <1>5, <2>1 DEF TypeOK, Tick, redis, process, history
<1>6. CASE UNCHANGED vars
  BY <1>6 DEF TypeOK, vars, redis, process, history
<1> QED BY <1>1, <1>2, <1>3, <1>4, <1>5, <1>6

LEMMA InitTyped == Init => TypeOK
BY CacheAssumption DEF Init, TypeOK, NoAnswer, Never

LEMMA TypedStep == TypeOK /\ [Next]_vars => TypeOK'
<1> SUFFICES ASSUME TypeOK, [Next]_vars PROVE TypeOK'
  OBVIOUS
<1>1. ASSUME NEW o \in Lookups, (\E k \in Key : ReceiveLookup(o, k)) \/ Get(o) \/ Scan(o)
      PROVE  TypeOK'
  BY <1>1, ReceiveTyped, GetTyped, ScanTyped DEF Ops
<1>2. ASSUME NEW o \in Writes, (\E k \in Key : ReceiveWrite(o, k)) \/ Set(o) \/ Count(o) \/ Push(o)
      PROVE  TypeOK'
  BY <1>2, ReceiveTyped, SetTyped, CountTyped, PushTyped DEF Ops
<1> QED BY <1>1, <1>2, AmbientTyped DEF Next

(***************************************************************************)
(* What a write leaves behind is settled                                   *)
(***************************************************************************)
\* A write that has stored its exact entry, or has ended, keeps its key and the
\* time it stored at, and does not store again.
LEMMA SettledStays ==
    ASSUME TypeOK, [Next]_vars, NEW w \in Writes, pc[w] \notin {"new", "set"}
    PROVE  /\ key'[w] = key[w] /\ setAt'[w] = setAt[w] /\ pc'[w] \notin {"new", "set"}
           /\ pc[w] = "done" => pc'[w] = "done"
           /\ pc'[w] \in {"count", "push"} => pc[w] \in {"count", "push"}
<1>1. /\ w \in Ops /\ pc \in [Ops -> Places] /\ key \in [Ops -> Key \cup {NoKey}]
      /\ setAt \in [Writes -> 0..Never]
  BY DEF TypeOK, Places, Ops
<1>2. ASSUME NEW o \in Lookups, (\E k \in Key : ReceiveLookup(o, k)) \/ Get(o) \/ Scan(o)
      PROVE  pc'[w] = pc[w] /\ key'[w] = key[w] /\ setAt'[w] = setAt[w]
  <2>1. o # w
    BY CacheAssumption
  <2> QED BY <1>1, <1>2, <2>1 DEF ReceiveLookup, Get, Scan, Goto, Answers, history
<1>3. ASSUME NEW o \in Writes, NEW k \in Key, ReceiveWrite(o, k)
      PROVE  pc'[w] = pc[w] /\ key'[w] = key[w] /\ setAt'[w] = setAt[w]
  <2>1. o # w
    BY <1>3 DEF ReceiveWrite
  <2> QED BY <1>1, <1>3, <2>1 DEF ReceiveWrite, Goto, Answers, history
<1>4. ASSUME NEW o \in Writes, Set(o)
      PROVE  pc'[w] = pc[w] /\ key'[w] = key[w] /\ setAt'[w] = setAt[w]
  <2>1. o # w
    BY <1>4 DEF Set
  <2>2. pc'[w] = pc[w]
    BY <1>1, <1>4, <2>1 DEF Set, Stored, Goto, Answers
  <2>3. setAt'[w] = setAt[w]
    BY <1>1, <1>4, <2>1 DEF Set, Stored, history
  <2> QED BY <1>4, <2>2, <2>3 DEF Set
<1>5. ASSUME NEW o \in Writes, Count(o) \/ Push(o)
      PROVE  /\ key'[w] = key[w] /\ setAt'[w] = setAt[w]
             /\ pc'[w] = pc[w] \/ (pc[w] \in {"count", "push"} /\ pc'[w] \in {"push", "done"})
  BY <1>1, <1>5 DEF Count, Push, Goto, Answers, history
<1>6. ASSUME Health \/ Restart \/ RedisDown \/ RedisUp \/ Tick \/ UNCHANGED vars
      PROVE  /\ key'[w] = key[w] /\ setAt'[w] = setAt[w]
             /\ pc'[w] = pc[w] \/ (pc[w] \notin {"new", "done"} /\ pc'[w] = "lost")
  BY <1>1, <1>6 DEF Health, Restart, RedisDown, RedisUp, Tick, vars, history
<1> QED BY <1>2, <1>3, <1>4, <1>5, <1>6 DEF Next

\* The clock never runs back.
LEMMA TimePasses ==
    ASSUME TypeOK, [Next]_vars
    PROVE  now \in Nat /\ now' \in Nat /\ now <= now'
<1>1. now \in Nat
  BY CacheAssumption DEF TypeOK
<1>2. CASE Tick
  BY <1>1, <1>2 DEF Tick
<1>3. CASE UNCHANGED now
  BY <1>1, <1>3
<1>4. Tick \/ UNCHANGED now
  BY DEF Next, ReceiveLookup, Get, Scan, ReceiveWrite, Set, Count, Push, Health, Restart,
         RedisDown, RedisUp, vars
<1> QED BY <1>2, <1>3, <1>4

(***************************************************************************)
(* The semantic cache follows the exact one                                *)
(***************************************************************************)
\* A write reaches the semantic cache by way of the exact one.
Passed(w) == pc[w] \in {"count", "push"} => setAt[w] <= now

Cached(e, t) ==
    /\ pc[e.by] = "done" /\ setAt[e.by] <= now
    /\ key[e.by] = [prompt |-> e.prompt, model |-> e.model, task |-> t]

Once(list) == \A i, j \in DOMAIN list : list[i].by = list[j].by => i = j

FollowInv ==
    /\ \A w \in Writes : Passed(w)
    /\ \A t \in TaskTypes : Once(lists[t]) /\ \A i \in DOMAIN lists[t] : Cached(lists[t][i], t)

LEMMA PassedKept ==
    ASSUME TypeOK, FollowInv, [Next]_vars, NEW w \in Writes
    PROVE  Passed(w)'
<1>1. CASE pc[w] \notin {"new", "set"}
  <2>1. setAt[w] \in Nat
    BY DEF TypeOK
  <2> QED BY <1>1, <2>1, SettledStays, TimePasses DEF FollowInv, Passed
<1>2. CASE pc[w] \in {"new", "set"} /\ pc'[w] = pc[w]
  BY <1>2 DEF Passed
<1>3. CASE pc[w] \in {"new", "set"} /\ pc'[w] # pc[w]
  <2>1. w \in Ops /\ pc \in [Ops -> Places] /\ setAt \in [Writes -> 0..Never]
    BY DEF Ops, TypeOK, Places
  <2>2. ASSUME pc'[w] \in {"count", "push"} PROVE Set(w)
    <3>1. ASSUME NEW o \in Lookups, (\E k \in Key : ReceiveLookup(o, k)) \/ Get(o) \/ Scan(o)
          PROVE  FALSE
      <4>1. o # w
        BY CacheAssumption
      <4> QED BY <1>3, <2>1, <3>1, <4>1 DEF ReceiveLookup, Get, Scan, Goto, Answers
    <3>2. ASSUME NEW o \in Writes, (\E k \in Key : ReceiveWrite(o, k)) \/ Count(o) \/ Push(o)
          PROVE  FALSE
      BY <1>3, <2>1, <2>2, <3>2 DEF ReceiveWrite, Count, Push, Goto, Answers
    <3>3. ASSUME NEW o \in Writes \ {w}, Set(o)
          PROVE  FALSE
      BY <1>3, <2>1, <3>3 DEF Set, Stored, Goto, Answers
    <3>4. CASE Health \/ Restart \/ RedisDown \/ RedisUp \/ Tick \/ UNCHANGED vars
      BY <1>3, <2>1, <2>2, <3>4 DEF Health, Restart, RedisDown, RedisUp, Tick, vars
    <3> QED BY <3>1, <3>2, <3>3, <3>4 DEF Next
  <2>3. ASSUME pc'[w] \in {"count", "push"} PROVE setAt'[w] <= now'
    <3>1. Set(w) /\ now \in Nat
      BY <2>2, <2>3, TimePasses
    <3>2. ASSUME UNCHANGED <<exact, history>> PROVE FALSE
      BY <2>1, <2>3, <3>1, <3>2 DEF Set, Stored, Answers, history
    <3>3. setAt' = [setAt EXCEPT ![w] = now] /\ now' = now
      BY <3>1, <3>2 DEF Set, Stored
    <3> QED BY <2>1, <3>1, <3>3
  <2> QED BY <2>3 DEF Passed
<1> QED BY <1>1, <1>2, <1>3

LEMMA CachedStays ==
    ASSUME TypeOK, [Next]_vars, NEW e, e.by \in Writes, NEW t, Cached(e, t)
    PROVE  Cached(e, t)'
<1>1. setAt[e.by] \in Nat
  BY DEF TypeOK
<1>2. PICK w \in Writes : w = e.by
  OBVIOUS
<1> QED BY <1>1, <1>2, SettledStays, TimePasses DEF Cached

LEMMA ListsStay ==
    ASSUME TypeOK, FollowInv, [Next]_vars, NEW t \in TaskTypes, lists'[t] = lists[t]
    PROVE  Once(lists[t])' /\ \A i \in DOMAIN lists'[t] : Cached(lists[t][i], t)'
<1>1. lists[t] \in Seq(SemanticEntry)
  BY DEF TypeOK
<1>2. PICK list \in Seq(SemanticEntry) : list = lists[t] /\ list = lists'[t]
  BY <1>1
<1>3. ASSUME NEW i \in DOMAIN list PROVE Cached(list[i], t)'
  <2>1. list[i].by \in Writes
    BY EntryTyped
  <2>2. Cached(list[i], t)
    BY <1>2 DEF FollowInv
  <2> QED BY <2>1, <2>2, CachedStays
<1> QED BY <1>2, <1>3 DEF FollowInv, Once, Cached

LEMMA PushFollows ==
    ASSUME TypeOK, FollowInv, [Next]_vars, NEW o \in Writes, Push(o), NEW t \in TaskTypes
    PROVE  Once(lists[t])' /\ \A i \in DOMAIN lists'[t] : Cached(lists[t][i], t)'
<1> DEFINE entry == [by |-> o, prompt |-> key[o].prompt, model |-> key[o].model]
<1>1. CASE lists'[t] = lists[t]
  BY <1>1, ListsStay
<1>2. CASE lists'[t] # lists[t]
  <2>1. key[o] \in Key /\ pc[o] = "push" /\ o \in Ops
    BY DEF TypeOK, Push, Ops
  <2>2. t = key[o].task /\ lists'[t] = Append(lists[t], entry)
    BY <1>2 DEF Push, TypeOK
  <2>3. PICK list \in Seq(SemanticEntry) : list = lists[t]
    BY DEF TypeOK
  <2>4. PICK e \in SemanticEntry : e = entry
    BY <2>1 DEF Key, SemanticEntry
  <2>5. Cached(e, t)'
    <3>1. key'[o] = key[o] /\ setAt'[o] = setAt[o] /\ now' = now /\ pc'[o] = "done"
      BY <2>1 DEF Push, Answers, history, TypeOK
    <3>2. setAt[o] <= now
      BY <2>1 DEF FollowInv, Passed
    <3>3. key[o] = [prompt |-> key[o].prompt, model |-> key[o].model, task |-> t]
      BY <2>1, <2>2 DEF Key
    <3>4. e.by = o /\ e.prompt = key[o].prompt /\ e.model = key[o].model
      BY <2>4
    <3> QED BY <3>1, <3>2, <3>3, <3>4 DEF Cached
  <2>6. \A i \in DOMAIN list : list[i].by \in Writes /\ list[i].by # o /\ Cached(list[i], t)'
    <3> SUFFICES ASSUME NEW i \in DOMAIN list
                 PROVE  list[i].by \in Writes /\ list[i].by # o /\ Cached(list[i], t)'
      OBVIOUS
    <3>1. list[i].by \in Writes
      BY EntryTyped
    <3>2. Cached(list[i], t)
      BY <2>3 DEF FollowInv
    <3>3. list[i].by # o
      BY <2>1, <3>2 DEF Cached
    <3> QED BY <3>1, <3>2, <3>3, CachedStays
  <2>7. PICK longer : longer = Append(list, e)
    OBVIOUS
  <2>8. /\ longer \in Seq(SemanticEntry) /\ DOMAIN longer = 1..(Len(list) + 1)
        /\ DOMAIN list = 1..Len(list) /\ Len(list) \in Nat
        /\ longer[Len(list) + 1] = e
        /\ \A i \in 1..Len(list) : longer[i] = list[i]
    BY <2>7
  <2>9. \A i \in DOMAIN longer : Cached(longer[i], t)'
    <3> SUFFICES ASSUME NEW i \in DOMAIN longer PROVE Cached(longer[i], t)'
      OBVIOUS
    <3>1. CASE i = Len(list) + 1
      BY <2>5, <2>8, <3>1
    <3>2. CASE i \in DOMAIN list
      BY <2>6, <2>8, <3>2
    <3> QED BY <2>8, <3>1, <3>2
  <2>10. Once(longer)
    <3>1. Once(list)
      BY <2>3 DEF FollowInv
    <3>2. e.by = o
      BY <2>4
    <3> QED BY <2>6, <2>8, <3>1, <3>2 DEF Once
  <2>11. lists'[t] = longer
    BY <2>2, <2>3, <2>4, <2>7
  <2> QED BY <2>9, <2>10, <2>11 DEF Once, Cached
<1> QED BY <1>1, <1>2

LEMMA FollowStep ==
    ASSUME TypeOK, FollowInv, [Next]_vars
    PROVE  FollowInv'
<1>1. ASSUME NEW t \in TaskTypes
      PROVE  Once(lists[t])' /\ \A i \in DOMAIN lists'[t] : Cached(lists[t][i], t)'
  <2>1. CASE lists'[t] = lists[t]
    BY <2>1, ListsStay
  <2>2. CASE lists'[t] = << >>
    BY <2>2 DEF Once
  <2>3. ASSUME NEW o \in Writes, Push(o)
        PROVE  <1>1!2
    BY <2>3, PushFollows
  <2>4. (\E o \in Writes : Push(o)) \/ lists'[t] = lists[t] \/ lists'[t] = << >>
    BY DEF Next, ReceiveLookup, Get, Scan, ReceiveWrite, Set, Count, Health, Restart,
           RedisDown, RedisUp, Tick, vars, redis
  <2> QED BY <2>1, <2>2, <2>3, <2>4
<1> QED BY <1>1, PassedKept DEF FollowInv

(***************************************************************************)
(* The lists and their limit                                               *)
(***************************************************************************)
BoundInv == Cardinality(Writing) <= MaxWriters /\ OvershootBoundedByWriters

LEMMA WritersFinite ==
    /\ IsFiniteSet(Writing) /\ Cardinality(Writing) \in Nat
    /\ \A t : IsFiniteSet(Pushing(t)) /\ Cardinality(Pushing(t)) \in Nat
<1>1. Writing \in SUBSET Writes /\ \A t : Pushing(t) \in SUBSET Writes
  BY DEF Writing, Pushing
<1> QED BY <1>1, FS_Subset, FS_CardinalityType, CacheAssumption

LEMMA SmallerSet ==
    ASSUME NEW S, NEW T, S \subseteq T, IsFiniteSet(T)
    PROVE  Cardinality(S) <= Cardinality(T) /\ Cardinality(S) \in Nat /\ Cardinality(T) \in Nat
BY FS_Subset, FS_CardinalityType

\* Steps that start no write and let none push.
LEMMA BoundStutters ==
    ASSUME TypeOK, BoundInv, [Next]_vars,
           \A t \in TaskTypes : lists'[t] = lists[t] \/ lists'[t] = << >>,
           \A w \in Writes : pc'[w] \in InFlight => pc[w] \in InFlight,
           \A w \in Writes : pc'[w] = "push" => pc[w] = "push" /\ key'[w] = key[w]
    PROVE  BoundInv'
<1>1. Writing' \subseteq Writing /\ \A t : Pushing(t)' \subseteq Pushing(t)
  BY DEF Writing, Pushing
<1>2. Cardinality(Writing') <= MaxWriters
  BY <1>1, SmallerSet, WritersFinite, CacheAssumption DEF BoundInv
<1>3. ASSUME NEW t \in TaskTypes
      PROVE  Len(lists'[t]) + Cardinality(Pushing(t)') <= MaxSemantic + MaxWriters - 1
  <2>1. Cardinality(Pushing(t)') <= Cardinality(Pushing(t)) /\ Cardinality(Pushing(t)') \in Nat
        /\ Cardinality(Pushing(t)) \in Nat
    BY <1>1, SmallerSet, WritersFinite
  <2>2. Len(lists'[t]) <= Len(lists[t]) /\ Len(lists'[t]) \in Nat /\ Len(lists[t]) \in Nat
    BY DEF TypeOK
  <2>3. Len(lists[t]) + Cardinality(Pushing(t)) <= MaxSemantic + MaxWriters - 1
    BY DEF BoundInv, OvershootBoundedByWriters
  <2> QED BY <2>1, <2>2, <2>3, CacheAssumption
<1> QED BY <1>2, <1>3 DEF BoundInv, OvershootBoundedByWriters

LEMMA ReceiveBounded ==
    ASSUME TypeOK, BoundInv, NEW o \in Writes, NEW k \in Key, ReceiveWrite(o, k)
    PROVE  BoundInv'
<1>1. /\ pc[o] = "new" /\ lists' = lists /\ o \in Ops /\ pc \in [Ops -> Places]
      /\ key' = [key EXCEPT ![o] = k] /\ key \in [Ops -> Key \cup {NoKey}]
  BY DEF ReceiveWrite, redis, TypeOK, Places, Ops
<1>2. pc'[o] \in {"set", "done"} /\ \A w \in Writes \ {o} : pc'[w] = pc[w] /\ key'[w] = key[w]
  BY <1>1 DEF ReceiveWrite, Goto, Answers, Ops
<1>3. \A t : Pushing(t)' \subseteq Pushing(t)
  BY <1>1, <1>2 DEF Pushing
<1>4. Cardinality(Writing') <= MaxWriters
  <2>1. CASE pc'[o] = "set"
    <3>1. Cardinality(Writing) < MaxWriters
      BY <1>1, <2>1 DEF ReceiveWrite, Answers
    <3>2. Writing' \subseteq Writing \cup {o}
      BY <1>2 DEF Writing
    <3>3. IsFiniteSet(Writing \cup {o}) /\ Cardinality(Writing \cup {o}) <= Cardinality(Writing) + 1
      <4>1. PICK S : S = Writing
        OBVIOUS
      <4>2. IsFiniteSet(S) /\ Cardinality(S) \in Nat
        BY <4>1, WritersFinite
      <4>3. /\ IsFiniteSet(S \cup {o})
            /\ Cardinality(S \cup {o}) = IF o \in S THEN Cardinality(S) ELSE Cardinality(S) + 1
        BY <4>2, FS_AddElement, Zenon
      <4> QED BY <4>1, <4>2, <4>3
    <3>4. Cardinality(Writing') <= Cardinality(Writing \cup {o}) /\ Cardinality(Writing') \in Nat
          /\ Cardinality(Writing \cup {o}) \in Nat
      BY <3>2, <3>3, SmallerSet
    <3> QED BY <3>1, <3>3, <3>4, WritersFinite, CacheAssumption
  <2>2. CASE pc'[o] = "done"
    <3>1. Writing' \subseteq Writing
      BY <1>2, <2>2 DEF Writing, InFlight
    <3> QED BY <3>1, SmallerSet, WritersFinite, CacheAssumption DEF BoundInv
  <2> QED BY <1>2, <2>1, <2>2
<1>5. ASSUME NEW t \in TaskTypes
      PROVE  Len(lists'[t]) + Cardinality(Pushing(t)') <= MaxSemantic + MaxWriters - 1
  <2>1. Cardinality(Pushing(t)') <= Cardinality(Pushing(t)) /\ Cardinality(Pushing(t)') \in Nat
        /\ Cardinality(Pushing(t)) \in Nat
    BY <1>3, SmallerSet, WritersFinite
  <2>2. Len(lists'[t]) = Len(lists[t]) /\ Len(lists[t]) \in Nat
    BY <1>1 DEF TypeOK
  <2>3. Len(lists[t]) + Cardinality(Pushing(t)) <= MaxSemantic + MaxWriters - 1
    BY DEF BoundInv, OvershootBoundedByWriters
  <2> QED BY <2>1, <2>2, <2>3, CacheAssumption
<1> QED BY <1>4, <1>5 DEF BoundInv, OvershootBoundedByWriters

\* The length is read while all that may still push are writers in flight, and
\* the one that reads is among them.
LEMMA CountBounded ==
    ASSUME TypeOK, BoundInv, NEW o \in Writes, Count(o)
    PROVE  BoundInv'
<1>1. /\ pc[o] = "count" /\ lists' = lists /\ key' = key /\ o \in Ops /\ pc \in [Ops -> Places]
  BY DEF Count, redis, TypeOK, Places, Ops
<1>2. pc'[o] \in {"push", "done"} /\ \A w \in Writes \ {o} : pc'[w] = pc[w]
  BY <1>1 DEF Count, Goto, Answers, Ops
<1>3. Writing' \subseteq Writing /\ Cardinality(Writing') <= MaxWriters
  <2>1. Writing' \subseteq Writing
    BY <1>1, <1>2 DEF Writing, InFlight
  <2> QED BY <2>1, SmallerSet, WritersFinite, CacheAssumption DEF BoundInv
<1>4. ASSUME NEW t \in TaskTypes
      PROVE  Len(lists'[t]) + Cardinality(Pushing(t)') <= MaxSemantic + MaxWriters - 1
  <2>1. Len(lists'[t]) = Len(lists[t]) /\ Len(lists[t]) \in Nat
    BY <1>1 DEF TypeOK
  <2>2. CASE pc'[o] = "push" /\ key[o].task = t
    <3>1. Len(lists[t]) < MaxSemantic
      BY <1>1, <2>2 DEF Count, HasRoom, Answers
    <3>2. Pushing(t)' \subseteq Writing'
      BY DEF Pushing, Writing, InFlight
    <3>3. IsFiniteSet(Writing') /\ Cardinality(Writing') \in Nat
      BY <1>3, FS_Subset, FS_CardinalityType, WritersFinite
    <3>4. Cardinality(Pushing(t)') <= Cardinality(Writing') /\ Cardinality(Pushing(t)') \in Nat
      BY <3>2, <3>3, SmallerSet
    <3> QED BY <1>3, <2>1, <3>1, <3>3, <3>4, CacheAssumption
  <2>3. CASE ~(pc'[o] = "push" /\ key[o].task = t)
    <3>1. Pushing(t)' \subseteq Pushing(t)
      BY <1>1, <1>2, <2>3 DEF Pushing
    <3>2. Cardinality(Pushing(t)') <= Cardinality(Pushing(t)) /\ Cardinality(Pushing(t)') \in Nat
          /\ Cardinality(Pushing(t)) \in Nat
      BY <3>1, SmallerSet, WritersFinite
    <3>3. Len(lists[t]) + Cardinality(Pushing(t)) <= MaxSemantic + MaxWriters - 1
      BY DEF BoundInv, OvershootBoundedByWriters
    <3> QED BY <2>1, <3>2, <3>3, CacheAssumption
  <2> QED BY <2>2, <2>3
<1> QED BY <1>3, <1>4 DEF BoundInv, OvershootBoundedByWriters

LEMMA PushBounded ==
    ASSUME TypeOK, BoundInv, NEW o \in Writes, Push(o)
    PROVE  BoundInv'
<1>1. /\ pc[o] = "push" /\ key' = key /\ o \in Ops /\ pc \in [Ops -> Places]
      /\ key[o] \in Key
  BY DEF Push, TypeOK, Places, Ops
<1>2. pc'[o] = "done" /\ \A w \in Writes \ {o} : pc'[w] = pc[w]
  BY <1>1 DEF Push, Answers, Ops
<1>3. Cardinality(Writing') <= MaxWriters
  <2>1. Writing' \subseteq Writing
    BY <1>1, <1>2 DEF Writing, InFlight
  <2> QED BY <2>1, SmallerSet, WritersFinite, CacheAssumption DEF BoundInv
<1>4. ASSUME NEW t \in TaskTypes
      PROVE  Len(lists'[t]) + Cardinality(Pushing(t)') <= MaxSemantic + MaxWriters - 1
  <2>1. Len(lists[t]) + Cardinality(Pushing(t)) <= MaxSemantic + MaxWriters - 1
    BY DEF BoundInv, OvershootBoundedByWriters
  <2>2. PICK P : P = Pushing(t)
    OBVIOUS
  <2>3. Pushing(t)' = P \ {o} /\ IsFiniteSet(P) /\ Cardinality(P) \in Nat
    BY <1>1, <1>2, <2>2, WritersFinite DEF Pushing
  <2>4. /\ IsFiniteSet(P \ {o})
        /\ Cardinality(P \ {o}) = IF o \in P THEN Cardinality(P) - 1 ELSE Cardinality(P)
    BY <2>3, FS_RemoveElement, Zenon
  <2>5. CASE t = key[o].task
    <3>1. o \in P
      BY <1>1, <2>2, <2>5 DEF Pushing
    <3>2. Len(lists'[t]) <= Len(lists[t]) + 1 /\ Len(lists[t]) \in Nat /\ Len(lists'[t]) \in Nat
      BY <1>1, <2>5 DEF Push, TypeOK, Key
    <3> QED BY <2>1, <2>2, <2>3, <2>4, <3>1, <3>2, CacheAssumption
  <2>6. CASE t # key[o].task
    <3>1. o \notin P
      BY <1>1, <2>2, <2>6 DEF Pushing
    <3>2. lists'[t] = lists[t] /\ Len(lists[t]) \in Nat
      BY <2>6 DEF Push, TypeOK
    <3> QED BY <2>1, <2>2, <2>3, <2>4, <3>1, <3>2, CacheAssumption
  <2> QED BY <2>5, <2>6
<1> QED BY <1>3, <1>4 DEF BoundInv, OvershootBoundedByWriters

LEMMA BoundStep ==
    ASSUME TypeOK, BoundInv, [Next]_vars
    PROVE  BoundInv'
<1>1. pc \in [Ops -> Places] /\ Lookups \subseteq Ops /\ Writes \subseteq Ops
  BY DEF TypeOK, Places, Ops
<1>2. ASSUME NEW o \in Lookups, (\E k \in Key : ReceiveLookup(o, k)) \/ Get(o) \/ Scan(o)
      PROVE  BoundInv'
  <2>1. lists' = lists /\ \A w \in Writes : pc'[w] = pc[w] /\ key'[w] = key[w]
    <3>1. \A w \in Writes : w # o
      BY CacheAssumption
    <3> QED BY <1>1, <1>2, <3>1 DEF ReceiveLookup, Get, Scan, Goto, Answers, redis, TypeOK
  <2> QED BY <2>1, BoundStutters
<1>3. ASSUME NEW o \in Writes, Set(o)
      PROVE  BoundInv'
  <2>1. lists' = lists /\ key' = key /\ pc[o] = "set" /\ pc'[o] \in {"done", "count"}
        /\ \A w \in Writes \ {o} : pc'[w] = pc[w]
    BY <1>1, <1>3 DEF Set, Stored, Goto, Answers
  <2> QED BY <2>1, BoundStutters DEF InFlight
<1>4. CASE Health \/ Restart \/ RedisDown \/ RedisUp \/ Tick \/ UNCHANGED vars
  <2>1. \A t \in TaskTypes : lists'[t] = lists[t] \/ lists'[t] = << >>
    BY <1>4 DEF Health, Restart, RedisDown, RedisUp, Tick, vars, redis
  <2>2. key' = key /\ \A w \in Writes : pc'[w] \in {pc[w], "lost"}
    BY <1>1, <1>4 DEF Health, Restart, RedisDown, RedisUp, Tick, vars
  <2> QED BY <2>1, <2>2, BoundStutters DEF InFlight
<1> QED BY <1>2, <1>3, <1>4, ReceiveBounded, CountBounded, PushBounded DEF Next

(***************************************************************************)
(* What a read of the exact cache finds                                    *)
(***************************************************************************)
\* n is the place of the latest write to k in the order.
Latest(n, k) == n \in WritesTo(k) /\ \A j \in WritesTo(k) : j <= n

EntryOf(w, k) == [by |-> w, expires |-> setAt[w] + TTL[k.task]]

\* Redis holds under a key what the latest write to it left, and nothing under
\* a key that none was made to.
HoldsLatest(k) ==
    \/ WritesTo(k) = {} /\ exact[k] = NoEntry
    \/ \E n \in DOMAIN order : Latest(n, k) /\ exact[k] = EntryOf(order[n], k)

ExactInv ==
    /\ \A i \in DOMAIN order : pc[order[i]] \notin {"new", "set"}
    /\ \A k \in Key : HoldsLatest(k)
    /\ \A o \in Ops : pc[o] # "done" => answer[o] = NoAnswer

LEMMA OrderTyped ==
    ASSUME TypeOK
    PROVE  /\ order \in Seq(Writes) /\ Len(order) \in Nat /\ DOMAIN order = 1..Len(order)
           /\ \A i \in DOMAIN order : order[i] \in Writes
BY DEF TypeOK

\* Steps that store nothing and lose nothing.
LEMMA HoldsOn ==
    ASSUME TypeOK, ExactInv, [Next]_vars, UNCHANGED exact, UNCHANGED order
    PROVE  /\ \A i \in DOMAIN order' : pc'[order'[i]] \notin {"new", "set"}
           /\ \A k \in Key : HoldsLatest(k)'
<1>1. \A i \in DOMAIN order : /\ pc'[order[i]] \notin {"new", "set"}
                              /\ key'[order[i]] = key[order[i]] /\ setAt'[order[i]] = setAt[order[i]]
  BY OrderTyped, SettledStays DEF ExactInv
<1>2. ASSUME NEW k \in Key PROVE HoldsLatest(k)'
  <2>1. HoldsLatest(k)
    BY DEF ExactInv
  <2>2. WritesTo(k)' = WritesTo(k)
    BY <1>1 DEF WritesTo
  <2>3. \A n : Latest(n, k)' <=> Latest(n, k)
    BY <2>2 DEF Latest
  <2>4. \A n \in DOMAIN order : EntryOf(order[n], k)' = EntryOf(order[n], k)
    BY <1>1 DEF EntryOf
  <2> QED BY <2>1, <2>2, <2>3, <2>4 DEF HoldsLatest
<1> QED BY <1>1, <1>2

LEMMA StoredHolds ==
    ASSUME TypeOK, ExactInv, [Next]_vars, NEW o \in Writes, Set(o), Stored(o)
    PROVE  /\ \A i \in DOMAIN order' : pc'[order'[i]] \notin {"new", "set"}
           /\ \A k \in Key : HoldsLatest(k)'
<1>0. PICK n \in Nat : n = Len(order) + 1
  BY OrderTyped
<1>1. /\ o \in Ops /\ pc[o] = "set" /\ key[o] \in Key /\ key' = key
      /\ exact' = [exact EXCEPT ![key[o]] = [by |-> o, expires |-> now + TTL[key[o].task]]]
      /\ setAt' = [setAt EXCEPT ![o] = now]
      /\ order' = Append(order, o)
      /\ pc' = [pc EXCEPT ![o] = "done"] \/ pc' = [pc EXCEPT ![o] = "count"]
  BY DEF Set, Stored, Goto, Answers, TypeOK, Ops
<1>2. /\ DOMAIN order' = 1..n /\ DOMAIN order = 1..Len(order) /\ Len(order) \in Nat
      /\ order'[n] = o /\ \A i \in DOMAIN order : order'[i] = order[i] /\ order[i] \in Writes
      /\ DOMAIN order' = DOMAIN order \cup {n}
  BY <1>0, <1>1, OrderTyped
<1>3. \A i \in DOMAIN order : /\ pc'[order[i]] \notin {"new", "set"} /\ order[i] # o
                              /\ setAt'[order[i]] = setAt[order[i]]
  BY <1>1, <1>2, SettledStays DEF ExactInv
<1>4. setAt'[o] = now /\ pc'[o] \notin {"new", "set"}
  BY <1>1 DEF TypeOK
<1>5. ASSUME NEW k \in Key PROVE HoldsLatest(k)'
  <2>1. CASE k = key[o]
    <3>1. WritesTo(k)' = WritesTo(k) \cup {n} /\ WritesTo(k) \subseteq 1..Len(order)
      BY <1>1, <1>2, <2>1 DEF WritesTo
    <3>2. Latest(n, k)'
      BY <1>0, <1>2, <3>1 DEF Latest
    <3>3. exact'[k] = [by |-> o, expires |-> now + TTL[k.task]]
      BY <1>1, <2>1 DEF TypeOK
    <3>4. exact'[k] = EntryOf(order[n], k)'
      BY <1>2, <1>4, <3>3 DEF EntryOf
    <3> QED BY <1>2, <3>2, <3>4 DEF HoldsLatest
  <2>2. CASE k # key[o]
    <3>1. WritesTo(k)' = WritesTo(k) /\ WritesTo(k) \subseteq DOMAIN order
      BY <1>1, <1>2, <2>2 DEF WritesTo
    <3>2. \A i : Latest(i, k)' <=> Latest(i, k)
      BY <3>1 DEF Latest
    <3>3. exact'[k] = exact[k]
      BY <1>1, <2>2 DEF TypeOK
    <3>4. \A i \in DOMAIN order : EntryOf(order[i], k)' = EntryOf(order[i], k)
      BY <1>2, <1>3 DEF EntryOf
    <3>5. HoldsLatest(k)
      BY DEF ExactInv
    <3> QED BY <1>2, <3>1, <3>2, <3>3, <3>4, <3>5 DEF HoldsLatest
  <2> QED BY <2>1, <2>2
<1>6. ASSUME NEW i \in DOMAIN order' PROVE pc'[order'[i]] \notin {"new", "set"}
  BY <1>2, <1>3, <1>4
<1> QED BY <1>5, <1>6

LEMMA AnswersOnce ==
    ASSUME TypeOK, ExactInv, [Next]_vars, NEW o \in Ops, pc'[o] # "done"
    PROVE  answer'[o] = NoAnswer
<1>1. pc \in [Ops -> Places] /\ answer \in [Ops -> Answer \cup {NoAnswer}]
      /\ Lookups \subseteq Ops /\ Writes \subseteq Ops
  BY DEF TypeOK, Places, Ops
<1>2. ASSUME answer'[o] = answer[o], pc[o] # "done" PROVE answer'[o] = NoAnswer
  BY <1>2 DEF ExactInv
<1>3. ASSUME NEW p \in Ops, NEW where, Goto(p, where), UNCHANGED answer, pc[p] # "done"
      PROVE  answer'[o] = NoAnswer
  BY <1>1, <1>2, <1>3 DEF Goto
<1>4. ASSUME NEW p \in Ops, NEW status, NEW hit, NEW by, Answers(p, status, hit, by)
      PROVE  answer'[o] = NoAnswer
  BY <1>1, <1>2, <1>4 DEF Answers
<1>5. ASSUME NEW p \in Lookups, (\E k \in Key : ReceiveLookup(p, k)) \/ Get(p) \/ Scan(p)
      PROVE  answer'[o] = NoAnswer
  BY <1>1, <1>3, <1>4, <1>5 DEF ReceiveLookup, Get, Scan
<1>6. ASSUME NEW p \in Writes, (\E k \in Key : ReceiveWrite(p, k)) \/ Set(p) \/ Count(p) \/ Push(p)
      PROVE  answer'[o] = NoAnswer
  BY <1>1, <1>3, <1>4, <1>6 DEF ReceiveWrite, Set, Stored, Count, Push
<1>7. CASE Health \/ Restart \/ RedisDown \/ RedisUp \/ Tick \/ UNCHANGED vars
  BY <1>1, <1>2, <1>7 DEF Health, Restart, RedisDown, RedisUp, Tick, vars
<1> QED BY <1>5, <1>6, <1>7 DEF Next

LEMMA ExactStep ==
    ASSUME TypeOK, ExactInv, [Next]_vars
    PROVE  ExactInv'
<1>1. \A o \in Ops : pc'[o] # "done" => answer'[o] = NoAnswer
  BY AnswersOnce
<1>2. /\ \A i \in DOMAIN order' : pc'[order'[i]] \notin {"new", "set"}
      /\ \A k \in Key : HoldsLatest(k)'
  <2>1. CASE UNCHANGED exact /\ UNCHANGED order
    BY <2>1, HoldsOn
  <2>2. CASE \E o \in Writes : Set(o) /\ Stored(o)
    BY <2>2, StoredHolds
  <2>3. CASE exact' = [k \in Key |-> NoEntry] /\ order' = << >>
    <3>1. DOMAIN order' = {}
      BY <2>3
    <3>2. \A k \in Key : WritesTo(k)' = {}
      BY <3>1 DEF WritesTo
    <3> QED BY <2>3, <3>1, <3>2 DEF HoldsLatest
  <2>4. \/ UNCHANGED exact /\ UNCHANGED order
        \/ \E o \in Writes : Set(o) /\ Stored(o)
        \/ exact' = [k \in Key |-> NoEntry] /\ order' = << >>
    BY DEF Next, ReceiveLookup, Get, Scan, ReceiveWrite, Set, Count, Push, Health, Restart,
           RedisDown, RedisUp, Tick, vars, redis, history
  <2> QED BY <2>1, <2>2, <2>3, <2>4
<1> QED BY <1>1, <1>2 DEF ExactInv

\* The last place there can be is the only one.
LEMMA LatestIsOne ==
    ASSUME TypeOK, NEW k \in Key, NEW n \in DOMAIN order, Latest(n, k)
    PROVE  LatestTo(k) = {order[n]}
<1>1. WritesTo(k) \subseteq DOMAIN order /\ DOMAIN order \subseteq Int
  BY OrderTyped DEF WritesTo
<1>2. {m \in WritesTo(k) : \A j \in WritesTo(k) : j <= m} = {n}
  BY <1>1 DEF Latest
<1> QED BY <1>2 DEF LatestTo

\* A GET finds an entry just when the latest write of the key is readable, and
\* then it is that write's.
LEMMA LiveIsReadable ==
    ASSUME TypeOK, ExactInv, NEW k \in Key
    PROVE  Readable(k) = IF Live(k) THEN {exact[k].by} ELSE {}
<1>1. CASE WritesTo(k) = {} /\ exact[k] = NoEntry
  <2>1. LatestTo(k) = {}
    BY <1>1 DEF LatestTo
  <2> QED BY <1>1, <2>1 DEF Readable, Live
<1>2. ASSUME NEW n \in DOMAIN order, Latest(n, k), exact[k] = EntryOf(order[n], k)
      PROVE  Readable(k) = IF Live(k) THEN {exact[k].by} ELSE {}
  <2>1. LatestTo(k) = {order[n]}
    BY <1>2, LatestIsOne
  <2>2. order[n] \in Writes /\ setAt[order[n]] \in Nat /\ TTL[k.task] \in Nat \ {0}
    BY OrderTyped, CacheAssumption DEF TypeOK, Key
  <2>3. exact[k].by = order[n] /\ exact[k].expires = setAt[order[n]] + TTL[k.task]
    BY <1>2 DEF EntryOf
  <2>4. exact[k] # NoEntry
    BY <2>2, <2>3 DEF NoEntry
  <2>5. Live(k) <=> now < setAt[order[n]] + TTL[k.task]
    BY <2>3, <2>4 DEF Live
  <2> QED BY <2>1, <2>3, <2>5 DEF Readable
<1> QED BY <1>1, <1>2 DEF ExactInv, HoldsLatest

\* Where a read of the exact cache goes on or ends, it was made.
LEMMA ReadIsGet ==
    ASSUME TypeOK, [Next]_vars, NEW o \in Lookups, pc[o] = "get", pc'[o] \in {"scan", "done"}
    PROVE  Get(o)
<1>1. o \in Ops /\ o \notin Writes /\ pc \in [Ops -> Places] /\ Lookups \subseteq Ops
  BY CacheAssumption DEF TypeOK, Places, Ops
<1>2. ASSUME NEW p \in Lookups, (\E k \in Key : ReceiveLookup(p, k)) \/ Scan(p)
      PROVE  FALSE
  BY <1>1, <1>2 DEF ReceiveLookup, Scan, Goto, Answers
<1>3. ASSUME NEW p \in Lookups, p # o, Get(p)
      PROVE  FALSE
  BY <1>1, <1>3 DEF Get, Goto, Answers
<1>4. ASSUME NEW p \in Writes, (\E k \in Key : ReceiveWrite(p, k)) \/ Set(p) \/ Count(p) \/ Push(p)
      PROVE  FALSE
  BY <1>1, <1>4 DEF ReceiveWrite, Set, Stored, Count, Push, Goto, Answers
<1>5. ASSUME Health \/ Restart \/ RedisDown \/ RedisUp \/ Tick \/ UNCHANGED vars
      PROVE  FALSE
  BY <1>1, <1>5 DEF Health, Restart, RedisDown, RedisUp, Tick, vars
<1> QED BY <1>2, <1>3, <1>4, <1>5 DEF Next

LEMMA GetReadsLatest ==
    ASSUME TypeOK, ExactInv, NEW o \in Lookups, Get(o)
    PROVE  {w \in {answer'[o].by} : answer'[o].hit = "exact"}
             = IF up /\ services THEN Readable(key[o]) ELSE {}
<1>1. /\ o \in Ops /\ pc[o] = "get" /\ key[o] \in Key /\ answer \in [Ops -> Answer \cup {NoAnswer}]
  BY DEF Get, TypeOK, Ops
<1>2. ASSUME NEW status, NEW hit, NEW by, Answers(o, status, hit, by)
      PROVE  answer'[o].hit = hit /\ answer'[o].by = by
  BY <1>1, <1>2 DEF Answers
<1>3. answer[o].hit = "none"
  BY <1>1 DEF ExactInv, NoAnswer
<1>4. Readable(key[o]) = IF Live(key[o]) THEN {exact[key[o]].by} ELSE {}
  BY <1>1, LiveIsReadable
<1>5. CASE services /\ up /\ Live(key[o])
  <2>1. answer'[o].hit = "exact" /\ answer'[o].by = exact[key[o]].by
    BY <1>2, <1>5 DEF Get
  <2> QED BY <1>4, <1>5, <2>1
<1>6. CASE ~(services /\ up /\ Live(key[o]))
  <2>1. answer'[o].hit = "none"
    BY <1>2, <1>3, <1>6 DEF Get
  <2> QED BY <1>4, <1>6, <2>1
<1> QED BY <1>5, <1>6

LEMMA SemanticIsScan ==
    ASSUME TypeOK, [Next]_vars, NEW o \in Lookups,
           answer[o].hit # "semantic", answer'[o].hit = "semantic"
    PROVE  Scan(o)
<1>1. o \in Ops /\ o \notin Writes /\ answer \in [Ops -> Answer \cup {NoAnswer}]
      /\ Lookups \subseteq Ops /\ Writes \subseteq Ops
  BY CacheAssumption DEF TypeOK, Ops
<1>2. answer'[o] # answer[o]
  OBVIOUS
<1>3. ASSUME NEW p \in Ops, NEW status, NEW hit, NEW by, Answers(p, status, hit, by)
      PROVE  p = o /\ hit = "semantic"
  BY <1>1, <1>2, <1>3 DEF Answers
<1>4. ASSUME NEW p \in Lookups, (\E k \in Key : ReceiveLookup(p, k)) \/ Get(p)
      PROVE  FALSE
  BY <1>1, <1>2, <1>3, <1>4 DEF ReceiveLookup, Get
<1>5. ASSUME NEW p \in Lookups, p # o, Scan(p)
      PROVE  FALSE
  BY <1>1, <1>3, <1>5 DEF Scan
<1>6. ASSUME NEW p \in Writes, (\E k \in Key : ReceiveWrite(p, k)) \/ Set(p) \/ Count(p) \/ Push(p)
      PROVE  FALSE
  BY <1>1, <1>2, <1>3, <1>6 DEF ReceiveWrite, Set, Stored, Count, Push
<1>7. ASSUME Health \/ Restart \/ RedisDown \/ RedisUp \/ Tick \/ UNCHANGED vars
      PROVE  FALSE
  BY <1>2, <1>7 DEF Health, Restart, RedisDown, RedisUp, Tick, vars
<1> QED BY <1>4, <1>5, <1>6, <1>7 DEF Next

ServesBest(o) ==
    LET w == answer'[o].by
        similarity == Score[<<key[w].prompt, key[o].prompt>>]
    IN  /\ key[w].task = key[o].task
        /\ similarity >= Threshold
        /\ \A i \in DOMAIN lists[key[o].task] :
              Score[<<lists[key[o].task][i].prompt, key[o].prompt>>] <= similarity

LEMMA ScanServesBest ==
    ASSUME TypeOK, FollowInv, NEW o \in Lookups, Scan(o), answer'[o].hit = "semantic"
    PROVE  ServesBest(o)
<1>1. /\ o \in Ops /\ key[o] \in Key /\ answer \in [Ops -> Answer \cup {NoAnswer}]
  BY DEF Scan, TypeOK, Ops
<1>2. PICK t \in TaskTypes, list \in Seq(SemanticEntry), prompt \in Prompts :
         t = key[o].task /\ list = lists[t] /\ prompt = key[o].prompt
  BY <1>1 DEF TypeOK, Key
<1>3. ~Answers(o, 200, "none", "none")
  BY <1>1 DEF Answers
<1>4. PICK i \in Matches(list, prompt) : Answers(o, 200, "semantic", list[i].by)
  BY <1>2, <1>3 DEF Scan
<1>5. answer'[o].by = list[i].by
  BY <1>1, <1>4 DEF Answers
<1>6. i \in DOMAIN list /\ list[i].by \in Writes
  BY <1>4, EntryTyped DEF Matches
<1>7. key[list[i].by] = [prompt |-> list[i].prompt, model |-> list[i].model, task |-> t]
  BY <1>2, <1>6 DEF FollowInv, Cached
<1>8. key[list[i].by].prompt = list[i].prompt /\ key[list[i].by].task = t
  BY <1>7
<1>9. Score[<<list[i].prompt, prompt>>] >= Threshold
  BY <1>4 DEF Matches, Similarity
<1>10. \A j \in DOMAIN list : Score[<<list[j].prompt, prompt>>] <= Score[<<list[i].prompt, prompt>>]
  <2> SUFFICES ASSUME NEW j \in DOMAIN list
               PROVE  Score[<<list[j].prompt, prompt>>] <= Score[<<list[i].prompt, prompt>>]
    OBVIOUS
  <2>1. list[i].prompt \in Prompts /\ list[j].prompt \in Prompts
    BY <1>6, EntryTyped
  <2>2. Score[<<list[i].prompt, prompt>>] \in Nat /\ Score[<<list[j].prompt, prompt>>] \in Nat
    BY <2>1, CacheAssumption
  <2>3. IF j < i THEN Similarity(list[j], prompt) < Similarity(list[i], prompt)
                 ELSE Similarity(list[j], prompt) <= Similarity(list[i], prompt)
    BY <1>4 DEF Matches
  <2> QED BY <2>2, <2>3 DEF Similarity
<1> QED BY <1>2, <1>5, <1>8, <1>9, <1>10 DEF ServesBest

(***************************************************************************)
(* The theorems                                                            *)
(***************************************************************************)
CacheInv == TypeOK /\ FollowInv /\ BoundInv /\ ExactInv

LEMMA InitCache == Init => CacheInv
<1> SUFFICES ASSUME Init PROVE CacheInv
  OBVIOUS
<1>1. TypeOK
  BY InitTyped
<1>2. FollowInv
  BY DEF Init, FollowInv, Passed, Once, Ops
<1>3. BoundInv
  <2>1. Writing = {} /\ \A t : Pushing(t) = {}
    BY DEF Init, Writing, Pushing, InFlight, Ops
  <2>2. \A t \in TaskTypes : Len(lists[t]) = 0
    BY DEF Init
  <2>3. Cardinality({}) = 0
    BY FS_EmptySet
  <2>4. MaxSemantic \in Nat /\ MaxWriters \in Nat \ {0}
    BY CacheAssumption
  <2>5. Cardinality(Writing) <= MaxWriters
    BY <2>1, <2>3, <2>4
  <2>6. \A t \in TaskTypes : Cardinality(Pushing(t)) = 0
    BY <2>1, <2>3
  <2>7. OvershootBoundedByWriters
    BY <2>2, <2>4, <2>6 DEF OvershootBoundedByWriters
  <2> QED BY <2>5, <2>7 DEF BoundInv
<1>4. ExactInv
  <2>1. DOMAIN order = {}
    BY DEF Init
  <2>2. \A k \in Key : WritesTo(k) = {} /\ exact[k] = NoEntry
    BY <2>1 DEF WritesTo, Init
  <2> QED BY <2>1, <2>2 DEF Init, ExactInv, HoldsLatest
<1> QED BY <1>1, <1>2, <1>3, <1>4 DEF CacheInv

LEMMA CacheInvariant == Spec => []CacheInv
<1>1. CacheInv /\ [Next]_vars => CacheInv'
  BY TypedStep, FollowStep, BoundStep, ExactStep DEF CacheInv
<1> QED BY <1>1, InitCache, PTL DEF Spec

\* The types of the cache's state, of its answers and of what Redis holds.
THEOREM CacheTypes == Spec => []TypeOK
<1>1. CacheInv => TypeOK
  BY DEF CacheInv
<1> QED BY <1>1, CacheInvariant, PTL

\* Whatever restarts and outages come between the commands of a write: the
\* semantic cache holds no response the exact cache did not take first under
\* the same key, and none twice.
THEOREM SemanticAlwaysFollows == Spec => []SemanticFollowsExact
<1>1. CacheInv => SemanticFollowsExact
  BY DEF CacheInv, FollowInv, Cached, Once, SemanticFollowsExact
<1> QED BY <1>1, CacheInvariant, PTL

\* For every limit and number of writers in flight: a list is longer than the
\* limit by less than the writers, and stays so when all that counted push.
THEOREM OvershootAlwaysBounded == Spec => []OvershootBoundedByWriters
<1>1. CacheInv => OvershootBoundedByWriters
  BY DEF CacheInv, BoundInv
<1> QED BY <1>1, CacheInvariant, PTL

\* However reads and writes of this and other keys interleave, with outages
\* and restarts between: a read of the exact cache returns the latest write of
\* its key until that expires, and nothing else.
THEOREM ExactAlwaysReadsLatest == Spec => ExactReadsLatestWrite
<1>1. CacheInv /\ [Next]_vars =>
         \A o \in Lookups : pc[o] = "get" /\ pc'[o] \in {"scan", "done"} =>
            {w \in {answer'[o].by} : answer'[o].hit = "exact"}
              = IF up /\ services THEN Readable(key[o]) ELSE {}
  BY ReadIsGet, GetReadsLatest DEF CacheInv
<1> QED BY <1>1, CacheInvariant, PTL DEF Spec, ExactReadsLatestWrite

\* A semantic hit is the response to the most similar prompt in the list of
\* the task type, by a write of that task type, and similar enough.
THEOREM AlwaysServesBestMatch == Spec => ServesTheBestMatch
<1>1. CacheInv /\ [Next]_vars =>
         \A o \in Lookups : answer[o].hit # "semantic" /\ answer'[o].hit = "semantic" => ServesBest(o)
  BY SemanticIsScan, ScanServesBest DEF CacheInv
<1> QED BY <1>1, CacheInvariant, PTL DEF Spec, ServesTheBestMatch, ServesBest
================================================================================
