-------------------------- MODULE AgentSessionProofs --------------------------
(***************************************************************************)
(* Proofs about the Agent Framework: what the loop over the events counts, *)
(* records and audits is what the graph did, however far the graph is      *)
(* ahead of the loop.                                                      *)
(***************************************************************************)
EXTENDS AgentSession, FiniteSetTheorems, SequenceTheorems, TLAPS

(***************************************************************************)
(* Sequences                                                               *)
(***************************************************************************)
LEMMA PutOne ==
    ASSUME NEW S, NEW q \in Seq(S), NEW e \in S
    PROVE  q \o <<e>> = Append(q, e)
  OBVIOUS

LEMMA PutTwo ==
    ASSUME NEW S, NEW q \in Seq(S), NEW e \in S, NEW f \in S
    PROVE  q \o <<e, f>> = Append(Append(q, e), f)
  OBVIOUS

LEMMA Appended ==
    ASSUME NEW S, NEW q \in Seq(S), NEW e \in S
    PROVE  /\ Append(q, e) \in Seq(S) /\ Append(q, e) # << >>
           /\ Len(q) \in Nat /\ Len(Append(q, e)) = Len(q) + 1
           /\ DOMAIN q = 1..Len(q) /\ DOMAIN Append(q, e) = 1..(Len(q) + 1)
           /\ \A j \in 1..Len(q) : Append(q, e)[j] = q[j]
           /\ Append(q, e)[Len(q) + 1] = e
  OBVIOUS

LEMMA HeadTaken ==
    ASSUME NEW S, NEW q \in Seq(S), q # << >>
    PROVE  /\ Tail(q) \in Seq(S) /\ Head(q) = q[1] /\ Head(q) \in S
           /\ Len(q) \in Nat \ {0} /\ Len(Tail(q)) = Len(q) - 1
           /\ DOMAIN q = 1..Len(q) /\ DOMAIN Tail(q) = 1..(Len(q) - 1)
           /\ \A j \in 1..(Len(q) - 1) : Tail(q)[j] = q[j + 1]
  OBVIOUS

LEMMA CountOf ==
    ASSUME NEW n \in Nat, NEW P, P \subseteq 1..n
    PROVE  IsFiniteSet(P) /\ Cardinality(P) \in Nat
<1>1. IsFiniteSet(1..n)
  BY FS_Interval
<1> QED BY <1>1, FS_Subset, FS_CardinalityType

LEMMA OneMore ==
    ASSUME NEW P, IsFiniteSet(P), NEW x
    PROVE  Cardinality(P \cup {x}) = IF x \in P THEN Cardinality(P) ELSE Cardinality(P) + 1
  BY FS_AddElement, Zenon

(***************************************************************************)
(* The queue between the graph and the loop                                *)
(***************************************************************************)
\* The turn the events of graph g have told of, read or not.
Told(g) == IF g.at = "model" THEN (g.node - 1) \div 2 ELSE (g.node + 1) \div 2

\* The events that tell of a turn first: its end, or what ended it.
Opens(e) == IF e.kind \in {"model_end", "router_error", "other_error"} THEN 1 ELSE 0

\* The turns in the queue go on from the step the loop is at, one by one, up
\* to the one the graph has told of.
Chained(q, steps, told) ==
    /\ q = << >> => steps = told
    /\ q # << >> => q[1].turn = steps + Opens(q[1]) /\ q[Len(q)].turn = told
    /\ steps <= told /\ \A j \in 1..Len(q) : q[j].turn <= told
    /\ \A j \in 1..(Len(q) - 1) : q[j + 1].turn = q[j].turn + Opens(q[j + 1])

\* The end of the stream is the last event.  The model had asked for no
\* tools, or had more turns than the loop takes.
EndsLast(q, g) ==
    \A j \in 1..Len(q) : q[j].kind = "end" =>
        j = Len(q) /\ g.at = "over" /\ (g.calls = << >> \/ Told(g) > MaxSteps)

Has(e, kind, tool) == e.kind = kind /\ e.tool = tool
HowMany(q, kind, tool, j) == Cardinality({i \in 1..j : Has(q[i], kind, tool)})
One(e, kind, tool) == IF Has(e, kind, tool) THEN 1 ELSE 0

\* Of a tool: wherever in the queue the loop gets to, it has not met more
\* results, with the step records, than calls, with the audit lines; and
\* there will be calls left for those that still run.
Balanced(q, records, lines, runs, tool) ==
    /\ \A j \in 0..Len(q) :
         records + HowMany(q, "tool_end", tool, j) <= lines + HowMany(q, "tool_start", tool, j)
    /\ records + HowMany(q, "tool_end", tool, Len(q)) + runs
         <= lines + HowMany(q, "tool_start", tool, Len(q))

LEMMA ChainAppend ==
    ASSUME NEW q \in Seq(Event), NEW e \in Event, NEW steps \in Nat, NEW told \in Nat,
           Chained(q, steps, told), e.turn = told + Opens(e)
    PROVE  Chained(Append(q, e), steps, e.turn)
<1> DEFINE longer == Append(q, e)
<1>1. /\ longer # << >> /\ Len(q) \in Nat /\ Len(longer) = Len(q) + 1
      /\ \A j \in 1..Len(q) : longer[j] = q[j]
      /\ longer[Len(q) + 1] = e
  BY Appended
<1> HIDE DEF longer
<1>2. longer[1].turn = steps + Opens(longer[1])
  <2>1. CASE q = << >>
    <3>1. Len(q) = 0 /\ longer[1] = e
      BY <1>1, <2>1
    <3> QED BY <2>1, <3>1 DEF Chained
  <2>2. CASE q # << >>
    <3>1. 1 \in 1..Len(q)
      BY <2>2, EmptySeq
    <3> QED BY <1>1, <2>2, <3>1 DEF Chained
  <2> QED BY <2>1, <2>2
<1>3. ASSUME NEW j \in 1..Len(q)
      PROVE  longer[j + 1].turn = longer[j].turn + Opens(longer[j + 1])
  <2>1. CASE j < Len(q)
    <3>1. j + 1 \in 1..Len(q) /\ j \in 1..(Len(q) - 1)
      BY <1>1, <2>1
    <3> QED BY <1>1, <3>1 DEF Chained
  <2>2. CASE j = Len(q)
    <3>1. longer[j + 1] = e /\ longer[j] = q[Len(q)] /\ q # << >>
      BY <1>1, <2>2, EmptySeq
    <3> QED BY <3>1 DEF Chained
  <2> QED BY <1>1, <2>1, <2>2
<1>4. longer[Len(longer)].turn = e.turn
  BY <1>1
<1>5. Len(longer) - 1 = Len(q)
  BY <1>1
<1>6. steps <= e.turn /\ \A j \in 1..Len(longer) : longer[j].turn <= e.turn
  <2>1. e.turn \in Nat /\ told <= e.turn /\ steps <= told
    BY DEF Event, Opens, Chained
  <2>2. ASSUME NEW j \in 1..Len(longer) PROVE longer[j].turn <= e.turn
    <3>1. CASE j \in 1..Len(q)
      <4>1. longer[j] = q[j] /\ q[j] \in Event /\ q[j].turn <= told
        BY <1>1, <3>1, ElementOfSeq DEF Chained
      <4> QED BY <2>1, <4>1 DEF Event
    <3>2. CASE j = Len(q) + 1
      BY <1>1, <2>1, <3>2
    <3> QED BY <1>1, <3>1, <3>2
  <2> QED BY <2>1, <2>2
<1>7. Chained(longer, steps, e.turn)
  BY <1>1, <1>2, <1>3, <1>4, <1>5, <1>6 DEF Chained
<1> QED BY <1>7 DEF longer

LEMMA ChainTail ==
    ASSUME NEW q \in Seq(Event), q # << >>, NEW steps \in Nat, NEW told \in Nat,
           Chained(q, steps, told)
    PROVE  /\ Head(q).turn = steps + Opens(Head(q))
           /\ Chained(Tail(q), Head(q).turn, told)
<1> DEFINE rest == Tail(q)
<1>1. /\ Head(q) = q[1] /\ Len(q) \in Nat \ {0} /\ Len(rest) = Len(q) - 1
      /\ rest \in Seq(Event)
      /\ \A j \in 1..(Len(q) - 1) : rest[j] = q[j + 1]
  BY HeadTaken
<1> HIDE DEF rest
<1>2. Head(q).turn = steps + Opens(Head(q))
  BY <1>1 DEF Chained
<1>3. Head(q).turn <= told /\ \A j \in 1..Len(rest) : rest[j].turn <= told
  <2>1. \A j \in 1..Len(q) : q[j].turn <= told
    BY DEF Chained
  <2>2. 1 \in 1..Len(q) /\ \A j \in 1..Len(rest) : j + 1 \in 1..Len(q) /\ rest[j] = q[j + 1]
    BY <1>1
  <2> QED BY <1>1, <2>1, <2>2
<1>4. CASE rest = << >>
  <2>1. Len(rest) = 0 /\ Len(q) = 1
    BY <1>1, <1>4
  <2>2. Head(q).turn = told
    BY <1>1, <2>1 DEF Chained
  <2>3. Chained(rest, Head(q).turn, told)
    BY <1>4, <1>3, <2>1, <2>2 DEF Chained
  <2> QED BY <1>2, <2>3 DEF rest
<1>5. CASE rest # << >>
  <2>1. Len(rest) \in Nat \ {0}
    BY <1>1, <1>5, EmptySeq
  <2>2. rest[1] = q[2] /\ rest[Len(rest)] = q[Len(q)] /\ 1 \in 1..(Len(q) - 1)
    BY <1>1, <2>1
  <2>3. rest[1].turn = Head(q).turn + Opens(rest[1]) /\ rest[Len(rest)].turn = told
    BY <1>1, <2>2 DEF Chained
  <2>4. ASSUME NEW j \in 1..(Len(rest) - 1)
        PROVE  rest[j + 1].turn = rest[j].turn + Opens(rest[j + 1])
    <3>1. rest[j] = q[j + 1] /\ rest[j + 1] = q[j + 2] /\ j + 1 \in 1..(Len(q) - 1) /\ j + 2 = (j + 1) + 1
      BY <1>1, <2>1
    <3> QED BY <3>1 DEF Chained
  <2>5. Chained(rest, Head(q).turn, told)
    BY <1>5, <1>3, <2>3, <2>4 DEF Chained
  <2> QED BY <1>2, <2>5 DEF rest
<1> QED BY <1>4, <1>5

LEMMA HowManyNat ==
    ASSUME NEW q, NEW kind, NEW tool, NEW j \in Nat
    PROVE  HowMany(q, kind, tool, j) \in Nat
<1>1. {i \in 1..j : Has(q[i], kind, tool)} \subseteq 1..j
  OBVIOUS
<1> QED BY <1>1, CountOf DEF HowMany

LEMMA HowManyNone ==
    ASSUME NEW q, NEW kind, NEW tool
    PROVE  HowMany(q, kind, tool, 0) = 0
<1>1. {i \in 1..0 : Has(q[i], kind, tool)} = {}
  OBVIOUS
<1> QED BY <1>1, FS_EmptySet DEF HowMany

LEMMA HowManyNext ==
    ASSUME NEW q, NEW kind, NEW tool, NEW j \in Nat
    PROVE  HowMany(q, kind, tool, j + 1) = HowMany(q, kind, tool, j) + One(q[j + 1], kind, tool)
<1> DEFINE upto == {i \in 1..j : Has(q[i], kind, tool)}
           next == {i \in 1..(j + 1) : Has(q[i], kind, tool)}
<1>1. IsFiniteSet(upto) /\ Cardinality(upto) \in Nat
  BY CountOf
<1>2. j + 1 \notin upto
  OBVIOUS
<1>3. next = IF Has(q[j + 1], kind, tool) THEN upto \cup {j + 1} ELSE upto
  OBVIOUS
<1>4. Cardinality(upto \cup {j + 1}) = Cardinality(upto) + 1
  <2>1. PICK P : P = upto
    OBVIOUS
  <2>2. Cardinality(P \cup {j + 1}) = IF j + 1 \in P THEN Cardinality(P) ELSE Cardinality(P) + 1
    BY <1>1, <2>1, OneMore
  <2> QED BY <1>2, <2>1, <2>2
<1>5. Cardinality(next) = Cardinality(upto) + One(q[j + 1], kind, tool)
  BY <1>1, <1>3, <1>4 DEF One
<1> QED BY <1>5 DEF HowMany

LEMMA HowManySame ==
    ASSUME NEW q, NEW p, NEW kind, NEW tool, NEW j \in Nat, \A i \in 1..j : p[i] = q[i]
    PROVE  HowMany(p, kind, tool, j) = HowMany(q, kind, tool, j)
<1>1. {i \in 1..j : Has(p[i], kind, tool)} = {i \in 1..j : Has(q[i], kind, tool)}
  OBVIOUS
<1> QED BY <1>1 DEF HowMany

LEMMA HowManyShifted ==
    ASSUME NEW q, NEW p, NEW kind, NEW tool, NEW j \in Nat, \A i \in 1..j : p[i] = q[i + 1]
    PROVE  HowMany(q, kind, tool, j + 1) = HowMany(p, kind, tool, j) + One(q[1], kind, tool)
<1> DEFINE late == {i \in 1..j : Has(p[i], kind, tool)}
           rest == {i \in 2..(j + 1) : Has(q[i], kind, tool)}
           all == {i \in 1..(j + 1) : Has(q[i], kind, tool)}
           f == [i \in late |-> i + 1]
<1>1. IsFiniteSet(late) /\ Cardinality(late) \in Nat
  BY CountOf
<1>2. f \in Bijection(late, rest)
  <2>1. \A i \in late : f[i] \in rest
    OBVIOUS
  <2>2. \A i, k \in late : f[i] = f[k] => i = k
    OBVIOUS
  <2>3. \A n \in rest : \E i \in late : f[i] = n
    <3> SUFFICES ASSUME NEW n \in rest PROVE \E i \in late : f[i] = n
      OBVIOUS
    <3>1. n - 1 \in late /\ f[n - 1] = n
      OBVIOUS
    <3> QED BY <3>1
  <2> HIDE DEF late, rest
  <2> QED BY <2>1, <2>2, <2>3 DEF Bijection, Injection, Surjection, IsInjective
<1>3. IsFiniteSet(rest) /\ Cardinality(rest) = Cardinality(late)
  <2> HIDE DEF late, rest, f
  <2>1. ExistsBijection(late, rest)
    BY <1>2 DEF ExistsBijection
  <2> QED BY <1>1, <2>1, FS_Bijection
<1>4. 1 \notin rest
  OBVIOUS
<1>5. all = IF Has(q[1], kind, tool) THEN rest \cup {1} ELSE rest
  OBVIOUS
<1>6. Cardinality(rest \cup {1}) = Cardinality(rest) + 1
  <2>1. PICK P : P = rest
    OBVIOUS
  <2>2. Cardinality(P \cup {1}) = IF 1 \in P THEN Cardinality(P) ELSE Cardinality(P) + 1
    BY <1>3, <2>1, OneMore
  <2> QED BY <1>4, <2>1, <2>2
<1>7. Cardinality(all) = Cardinality(late) + One(q[1], kind, tool)
  <2> HIDE DEF all, late, rest, f
  <2>1. CASE Has(q[1], kind, tool)
    BY <1>3, <1>5, <1>6, <2>1 DEF One
  <2>2. CASE ~Has(q[1], kind, tool)
    <3>1. One(q[1], kind, tool) = 0 /\ all = rest
      BY <1>5, <2>2 DEF One
    <3> QED BY <1>1, <1>3, <3>1
  <2> QED BY <2>1, <2>2
<1> QED BY <1>7 DEF HowMany

LEMMA OneIsBit ==
    ASSUME NEW e, NEW kind, NEW tool
    PROVE  One(e, kind, tool) \in {0, 1}
  BY DEF One

LEMMA BalanceAppend ==
    ASSUME NEW q \in Seq(Event), NEW e \in Event, NEW r \in Nat, NEW l \in Nat,
           NEW n \in Nat, NEW m \in Nat, NEW tool, Balanced(q, r, l, n, tool),
           m + One(e, "tool_end", tool) <= n + One(e, "tool_start", tool)
    PROVE  Balanced(Append(q, e), r, l, m, tool)
<1> DEFINE longer == Append(q, e)
<1>1. /\ Len(q) \in Nat /\ Len(longer) = Len(q) + 1
      /\ \A j \in 1..Len(q) : longer[j] = q[j]
      /\ longer[Len(q) + 1] = e
  BY Appended
<1> HIDE DEF longer
<1>2. ASSUME NEW kind
      PROVE  /\ \A j \in 0..Len(q) : HowMany(longer, kind, tool, j) = HowMany(q, kind, tool, j)
             /\ HowMany(longer, kind, tool, Len(q) + 1) = HowMany(q, kind, tool, Len(q)) + One(e, kind, tool)
             /\ HowMany(q, kind, tool, Len(q)) \in Nat /\ One(e, kind, tool) \in Nat
  <2>1. ASSUME NEW j \in 0..Len(q) PROVE HowMany(longer, kind, tool, j) = HowMany(q, kind, tool, j)
    <3>1. j \in Nat /\ \A i \in 1..j : longer[i] = q[i]
      BY <1>1
    <3> QED BY <3>1, HowManySame
  <2>2. HowMany(longer, kind, tool, Len(q) + 1)
          = HowMany(longer, kind, tool, Len(q)) + One(longer[Len(q) + 1], kind, tool)
    BY <1>1, HowManyNext
  <2>3. HowMany(longer, kind, tool, Len(q)) = HowMany(q, kind, tool, Len(q))
    BY <1>1, <2>1
  <2>4. One(e, kind, tool) \in Nat
    BY OneIsBit
  <2> QED BY <1>1, <2>1, <2>2, <2>3, <2>4, HowManyNat
<1>3. r + HowMany(longer, "tool_end", tool, Len(longer)) + m
        <= l + HowMany(longer, "tool_start", tool, Len(longer))
  <2>1. r + HowMany(q, "tool_end", tool, Len(q)) + n <= l + HowMany(q, "tool_start", tool, Len(q))
    BY DEF Balanced
  <2>2. /\ HowMany(longer, "tool_end", tool, Len(longer))
             = HowMany(q, "tool_end", tool, Len(q)) + One(e, "tool_end", tool)
        /\ HowMany(q, "tool_end", tool, Len(q)) \in Nat /\ One(e, "tool_end", tool) \in Nat
    BY <1>1, <1>2
  <2>3. /\ HowMany(longer, "tool_start", tool, Len(longer))
             = HowMany(q, "tool_start", tool, Len(q)) + One(e, "tool_start", tool)
        /\ HowMany(q, "tool_start", tool, Len(q)) \in Nat /\ One(e, "tool_start", tool) \in Nat
    BY <1>1, <1>2
  <2>4. PICK ends, starts, end, start \in Nat :
          /\ ends = HowMany(q, "tool_end", tool, Len(q)) /\ end = One(e, "tool_end", tool)
          /\ starts = HowMany(q, "tool_start", tool, Len(q)) /\ start = One(e, "tool_start", tool)
    BY <2>2, <2>3
  <2>5. r + ends + n <= l + starts /\ m + end <= n + start
    BY <2>1, <2>4
  <2>6. r + (ends + end) + m <= l + (starts + start)
    BY <2>5
  <2> QED BY <2>2, <2>3, <2>4, <2>6
<1>4. ASSUME NEW j \in 0..Len(longer)
      PROVE  r + HowMany(longer, "tool_end", tool, j) <= l + HowMany(longer, "tool_start", tool, j)
  <2>1. CASE j \in 0..Len(q)
    BY <1>2, <2>1 DEF Balanced
  <2>2. CASE j = Len(longer)
    <3>1. HowMany(longer, "tool_end", tool, j) \in Nat /\ HowMany(longer, "tool_start", tool, j) \in Nat
      BY <1>1, HowManyNat
    <3> QED BY <1>3, <2>2, <3>1
  <2> QED BY <1>1, <2>1, <2>2
<1>5. Balanced(longer, r, l, m, tool)
  BY <1>3, <1>4 DEF Balanced
<1> QED BY <1>5 DEF longer

LEMMA BalanceTail ==
    ASSUME NEW q \in Seq(Event), q # << >>, NEW r \in Nat, NEW l \in Nat,
           NEW n \in Nat, NEW tool, Balanced(q, r, l, n, tool)
    PROVE  Balanced(Tail(q), r + One(Head(q), "tool_end", tool),
                    l + One(Head(q), "tool_start", tool), n, tool)
<1> DEFINE rest == Tail(q)
<1>1. /\ Head(q) = q[1] /\ Len(q) \in Nat \ {0} /\ Len(rest) = Len(q) - 1
      /\ \A j \in 1..(Len(q) - 1) : rest[j] = q[j + 1]
  BY HeadTaken
<1> HIDE DEF rest
<1>2. ASSUME NEW kind, NEW j \in 0..Len(rest)
      PROVE  /\ HowMany(q, kind, tool, j + 1) = HowMany(rest, kind, tool, j) + One(Head(q), kind, tool)
             /\ HowMany(rest, kind, tool, j) \in Nat /\ One(Head(q), kind, tool) \in Nat
  <2>1. j \in Nat /\ \A i \in 1..j : rest[i] = q[i + 1]
    BY <1>1
  <2>2. HowMany(q, kind, tool, j + 1) = HowMany(rest, kind, tool, j) + One(q[1], kind, tool)
    BY <2>1, HowManyShifted
  <2>3. HowMany(rest, kind, tool, j) \in Nat
    BY <2>1, HowManyNat
  <2>4. One(Head(q), kind, tool) \in Nat
    BY OneIsBit
  <2> QED BY <1>1, <2>2, <2>3, <2>4
<1>3. ASSUME NEW j \in 0..Len(rest)
      PROVE  r + One(Head(q), "tool_end", tool) + HowMany(rest, "tool_end", tool, j)
               <= l + One(Head(q), "tool_start", tool) + HowMany(rest, "tool_start", tool, j)
  <2>1. j + 1 \in 0..Len(q)
    BY <1>1
  <2>2. r + HowMany(q, "tool_end", tool, j + 1) <= l + HowMany(q, "tool_start", tool, j + 1)
    BY <2>1 DEF Balanced
  <2> QED BY <1>2, <2>2
<1>4. Len(rest) \in 0..Len(rest) /\ Len(rest) + 1 = Len(q)
  BY <1>1
<1>5. r + One(Head(q), "tool_end", tool) + HowMany(rest, "tool_end", tool, Len(rest)) + n
        <= l + One(Head(q), "tool_start", tool) + HowMany(rest, "tool_start", tool, Len(rest))
  <2>1. r + HowMany(q, "tool_end", tool, Len(q)) + n <= l + HowMany(q, "tool_start", tool, Len(q))
    BY DEF Balanced
  <2>2. /\ HowMany(q, "tool_end", tool, Len(q))
             = HowMany(rest, "tool_end", tool, Len(rest)) + One(Head(q), "tool_end", tool)
        /\ HowMany(rest, "tool_end", tool, Len(rest)) \in Nat /\ One(Head(q), "tool_end", tool) \in Nat
    BY <1>2, <1>4
  <2>3. /\ HowMany(q, "tool_start", tool, Len(q))
             = HowMany(rest, "tool_start", tool, Len(rest)) + One(Head(q), "tool_start", tool)
        /\ HowMany(rest, "tool_start", tool, Len(rest)) \in Nat /\ One(Head(q), "tool_start", tool) \in Nat
    BY <1>2, <1>4
  <2>4. PICK ends, starts, end, start \in Nat :
          /\ ends = HowMany(rest, "tool_end", tool, Len(rest)) /\ end = One(Head(q), "tool_end", tool)
          /\ starts = HowMany(rest, "tool_start", tool, Len(rest)) /\ start = One(Head(q), "tool_start", tool)
    BY <2>2, <2>3
  <2>5. r + (ends + end) + n <= l + (starts + start)
    BY <2>1, <2>2, <2>3, <2>4
  <2>6. r + end + ends + n <= l + start + starts
    BY <2>5
  <2> QED BY <2>4, <2>6
<1>6. Balanced(rest, r + One(Head(q), "tool_end", tool), l + One(Head(q), "tool_start", tool), n, tool)
  BY <1>3, <1>5 DEF Balanced
<1> QED BY <1>6 DEF rest

(***************************************************************************)
(* The inductive invariant, of one session                                 *)
(***************************************************************************)
RunningCalls(g, tool) == {i \in DOMAIN g.calls : g.calls[i].at = "running" /\ g.calls[i].tool = tool}

\* The model has the odd nodes and the tools the even ones; only a tool runs.
GraphOK(g) ==
    /\ g.at = "none" => g = NoGraph
    /\ g.at = "model" => g.node % 2 = 1 /\ g.node <= RecursionLimit /\ g.calls = << >>
    /\ g.at = "tools" => g.node % 2 = 0 /\ g.node < RecursionLimit
    /\ \A i \in DOMAIN g.calls : g.calls[i].at = "running" => g.calls[i].tool \in Tools

Named(q) == \A j \in 1..Len(q) : q[j].kind \in {"tool_start", "tool_end"} => q[j].tool \in Tools

\* Where the request, its graph and its answer are together.
Stage(h, g, q, n, r, a, st) ==
    /\ h = "new" => /\ g = NoGraph /\ q = << >> /\ n = NewSession
                    /\ r = NoReply /\ a = << >> /\ st = << >>
    /\ h = "running" => r = NoReply /\ n.steps < MaxSteps /\ g.at # "none"
    /\ r.finish = "stop" => g.at = "over" /\ g.calls = << >>
    /\ r.status \in {200, 502} => h \in {"replied", "done"}

\* While the session runs: what lies between the loop and the graph.
Ahead(q, g, steps, a, st) ==
    /\ Chained(q, steps, Told(g))
    /\ EndsLast(q, g)
    /\ \A tool \in Tools :
         Balanced(q, Cardinality(RecordsOf(st, tool)), Cardinality(CallLinesOf(a, tool)),
                  Cardinality(RunningCalls(g, tool)), tool)

\* The trail of a session that runs names the tools called so far.
Opened(a, tools) ==
    /\ Len(a) = Len(tools) + 1
    /\ a[1].type = "agent_session_start"
    /\ \A i \in 1..Len(tools) : a[i + 1].type = "agent_tool_call" /\ a[i + 1].tools = <<tools[i]>>

\* The trail of a session that was answered, as TrailTellsSession has it.
ClosedAt(a, end, status, turn) ==
    /\ a[1].type = "agent_session_start"
    /\ CallLines(a) = 2..(end - 1)
    /\ a[end].type = "agent_session_complete"
    /\ a[end].tools = [i \in 1..(end - 2) |-> a[i + 1].tools[1]]
    /\ a[end].steps <= turn
    /\ a[end].outcome = "max_steps_reached" <=> a[end].steps = MaxSteps /\ status = 200
Closed(a, status, turn) == \E end \in DOMAIN a : ClosedAt(a, end, status, turn)

Recorded(a, st) ==
    /\ \A i \in DOMAIN st : st[i].step = st[i].turn
    /\ \A tool \in Tools : Cardinality(RecordsOf(st, tool)) <= Cardinality(CallLinesOf(a, tool))

SessionInv(h, g, q, n, r, a, st) ==
    /\ GraphOK(g) /\ Named(q)
    /\ Stage(h, g, q, n, r, a, st)
    /\ h = "running" => Ahead(q, g, n.steps, a, st) /\ Opened(a, n.tools)
    /\ r.status \in {200, 502} => Closed(a, r.status, (g.node + 1) \div 2)
    /\ Recorded(a, st)

Handlers == {"new", "running", "replied", "done", "lost"}
Session == [steps : 0..MaxSteps, tools : Seq(Tools)]
Reply == [status : {0, 200, 400, 500, 502}, finish : {"none", "stop", "length"}]

SessionTyped(h, g, q, n, r, a, st) ==
    /\ h \in Handlers /\ g \in Graph /\ q \in Seq(Event) /\ n \in Session
    /\ r \in Reply /\ a \in Seq(Line) /\ st \in Seq(StepRecord)

Typed(s) == SessionTyped(handler[s], graph[s], queue[s], session[s], reply[s], audit[s], store[s])
Inv(s) == SessionInv(handler[s], graph[s], queue[s], session[s], reply[s], audit[s], store[s])

AgentInv == TypeOK /\ \A s \in Sessions : Inv(s)

\* A step of session s: what its state becomes.
Becomes(s, h, g, q, n, r, a, st) ==
    /\ handler' = [handler EXCEPT ![s] = h] /\ graph' = [graph EXCEPT ![s] = g]
    /\ queue' = [queue EXCEPT ![s] = q] /\ session' = [session EXCEPT ![s] = n]
    /\ reply' = [reply EXCEPT ![s] = r] /\ audit' = [audit EXCEPT ![s] = a]
    /\ store' = [store EXCEPT ![s] = st] /\ crashes' = crashes

LEMMA TypedSession ==
    ASSUME TypeOK, NEW s \in Sessions
    PROVE  Typed(s)
  BY DEF TypeOK, Typed, SessionTyped, Handlers, Session, Reply

LEMMA SessionStep ==
    ASSUME AgentInv, NEW s \in Sessions,
           NEW h, NEW g, NEW q, NEW n, NEW r, NEW a, NEW st,
           Becomes(s, h, g, q, n, r, a, st),
           SessionTyped(h, g, q, n, r, a, st), SessionInv(h, g, q, n, r, a, st)
    PROVE  AgentInv'
<1>1. TypeOK'
  BY DEF AgentInv, TypeOK, Becomes, SessionTyped, Handlers, Session, Reply
<1>2. ASSUME NEW p \in Sessions PROVE Inv(p)'
  <2>1. CASE p = s
    <3>1. /\ handler'[s] = h /\ graph'[s] = g /\ queue'[s] = q /\ session'[s] = n
          /\ reply'[s] = r /\ audit'[s] = a /\ store'[s] = st
      BY DEF AgentInv, TypeOK, Becomes
    <3> QED BY <2>1, <3>1 DEF Inv
  <2>2. CASE p # s
    <3>1. /\ handler'[p] = handler[p] /\ graph'[p] = graph[p] /\ queue'[p] = queue[p]
          /\ session'[p] = session[p] /\ reply'[p] = reply[p] /\ audit'[p] = audit[p]
          /\ store'[p] = store[p]
      BY <2>2 DEF AgentInv, TypeOK, Becomes
    <3>2. Inv(p)
      BY DEF AgentInv
    <3> QED BY <3>1, <3>2 DEF Inv
  <2> QED BY <2>1, <2>2
<1> QED BY <1>1, <1>2 DEF AgentInv

(***************************************************************************)
(* The graph goes ahead                                                    *)
(***************************************************************************)
LEMMA CountedCalls ==
    ASSUME NEW a \in Seq(Line), NEW st \in Seq(StepRecord), NEW g \in Graph, NEW tool
    PROVE  /\ Cardinality(CallLinesOf(a, tool)) \in Nat
           /\ Cardinality(RecordsOf(st, tool)) \in Nat
           /\ Cardinality(RunningCalls(g, tool)) \in Nat
           /\ IsFiniteSet(CallLinesOf(a, tool)) /\ IsFiniteSet(RecordsOf(st, tool))
           /\ IsFiniteSet(RunningCalls(g, tool))
<1>1. /\ Len(a) \in Nat /\ CallLinesOf(a, tool) \subseteq 1..Len(a)
      /\ Len(st) \in Nat /\ RecordsOf(st, tool) \subseteq 1..Len(st)
  BY DEF CallLinesOf, CallLines, RecordsOf
<1>2. g.calls \in Seq(ToolCall)
  BY DEF Graph
<1>3. Len(g.calls) \in Nat /\ RunningCalls(g, tool) \subseteq 1..Len(g.calls)
  BY <1>2 DEF RunningCalls
<1> QED BY <1>1, <1>3, CountOf

LEMMA ToldNat ==
    ASSUME NEW g \in Graph, GraphOK(g)
    PROVE  Told(g) \in Nat /\ Told(g) <= (g.node + 1) \div 2
<1>1. g.node \in Nat /\ RecursionLimit \in Nat
  BY AgentAssumption DEF Graph, RecursionLimit
<1>2. g.at = "model" => g.node % 2 = 1
  BY DEF GraphOK
<1> QED BY <1>1, <1>2 DEF Told

\* One more event, of a graph that goes on or ends with it.
LEMMA AheadAppend ==
    ASSUME NEW q \in Seq(Event), NEW e \in Event, NEW g \in Graph, NEW h \in Graph,
           Told(g) \in Nat, g.at # "over",
           NEW steps \in Nat, NEW a \in Seq(Line), NEW st \in Seq(StepRecord),
           Ahead(q, g, steps, a, st),
           e.turn = Told(g) + Opens(e), Told(h) = e.turn,
           e.kind = "end" => h.at = "over" /\ (h.calls = << >> \/ Told(h) > MaxSteps),
           \A tool \in Tools :
               Cardinality(RunningCalls(h, tool)) + One(e, "tool_end", tool)
                 <= Cardinality(RunningCalls(g, tool)) + One(e, "tool_start", tool)
    PROVE  Ahead(Append(q, e), h, steps, a, st)
<1>1. Chained(Append(q, e), steps, Told(h))
  <2>1. Chained(q, steps, Told(g))
    BY DEF Ahead
  <2> QED BY <2>1, ChainAppend
<1>2. EndsLast(Append(q, e), h)
  <2>1. \A j \in 1..Len(q) : q[j].kind # "end"
    BY DEF Ahead, EndsLast
  <2>2. /\ Len(q) \in Nat /\ Len(Append(q, e)) = Len(q) + 1
        /\ \A j \in 1..Len(q) : Append(q, e)[j] = q[j]
        /\ Append(q, e)[Len(q) + 1] = e
    BY Appended
  <2> QED BY <2>1, <2>2 DEF EndsLast
<1>3. ASSUME NEW tool \in Tools
      PROVE  Balanced(Append(q, e), Cardinality(RecordsOf(st, tool)), Cardinality(CallLinesOf(a, tool)),
                      Cardinality(RunningCalls(h, tool)), tool)
  <2>1. Balanced(q, Cardinality(RecordsOf(st, tool)), Cardinality(CallLinesOf(a, tool)),
                 Cardinality(RunningCalls(g, tool)), tool)
    BY DEF Ahead
  <2>2. /\ Cardinality(RecordsOf(st, tool)) \in Nat /\ Cardinality(CallLinesOf(a, tool)) \in Nat
        /\ Cardinality(RunningCalls(g, tool)) \in Nat /\ Cardinality(RunningCalls(h, tool)) \in Nat
    BY CountedCalls
  <2> QED BY <2>1, <2>2, BalanceAppend
<1> QED BY <1>1, <1>2, <1>3 DEF Ahead

\* The graph goes on without an event.
LEMMA AheadQuiet ==
    ASSUME NEW q \in Seq(Event), NEW g \in Graph, NEW h \in Graph, g.at # "over",
           NEW steps \in Nat, NEW a \in Seq(Line), NEW st \in Seq(StepRecord),
           Ahead(q, g, steps, a, st), Told(h) = Told(g),
           \A tool \in Tools : Cardinality(RunningCalls(h, tool)) <= Cardinality(RunningCalls(g, tool))
    PROVE  Ahead(q, h, steps, a, st)
<1>1. Chained(q, steps, Told(h))
  BY DEF Ahead
<1>2. EndsLast(q, h)
  BY DEF Ahead, EndsLast
<1>3. ASSUME NEW tool \in Tools
      PROVE  Balanced(q, Cardinality(RecordsOf(st, tool)), Cardinality(CallLinesOf(a, tool)),
                      Cardinality(RunningCalls(h, tool)), tool)
  <2>1. Balanced(q, Cardinality(RecordsOf(st, tool)), Cardinality(CallLinesOf(a, tool)),
                 Cardinality(RunningCalls(g, tool)), tool)
    BY DEF Ahead
  <2>2. /\ Cardinality(RecordsOf(st, tool)) \in Nat /\ Cardinality(CallLinesOf(a, tool)) \in Nat
        /\ Cardinality(RunningCalls(g, tool)) \in Nat /\ Cardinality(RunningCalls(h, tool)) \in Nat
    BY CountedCalls
  <2>3. HowMany(q, "tool_end", tool, Len(q)) \in Nat /\ HowMany(q, "tool_start", tool, Len(q)) \in Nat
    BY HowManyNat
  <2>4. Cardinality(RunningCalls(h, tool)) <= Cardinality(RunningCalls(g, tool))
    OBVIOUS
  <2> QED BY <2>1, <2>2, <2>3, <2>4 DEF Balanced
<1> QED BY <1>1, <1>2, <1>3 DEF Ahead

\* One more line, of a kind that closes nothing: the trail stays closed.
LEMMA ClosedLonger ==
    ASSUME NEW a \in Seq(Line), NEW line \in Line, line.type # "agent_tool_call",
           NEW status, NEW turn, Closed(a, status, turn)
    PROVE  Closed(Append(a, line), status, turn)
<1> DEFINE longer == Append(a, line)
<1>1. /\ Len(a) \in Nat /\ DOMAIN a = 1..Len(a) /\ DOMAIN longer = 1..(Len(a) + 1)
      /\ \A j \in 1..Len(a) : longer[j] = a[j]
      /\ longer[Len(a) + 1] = line
  BY Appended
<1>2. CallLines(longer) = CallLines(a)
  BY <1>1 DEF CallLines
<1>3. PICK end \in DOMAIN a : ClosedAt(a, end, status, turn)
  BY DEF Closed
<1> HIDE DEF longer
<1>4. end \in DOMAIN longer /\ longer[end] = a[end] /\ longer[1] = a[1]
  BY <1>1, <1>3
<1>5. [i \in 1..(end - 2) |-> longer[i + 1].tools[1]] = [i \in 1..(end - 2) |-> a[i + 1].tools[1]]
  <2>1. \A i \in 1..(end - 2) : longer[i + 1] = a[i + 1]
    BY <1>1, <1>3
  <2> QED BY <2>1
<1>6. ClosedAt(longer, end, status, turn)
  <2>1. /\ longer[1].type = "agent_session_start" /\ CallLines(longer) = 2..(end - 1)
        /\ longer[end].type = "agent_session_complete"
    BY <1>2, <1>3, <1>4 DEF ClosedAt
  <2>2. longer[end].tools = [i \in 1..(end - 2) |-> longer[i + 1].tools[1]]
    BY <1>3, <1>4, <1>5 DEF ClosedAt
  <2>3. /\ longer[end].steps <= turn
        /\ longer[end].outcome = "max_steps_reached" <=> longer[end].steps = MaxSteps /\ status = 200
    BY <1>3, <1>4 DEF ClosedAt
  <2> QED BY <2>1, <2>2, <2>3 DEF ClosedAt
<1>7. Closed(longer, status, turn)
  BY <1>4, <1>6 DEF Closed
<1> QED BY <1>7 DEF longer

LEMMA ClosedLater ==
    ASSUME NEW a \in Seq(Line), NEW status, NEW turn \in Nat, NEW later \in Nat, turn <= later,
           Closed(a, status, turn)
    PROVE  Closed(a, status, later)
<1>1. PICK end \in DOMAIN a : ClosedAt(a, end, status, turn)
  BY DEF Closed
<1>2. a[end] \in Line
  OBVIOUS
<1>3. a[end].steps \in Nat
  BY <1>2 DEF Line
<1>4. ClosedAt(a, end, status, later)
  BY <1>1, <1>3 DEF ClosedAt
<1> QED BY <1>4 DEF Closed

LEMMA HalfMonotone ==
    ASSUME NEW m \in Nat, NEW n \in Nat, m <= n
    PROVE  (m + 1) \div 2 \in Nat /\ (n + 1) \div 2 \in Nat /\ (m + 1) \div 2 <= (n + 1) \div 2
  OBVIOUS

\* What a step of the graph has to show: the rest of the session is kept.
LEMMA GraphGoesOn ==
    ASSUME AgentInv, NEW s \in Sessions, NEW g \in Graph, NEW q \in Seq(Event),
           GraphOnly, graph' = [graph EXCEPT ![s] = g], queue' = [queue EXCEPT ![s] = q],
           graph[s].at \in {"model", "tools"}, g.at # "none", graph[s].node <= g.node,
           GraphOK(g), Named(q),
           handler[s] = "running" => Ahead(q, g, session[s].steps, audit[s], store[s])
    PROVE  AgentInv'
<1>1. Typed(s) /\ Inv(s)
  BY TypedSession DEF AgentInv
<1>2. SessionTyped(handler[s], g, q, session[s], reply[s], audit[s], store[s])
  BY <1>1 DEF Typed, SessionTyped
<1>3. Becomes(s, handler[s], g, q, session[s], reply[s], audit[s], store[s])
  BY DEF Becomes, GraphOnly, AgentInv, TypeOK
<1>4. Stage(handler[s], g, q, session[s], reply[s], audit[s], store[s])
  BY <1>1 DEF Inv, SessionInv, Stage, NoGraph
<1>5. reply[s].status \in {200, 502} => Closed(audit[s], reply[s].status, (g.node + 1) \div 2)
  <2> SUFFICES ASSUME reply[s].status \in {200, 502}
               PROVE  Closed(audit[s], reply[s].status, (g.node + 1) \div 2)
    OBVIOUS
  <2>1. Closed(audit[s], reply[s].status, (graph[s].node + 1) \div 2) /\ audit[s] \in Seq(Line)
    BY <1>1 DEF Inv, SessionInv, Typed, SessionTyped
  <2>2. graph[s].node \in Nat /\ g.node \in Nat
    BY <1>1, AgentAssumption DEF Typed, SessionTyped, Graph, RecursionLimit
  <2>3. /\ (graph[s].node + 1) \div 2 \in Nat /\ (g.node + 1) \div 2 \in Nat
        /\ (graph[s].node + 1) \div 2 <= (g.node + 1) \div 2
    BY <2>2, HalfMonotone
  <2> QED BY <2>1, <2>3, ClosedLater
<1>6. Recorded(audit[s], store[s]) /\ (handler[s] = "running" => Opened(audit[s], session[s].tools))
  BY <1>1 DEF Inv, SessionInv
<1>7. SessionInv(handler[s], g, q, session[s], reply[s], audit[s], store[s])
  BY <1>4, <1>5, <1>6 DEF SessionInv
<1> QED BY <1>2, <1>3, <1>7, SessionStep

LEMMA NodeNat ==
    ASSUME NEW g \in Graph
    PROVE  g.node \in Nat /\ g.node <= RecursionLimit + 1 /\ RecursionLimit = MaxSteps * 2 + 1
           /\ RecursionLimit \in Nat /\ MaxSteps \in Nat /\ g.calls \in Seq(ToolCall)
  BY AgentAssumption DEF Graph, RecursionLimit

LEMMA NamedAppend ==
    ASSUME NEW q \in Seq(Event), NEW e \in Event, Named(q),
           e.kind \in {"tool_start", "tool_end"} => e.tool \in Tools
    PROVE  Named(Append(q, e))
  BY Appended DEF Named

LEMMA EventTyped ==
    ASSUME TypeOK, NEW s \in Sessions, NEW tool \in Tools \cup {NoTool},
           NEW kind \in {"model_end", "tool_start", "tool_end", "end", "router_error", "other_error"}
    PROVE  /\ ToolEvent(kind, tool, s) \in Event
           /\ ToolEvent(kind, tool, s) = [kind |-> kind, tool |-> tool, turn |-> (graph[s].node + 1) \div 2]
<1>1. graph[s] \in Graph
  BY DEF TypeOK
<1>2. (graph[s].node + 1) \div 2 \in Nat
  BY <1>1, NodeNat
<1> QED BY <1>2 DEF ToolEvent, Turn, Event

LEMMA NoneRuns ==
    ASSUME NEW calls, \A i \in DOMAIN calls : calls[i].at # "running", NEW at, NEW node, NEW tool
    PROVE  Cardinality(RunningCalls([at |-> at, node |-> node, calls |-> calls], tool)) = 0
<1>1. RunningCalls([at |-> at, node |-> node, calls |-> calls], tool) = {}
  BY DEF RunningCalls
<1> QED BY <1>1, FS_EmptySet

LEMMA PlainIsNoTool ==
    ASSUME NEW e, e.tool = NoTool, NEW tool \in Tools, NEW kind
    PROVE  One(e, kind, tool) = 0
  BY AgentAssumption DEF One, Has

LEMMA OddNode ==
    ASSUME NEW n \in Nat, n % 2 = 1
    PROVE  /\ (n - 1) \div 2 \in Nat /\ (n + 1) \div 2 = (n - 1) \div 2 + 1
           /\ ((n + 1) + 1) \div 2 = (n + 1) \div 2 /\ (n + 1) % 2 = 0
  OBVIOUS

LEMMA EvenNode ==
    ASSUME NEW n \in Nat, n % 2 = 0
    PROVE  ((n + 1) - 1) \div 2 = (n + 1) \div 2 /\ (n + 1) % 2 = 1 /\ (n + 1) \div 2 \in Nat
  OBVIOUS

LEMMA LastNode ==
    ASSUME NEW n \in Nat, NEW m \in Nat, n % 2 = 1, m * 2 + 1 - n < 2
    PROVE  (n + 1) \div 2 > m
  OBVIOUS

LEMMA GraphTyped ==
    ASSUME NEW at \in {"none", "model", "tools", "over"}, NEW node \in Nat, node <= RecursionLimit + 1,
           NEW calls \in Seq(ToolCall)
    PROVE  [at |-> at, node |-> node, calls |-> calls] \in Graph
<1>1. RecursionLimit \in Nat
  BY AgentAssumption DEF RecursionLimit
<1>2. node \in 0..(RecursionLimit + 1)
  BY <1>1
<1> QED BY <1>2 DEF Graph

IsPlain(e, kind, turn) == e \in Event /\ e.kind = kind /\ e.tool = NoTool /\ e.turn = turn
Idle(calls) == calls \in Seq(ToolCall) /\ \A i \in DOMAIN calls : calls[i].at # "running"

LEMMA IdleRuns ==
    ASSUME NEW g \in Graph, Idle(g.calls), NEW tool
    PROVE  Cardinality(RunningCalls(g, tool)) = 0
<1>1. RunningCalls(g, tool) = {}
  BY DEF RunningCalls, Idle
<1> QED BY <1>1, FS_EmptySet

\* The end of a turn: the graph goes on to the tools.
LEMMA TurnToTools ==
    ASSUME NEW g \in Graph, g.at = "model", GraphOK(g), NEW calls, Idle(calls),
           NEW h, h = [at |-> "tools", node |-> g.node + 1, calls |-> calls]
    PROVE  /\ h \in Graph /\ Told(h) = (g.node + 1) \div 2 /\ h.at = "tools" /\ h.calls = calls
           /\ Told(g) \in Nat /\ Told(h) = Told(g) + 1
           /\ g.node + 1 < RecursionLimit => GraphOK(h)
<1>1. /\ g.node % 2 = 1 /\ g.node <= RecursionLimit /\ g.node \in Nat /\ RecursionLimit \in Nat
      /\ (g.node - 1) \div 2 \in Nat /\ (g.node + 1) \div 2 = (g.node - 1) \div 2 + 1
      /\ ((g.node + 1) + 1) \div 2 = (g.node + 1) \div 2 /\ (g.node + 1) % 2 = 0
  BY NodeNat, OddNode DEF GraphOK
<1>2. h.at = "tools" /\ h.node = g.node + 1 /\ h.calls = calls
  OBVIOUS
<1>3. h \in Graph
  <2>1. g.node + 1 \in Nat /\ g.node + 1 <= RecursionLimit + 1
    BY <1>1
  <2>2. [at |-> "tools", node |-> g.node + 1, calls |-> calls] \in Graph
    BY <2>1, GraphTyped DEF Idle
  <2> QED BY <2>2
<1>4. Told(h) = (g.node + 1) \div 2 /\ Told(g) \in Nat /\ Told(h) = Told(g) + 1
  BY <1>1, <1>2 DEF Told
<1>5. g.node + 1 < RecursionLimit => GraphOK(h)
  BY <1>1, <1>2 DEF GraphOK, Idle
<1> QED BY <1>2, <1>3, <1>4, <1>5

LEMMA AheadToTools ==
    ASSUME NEW g \in Graph, g.at = "model", GraphOK(g), NEW calls, Idle(calls),
           NEW h, h = [at |-> "tools", node |-> g.node + 1, calls |-> calls],
           NEW q \in Seq(Event), NEW told, IsPlain(told, "model_end", (g.node + 1) \div 2),
           NEW steps \in Nat, NEW a \in Seq(Line), NEW st \in Seq(StepRecord),
           Ahead(q, g, steps, a, st)
    PROVE  Ahead(Append(q, told), h, steps, a, st)
<1>1. /\ h \in Graph /\ Told(h) = (g.node + 1) \div 2 /\ h.at = "tools" /\ h.calls = calls
      /\ Told(g) \in Nat /\ Told(h) = Told(g) + 1
  BY TurnToTools
<1>2. /\ told \in Event /\ told.kind = "model_end" /\ told.tool = NoTool /\ told.turn = Told(h)
      /\ told.turn = Told(g) + Opens(told)
  BY <1>1 DEF IsPlain, Opens
<1>3. ASSUME NEW tool \in Tools
      PROVE  Cardinality(RunningCalls(h, tool)) + One(told, "tool_end", tool)
               <= Cardinality(RunningCalls(g, tool)) + One(told, "tool_start", tool)
  <2>1. Cardinality(RunningCalls(h, tool)) = 0 /\ Cardinality(RunningCalls(g, tool)) \in Nat
    BY <1>1, IdleRuns, CountedCalls
  <2>2. One(told, "tool_end", tool) = 0 /\ One(told, "tool_start", tool) = 0
    BY <1>2, PlainIsNoTool
  <2> QED BY <2>1, <2>2
<1>4. g.at # "over" /\ told.kind # "end"
  BY <1>2
<1> QED BY <1>1, <1>2, <1>3, <1>4, AheadAppend

\* The end of a turn and of the stream.
LEMMA TurnToEnd ==
    ASSUME NEW g \in Graph, g.at = "model", GraphOK(g), NEW calls, Idle(calls),
           calls = << >> \/ RecursionLimit - g.node < 2,
           NEW h, h = [at |-> "over", node |-> g.node, calls |-> calls]
    PROVE  /\ h \in Graph /\ GraphOK(h) /\ h.at = "over" /\ h.calls = calls
           /\ Told(h) = (g.node + 1) \div 2 /\ (h.calls = << >> \/ Told(h) > MaxSteps)
<1>1. /\ g.node % 2 = 1 /\ g.node <= RecursionLimit + 1 /\ g.node \in Nat
      /\ RecursionLimit = MaxSteps * 2 + 1 /\ MaxSteps \in Nat
  BY NodeNat DEF GraphOK
<1>2. h.at = "over" /\ h.node = g.node /\ h.calls = calls
  OBVIOUS
<1>3. h \in Graph
  <2>1. [at |-> "over", node |-> g.node, calls |-> calls] \in Graph
    BY <1>1, GraphTyped DEF Idle
  <2> QED BY <2>1
<1>4. GraphOK(h)
  BY <1>2 DEF GraphOK, Idle
<1>5. Told(h) = (g.node + 1) \div 2
  BY <1>2 DEF Told
<1>6. RecursionLimit - g.node < 2 => (g.node + 1) \div 2 > MaxSteps
  BY <1>1, LastNode
<1> QED BY <1>2, <1>3, <1>4, <1>5, <1>6

LEMMA AheadToEnd ==
    ASSUME NEW g \in Graph, g.at = "model", GraphOK(g), NEW calls, Idle(calls),
           calls = << >> \/ RecursionLimit - g.node < 2,
           NEW h, h = [at |-> "over", node |-> g.node, calls |-> calls],
           NEW q \in Seq(Event), NEW told, IsPlain(told, "model_end", (g.node + 1) \div 2),
           NEW ended, IsPlain(ended, "end", (g.node + 1) \div 2),
           NEW steps \in Nat, NEW a \in Seq(Line), NEW st \in Seq(StepRecord),
           Ahead(q, g, steps, a, st)
    PROVE  Ahead(Append(Append(q, told), ended), h, steps, a, st)
<1>1. /\ h \in Graph /\ h.at = "over" /\ h.calls = calls /\ Told(h) = (g.node + 1) \div 2
      /\ (h.calls = << >> \/ Told(h) > MaxSteps)
  BY TurnToEnd
<1>2. PICK none : none = << >> /\ Idle(none)
  <2>1. << >> \in Seq(ToolCall) /\ DOMAIN << >> = {}
    OBVIOUS
  <2>2. Idle(<< >>)
    BY <2>1 DEF Idle
  <2> QED BY <2>2
<1>3. PICK m : m = [at |-> "tools", node |-> g.node + 1, calls |-> none]
  OBVIOUS
<1>4. m \in Graph /\ Told(m) = (g.node + 1) \div 2 /\ m.at = "tools" /\ m.calls = none /\ Told(m) \in Nat
  BY <1>2, <1>3, TurnToTools
<1>5. PICK p : p = Append(q, told)
  OBVIOUS
<1>6. p \in Seq(Event)
  BY <1>5 DEF IsPlain
<1>7. Ahead(p, m, steps, a, st)
  BY <1>2, <1>3, <1>5, AheadToTools
<1>8. /\ ended \in Event /\ ended.kind = "end" /\ ended.tool = NoTool /\ ended.turn = Told(h)
      /\ ended.turn = Told(m) + Opens(ended)
  BY <1>1, <1>4 DEF IsPlain, Opens
<1>9. ASSUME NEW tool \in Tools
      PROVE  Cardinality(RunningCalls(h, tool)) + One(ended, "tool_end", tool)
               <= Cardinality(RunningCalls(m, tool)) + One(ended, "tool_start", tool)
  <2>1. Cardinality(RunningCalls(h, tool)) = 0 /\ Cardinality(RunningCalls(m, tool)) = 0
    BY <1>1, <1>2, <1>4, IdleRuns
  <2>2. One(ended, "tool_end", tool) = 0 /\ One(ended, "tool_start", tool) = 0
    BY <1>8, PlainIsNoTool
  <2> QED BY <2>1, <2>2
<1>10. Ahead(Append(p, ended), h, steps, a, st)
  BY <1>1, <1>4, <1>6, <1>7, <1>8, <1>9, AheadAppend
<1> QED BY <1>5, <1>10

LEMMA PutsOne ==
    ASSUME TypeOK, NEW s \in Sessions, NEW e \in Event, Put(s, <<e>>)
    PROVE  queue' = [queue EXCEPT ![s] = Append(queue[s], e)]
<1>1. queue[s] \in Seq(Event)
  BY DEF TypeOK
<1>2. queue[s] \o <<e>> = Append(queue[s], e)
  BY <1>1, PutOne
<1> QED BY <1>2 DEF Put

LEMMA PutsTwo ==
    ASSUME TypeOK, NEW s \in Sessions, NEW e \in Event, NEW f \in Event, Put(s, <<e, f>>)
    PROVE  queue' = [queue EXCEPT ![s] = Append(Append(queue[s], e), f)]
<1>1. queue[s] \in Seq(Event)
  BY DEF TypeOK
<1>2. queue[s] \o <<e, f>> = Append(Append(queue[s], e), f)
  BY <1>1, PutTwo
<1> QED BY <1>2 DEF Put

\* What a step of the graph starts from.
LEMMA GraphStarts ==
    ASSUME AgentInv, NEW s \in Sessions
    PROVE  /\ TypeOK /\ graph[s] \in Graph /\ GraphOK(graph[s])
           /\ queue[s] \in Seq(Event) /\ Named(queue[s])
           /\ handler[s] = "running" => Ahead(queue[s], graph[s], session[s].steps, audit[s], store[s])
           /\ session[s].steps \in Nat /\ audit[s] \in Seq(Line) /\ store[s] \in Seq(StepRecord)
<1>1. Typed(s) /\ Inv(s) /\ TypeOK
  BY TypedSession DEF AgentInv
<1> QED BY <1>1, AgentAssumption DEF Typed, SessionTyped, Inv, SessionInv, Session

LEMMA PlainIs ==
    ASSUME TypeOK, NEW s \in Sessions,
           NEW kind \in {"model_end", "tool_start", "tool_end", "end", "router_error", "other_error"}
    PROVE  IsPlain(PlainEvent(kind, s), kind, (graph[s].node + 1) \div 2)
<1>1. PICK tool \in Tools \cup {NoTool} : tool = NoTool
  OBVIOUS
<1>2. /\ ToolEvent(kind, tool, s) \in Event
      /\ ToolEvent(kind, tool, s) = [kind |-> kind, tool |-> tool, turn |-> (graph[s].node + 1) \div 2]
  BY EventTyped
<1> QED BY <1>1, <1>2 DEF PlainEvent, IsPlain

LEMMA ModelAnswersStep ==
    ASSUME AgentInv, NEW s \in Sessions, ModelAnswers(s)
    PROVE  AgentInv'
<1>1. PICK g, q, steps, a, st :
        g = graph[s] /\ q = queue[s] /\ steps = session[s].steps /\ a = audit[s] /\ st = store[s]
  OBVIOUS
<1>2. /\ TypeOK /\ g \in Graph /\ GraphOK(g) /\ q \in Seq(Event) /\ Named(q)
      /\ handler[s] = "running" => Ahead(q, g, steps, a, st)
      /\ steps \in Nat /\ a \in Seq(Line) /\ st \in Seq(StepRecord)
  BY <1>1, GraphStarts
<1>3. g.at = "model" /\ GraphOnly /\ g.node \in Nat /\ RecursionLimit \in Nat
  BY <1>1, <1>2, NodeNat DEF ModelAnswers
<1>4. PICK told, ended :
        /\ told = PlainEvent("model_end", s) /\ IsPlain(told, "model_end", (g.node + 1) \div 2)
        /\ ended = PlainEvent("end", s) /\ IsPlain(ended, "end", (g.node + 1) \div 2)
  BY <1>1, <1>2, PlainIs
<1>5. /\ told \in Event /\ ended \in Event
      /\ Append(q, told) \in Seq(Event) /\ Named(Append(q, told))
  BY <1>2, <1>4, NamedAppend DEF IsPlain
<1>6. Append(Append(q, told), ended) \in Seq(Event) /\ Named(Append(Append(q, told), ended))
  <2>1. PICK p : p = Append(q, told)
    OBVIOUS
  <2>2. p \in Seq(Event) /\ Named(p) /\ ended \in Event /\ ended.kind = "end"
    BY <1>4, <1>5, <2>1 DEF IsPlain
  <2>3. Append(p, ended) \in Seq(Event) /\ Named(Append(p, ended))
    BY <2>2, NamedAppend
  <2> QED BY <2>1, <2>3
<1>7. PICK tools \in BoundedSeq(Tools \cup {NoTool}, MaxCalls) :
        LET calls == [i \in DOMAIN tools |-> [tool |-> tools[i], at |-> "called"]]
            goesOn == calls # << >> /\ RecursionLimit - g.node >= 2
        IN  IF goesOn
            THEN /\ graph' = [graph EXCEPT ![s] = [at |-> "tools", node |-> g.node + 1, calls |-> calls]]
                 /\ Put(s, <<told>>)
            ELSE /\ graph' = [graph EXCEPT ![s] = [at |-> "over", node |-> g.node, calls |-> calls]]
                 /\ Put(s, <<told, ended>>)
  BY <1>1, <1>2, <1>4 DEF ModelAnswers, TypeOK
<1>8. PICK calls : calls = [i \in DOMAIN tools |-> [tool |-> tools[i], at |-> "called"]]
  OBVIOUS
<1>9. Idle(calls)
  <2>1. PICK n \in 0..MaxCalls : tools \in [1..n -> Tools \cup {NoTool}]
    BY DEF BoundedSeq, SeqOf
  <2>2. n \in Nat
    BY AgentAssumption
  <2>3. calls \in [1..n -> ToolCall]
    BY <1>8, <2>1 DEF ToolCall
  <2>4. calls \in Seq(ToolCall)
    BY <2>2, <2>3
  <2>5. \A i \in DOMAIN calls : calls[i].at # "running"
    BY <1>8
  <2> QED BY <2>4, <2>5 DEF Idle
<1>10. CASE calls # << >> /\ RecursionLimit - g.node >= 2
  <2>1. PICK h : h = [at |-> "tools", node |-> g.node + 1, calls |-> calls]
    OBVIOUS
  <2>2. graph' = [graph EXCEPT ![s] = h] /\ Put(s, <<told>>)
    BY <1>7, <1>8, <1>10, <2>1
  <2>3. queue' = [queue EXCEPT ![s] = Append(q, told)]
    BY <1>1, <1>2, <1>5, <2>2, PutsOne
  <2>4. h \in Graph /\ h.at = "tools" /\ GraphOK(h) /\ g.node <= h.node
    <3>1. g.node + 1 < RecursionLimit
      BY <1>3, <1>10
    <3> QED BY <1>2, <1>3, <1>9, <2>1, <3>1, TurnToTools
  <2>5. handler[s] = "running" => Ahead(Append(q, told), h, steps, a, st)
    BY <1>2, <1>3, <1>4, <1>9, <2>1, AheadToTools
  <2> QED BY <1>1, <1>3, <1>5, <2>2, <2>3, <2>4, <2>5, GraphGoesOn
<1>11. CASE ~(calls # << >> /\ RecursionLimit - g.node >= 2)
  <2>1. PICK h : h = [at |-> "over", node |-> g.node, calls |-> calls]
    OBVIOUS
  <2>2. graph' = [graph EXCEPT ![s] = h] /\ Put(s, <<told, ended>>)
    BY <1>7, <1>8, <1>11, <2>1
  <2>3. queue' = [queue EXCEPT ![s] = Append(Append(q, told), ended)]
    BY <1>1, <1>2, <1>5, <2>2, PutsTwo
  <2>4. calls = << >> \/ RecursionLimit - g.node < 2
    BY <1>3, <1>11
  <2>5. h \in Graph /\ h.at = "over" /\ GraphOK(h) /\ g.node <= h.node
    BY <1>2, <1>3, <1>9, <2>1, <2>4, TurnToEnd
  <2>6. handler[s] = "running" => Ahead(Append(Append(q, told), ended), h, steps, a, st)
    BY <1>2, <1>3, <1>4, <1>9, <2>1, <2>4, AheadToEnd
  <2> QED BY <1>1, <1>3, <1>6, <2>2, <2>3, <2>5, <2>6, GraphGoesOn
<1> QED BY <1>10, <1>11

LEMMA AtIsLast ==
    ASSUME NEW g \in Graph, NEW at
    PROVE  [g EXCEPT !.at = at] = [at |-> at, node |-> g.node, calls |-> g.calls]
  BY DEF Graph

LEMMA ModelFailsStep ==
    ASSUME AgentInv, NEW s \in Sessions, ModelFails(s)
    PROVE  AgentInv'
<1>1. PICK g, q, steps, a, st :
        g = graph[s] /\ q = queue[s] /\ steps = session[s].steps /\ a = audit[s] /\ st = store[s]
  OBVIOUS
<1>2. /\ TypeOK /\ g \in Graph /\ GraphOK(g) /\ q \in Seq(Event) /\ Named(q)
      /\ handler[s] = "running" => Ahead(q, g, steps, a, st)
      /\ steps \in Nat /\ a \in Seq(Line) /\ st \in Seq(StepRecord)
  BY <1>1, GraphStarts
<1>3. /\ g.at = "model" /\ GraphOnly /\ g.node \in Nat /\ g.node <= RecursionLimit + 1
      /\ g.calls = << >> /\ g.node % 2 = 1
  BY <1>1, <1>2, NodeNat DEF ModelFails, GraphOK
<1>4. PICK kind \in {"router_error", "other_error"} : Put(s, <<PlainEvent(kind, s)>>)
  BY DEF ModelFails
<1>5. PICK e : e = PlainEvent(kind, s)
  OBVIOUS
<1>6. IsPlain(e, kind, (g.node + 1) \div 2)
  <2>1. kind \in {"model_end", "tool_start", "tool_end", "end", "router_error", "other_error"}
    OBVIOUS
  <2> QED BY <1>1, <1>2, <1>5, <2>1, PlainIs
<1>7. e \in Event /\ e.kind = kind /\ e.tool = NoTool /\ e.turn = (g.node + 1) \div 2 /\ Opens(e) = 1
  BY <1>6 DEF IsPlain, Opens
<1>8. PICK h : h = [at |-> "over", node |-> g.node, calls |-> g.calls]
  OBVIOUS
<1>9. graph' = [graph EXCEPT ![s] = h]
  <2>1. graph' = [graph EXCEPT ![s] = [graph[s] EXCEPT !.at = "over"]]
    BY DEF ModelFails
  <2>2. [g EXCEPT !.at = "over"] = h
    BY <1>2, <1>8, AtIsLast
  <2> QED BY <1>1, <2>1, <2>2
<1>10. Idle(g.calls)
  <2>1. << >> \in Seq(ToolCall) /\ DOMAIN << >> = {}
    OBVIOUS
  <2> QED BY <1>3, <2>1 DEF Idle
<1>11. /\ h \in Graph /\ GraphOK(h) /\ h.at = "over" /\ h.calls = g.calls /\ h.node = g.node
       /\ Told(h) = (g.node + 1) \div 2
  BY <1>2, <1>3, <1>8, <1>10, TurnToEnd
<1>12. Told(g) \in Nat /\ e.turn = Told(g) + Opens(e) /\ Told(h) = e.turn
  BY <1>3, <1>7, <1>11, OddNode DEF Told
<1>13. ASSUME NEW tool \in Tools
       PROVE  Cardinality(RunningCalls(h, tool)) + One(e, "tool_end", tool)
                <= Cardinality(RunningCalls(g, tool)) + One(e, "tool_start", tool)
  <2>1. Cardinality(RunningCalls(h, tool)) = 0 /\ Cardinality(RunningCalls(g, tool)) = 0
    BY <1>2, <1>10, <1>11, IdleRuns
  <2>2. One(e, "tool_end", tool) = 0 /\ One(e, "tool_start", tool) = 0
    BY <1>7, PlainIsNoTool
  <2> QED BY <2>1, <2>2
<1>14. handler[s] = "running" => Ahead(Append(q, e), h, steps, a, st)
  <2>1. g.at # "over" /\ e.kind # "end"
    BY <1>3, <1>7
  <2> QED BY <1>2, <1>7, <1>11, <1>12, <1>13, <2>1, AheadAppend
<1>15. queue' = [queue EXCEPT ![s] = Append(q, e)]
  BY <1>1, <1>2, <1>4, <1>5, <1>7, PutsOne
<1>16. Append(q, e) \in Seq(Event) /\ Named(Append(q, e))
  BY <1>2, <1>7, NamedAppend
<1>17. /\ graph[s].at \in {"model", "tools"} /\ h.at # "none" /\ graph[s].node <= h.node
       /\ h \in Graph /\ GraphOK(h)
  BY <1>1, <1>3, <1>11
<1>18. handler[s] = "running" => Ahead(Append(q, e), h, session[s].steps, audit[s], store[s])
  BY <1>1, <1>14
<1> QED BY <1>3, <1>9, <1>15, <1>16, <1>17, <1>18, GraphGoesOn

\* A call i of the tools node gets on: what the other calls are is kept.
CallAt(g, i, at) == [at |-> "tools", node |-> g.node, calls |-> [g.calls EXCEPT ![i].at = at]]

LEMMA CallGoesOn ==
    ASSUME NEW g \in Graph, g.at = "tools", GraphOK(g), NEW i \in DOMAIN g.calls,
           NEW at \in {"running", "over"}, at = "running" => g.calls[i].tool \in Tools,
           NEW h, h = CallAt(g, i, at)
    PROVE  /\ h \in Graph /\ GraphOK(h) /\ h.at = "tools" /\ h.node = g.node
           /\ Told(h) = Told(g) /\ Told(g) = (g.node + 1) \div 2 /\ Told(g) \in Nat
           /\ DOMAIN h.calls = DOMAIN g.calls
           /\ h.calls[i].at = at /\ h.calls[i].tool = g.calls[i].tool
           /\ \A j \in DOMAIN g.calls \ {i} : h.calls[j] = g.calls[j]
<1>1. /\ g.calls \in Seq(ToolCall) /\ g.node \in Nat /\ g.node <= RecursionLimit + 1
      /\ g.node % 2 = 0 /\ g.node < RecursionLimit
  BY NodeNat DEF GraphOK
<1>2. PICK calls : calls = [g.calls EXCEPT ![i].at = at]
  OBVIOUS
<1>3. /\ DOMAIN calls = DOMAIN g.calls
      /\ \A j \in DOMAIN g.calls \ {i} : calls[j] = g.calls[j]
      /\ calls[i] = [g.calls[i] EXCEPT !.at = at]
  BY <1>2
<1>4. g.calls[i] \in ToolCall
  BY <1>1
<1>5. calls[i] \in ToolCall /\ calls[i].at = at /\ calls[i].tool = g.calls[i].tool
  BY <1>3, <1>4 DEF ToolCall
<1>6. calls \in Seq(ToolCall)
  <2>1. DOMAIN g.calls = 1..Len(g.calls) /\ Len(g.calls) \in Nat
    BY <1>1
  <2>2. \A j \in 1..Len(g.calls) : calls[j] \in ToolCall
    BY <1>1, <1>3, <1>5, <2>1
  <2>3. calls \in [1..Len(g.calls) -> ToolCall]
    BY <1>2, <2>1, <2>2
  <2> QED BY <2>1, <2>3
<1>7. h.at = "tools" /\ h.node = g.node /\ h.calls = calls
  BY <1>2 DEF CallAt
<1>8. h \in Graph
  <2>1. [at |-> "tools", node |-> g.node, calls |-> calls] \in Graph
    BY <1>1, <1>6, GraphTyped
  <2> QED BY <1>2, <2>1 DEF CallAt
<1>9. GraphOK(h)
  <2>1. ASSUME NEW j \in DOMAIN calls, calls[j].at = "running" PROVE calls[j].tool \in Tools
    <3>1. CASE j = i
      BY <1>5, <2>1, <3>1
    <3>2. CASE j # i
      <4>1. calls[j] = g.calls[j] /\ j \in DOMAIN g.calls
        BY <1>3, <3>2
      <4> QED BY <2>1, <4>1 DEF GraphOK
    <3> QED BY <3>1, <3>2
  <2>2. h.at # "none" /\ h.at # "model" /\ h.node % 2 = 0 /\ h.node < RecursionLimit
    BY <1>1, <1>7
  <2> QED BY <1>7, <2>1, <2>2 DEF GraphOK
<1>10. Told(h) = Told(g) /\ Told(g) = (g.node + 1) \div 2 /\ Told(g) \in Nat
  BY <1>1, <1>7 DEF Told
<1> QED BY <1>3, <1>5, <1>7, <1>8, <1>9, <1>10

\* The running calls of each tool, when call i starts or is over.
LEMMA RunsOneMore ==
    ASSUME NEW g \in Graph, g.at = "tools", GraphOK(g), NEW i \in DOMAIN g.calls,
           g.calls[i].at # "running", g.calls[i].tool \in Tools,
           NEW h, h = CallAt(g, i, "running"), NEW tool
    PROVE  Cardinality(RunningCalls(h, tool))
             = Cardinality(RunningCalls(g, tool)) + (IF g.calls[i].tool = tool THEN 1 ELSE 0)
<1>1. /\ h \in Graph /\ DOMAIN h.calls = DOMAIN g.calls /\ h.calls[i].at = "running"
      /\ h.calls[i].tool = g.calls[i].tool /\ \A j \in DOMAIN g.calls \ {i} : h.calls[j] = g.calls[j]
  BY CallGoesOn
<1>2. PICK before, after : before = RunningCalls(g, tool) /\ after = RunningCalls(h, tool)
  OBVIOUS
<1>3. after = IF g.calls[i].tool = tool THEN before \cup {i} ELSE before
  BY <1>1, <1>2 DEF RunningCalls
<1>4. i \notin before
  BY <1>2 DEF RunningCalls
<1>5. IsFiniteSet(before) /\ Cardinality(before) \in Nat
  <2>1. \A a \in Seq(Line), st \in Seq(StepRecord) :
          IsFiniteSet(RunningCalls(g, tool)) /\ Cardinality(RunningCalls(g, tool)) \in Nat
    BY CountedCalls
  <2>2. << >> \in Seq(Line) /\ << >> \in Seq(StepRecord)
    OBVIOUS
  <2> QED BY <1>2, <2>1, <2>2
<1>6. Cardinality(before \cup {i}) = IF i \in before THEN Cardinality(before) ELSE Cardinality(before) + 1
  BY <1>5, OneMore
<1>7. Cardinality(after) = Cardinality(before) + (IF g.calls[i].tool = tool THEN 1 ELSE 0)
  BY <1>3, <1>4, <1>5, <1>6
<1> QED BY <1>2, <1>7

LEMMA RunsOneLess ==
    ASSUME NEW g \in Graph, g.at = "tools", GraphOK(g), NEW i \in DOMAIN g.calls,
           NEW h, h = CallAt(g, i, "over"), NEW tool
    PROVE  Cardinality(RunningCalls(g, tool))
             = Cardinality(RunningCalls(h, tool))
                 + (IF g.calls[i].at = "running" /\ g.calls[i].tool = tool THEN 1 ELSE 0)
<1>1. /\ h \in Graph /\ DOMAIN h.calls = DOMAIN g.calls /\ h.calls[i].at = "over"
      /\ \A j \in DOMAIN g.calls \ {i} : h.calls[j] = g.calls[j]
  BY CallGoesOn
<1>2. PICK before, after : before = RunningCalls(g, tool) /\ after = RunningCalls(h, tool)
  OBVIOUS
<1>3. before = IF g.calls[i].at = "running" /\ g.calls[i].tool = tool THEN after \cup {i} ELSE after
  BY <1>1, <1>2 DEF RunningCalls
<1>4. i \notin after
  BY <1>1, <1>2 DEF RunningCalls
<1>5. IsFiniteSet(after) /\ Cardinality(after) \in Nat
  <2>1. << >> \in Seq(Line) /\ << >> \in Seq(StepRecord)
    OBVIOUS
  <2>2. IsFiniteSet(RunningCalls(h, tool)) /\ Cardinality(RunningCalls(h, tool)) \in Nat
    BY <1>1, <2>1, CountedCalls
  <2> QED BY <1>2, <2>2
<1>6. Cardinality(after \cup {i}) = IF i \in after THEN Cardinality(after) ELSE Cardinality(after) + 1
  BY <1>5, OneMore
<1>7. Cardinality(before)
        = Cardinality(after) + (IF g.calls[i].at = "running" /\ g.calls[i].tool = tool THEN 1 ELSE 0)
  BY <1>3, <1>4, <1>5, <1>6
<1> QED BY <1>2, <1>7

\* The event of a call of the tools node, and what the step of it starts from.
LEMMA ToolEventIs ==
    ASSUME TypeOK, NEW s \in Sessions, NEW tool \in Tools, NEW kind \in {"tool_start", "tool_end"},
           NEW e, e = ToolEvent(kind, tool, s)
    PROVE  /\ e \in Event /\ e.kind = kind /\ e.tool = tool /\ e.turn = (graph[s].node + 1) \div 2
           /\ Opens(e) = 0
<1>1. /\ ToolEvent(kind, tool, s) \in Event
      /\ ToolEvent(kind, tool, s) = [kind |-> kind, tool |-> tool, turn |-> (graph[s].node + 1) \div 2]
  <2>1. kind \in {"model_end", "tool_start", "tool_end", "end", "router_error", "other_error"}
        /\ tool \in Tools \cup {NoTool}
    OBVIOUS
  <2> QED BY <2>1, EventTyped
<1>2. e.kind = kind /\ e.tool = tool /\ e.turn = (graph[s].node + 1) \div 2
  BY <1>1
<1> QED BY <1>1, <1>2 DEF Opens

CallSet(s, i, at) == graph' = [graph EXCEPT ![s].calls[i].at = at]

LEMMA CallChanges ==
    ASSUME TypeOK, NEW s \in Sessions, NEW g, g = graph[s], g.at = "tools",
           NEW i \in DOMAIN g.calls, NEW at,
           CallSet(s, i, at), NEW h, h = CallAt(g, i, at)
    PROVE  graph' = [graph EXCEPT ![s] = h]
<1>1. g \in Graph
  BY DEF TypeOK
<1>2. PICK calls : calls = [g.calls EXCEPT ![i].at = at]
  OBVIOUS
<1>3. [g EXCEPT !.calls[i].at = at] = [g EXCEPT !.calls = calls]
  BY <1>2
<1>4. [g EXCEPT !.calls = calls] = [at |-> g.at, node |-> g.node, calls |-> calls]
  BY <1>1 DEF Graph
<1>5. h = [at |-> g.at, node |-> g.node, calls |-> calls]
  BY <1>2 DEF CallAt
<1>6. graph' = [graph EXCEPT ![s] = [g EXCEPT !.calls[i].at = at]]
  BY DEF CallSet
<1> QED BY <1>3, <1>4, <1>5, <1>6

LEMMA ToolStartsStep ==
    ASSUME AgentInv, NEW s \in Sessions, NEW i \in DOMAIN graph[s].calls, ToolStarts(s, i)
    PROVE  AgentInv'
<1>1. PICK g, q, steps, a, st :
        g = graph[s] /\ q = queue[s] /\ steps = session[s].steps /\ a = audit[s] /\ st = store[s]
  OBVIOUS
<1>2. /\ TypeOK /\ g \in Graph /\ GraphOK(g) /\ q \in Seq(Event) /\ Named(q)
      /\ handler[s] = "running" => Ahead(q, g, steps, a, st)
      /\ steps \in Nat /\ a \in Seq(Line) /\ st \in Seq(StepRecord)
  BY <1>1, GraphStarts
<1>3. g.at = "tools" /\ i \in DOMAIN g.calls /\ g.calls[i].at = "called" /\ GraphOnly
  BY <1>1 DEF ToolStarts
<1>4. CASE g.calls[i].tool \in Tools
  <2>1. PICK e, h : e = ToolEvent("tool_start", g.calls[i].tool, s) /\ h = CallAt(g, i, "running")
    OBVIOUS
  <2>2. /\ e \in Event /\ e.kind = "tool_start" /\ e.tool = g.calls[i].tool
        /\ e.turn = (g.node + 1) \div 2 /\ Opens(e) = 0
    BY <1>1, <1>2, <1>4, <2>1, ToolEventIs
  <2>3. /\ h \in Graph /\ GraphOK(h) /\ h.at = "tools" /\ h.node = g.node
        /\ Told(h) = Told(g) /\ Told(g) = (g.node + 1) \div 2 /\ Told(g) \in Nat
    BY <1>2, <1>3, <1>4, <2>1, CallGoesOn
  <2>4. CallSet(s, i, "running") /\ Put(s, <<e>>)
    BY <1>1, <1>4, <2>1 DEF ToolStarts, CallSet
  <2>5. graph' = [graph EXCEPT ![s] = h]
    <3>1. CallSet(s, i, "running") /\ h = CallAt(g, i, "running") /\ g = graph[s]
      BY <1>1, <2>1, <2>4
    <3> QED BY <1>2, <1>3, <3>1, CallChanges
  <2>6. queue' = [queue EXCEPT ![s] = Append(q, e)]
    BY <1>1, <1>2, <2>2, <2>4, PutsOne
  <2>7. Append(q, e) \in Seq(Event) /\ Named(Append(q, e))
    BY <1>2, <1>4, <2>2, NamedAppend
  <2>8. ASSUME NEW tool \in Tools
        PROVE  Cardinality(RunningCalls(h, tool)) + One(e, "tool_end", tool)
                 <= Cardinality(RunningCalls(g, tool)) + One(e, "tool_start", tool)
    <3>1. Cardinality(RunningCalls(h, tool))
            = Cardinality(RunningCalls(g, tool)) + (IF g.calls[i].tool = tool THEN 1 ELSE 0)
      BY <1>2, <1>3, <1>4, <2>1, RunsOneMore
    <3>2. Cardinality(RunningCalls(g, tool)) \in Nat
      BY <1>2, CountedCalls
    <3>3. One(e, "tool_end", tool) = 0 /\ One(e, "tool_start", tool) = IF g.calls[i].tool = tool THEN 1 ELSE 0
      BY <2>2 DEF One, Has
    <3> QED BY <3>1, <3>2, <3>3
  <2>9. handler[s] = "running" => Ahead(Append(q, e), h, steps, a, st)
    <3>1. g.at # "over" /\ e.kind # "end" /\ e.turn = Told(g) + Opens(e) /\ Told(h) = e.turn
      BY <1>3, <2>2, <2>3
    <3> QED BY <1>2, <2>2, <2>3, <2>8, <3>1, AheadAppend
  <2>10. /\ graph[s].at \in {"model", "tools"} /\ h.at # "none" /\ graph[s].node <= h.node
         /\ handler[s] = "running" => Ahead(Append(q, e), h, session[s].steps, audit[s], store[s])
    BY <1>1, <1>2, <1>3, <2>3, <2>9, NodeNat
  <2> QED BY <1>3, <2>3, <2>5, <2>6, <2>7, <2>10, GraphGoesOn
<1>5. CASE g.calls[i].tool \notin Tools
  <2>1. PICK h : h = CallAt(g, i, "over")
    OBVIOUS
  <2>2. /\ h \in Graph /\ GraphOK(h) /\ h.at = "tools" /\ h.node = g.node /\ Told(h) = Told(g)
    BY <1>2, <1>3, <2>1, CallGoesOn
  <2>3. CallSet(s, i, "over") /\ UNCHANGED queue
    BY <1>1, <1>5 DEF ToolStarts, CallSet
  <2>4. graph' = [graph EXCEPT ![s] = h]
    BY <1>1, <1>2, <1>3, <2>1, <2>3, CallChanges
  <2>5. queue' = [queue EXCEPT ![s] = q]
    BY <1>1, <1>2, <2>3 DEF TypeOK
  <2>6. ASSUME NEW tool \in Tools
        PROVE  Cardinality(RunningCalls(h, tool)) <= Cardinality(RunningCalls(g, tool))
    <3>1. Cardinality(RunningCalls(g, tool)) = Cardinality(RunningCalls(h, tool))
            + (IF g.calls[i].at = "running" /\ g.calls[i].tool = tool THEN 1 ELSE 0)
      BY <1>2, <1>3, <2>1, RunsOneLess
    <3>2. Cardinality(RunningCalls(h, tool)) \in Nat
      BY <1>2, <2>2, CountedCalls
    <3> QED BY <3>1, <3>2
  <2>7. handler[s] = "running" => Ahead(q, h, steps, a, st)
    BY <1>2, <1>3, <2>2, <2>6, AheadQuiet
  <2>8. /\ graph[s].at \in {"model", "tools"} /\ h.at # "none" /\ graph[s].node <= h.node
        /\ handler[s] = "running" => Ahead(q, h, session[s].steps, audit[s], store[s])
    BY <1>1, <1>2, <1>3, <2>2, <2>7, NodeNat
  <2> QED BY <1>2, <1>3, <2>2, <2>4, <2>5, <2>8, GraphGoesOn
<1> QED BY <1>4, <1>5

LEMMA ToolEndsStep ==
    ASSUME AgentInv, NEW s \in Sessions, NEW i \in DOMAIN graph[s].calls, ToolEnds(s, i)
    PROVE  AgentInv'
<1>1. PICK g, q, steps, a, st :
        g = graph[s] /\ q = queue[s] /\ steps = session[s].steps /\ a = audit[s] /\ st = store[s]
  OBVIOUS
<1>2. /\ TypeOK /\ g \in Graph /\ GraphOK(g) /\ q \in Seq(Event) /\ Named(q)
      /\ handler[s] = "running" => Ahead(q, g, steps, a, st)
      /\ steps \in Nat /\ a \in Seq(Line) /\ st \in Seq(StepRecord)
  BY <1>1, GraphStarts
<1>3. g.at = "tools" /\ i \in DOMAIN g.calls /\ g.calls[i].at = "running" /\ GraphOnly
  BY <1>1 DEF ToolEnds
<1>4. g.calls[i].tool \in Tools
  BY <1>2, <1>3 DEF GraphOK
<1>5. PICK e, h : e = ToolEvent("tool_end", g.calls[i].tool, s) /\ h = CallAt(g, i, "over")
  OBVIOUS
<1>6. /\ e \in Event /\ e.kind = "tool_end" /\ e.tool = g.calls[i].tool
      /\ e.turn = (g.node + 1) \div 2 /\ Opens(e) = 0
  BY <1>1, <1>2, <1>4, <1>5, ToolEventIs
<1>7. /\ h \in Graph /\ GraphOK(h) /\ h.at = "tools" /\ h.node = g.node
      /\ Told(h) = Told(g) /\ Told(g) = (g.node + 1) \div 2 /\ Told(g) \in Nat
  BY <1>2, <1>3, <1>5, CallGoesOn
<1>8. CallSet(s, i, "over") /\ Put(s, <<e>>)
  BY <1>1, <1>5 DEF ToolEnds, CallSet
<1>9. graph' = [graph EXCEPT ![s] = h]
  <2>1. TypeOK /\ g = graph[s] /\ g.at = "tools" /\ i \in DOMAIN g.calls
    BY <1>1, <1>2, <1>3
  <2>2. CallSet(s, i, "over") /\ h = CallAt(g, i, "over")
    BY <1>5, <1>8
  <2> QED BY <2>1, <2>2, CallChanges
<1>10. queue' = [queue EXCEPT ![s] = Append(q, e)]
  BY <1>1, <1>2, <1>6, <1>8, PutsOne
<1>11. Append(q, e) \in Seq(Event) /\ Named(Append(q, e))
  BY <1>2, <1>4, <1>6, NamedAppend
<1>12. ASSUME NEW tool \in Tools
       PROVE  Cardinality(RunningCalls(h, tool)) + One(e, "tool_end", tool)
                <= Cardinality(RunningCalls(g, tool)) + One(e, "tool_start", tool)
  <2>1. Cardinality(RunningCalls(g, tool)) = Cardinality(RunningCalls(h, tool))
          + (IF g.calls[i].at = "running" /\ g.calls[i].tool = tool THEN 1 ELSE 0)
    BY <1>2, <1>3, <1>5, RunsOneLess
  <2>2. Cardinality(RunningCalls(h, tool)) \in Nat
    BY <1>2, <1>7, CountedCalls
  <2>3. One(e, "tool_start", tool) = 0 /\ One(e, "tool_end", tool) = IF g.calls[i].tool = tool THEN 1 ELSE 0
    BY <1>6 DEF One, Has
  <2> QED BY <1>3, <2>1, <2>2, <2>3
<1>13. handler[s] = "running" => Ahead(Append(q, e), h, steps, a, st)
  <2>1. g.at # "over" /\ e.kind # "end" /\ e.turn = Told(g) + Opens(e) /\ Told(h) = e.turn
    BY <1>3, <1>6, <1>7
  <2> QED BY <1>2, <1>6, <1>7, <1>12, <2>1, AheadAppend
<1>14. /\ graph[s].at \in {"model", "tools"} /\ h.at # "none" /\ graph[s].node <= h.node
       /\ handler[s] = "running" => Ahead(Append(q, e), h, session[s].steps, audit[s], store[s])
  BY <1>1, <1>2, <1>3, <1>7, <1>13, NodeNat
<1> QED BY <1>3, <1>7, <1>9, <1>10, <1>11, <1>14, GraphGoesOn

LEMMA ToolRaisesStep ==
    ASSUME AgentInv, NEW s \in Sessions, NEW i \in DOMAIN graph[s].calls, ToolRaises(s, i)
    PROVE  AgentInv'
<1>1. PICK g, q, steps, a, st :
        g = graph[s] /\ q = queue[s] /\ steps = session[s].steps /\ a = audit[s] /\ st = store[s]
  OBVIOUS
<1>2. /\ TypeOK /\ g \in Graph /\ GraphOK(g) /\ q \in Seq(Event) /\ Named(q)
      /\ handler[s] = "running" => Ahead(q, g, steps, a, st)
      /\ steps \in Nat /\ a \in Seq(Line) /\ st \in Seq(StepRecord)
  BY <1>1, GraphStarts
<1>3. g.at = "tools" /\ i \in DOMAIN g.calls /\ GraphOnly /\ UNCHANGED queue
  BY <1>1 DEF ToolRaises
<1>4. PICK h : h = CallAt(g, i, "over")
  OBVIOUS
<1>5. h \in Graph /\ GraphOK(h) /\ h.at = "tools" /\ h.node = g.node /\ Told(h) = Told(g)
  BY <1>2, <1>3, <1>4, CallGoesOn
<1>6. CallSet(s, i, "over")
  BY DEF ToolRaises, CallSet
<1>7. graph' = [graph EXCEPT ![s] = h]
  BY <1>1, <1>2, <1>3, <1>4, <1>6, CallChanges
<1>8. queue' = [queue EXCEPT ![s] = q]
  BY <1>1, <1>2, <1>3 DEF TypeOK
<1>9. ASSUME NEW tool \in Tools
      PROVE  Cardinality(RunningCalls(h, tool)) <= Cardinality(RunningCalls(g, tool))
  <2>1. Cardinality(RunningCalls(g, tool)) = Cardinality(RunningCalls(h, tool))
          + (IF g.calls[i].at = "running" /\ g.calls[i].tool = tool THEN 1 ELSE 0)
    BY <1>2, <1>3, <1>4, RunsOneLess
  <2>2. Cardinality(RunningCalls(h, tool)) \in Nat
    BY <1>2, <1>5, CountedCalls
  <2> QED BY <2>1, <2>2
<1>10. handler[s] = "running" => Ahead(q, h, steps, a, st)
  BY <1>2, <1>3, <1>5, <1>9, AheadQuiet
<1>11. /\ graph[s].at \in {"model", "tools"} /\ h.at # "none" /\ graph[s].node <= h.node
       /\ handler[s] = "running" => Ahead(q, h, session[s].steps, audit[s], store[s])
  BY <1>1, <1>2, <1>3, <1>5, <1>10, NodeNat
<1> QED BY <1>2, <1>3, <1>5, <1>7, <1>8, <1>11, GraphGoesOn

LEMMA NextTurnStep ==
    ASSUME AgentInv, NEW s \in Sessions, NextTurn(s)
    PROVE  AgentInv'
<1>1. PICK g, q, steps, a, st :
        g = graph[s] /\ q = queue[s] /\ steps = session[s].steps /\ a = audit[s] /\ st = store[s]
  OBVIOUS
<1>2. /\ TypeOK /\ g \in Graph /\ GraphOK(g) /\ q \in Seq(Event) /\ Named(q)
      /\ handler[s] = "running" => Ahead(q, g, steps, a, st)
      /\ steps \in Nat /\ a \in Seq(Line) /\ st \in Seq(StepRecord)
  BY <1>1, GraphStarts
<1>3. g.at = "tools" /\ GraphOnly /\ UNCHANGED queue
  BY <1>1 DEF NextTurn
<1>4. /\ g.node \in Nat /\ g.node % 2 = 0 /\ g.node < RecursionLimit /\ RecursionLimit \in Nat
  BY <1>2, <1>3, NodeNat DEF GraphOK
<1>5. PICK none : none = << >> /\ Idle(none)
  <2>1. << >> \in Seq(ToolCall) /\ DOMAIN << >> = {}
    OBVIOUS
  <2>2. Idle(<< >>)
    BY <2>1 DEF Idle
  <2> QED BY <2>2
<1>6. PICK h : h = [at |-> "model", node |-> g.node + 1, calls |-> none]
  OBVIOUS
<1>7. h.at = "model" /\ h.node = g.node + 1 /\ h.calls = none
  BY <1>6
<1>8. h \in Graph
  <2>1. g.node + 1 \in Nat /\ g.node + 1 <= RecursionLimit + 1
    BY <1>4
  <2>2. [at |-> "model", node |-> g.node + 1, calls |-> none] \in Graph
    BY <1>5, <2>1, GraphTyped DEF Idle
  <2> QED BY <1>6, <2>2
<1>9. GraphOK(h) /\ Told(h) = Told(g)
  <2>1. h.node % 2 = 1 /\ h.node <= RecursionLimit /\ (h.node - 1) \div 2 = (g.node + 1) \div 2
    BY <1>4, <1>7, EvenNode
  <2> QED BY <1>3, <1>5, <1>7, <2>1 DEF GraphOK, Told, Idle
<1>10. graph' = [graph EXCEPT ![s] = h]
  BY <1>1, <1>2, <1>5, <1>6 DEF NextTurn, TypeOK
<1>11. queue' = [queue EXCEPT ![s] = q]
  BY <1>1, <1>2, <1>3 DEF TypeOK
<1>12. ASSUME NEW tool \in Tools
       PROVE  Cardinality(RunningCalls(h, tool)) <= Cardinality(RunningCalls(g, tool))
  <2>1. Cardinality(RunningCalls(h, tool)) = 0
    BY <1>5, <1>7, <1>8, IdleRuns
  <2>2. Cardinality(RunningCalls(g, tool)) \in Nat
    BY <1>2, CountedCalls
  <2> QED BY <2>1, <2>2
<1>13. handler[s] = "running" => Ahead(q, h, steps, a, st)
  BY <1>2, <1>3, <1>8, <1>9, <1>12, AheadQuiet
<1>14. /\ graph[s].at \in {"model", "tools"} /\ h.at # "none" /\ graph[s].node <= h.node
       /\ handler[s] = "running" => Ahead(q, h, session[s].steps, audit[s], store[s])
  BY <1>1, <1>3, <1>4, <1>7, <1>13
<1> QED BY <1>2, <1>3, <1>8, <1>9, <1>10, <1>11, <1>14, GraphGoesOn

LEMMA StoppedGraph ==
    ASSUME NEW g \in Graph, GraphOK(g), NEW h, h = [at |-> "over", node |-> g.node, calls |-> g.calls]
    PROVE  h \in Graph /\ GraphOK(h) /\ h.at = "over" /\ h.node = g.node /\ h.calls = g.calls
<1>1. g.node \in Nat /\ g.node <= RecursionLimit + 1 /\ g.calls \in Seq(ToolCall)
  BY NodeNat
<1>2. [at |-> "over", node |-> g.node, calls |-> g.calls] \in Graph
  BY <1>1, GraphTyped
<1>3. h.at = "over" /\ h.node = g.node /\ h.calls = g.calls
  OBVIOUS
<1> QED BY <1>2, <1>3 DEF GraphOK

LEMMA CancelledStep ==
    ASSUME AgentInv, NEW s \in Sessions, Cancelled(s)
    PROVE  AgentInv'
<1>1. PICK g : g = graph[s]
  OBVIOUS
<1>2. TypeOK /\ g \in Graph /\ GraphOK(g) /\ g.node \in Nat
  BY <1>1, GraphStarts, NodeNat
<1>3. g.at \in {"model", "tools"} /\ GraphOnly /\ handler[s] # "running"
  BY <1>1 DEF Cancelled
<1>4. PICK h : h = [at |-> "over", node |-> g.node, calls |-> g.calls]
  OBVIOUS
<1>5. h \in Graph /\ GraphOK(h) /\ h.at = "over" /\ h.node = g.node
  BY <1>2, <1>4, StoppedGraph
<1>6. graph' = [graph EXCEPT ![s] = h]
  <2>1. graph' = [graph EXCEPT ![s] = [graph[s] EXCEPT !.at = "over"]]
    BY DEF Cancelled
  <2>2. [g EXCEPT !.at = "over"] = h
    BY <1>2, <1>4, AtIsLast
  <2> QED BY <1>1, <2>1, <2>2
<1>7. PICK none : none = << >>
  OBVIOUS
<1>8. none \in Seq(Event) /\ Named(none)
  BY <1>7 DEF Named
<1>9. queue' = [queue EXCEPT ![s] = none]
  BY <1>7 DEF Cancelled
<1>10. /\ graph[s].at \in {"model", "tools"} /\ h.at # "none" /\ graph[s].node <= h.node
       /\ handler[s] = "running" => Ahead(none, h, session[s].steps, audit[s], store[s])
  BY <1>1, <1>2, <1>3, <1>5
<1> QED BY <1>3, <1>5, <1>6, <1>8, <1>9, <1>10, GraphGoesOn

(***************************************************************************)
(* The loop reads                                                          *)
(***************************************************************************)
\* What is ahead once the head of the queue is taken, before what it does.
LEMMA HeadRead ==
    ASSUME NEW q \in Seq(Event), q # << >>, NEW g \in Graph, GraphOK(g), Named(q),
           NEW steps \in Nat, NEW a \in Seq(Line), NEW st \in Seq(StepRecord),
           Ahead(q, g, steps, a, st), NEW e, e = Head(q), NEW rest, rest = Tail(q)
    PROVE  /\ e \in Event /\ rest \in Seq(Event) /\ Named(rest)
           /\ e.kind \in {"tool_start", "tool_end"} => e.tool \in Tools
           /\ e.turn = steps + Opens(e) /\ Chained(rest, e.turn, Told(g)) /\ EndsLast(rest, g)
           /\ e.turn <= (g.node + 1) \div 2
           /\ \A tool \in Tools :
                Balanced(rest, Cardinality(RecordsOf(st, tool)) + One(e, "tool_end", tool),
                         Cardinality(CallLinesOf(a, tool)) + One(e, "tool_start", tool),
                         Cardinality(RunningCalls(g, tool)), tool)
           /\ e.kind = "end" => g.at = "over" /\ (g.calls = << >> \/ e.turn > MaxSteps)
<1>1. /\ rest \in Seq(Event) /\ e = q[1] /\ e \in Event
      /\ Len(q) \in Nat \ {0} /\ Len(rest) = Len(q) - 1
      /\ \A j \in 1..(Len(q) - 1) : rest[j] = q[j + 1]
  BY HeadTaken
<1>2. Named(rest) /\ (e.kind \in {"tool_start", "tool_end"} => e.tool \in Tools)
  BY <1>1 DEF Named
<1>3. Told(g) \in Nat /\ Told(g) <= (g.node + 1) \div 2 /\ (g.node + 1) \div 2 \in Nat
  <2>1. g.node \in Nat
    BY NodeNat
  <2>2. (g.node + 1) \div 2 \in Nat
    BY <2>1, HalfMonotone
  <2> QED BY <2>2, ToldNat
<1>4. Chained(q, steps, Told(g)) /\ EndsLast(q, g)
  BY DEF Ahead
<1>5. e.turn = steps + Opens(e) /\ Chained(rest, e.turn, Told(g))
  BY <1>3, <1>4, ChainTail
<1>6. e.turn <= (g.node + 1) \div 2
  <2>1. e.turn \in Nat /\ e.turn <= Told(g)
    BY <1>1, <1>5 DEF Chained, Event
  <2> QED BY <1>3, <2>1
<1>7. EndsLast(rest, g)
  <2> SUFFICES ASSUME NEW j \in 1..Len(rest), rest[j].kind = "end"
               PROVE  j = Len(rest) /\ g.at = "over" /\ (g.calls = << >> \/ Told(g) > MaxSteps)
    BY DEF EndsLast
  <2>1. rest[j] = q[j + 1] /\ j + 1 \in 1..Len(q)
    BY <1>1
  <2>2. j + 1 = Len(q) /\ g.at = "over" /\ (g.calls = << >> \/ Told(g) > MaxSteps)
    BY <1>4, <2>1 DEF EndsLast
  <2>3. j = Len(rest)
    <3>1. j \in Nat /\ Len(q) \in Nat /\ Len(rest) = Len(q) - 1
      BY <1>1
    <3>2. j + 1 = Len(q)
      BY <2>2
    <3>3. PICK long, short : long = Len(q) /\ short = Len(rest)
      OBVIOUS
    <3>4. j \in Nat /\ long \in Nat /\ short = long - 1 /\ j + 1 = long
      BY <3>1, <3>2, <3>3
    <3>5. j = short
      BY <3>4
    <3> QED BY <3>3, <3>5
  <2> QED BY <2>2, <2>3
<1>8. ASSUME NEW tool \in Tools
      PROVE  Balanced(rest, Cardinality(RecordsOf(st, tool)) + One(e, "tool_end", tool),
                      Cardinality(CallLinesOf(a, tool)) + One(e, "tool_start", tool),
                      Cardinality(RunningCalls(g, tool)), tool)
  <2>1. Balanced(q, Cardinality(RecordsOf(st, tool)), Cardinality(CallLinesOf(a, tool)),
                 Cardinality(RunningCalls(g, tool)), tool)
    BY DEF Ahead
  <2>2. /\ Cardinality(RecordsOf(st, tool)) \in Nat /\ Cardinality(CallLinesOf(a, tool)) \in Nat
        /\ Cardinality(RunningCalls(g, tool)) \in Nat
    BY CountedCalls
  <2> QED BY <2>1, <2>2, BalanceTail
<1>9. ASSUME e.kind = "end" PROVE g.at = "over" /\ (g.calls = << >> \/ e.turn > MaxSteps)
  <2>1. 1 \in 1..Len(q) /\ q[1].kind = "end"
    BY <1>1, <1>9
  <2>2. 1 = Len(q) /\ g.at = "over" /\ (g.calls = << >> \/ Told(g) > MaxSteps)
    BY <1>4, <2>1 DEF EndsLast
  <2>3. e.turn = Told(g)
    BY <1>1, <1>4, <2>2 DEF Chained
  <2> QED BY <2>2, <2>3
<1> QED BY <1>1, <1>2, <1>5, <1>6, <1>7, <1>8, <1>9

LEMMA OtherLine ==
    ASSUME NEW a \in Seq(Line), NEW line \in Line, line.type # "agent_tool_call", NEW tool
    PROVE  CallLinesOf(Append(a, line), tool) = CallLinesOf(a, tool)
<1>1. /\ Len(a) \in Nat /\ DOMAIN a = 1..Len(a) /\ DOMAIN Append(a, line) = 1..(Len(a) + 1)
      /\ \A j \in 1..Len(a) : Append(a, line)[j] = a[j]
      /\ Append(a, line)[Len(a) + 1] = line
  BY Appended
<1> QED BY <1>1 DEF CallLinesOf, CallLines

LEMMA CallLine ==
    ASSUME NEW a \in Seq(Line), NEW line \in Line, line.type = "agent_tool_call",
           NEW tool
    PROVE  Cardinality(CallLinesOf(Append(a, line), tool))
             = Cardinality(CallLinesOf(a, tool)) + (IF line.tools[1] = tool THEN 1 ELSE 0)
<1>1. /\ Len(a) \in Nat /\ DOMAIN a = 1..Len(a) /\ DOMAIN Append(a, line) = 1..(Len(a) + 1)
      /\ \A j \in 1..Len(a) : Append(a, line)[j] = a[j]
      /\ Append(a, line)[Len(a) + 1] = line
  BY Appended
<1>2. PICK before, after : before = CallLinesOf(a, tool) /\ after = CallLinesOf(Append(a, line), tool)
  OBVIOUS
<1>3. after = IF line.tools[1] = tool THEN before \cup {Len(a) + 1} ELSE before
  BY <1>1, <1>2 DEF CallLinesOf, CallLines
<1>4. before \subseteq 1..Len(a)
  BY <1>1, <1>2 DEF CallLinesOf, CallLines
<1>5. IsFiniteSet(before) /\ Cardinality(before) \in Nat /\ Len(a) + 1 \notin before
  <2>1. IsFiniteSet(before) /\ Cardinality(before) \in Nat
    BY <1>1, <1>4, CountOf
  <2>2. Len(a) + 1 \notin 1..Len(a)
    BY <1>1
  <2> QED BY <1>4, <2>1, <2>2
<1>6. Cardinality(before \cup {Len(a) + 1})
        = IF Len(a) + 1 \in before THEN Cardinality(before) ELSE Cardinality(before) + 1
  BY <1>5, OneMore
<1> QED BY <1>2, <1>3, <1>5, <1>6

LEMMA OneRecord ==
    ASSUME NEW st \in Seq(StepRecord), NEW record \in StepRecord, NEW tool
    PROVE  Cardinality(RecordsOf(Append(st, record), tool))
             = Cardinality(RecordsOf(st, tool)) + (IF record.tool = tool THEN 1 ELSE 0)
<1>1. /\ Len(st) \in Nat /\ DOMAIN st = 1..Len(st) /\ DOMAIN Append(st, record) = 1..(Len(st) + 1)
      /\ \A j \in 1..Len(st) : Append(st, record)[j] = st[j]
      /\ Append(st, record)[Len(st) + 1] = record
  BY Appended
<1>2. PICK before, after : before = RecordsOf(st, tool) /\ after = RecordsOf(Append(st, record), tool)
  OBVIOUS
<1>3. after = IF record.tool = tool THEN before \cup {Len(st) + 1} ELSE before
  BY <1>1, <1>2 DEF RecordsOf
<1>4. before \subseteq 1..Len(st)
  BY <1>1, <1>2 DEF RecordsOf
<1>5. IsFiniteSet(before) /\ Cardinality(before) \in Nat /\ Len(st) + 1 \notin before
  <2>1. IsFiniteSet(before) /\ Cardinality(before) \in Nat
    BY <1>1, <1>4, CountOf
  <2>2. Len(st) + 1 \notin 1..Len(st)
    BY <1>1
  <2> QED BY <1>4, <2>1, <2>2
<1>6. Cardinality(before \cup {Len(st) + 1})
        = IF Len(st) + 1 \in before THEN Cardinality(before) ELSE Cardinality(before) + 1
  BY <1>5, OneMore
<1> QED BY <1>2, <1>3, <1>5, <1>6

LEMMA LineTyped ==
    ASSUME NEW type \in {"agent_session_start", "agent_tool_call", "agent_session_complete", "response_sent"},
           NEW outcome \in {"pass", "error", "max_steps_reached"}, NEW steps \in Nat,
           NEW tools \in Seq(Tools), NEW line, line = AuditLine(type, outcome, steps, tools)
    PROVE  /\ line \in Line /\ line.type = type /\ line.outcome = outcome
           /\ line.steps = steps /\ line.tools = tools
  BY DEF AuditLine, Line

LEMMA CallLineTyped ==
    ASSUME NEW tool \in Tools, NEW line, line = AuditLine("agent_tool_call", "pass", 0, <<tool>>)
    PROVE  /\ line \in Line /\ line.type = "agent_tool_call"
           /\ line.tools = <<tool>> /\ line.tools[1] = tool
<1>1. PICK tools : tools = <<tool>>
  OBVIOUS
<1>2. tools \in Seq(Tools) /\ tools[1] = tool
  BY <1>1
<1>3. line = AuditLine("agent_tool_call", "pass", 0, tools)
  BY <1>1
<1>4. /\ line \in Line /\ line.type = "agent_tool_call" /\ line.tools = tools
  BY <1>2, <1>3 DEF AuditLine, Line
<1> QED BY <1>1, <1>2, <1>4

LEMMA OpenedLonger ==
    ASSUME NEW a \in Seq(Line), NEW tools \in Seq(Tools), Opened(a, tools),
           NEW called \in Tools, NEW line \in Line, line.type = "agent_tool_call", line.tools = <<called>>
    PROVE  Opened(Append(a, line), Append(tools, called))
<1>1. PICK b, more : b = Append(a, line) /\ more = Append(tools, called)
  OBVIOUS
<1>2. /\ Len(a) \in Nat /\ Len(b) = Len(a) + 1
      /\ \A j \in 1..Len(a) : b[j] = a[j]
      /\ b[Len(a) + 1] = line
  BY <1>1, Appended
<1>3. /\ Len(tools) \in Nat /\ Len(more) = Len(tools) + 1
      /\ \A j \in 1..Len(tools) : more[j] = tools[j]
      /\ more[Len(tools) + 1] = called
  BY <1>1, Appended
<1>4. Len(a) = Len(tools) + 1 /\ a[1].type = "agent_session_start"
  BY DEF Opened
<1>5. Len(b) = Len(more) + 1 /\ b[1].type = "agent_session_start"
  BY <1>2, <1>3, <1>4
<1>6. ASSUME NEW i \in 1..Len(more)
      PROVE  b[i + 1].type = "agent_tool_call" /\ b[i + 1].tools = <<more[i]>>
  <2>1. CASE i \in 1..Len(tools)
    <3>1. i + 1 \in 1..Len(a) /\ b[i + 1] = a[i + 1] /\ more[i] = tools[i]
      BY <1>2, <1>3, <1>4, <2>1
    <3> QED BY <2>1, <3>1 DEF Opened
  <2>2. CASE i = Len(tools) + 1
    <3>1. b[i + 1] = line /\ more[i] = called
      BY <1>2, <1>3, <1>4, <2>2
    <3> QED BY <3>1
  <2> QED BY <1>3, <2>1, <2>2
<1>7. Opened(b, more)
  BY <1>5, <1>6 DEF Opened
<1> QED BY <1>1, <1>7

LEMMA TrailCloses ==
    ASSUME NEW a \in Seq(Line), NEW tools \in Seq(Tools), Opened(a, tools),
           NEW line \in Line, line.type = "agent_session_complete", line.tools = tools,
           NEW turn, NEW status, line.steps <= turn,
           line.outcome = "max_steps_reached" <=> line.steps = MaxSteps /\ status = 200
    PROVE  Closed(Append(a, line), status, turn)
<1>1. PICK b : b = Append(a, line)
  OBVIOUS
<1>2. /\ Len(a) \in Nat /\ Len(b) = Len(a) + 1 /\ DOMAIN b = 1..(Len(a) + 1)
      /\ \A j \in 1..Len(a) : b[j] = a[j]
      /\ b[Len(a) + 1] = line
  BY <1>1, Appended
<1>3. Len(tools) \in Nat /\ DOMAIN tools = 1..Len(tools) /\ tools \in [1..Len(tools) -> Tools]
  OBVIOUS
<1>4. /\ Len(a) = Len(tools) + 1 /\ a[1].type = "agent_session_start"
      /\ \A i \in 1..Len(tools) : a[i + 1].type = "agent_tool_call" /\ a[i + 1].tools = <<tools[i]>>
  BY DEF Opened
<1>5. PICK end : end = Len(a) + 1
  OBVIOUS
<1>6. end \in DOMAIN b /\ b[end] = line /\ b[1].type = "agent_session_start" /\ end - 2 = Len(tools)
  BY <1>2, <1>3, <1>4, <1>5
<1>7. \A i \in 1..Len(tools) : b[i + 1].type = "agent_tool_call" /\ b[i + 1].tools = <<tools[i]>>
  <2> SUFFICES ASSUME NEW i \in 1..Len(tools)
               PROVE  b[i + 1].type = "agent_tool_call" /\ b[i + 1].tools = <<tools[i]>>
    OBVIOUS
  <2>1. i + 1 \in 1..Len(a)
    BY <1>3, <1>4
  <2> QED BY <1>2, <1>4, <2>1
<1>8. CallLines(b) = 2..(end - 1)
  <2>1. ASSUME NEW n \in 2..(end - 1) PROVE n \in CallLines(b)
    <3>1. n - 1 \in 1..Len(tools) /\ n \in DOMAIN b /\ (n - 1) + 1 = n
      BY <1>2, <1>3, <1>4, <1>5
    <3>2. b[(n - 1) + 1].type = "agent_tool_call"
      BY <1>7, <3>1
    <3> QED BY <3>1, <3>2 DEF CallLines
  <2>2. ASSUME NEW n \in CallLines(b) PROVE n \in 2..(end - 1)
    <3>1. n \in 1..(Len(a) + 1) /\ b[n].type = "agent_tool_call"
      BY <1>2 DEF CallLines
    <3>2. n # 1 /\ n # end
      BY <1>6, <3>1
    <3> QED BY <1>2, <1>5, <3>1, <3>2
  <2> QED BY <2>1, <2>2
<1>9. [i \in 1..(end - 2) |-> b[i + 1].tools[1]] = tools
  <2>1. \A i \in 1..Len(tools) : b[i + 1].tools[1] = tools[i]
    BY <1>7
  <2> QED BY <1>3, <1>6, <2>1
<1>10. ClosedAt(b, end, status, turn)
  BY <1>6, <1>8, <1>9 DEF ClosedAt
<1> QED BY <1>1, <1>6, <1>10 DEF Closed

\* What every read starts from, and what stays of it.
LEMMA ReadStarts ==
    ASSUME AgentInv, NEW s \in Sessions, Read(s)
    PROVE  /\ SessionTyped("running", graph[s], queue[s], session[s], reply[s], audit[s], store[s])
           /\ SessionInv("running", graph[s], queue[s], session[s], reply[s], audit[s], store[s])
           /\ TypeOK /\ handler[s] = "running" /\ queue[s] # << >>
           /\ queue' = [queue EXCEPT ![s] = Tail(queue[s])] /\ UNCHANGED <<graph, crashes>>
<1>1. Typed(s) /\ Inv(s) /\ TypeOK
  BY TypedSession DEF AgentInv
<1>2. handler[s] = "running" /\ queue[s] # << >> /\ UNCHANGED <<graph, crashes>>
      /\ queue' = [queue EXCEPT ![s] = Tail(queue[s])]
  BY <1>1 DEF Read, TypeOK
<1> QED BY <1>1, <1>2 DEF Typed, Inv

LEMMA OthersOne ==
    ASSUME NEW e, NEW kind, e.kind # kind, NEW tool
    PROVE  One(e, kind, tool) = 0
  BY DEF One, Has

\* The event that is read, of a session that runs.
LEMMA HeadOf ==
    ASSUME NEW g, NEW q, NEW n, NEW r, NEW a, NEW st,
           SessionTyped("running", g, q, n, r, a, st), SessionInv("running", g, q, n, r, a, st),
           q # << >>, NEW e, e = Head(q), NEW rest, rest = Tail(q)
    PROVE  /\ e \in Event /\ e.turn \in Nat /\ n.steps \in Nat /\ e.turn = n.steps + Opens(e)
           /\ e.kind = "end" => g.at = "over" /\ (g.calls = << >> \/ e.turn > MaxSteps)
           /\ rest \in Seq(Event) /\ Named(rest)
           /\ e.turn <= (g.node + 1) \div 2
<1>1. /\ g \in Graph /\ q \in Seq(Event) /\ n \in Session /\ a \in Seq(Line) /\ st \in Seq(StepRecord)
      /\ GraphOK(g) /\ Named(q) /\ Ahead(q, g, n.steps, a, st) /\ n.steps \in Nat
  BY AgentAssumption DEF SessionTyped, SessionInv, Session
<1>2. e \in Event /\ rest \in Seq(Event) /\ Named(rest) /\ e.turn = n.steps + Opens(e)
  <2>1. e \in Event /\ rest \in Seq(Event)
    BY <1>1, HeadTaken
  <2>2. Named(rest)
    BY <1>1, HeadRead
  <2>3. e.turn = n.steps + Opens(e)
    BY <1>1, HeadRead
  <2> QED BY <2>1, <2>2, <2>3
<1>3. e.kind = "end" => g.at = "over" /\ (g.calls = << >> \/ e.turn > MaxSteps)
  BY <1>1, HeadRead
<1>4. e.turn \in Nat
  BY <1>2 DEF Event
<1>5. e.turn <= (g.node + 1) \div 2
  BY <1>1, HeadRead
<1> QED BY <1>1, <1>2, <1>3, <1>4, <1>5

\* What it leaves in the queue.
LEMMA HeadLeaves ==
    ASSUME NEW g, NEW q, NEW n, NEW r, NEW a, NEW st,
           SessionTyped("running", g, q, n, r, a, st), SessionInv("running", g, q, n, r, a, st),
           q # << >>, NEW e, e = Head(q), NEW rest, rest = Tail(q)
    PROVE  /\ Chained(rest, e.turn, Told(g)) /\ EndsLast(rest, g)
           /\ \A tool \in Tools :
                Balanced(rest, Cardinality(RecordsOf(st, tool)) + One(e, "tool_end", tool),
                         Cardinality(CallLinesOf(a, tool)) + One(e, "tool_start", tool),
                         Cardinality(RunningCalls(g, tool)), tool)
           /\ e.kind \in {"tool_start", "tool_end"} => e.tool \in Tools
<1>1. /\ g \in Graph /\ q \in Seq(Event) /\ n \in Session /\ a \in Seq(Line) /\ st \in Seq(StepRecord)
      /\ GraphOK(g) /\ Named(q) /\ Ahead(q, g, n.steps, a, st) /\ n.steps \in Nat
  BY AgentAssumption DEF SessionTyped, SessionInv, Session
<1>2. Chained(rest, e.turn, Told(g)) /\ EndsLast(rest, g)
  BY <1>1, HeadRead
<1>3. \A tool \in Tools :
        Balanced(rest, Cardinality(RecordsOf(st, tool)) + One(e, "tool_end", tool),
                 Cardinality(CallLinesOf(a, tool)) + One(e, "tool_start", tool),
                 Cardinality(RunningCalls(g, tool)), tool)
  BY <1>1, HeadRead
<1>4. e.kind \in {"tool_start", "tool_end"} => e.tool \in Tools
  BY <1>1, HeadRead
<1> QED BY <1>2, <1>3, <1>4

\* A turn is over and the session goes on.
LEMMA GoesOnAfterTurn ==
    ASSUME NEW g, NEW q, NEW n, NEW r, NEW a, NEW st,
           SessionTyped("running", g, q, n, r, a, st), SessionInv("running", g, q, n, r, a, st),
           q # << >>, NEW e, e = Head(q), e.kind = "model_end", NEW rest, rest = Tail(q),
           NEW m, m = [steps |-> n.steps + 1, tools |-> n.tools], m.steps < MaxSteps
    PROVE  /\ SessionTyped("running", g, rest, m, r, a, st)
           /\ SessionInv("running", g, rest, m, r, a, st)
<1>1. /\ g \in Graph /\ q \in Seq(Event) /\ n \in Session /\ a \in Seq(Line) /\ st \in Seq(StepRecord)
      /\ GraphOK(g) /\ Named(q) /\ Ahead(q, g, n.steps, a, st) /\ Opened(a, n.tools) /\ n.steps \in Nat
  BY AgentAssumption DEF SessionTyped, SessionInv, Session
<1>2. /\ e \in Event /\ rest \in Seq(Event) /\ Named(rest)
      /\ e.turn = n.steps + Opens(e) /\ Chained(rest, e.turn, Told(g)) /\ EndsLast(rest, g)
      /\ \A tool \in Tools :
           Balanced(rest, Cardinality(RecordsOf(st, tool)) + One(e, "tool_end", tool),
                    Cardinality(CallLinesOf(a, tool)) + One(e, "tool_start", tool),
                    Cardinality(RunningCalls(g, tool)), tool)
  BY HeadOf, HeadLeaves
<1>3. m.steps = e.turn /\ m.tools = n.tools
  BY <1>2 DEF Opens
<1>4. ASSUME NEW tool \in Tools
      PROVE  Balanced(rest, Cardinality(RecordsOf(st, tool)), Cardinality(CallLinesOf(a, tool)),
                      Cardinality(RunningCalls(g, tool)), tool)
  <2>1. One(e, "tool_end", tool) = 0 /\ One(e, "tool_start", tool) = 0
    BY OthersOne
  <2>2. Cardinality(RecordsOf(st, tool)) \in Nat /\ Cardinality(CallLinesOf(a, tool)) \in Nat
    BY <1>1, CountedCalls
  <2>3. /\ Cardinality(RecordsOf(st, tool)) + One(e, "tool_end", tool) = Cardinality(RecordsOf(st, tool))
        /\ Cardinality(CallLinesOf(a, tool)) + One(e, "tool_start", tool) = Cardinality(CallLinesOf(a, tool))
    BY <2>1, <2>2
  <2> QED BY <1>2, <2>3
<1>5. Ahead(rest, g, m.steps, a, st)
  BY <1>2, <1>3, <1>4 DEF Ahead
<1>6. m \in Session
  BY <1>1, AgentAssumption DEF Session
<1>7. SessionTyped("running", g, rest, m, r, a, st)
  BY <1>2, <1>6 DEF SessionTyped
<1>8. Stage("running", g, rest, m, r, a, st)
  BY DEF SessionInv, Stage
<1>9. SessionInv("running", g, rest, m, r, a, st)
  BY <1>1, <1>2, <1>3, <1>5, <1>8 DEF SessionInv
<1> QED BY <1>7, <1>9

\* A call was started.
LEMMA GoesOnAfterStart ==
    ASSUME NEW g, NEW q, NEW n, NEW r, NEW a, NEW st,
           SessionTyped("running", g, q, n, r, a, st), SessionInv("running", g, q, n, r, a, st),
           q # << >>, NEW e, e = Head(q), e.kind = "tool_start", NEW rest, rest = Tail(q),
           NEW m, m = [steps |-> n.steps, tools |-> Append(n.tools, e.tool)],
           NEW line, line = AuditLine("agent_tool_call", "pass", 0, <<e.tool>>),
           NEW b, b = Append(a, line)
    PROVE  /\ SessionTyped("running", g, rest, m, r, b, st)
           /\ SessionInv("running", g, rest, m, r, b, st)
<1>1. /\ g \in Graph /\ q \in Seq(Event) /\ n \in Session /\ a \in Seq(Line) /\ st \in Seq(StepRecord)
      /\ GraphOK(g) /\ Named(q) /\ Ahead(q, g, n.steps, a, st) /\ Opened(a, n.tools)
      /\ n.steps \in Nat /\ n.tools \in Seq(Tools)
  BY AgentAssumption DEF SessionTyped, SessionInv, Session
<1>2. /\ e \in Event /\ rest \in Seq(Event) /\ Named(rest) /\ e.tool \in Tools
      /\ e.turn = n.steps + Opens(e) /\ Chained(rest, e.turn, Told(g)) /\ EndsLast(rest, g)
      /\ \A tool \in Tools :
           Balanced(rest, Cardinality(RecordsOf(st, tool)) + One(e, "tool_end", tool),
                    Cardinality(CallLinesOf(a, tool)) + One(e, "tool_start", tool),
                    Cardinality(RunningCalls(g, tool)), tool)
  BY HeadOf, HeadLeaves
<1>3. m.steps = e.turn /\ m.steps = n.steps /\ m.tools = Append(n.tools, e.tool)
  <2>1. e.turn = n.steps + Opens(e) /\ n.steps \in Nat
    BY <1>1, <1>2
  <2>2. Opens(e) = 0
    BY DEF Opens
  <2>3. e.turn = n.steps
    BY <2>1, <2>2
  <2> QED BY <2>3
<1>4. line \in Line /\ line.type = "agent_tool_call" /\ line.tools = <<e.tool>> /\ line.tools[1] = e.tool
  <2>1. PICK called \in Tools : called = e.tool
    BY <1>2
  <2>2. line = AuditLine("agent_tool_call", "pass", 0, <<called>>)
    BY <2>1
  <2> QED BY <2>1, <2>2, CallLineTyped
<1>5. b \in Seq(Line)
  BY <1>1, <1>4
<1>6. \A tool \in Tools :
         Cardinality(CallLinesOf(b, tool)) = Cardinality(CallLinesOf(a, tool)) + One(e, "tool_start", tool)
  <2> SUFFICES ASSUME NEW tool \in Tools
               PROVE  Cardinality(CallLinesOf(b, tool))
                        = Cardinality(CallLinesOf(a, tool)) + One(e, "tool_start", tool)
    OBVIOUS
  <2>1. One(e, "tool_start", tool) = IF e.tool = tool THEN 1 ELSE 0
    BY DEF One, Has
  <2> QED BY <1>1, <1>4, <2>1, CallLine
<1>7. ASSUME NEW tool \in Tools
      PROVE  Balanced(rest, Cardinality(RecordsOf(st, tool)), Cardinality(CallLinesOf(b, tool)),
                      Cardinality(RunningCalls(g, tool)), tool)
  <2>1. One(e, "tool_end", tool) = 0
    BY OthersOne
  <2>2. Cardinality(RecordsOf(st, tool)) \in Nat
    BY <1>1, CountedCalls
  <2>3. Cardinality(RecordsOf(st, tool)) + One(e, "tool_end", tool) = Cardinality(RecordsOf(st, tool))
    BY <2>1, <2>2
  <2> QED BY <1>2, <1>6, <2>3
<1>8. Ahead(rest, g, m.steps, b, st)
  BY <1>2, <1>3, <1>7 DEF Ahead
<1>9. Opened(b, m.tools)
  BY <1>1, <1>2, <1>3, <1>4, OpenedLonger
<1>10. SessionTyped("running", g, rest, m, r, b, st)
  <2>1. m \in Session
    BY <1>1, <1>2 DEF Session
  <2> QED BY <1>2, <1>5, <2>1 DEF SessionTyped
<1>11. Recorded(b, st)
  <2>1. ASSUME NEW tool \in Tools
        PROVE  Cardinality(RecordsOf(st, tool)) <= Cardinality(CallLinesOf(b, tool))
    <3>1. /\ Cardinality(RecordsOf(st, tool)) \in Nat /\ Cardinality(CallLinesOf(a, tool)) \in Nat
          /\ One(e, "tool_start", tool) \in Nat
      BY <1>1, CountedCalls, OneIsBit
    <3>2. Cardinality(RecordsOf(st, tool)) <= Cardinality(CallLinesOf(a, tool))
      BY DEF SessionInv, Recorded
    <3> QED BY <1>6, <3>1, <3>2
  <2> QED BY <2>1 DEF SessionInv, Recorded
<1>12. Stage("running", g, rest, m, r, b, st) /\ (r.status \in {200, 502} => FALSE)
  BY <1>3 DEF SessionInv, Stage, NoReply
<1>13. SessionInv("running", g, rest, m, r, b, st)
  BY <1>1, <1>2, <1>8, <1>9, <1>11, <1>12 DEF SessionInv
<1> QED BY <1>10, <1>13

\* A result has come.
LEMMA GoesOnAfterEnd ==
    ASSUME NEW g, NEW q, NEW n, NEW r, NEW a, NEW st,
           SessionTyped("running", g, q, n, r, a, st), SessionInv("running", g, q, n, r, a, st),
           q # << >>, NEW e, e = Head(q), e.kind = "tool_end", NEW rest, rest = Tail(q),
           NEW record, record = [step |-> n.steps, tool |-> e.tool, turn |-> e.turn],
           NEW su, su = Append(st, record)
    PROVE  /\ SessionTyped("running", g, rest, n, r, a, su)
           /\ SessionInv("running", g, rest, n, r, a, su)
<1>1. /\ g \in Graph /\ q \in Seq(Event) /\ n \in Session /\ a \in Seq(Line) /\ st \in Seq(StepRecord)
      /\ GraphOK(g) /\ Named(q) /\ Ahead(q, g, n.steps, a, st) /\ Opened(a, n.tools) /\ n.steps \in Nat
  BY AgentAssumption DEF SessionTyped, SessionInv, Session
<1>2. /\ e \in Event /\ rest \in Seq(Event) /\ Named(rest) /\ e.tool \in Tools
      /\ e.turn = n.steps + Opens(e) /\ Chained(rest, e.turn, Told(g)) /\ EndsLast(rest, g)
      /\ \A tool \in Tools :
           Balanced(rest, Cardinality(RecordsOf(st, tool)) + One(e, "tool_end", tool),
                    Cardinality(CallLinesOf(a, tool)) + One(e, "tool_start", tool),
                    Cardinality(RunningCalls(g, tool)), tool)
  BY HeadOf, HeadLeaves
<1>3. n.steps = e.turn
  BY <1>1, <1>2 DEF Opens
<1>4. record \in StepRecord /\ record.step = record.turn /\ record.tool = e.tool
  BY <1>1, <1>2, <1>3 DEF StepRecord, Event
<1>5. /\ su \in Seq(StepRecord) /\ Len(st) \in Nat /\ DOMAIN st = 1..Len(st)
      /\ DOMAIN su = 1..(Len(st) + 1) /\ \A j \in 1..Len(st) : su[j] = st[j]
      /\ su[Len(st) + 1] = record
  BY <1>1, <1>4, Appended
<1>6. \A tool \in Tools :
         Cardinality(RecordsOf(su, tool)) = Cardinality(RecordsOf(st, tool)) + One(e, "tool_end", tool)
  <2> SUFFICES ASSUME NEW tool \in Tools
               PROVE  Cardinality(RecordsOf(su, tool))
                        = Cardinality(RecordsOf(st, tool)) + One(e, "tool_end", tool)
    OBVIOUS
  <2>1. One(e, "tool_end", tool) = IF e.tool = tool THEN 1 ELSE 0
    BY DEF One, Has
  <2> QED BY <1>1, <1>4, <2>1, OneRecord
<1>7. ASSUME NEW tool \in Tools
      PROVE  /\ Balanced(rest, Cardinality(RecordsOf(su, tool)), Cardinality(CallLinesOf(a, tool)),
                         Cardinality(RunningCalls(g, tool)), tool)
             /\ Cardinality(RecordsOf(su, tool)) <= Cardinality(CallLinesOf(a, tool))
  <2>1. One(e, "tool_start", tool) = 0
    BY OthersOne
  <2>2. Cardinality(CallLinesOf(a, tool)) \in Nat /\ Cardinality(RecordsOf(su, tool)) \in Nat
    BY <1>1, <1>5, CountedCalls
  <2>3. Cardinality(CallLinesOf(a, tool)) + One(e, "tool_start", tool) = Cardinality(CallLinesOf(a, tool))
    BY <2>1, <2>2
  <2>4. Balanced(rest, Cardinality(RecordsOf(su, tool)), Cardinality(CallLinesOf(a, tool)),
                 Cardinality(RunningCalls(g, tool)), tool)
    BY <1>2, <1>6, <2>3
  <2>5. /\ 0 \in 0..Len(rest)
        /\ HowMany(rest, "tool_end", tool, 0) = 0 /\ HowMany(rest, "tool_start", tool, 0) = 0
    BY <1>2, HowManyNone
  <2>6. Cardinality(RecordsOf(su, tool)) + 0 <= Cardinality(CallLinesOf(a, tool)) + 0
    BY <2>4, <2>5 DEF Balanced
  <2> QED BY <2>2, <2>4, <2>6
<1>8. Ahead(rest, g, n.steps, a, su)
  BY <1>2, <1>3, <1>7 DEF Ahead
<1>9. SessionTyped("running", g, rest, n, r, a, su)
  BY <1>2, <1>5 DEF SessionTyped
<1>10. Recorded(a, su)
  <2>1. ASSUME NEW i \in DOMAIN su PROVE su[i].step = su[i].turn
    <3>1. CASE i \in 1..Len(st)
      BY <1>5, <3>1 DEF SessionInv, Recorded
    <3>2. CASE i = Len(st) + 1
      BY <1>4, <1>5, <3>2
    <3> QED BY <1>5, <3>1, <3>2
  <2> QED BY <1>7, <2>1 DEF Recorded
<1>11. Stage("running", g, rest, n, r, a, su) /\ (r.status \in {200, 502} => FALSE)
  BY DEF SessionInv, Stage, NoReply
<1>12. SessionInv("running", g, rest, n, r, a, su)
  BY <1>1, <1>2, <1>8, <1>10, <1>11 DEF SessionInv
<1> QED BY <1>9, <1>12

\* What the completion of a session may say, of the event that ends it.
Answers(g, e, steps, status, finish, outcome) ==
    /\ steps \in 0..MaxSteps /\ steps <= e.turn
    /\ status \in {200, 502} /\ finish \in {"none", "stop", "length"}
    /\ outcome \in {"pass", "error", "max_steps_reached"}
    /\ outcome = "max_steps_reached" <=> steps = MaxSteps /\ status = 200
    /\ finish = "stop" => g.at = "over" /\ g.calls = << >>

\* The loop is left with an answer.
LEMMA Completes ==
    ASSUME NEW g, NEW q, NEW n, NEW r, NEW a, NEW st,
           SessionTyped("running", g, q, n, r, a, st), SessionInv("running", g, q, n, r, a, st),
           q # << >>, NEW e, e = Head(q), NEW rest, rest = Tail(q),
           NEW steps, NEW status, NEW finish, NEW outcome,
           Answers(g, e, steps, status, finish, outcome),
           NEW m, m = [steps |-> steps, tools |-> n.tools],
           NEW answer, answer = [status |-> status, finish |-> finish],
           NEW line, line = AuditLine("agent_session_complete", outcome, steps, n.tools),
           NEW b, b = Append(a, line)
    PROVE  /\ SessionTyped("replied", g, rest, m, answer, b, st)
           /\ SessionInv("replied", g, rest, m, answer, b, st)
<1>1. PICK turn : turn = (g.node + 1) \div 2
  OBVIOUS
<1>2. /\ e.turn \in Nat /\ turn \in Nat /\ e.turn <= turn /\ rest \in Seq(Event) /\ Named(rest)
  <2>1. /\ e.turn \in Nat /\ e.turn <= (g.node + 1) \div 2 /\ rest \in Seq(Event) /\ Named(rest)
    BY HeadOf
  <2>2. (g.node + 1) \div 2 \in Nat
    <3>1. g \in Graph
      BY DEF SessionTyped
    <3>2. g.node \in Nat
      BY <3>1, NodeNat
    <3> QED BY <3>2, HalfMonotone
  <2> QED BY <1>1, <2>1, <2>2
<1>3. /\ g \in Graph /\ n \in Session /\ a \in Seq(Line) /\ st \in Seq(StepRecord)
      /\ GraphOK(g) /\ Opened(a, n.tools) /\ n.tools \in Seq(Tools) /\ Recorded(a, st)
  BY DEF SessionTyped, SessionInv, Session
<1>4. /\ steps \in 0..MaxSteps /\ steps \in Nat /\ steps <= e.turn /\ status \in {200, 502}
      /\ finish \in {"none", "stop", "length"} /\ outcome \in {"pass", "error", "max_steps_reached"}
      /\ outcome = "max_steps_reached" <=> steps = MaxSteps /\ status = 200
      /\ finish = "stop" => g.at = "over" /\ g.calls = << >>
  BY AgentAssumption DEF Answers
<1>5. /\ line \in Line /\ line.type = "agent_session_complete" /\ line.outcome = outcome
      /\ line.steps = steps /\ line.tools = n.tools
  BY <1>3, <1>4, LineTyped
<1>6. b \in Seq(Line)
  BY <1>3, <1>5
<1>7. Closed(b, status, turn)
  <2>1. line.steps <= turn
    BY <1>2, <1>4, <1>5
  <2> QED BY <1>3, <1>4, <1>5, <2>1, TrailCloses
<1>8. Recorded(b, st)
  <2>1. \A tool \in Tools : CallLinesOf(b, tool) = CallLinesOf(a, tool)
    BY <1>3, <1>5, OtherLine
  <2> QED BY <1>3, <2>1 DEF Recorded
<1>9. answer.status = status /\ answer.finish = finish /\ answer \in Reply /\ m \in Session
  BY <1>3, <1>4 DEF Reply, Session
<1>10. SessionTyped("replied", g, rest, m, answer, b, st)
  BY <1>2, <1>3, <1>6, <1>9 DEF SessionTyped, Handlers
<1>11. Stage("replied", g, rest, m, answer, b, st)
  BY <1>4, <1>9 DEF Stage
<1>12. SessionInv("replied", g, rest, m, answer, b, st)
  BY <1>1, <1>2, <1>3, <1>7, <1>8, <1>9, <1>11 DEF SessionInv
<1> QED BY <1>10, <1>12

LEMMA NamedTail ==
    ASSUME NEW q \in Seq(Event), q # << >>, Named(q)
    PROVE  Tail(q) \in Seq(Event) /\ Named(Tail(q))
<1>1. PICK rest : rest = Tail(q)
  OBVIOUS
<1>2. /\ rest \in Seq(Event) /\ Len(q) \in Nat \ {0} /\ Len(rest) = Len(q) - 1
      /\ \A j \in 1..(Len(q) - 1) : rest[j] = q[j + 1]
  BY <1>1, HeadTaken
<1>3. ASSUME NEW j \in 1..Len(rest) PROVE j + 1 \in 1..Len(q) /\ rest[j] = q[j + 1]
  BY <1>2
<1>4. Named(rest)
  BY <1>3 DEF Named
<1> QED BY <1>1, <1>2, <1>4

\* The loop is left without one.
LEMMA Fails ==
    ASSUME NEW g \in Graph, NEW q \in Seq(Event), NEW n \in Session, NEW a \in Seq(Line),
           NEW st \in Seq(StepRecord), GraphOK(g), Named(q), Recorded(a, st), q # << >>,
           NEW answer \in Reply, answer.status = 500, answer.finish = "none"
    PROVE  /\ SessionTyped("done", g, Tail(q), n, answer, a, st)
           /\ SessionInv("done", g, Tail(q), n, answer, a, st)
<1>1. PICK rest : rest = Tail(q)
  OBVIOUS
<1>2. rest \in Seq(Event) /\ Named(rest)
  BY <1>1, NamedTail
<1>3. SessionTyped("done", g, rest, n, answer, a, st)
  BY <1>2 DEF SessionTyped, Handlers
<1>4. Stage("done", g, rest, n, answer, a, st)
  BY DEF Stage
<1>5. SessionInv("done", g, rest, n, answer, a, st)
  BY <1>2, <1>4 DEF SessionInv
<1> QED BY <1>1, <1>3, <1>5

LEMMA SessionParts ==
    ASSUME TypeOK, NEW s \in Sessions
    PROVE  /\ \A k : [session EXCEPT ![s].steps = k]
                       = [session EXCEPT ![s] = [steps |-> k, tools |-> session[s].tools]]
           /\ \A more : [session EXCEPT ![s].tools = more]
                          = [session EXCEPT ![s] = [steps |-> session[s].steps, tools |-> more]]
<1>1. session \in [Sessions -> [steps : 0..MaxSteps, tools : Seq(Tools)]]
  BY DEF TypeOK
<1>2. /\ \A k : [session[s] EXCEPT !.steps = k] = [steps |-> k, tools |-> session[s].tools]
      /\ \A more : [session[s] EXCEPT !.tools = more] = [steps |-> session[s].steps, tools |-> more]
  BY <1>1
<1> QED BY <1>1, <1>2

\* A part of a session that a step leaves alone.
LEMMA Unmoved ==
    ASSUME TypeOK, NEW s \in Sessions
    PROVE  /\ handler = [handler EXCEPT ![s] = handler[s]] /\ graph = [graph EXCEPT ![s] = graph[s]]
           /\ queue = [queue EXCEPT ![s] = queue[s]] /\ session = [session EXCEPT ![s] = session[s]]
           /\ reply = [reply EXCEPT ![s] = reply[s]] /\ audit = [audit EXCEPT ![s] = audit[s]]
           /\ store = [store EXCEPT ![s] = store[s]]
  BY DEF TypeOK

LEMMA CompleteStep ==
    ASSUME AgentInv, NEW s \in Sessions, Read(s), NEW e, e = Head(queue[s]),
           NEW steps, NEW status, NEW finish, NEW outcome,
           Complete(s, steps, status, finish, outcome),
           Answers(graph[s], e, steps, status, finish, outcome)
    PROVE  AgentInv'
<1>1. PICK g, q, n, r, a, st :
        /\ g = graph[s] /\ q = queue[s] /\ n = session[s] /\ r = reply[s]
        /\ a = audit[s] /\ st = store[s]
  OBVIOUS
<1>2. /\ SessionTyped("running", g, q, n, r, a, st) /\ SessionInv("running", g, q, n, r, a, st)
      /\ TypeOK /\ q # << >> /\ e = Head(q)
      /\ queue' = [queue EXCEPT ![s] = Tail(q)] /\ UNCHANGED <<graph, crashes>>
  BY <1>1, ReadStarts
<1>3. PICK rest, m, answer :
        /\ rest = Tail(q) /\ m = [steps |-> steps, tools |-> n.tools]
        /\ answer = [status |-> status, finish |-> finish]
  OBVIOUS
<1>4. PICK line, b :
        line = AuditLine("agent_session_complete", outcome, steps, n.tools) /\ b = Append(a, line)
  OBVIOUS
<1>5. Answers(g, e, steps, status, finish, outcome)
  BY <1>1
<1>6. SessionTyped("replied", g, rest, m, answer, b, st) /\ SessionInv("replied", g, rest, m, answer, b, st)
  BY <1>2, <1>3, <1>4, <1>5, Completes
<1>7. Becomes(s, "replied", g, rest, m, answer, b, st)
  <2>1. handler' = [handler EXCEPT ![s] = "replied"] /\ reply' = [reply EXCEPT ![s] = answer]
    <3>1. Replied(s, status, finish) /\ status # 500
      BY DEF Complete, Answers
    <3>2. handler' = [handler EXCEPT ![s] = "replied"]
      BY <3>1 DEF Replied
    <3>3. reply' = [reply EXCEPT ![s] = answer]
      BY <1>3, <3>1 DEF Replied
    <3> QED BY <3>2, <3>3
  <2>2. audit' = [audit EXCEPT ![s] = b]
    BY <1>1, <1>2, <1>4 DEF Complete, Emit, TypeOK
  <2>3. session' = [session EXCEPT ![s] = m]
    <3>1. session' = [session EXCEPT ![s].steps = steps]
      BY DEF Complete
    <3>2. [session EXCEPT ![s].steps = steps]
            = [session EXCEPT ![s] = [steps |-> steps, tools |-> session[s].tools]]
      BY <1>2, SessionParts
    <3>3. m = [steps |-> steps, tools |-> session[s].tools]
      BY <1>1, <1>3
    <3> QED BY <3>1, <3>2, <3>3
  <2>4. /\ graph' = [graph EXCEPT ![s] = g] /\ store' = [store EXCEPT ![s] = st]
        /\ queue' = [queue EXCEPT ![s] = rest] /\ crashes' = crashes
    BY <1>1, <1>2, <1>3, Unmoved DEF Complete
  <2> QED BY <2>1, <2>2, <2>3, <2>4 DEF Becomes
<1> QED BY <1>6, <1>7, SessionStep

LEMMA ReadStep ==
    ASSUME AgentInv, NEW s \in Sessions, Read(s)
    PROVE  AgentInv'
<1>1. PICK g, q, n, r, a, st :
        /\ g = graph[s] /\ q = queue[s] /\ n = session[s] /\ r = reply[s]
        /\ a = audit[s] /\ st = store[s]
  OBVIOUS
<1>2. /\ SessionTyped("running", g, q, n, r, a, st) /\ SessionInv("running", g, q, n, r, a, st)
      /\ TypeOK /\ handler[s] = "running" /\ q # << >>
      /\ queue' = [queue EXCEPT ![s] = Tail(q)] /\ UNCHANGED <<graph, crashes>>
  BY <1>1, ReadStarts
<1>3. PICK e, rest : e = Head(q) /\ rest = Tail(q)
  OBVIOUS
<1>4. /\ g \in Graph /\ GraphOK(g) /\ q \in Seq(Event) /\ Named(q) /\ Ahead(q, g, n.steps, a, st)
      /\ n.steps \in Nat /\ n.steps < MaxSteps /\ MaxSteps \in Nat
      /\ a \in Seq(Line) /\ st \in Seq(StepRecord)
  BY <1>2, AgentAssumption DEF SessionTyped, SessionInv, Session, Stage
<1>5. /\ e \in Event /\ e.turn = n.steps + Opens(e) /\ e.turn \in Nat /\ Opens(e) \in {0, 1}
      /\ e.kind = "end" => g.at = "over" /\ (g.calls = << >> \/ e.turn > MaxSteps)
  <2>1. /\ e \in Event /\ e.turn = n.steps + Opens(e)
        /\ e.kind = "end" => g.at = "over" /\ (g.calls = << >> \/ e.turn > MaxSteps)
    BY <1>2, <1>3, HeadOf
  <2> QED BY <2>1 DEF Event, Opens
<1>6. /\ graph' = [graph EXCEPT ![s] = g] /\ queue' = [queue EXCEPT ![s] = rest] /\ crashes' = crashes
  BY <1>1, <1>2, <1>3, Unmoved
<1>7. CASE e.kind = "model_end"
  <2>1. ModelEnded(s)
    BY <1>1, <1>3, <1>7 DEF Read
  <2>2. PICK steps : steps = n.steps + 1
    OBVIOUS
  <2>3. steps \in 0..MaxSteps /\ steps = e.turn
    BY <1>4, <1>5, <1>7, <2>2 DEF Opens
  <2>4. CASE steps >= MaxSteps
    <3>1. Complete(s, steps, 200, "length", "max_steps_reached")
      BY <1>1, <2>1, <2>2, <2>4 DEF ModelEnded
    <3>2. steps = MaxSteps /\ steps <= e.turn
      BY <1>4, <1>5, <2>3, <2>4
    <3>3. Answers(graph[s], e, steps, 200, "length", "max_steps_reached")
      BY <2>3, <3>2 DEF Answers
    <3> QED BY <1>1, <1>3, <3>1, <3>3, CompleteStep
  <2>5. CASE ~(steps >= MaxSteps)
    <3>1. session' = [session EXCEPT ![s].steps = steps] /\ UNCHANGED <<handler, reply, audit, store>>
      BY <1>1, <2>1, <2>2, <2>5 DEF ModelEnded
    <3>2. PICK m : m = [steps |-> n.steps + 1, tools |-> n.tools]
      OBVIOUS
    <3>3. m.steps < MaxSteps
      BY <1>4, <2>2, <2>5, <3>2
    <3>4. SessionTyped("running", g, rest, m, r, a, st) /\ SessionInv("running", g, rest, m, r, a, st)
      BY <1>2, <1>3, <1>7, <3>2, <3>3, GoesOnAfterTurn
    <3>5. Becomes(s, "running", g, rest, m, r, a, st)
      <4>1. session' = [session EXCEPT ![s] = m]
        BY <1>1, <1>2, <2>2, <3>1, <3>2, SessionParts
      <4> QED BY <1>1, <1>2, <1>6, <3>1, <4>1, Unmoved DEF Becomes
    <3> QED BY <3>4, <3>5, SessionStep
  <2> QED BY <2>4, <2>5
<1>8. CASE e.kind = "tool_start"
  <2>1. ToolStarted(s, e.tool)
    BY <1>1, <1>3, <1>8 DEF Read
  <2>2. PICK m, line, b :
          /\ m = [steps |-> n.steps, tools |-> Append(n.tools, e.tool)]
          /\ line = AuditLine("agent_tool_call", "pass", 0, <<e.tool>>)
          /\ b = Append(a, line)
    OBVIOUS
  <2>3. SessionTyped("running", g, rest, m, r, b, st) /\ SessionInv("running", g, rest, m, r, b, st)
    BY <1>2, <1>3, <1>8, <2>2, GoesOnAfterStart
  <2>4. Becomes(s, "running", g, rest, m, r, b, st)
    <3>1. session' = [session EXCEPT ![s].tools = Append(session[s].tools, e.tool)]
      BY <1>2, <2>1 DEF ToolStarted, TypeOK
    <3>2. session' = [session EXCEPT ![s] = m]
      BY <1>1, <1>2, <2>2, <3>1, SessionParts
    <3>3. audit' = [audit EXCEPT ![s] = b]
      BY <1>1, <1>2, <2>1, <2>2 DEF ToolStarted, Emit, TypeOK
    <3>4. UNCHANGED <<handler, reply, store>>
      BY <2>1 DEF ToolStarted
    <3> QED BY <1>1, <1>2, <1>6, <3>2, <3>3, <3>4, Unmoved DEF Becomes
  <2> QED BY <2>3, <2>4, SessionStep
<1>9. CASE e.kind = "tool_end"
  <2>1. ToolEnded(s, e)
    BY <1>1, <1>3, <1>9 DEF Read
  <2>2. PICK record, su :
          record = [step |-> n.steps, tool |-> e.tool, turn |-> e.turn] /\ su = Append(st, record)
    OBVIOUS
  <2>3. SessionTyped("running", g, rest, n, r, a, su) /\ SessionInv("running", g, rest, n, r, a, su)
    BY <1>2, <1>3, <1>9, <2>2, GoesOnAfterEnd
  <2>4. Becomes(s, "running", g, rest, n, r, a, su)
    <3>1. store' = [store EXCEPT ![s] = su]
      BY <1>1, <1>2, <2>1, <2>2 DEF ToolEnded, TypeOK
    <3>2. UNCHANGED <<handler, session, reply, audit>>
      BY <2>1 DEF ToolEnded
    <3> QED BY <1>1, <1>2, <1>6, <3>1, <3>2, Unmoved DEF Becomes
  <2> QED BY <2>3, <2>4, SessionStep
<1>10. CASE e.kind = "end"
  <2>1. Complete(s, n.steps, 200, "stop", "pass")
    BY <1>1, <1>3, <1>10 DEF Read
  <2>2. e.turn = n.steps
    BY <1>4, <1>5, <1>10 DEF Opens
  <2>3. n.steps \in 0..MaxSteps /\ n.steps # MaxSteps /\ n.steps <= e.turn
        /\ g.at = "over" /\ g.calls = << >>
    BY <1>4, <1>5, <1>10, <2>2
  <2>4. Answers(graph[s], e, n.steps, 200, "stop", "pass")
    BY <1>1, <2>3 DEF Answers
  <2> QED BY <1>1, <1>3, <2>1, <2>4, CompleteStep
<1>11. CASE e.kind = "router_error"
  <2>1. Complete(s, n.steps, 502, "none", "error")
    BY <1>1, <1>3, <1>11 DEF Read
  <2>2. n.steps \in 0..MaxSteps /\ n.steps <= e.turn
    BY <1>4, <1>5
  <2>3. Answers(graph[s], e, n.steps, 502, "none", "error")
    BY <2>2 DEF Answers
  <2> QED BY <1>1, <1>3, <2>1, <2>3, CompleteStep
<1>12. CASE e.kind = "other_error"
  <2>1. Raised(s)
    BY <1>1, <1>3, <1>12 DEF Read
  <2>2. PICK answer : answer = [status |-> 500, finish |-> "none"]
    OBVIOUS
  <2>3. SessionTyped("done", g, rest, n, answer, a, st) /\ SessionInv("done", g, rest, n, answer, a, st)
    <3>1. g \in Graph /\ q \in Seq(Event) /\ n \in Session /\ a \in Seq(Line) /\ st \in Seq(StepRecord)
      BY <1>2 DEF SessionTyped
    <3>2. GraphOK(g) /\ Named(q) /\ Recorded(a, st) /\ q # << >>
      BY <1>2 DEF SessionInv
    <3>3. answer \in Reply /\ answer.status = 500 /\ answer.finish = "none"
      BY <2>2 DEF Reply
    <3>4. SessionTyped("done", g, Tail(q), n, answer, a, st) /\ SessionInv("done", g, Tail(q), n, answer, a, st)
      BY <3>1, <3>2, <3>3, Fails
    <3> QED BY <1>3, <3>4
  <2>4. Becomes(s, "done", g, rest, n, answer, a, st)
    <3>1. handler' = [handler EXCEPT ![s] = "done"] /\ reply' = [reply EXCEPT ![s] = answer]
      BY <2>1, <2>2 DEF Raised, Replied
    <3>2. UNCHANGED <<session, audit, store>>
      BY <2>1 DEF Raised
    <3> QED BY <1>1, <1>2, <1>6, <3>1, <3>2, Unmoved DEF Becomes
  <2> QED BY <2>3, <2>4, SessionStep
<1> QED BY <1>5, <1>7, <1>8, <1>9, <1>10, <1>11, <1>12 DEF Event

(***************************************************************************)
(* The request, the crash, and the invariant                               *)
(***************************************************************************)
LEMMA RefuseStep ==
    ASSUME AgentInv, NEW s \in Sessions, Refuse(s)
    PROVE  AgentInv'
<1>1. Typed(s) /\ Inv(s) /\ TypeOK
  BY TypedSession DEF AgentInv
<1>2. PICK answer : answer = [status |-> 400, finish |-> "none"]
  OBVIOUS
<1>3. Becomes(s, "done", graph[s], queue[s], session[s], answer, audit[s], store[s])
  <2>1. /\ handler' = [handler EXCEPT ![s] = "done"] /\ reply' = [reply EXCEPT ![s] = answer]
        /\ UNCHANGED <<graph, queue, session, audit, store, crashes>>
    BY <1>2 DEF Refuse
  <2> QED BY <1>1, <2>1, Unmoved DEF Becomes
<1>4. answer \in Reply /\ answer.status = 400 /\ answer.finish = "none"
  BY <1>2 DEF Reply
<1>5. SessionTyped("done", graph[s], queue[s], session[s], answer, audit[s], store[s])
  BY <1>1, <1>4 DEF Typed, SessionTyped, Handlers
<1>6. SessionInv("done", graph[s], queue[s], session[s], answer, audit[s], store[s])
  BY <1>1, <1>4 DEF Inv, SessionInv, Stage
<1> QED BY <1>3, <1>5, <1>6, SessionStep

LEMMA StartLineTyped ==
    ASSUME NEW none \in Seq(Tools), NEW line, line = AuditLine("agent_session_start", "pass", 0, none)
    PROVE  line \in Line /\ line.type = "agent_session_start"
  BY DEF AuditLine, Line

LEMMA FirstNode ==
    ASSUME NEW g, g = [at |-> "model", node |-> 1, calls |-> << >>]
    PROVE  [NoGraph EXCEPT !.at = "model", !.node = 1] = g
<1>1. PICK calls : calls = << >>
  OBVIOUS
<1>2. NoGraph = [at |-> "none", node |-> 0, calls |-> calls]
  BY <1>1 DEF NoGraph
<1>3. PICK r : r = [NoGraph EXCEPT !.at = "model", !.node = 1]
  OBVIOUS
<1>4. NoGraph \in [{"at", "node", "calls"} -> {"none", 0, calls}]
  BY <1>2
<1>5. r = [x \in {"at", "node", "calls"} |-> r[x]]
  BY <1>3, <1>4
<1>6. r.at = "model" /\ r.node = 1 /\ r.calls = calls
  BY <1>2, <1>3
<1>7. g = [x \in {"at", "node", "calls"} |-> g[x]] /\ g.at = "model" /\ g.node = 1 /\ g.calls = calls
  BY <1>1
<1>8. r = g
  BY <1>5, <1>6, <1>7
<1> QED BY <1>3, <1>8

\* A session that has just begun.
LEMMA Begins ==
    ASSUME NEW g, g = [at |-> "model", node |-> 1, calls |-> << >>],
           NEW none, none = << >>, NEW n, n = NewSession, NEW r, r = NoReply,
           NEW line, line = AuditLine("agent_session_start", "pass", 0, none),
           NEW a, a = <<line>>
    PROVE  /\ SessionTyped("running", g, none, n, r, a, none)
           /\ SessionInv("running", g, none, n, r, a, none)
<1>1. /\ none \in Seq(Event) /\ none \in Seq(Tools) /\ none \in Seq(StepRecord) /\ none \in Seq(ToolCall)
      /\ Len(none) = 0 /\ DOMAIN none = {}
  OBVIOUS
<1>2. /\ line \in Line /\ line.type = "agent_session_start"
  BY <1>1, StartLineTyped
<1>3. a \in Seq(Line) /\ Len(a) = 1 /\ a[1] = line /\ DOMAIN a = {1}
  BY <1>2
<1>4. g.at = "model" /\ g.node = 1 /\ g.calls = none
  OBVIOUS
<1>5. MaxSteps \in Nat \ {0} /\ RecursionLimit \in Nat /\ 1 <= RecursionLimit
  BY AgentAssumption DEF RecursionLimit
<1>6. g \in Graph
  <2>1. [at |-> "model", node |-> 1, calls |-> none] \in Graph
    <3>1. PICK node \in Nat : node = 1 /\ node <= RecursionLimit + 1
      BY <1>5
    <3>2. [at |-> "model", node |-> node, calls |-> none] \in Graph
      BY <1>1, <3>1, GraphTyped
    <3> QED BY <3>1, <3>2
  <2> QED BY <2>1
<1>7. GraphOK(g) /\ Told(g) = 0
  BY <1>1, <1>4, <1>5 DEF GraphOK, Told
<1>8. n.steps = 0 /\ n.tools = none /\ n \in Session
  BY <1>1, <1>5 DEF NewSession, Session
<1>9. r \in Reply /\ r.status = 0 /\ r.finish = "none"
  BY DEF NoReply, Reply
<1>10. Chained(none, 0, 0) /\ EndsLast(none, g) /\ Named(none)
  BY <1>1 DEF Chained, EndsLast, Named
<1>11. ASSUME NEW tool \in Tools
       PROVE  /\ Balanced(none, Cardinality(RecordsOf(none, tool)), Cardinality(CallLinesOf(a, tool)),
                          Cardinality(RunningCalls(g, tool)), tool)
              /\ Cardinality(RecordsOf(none, tool)) <= Cardinality(CallLinesOf(a, tool))
  <2>1. RecordsOf(none, tool) = {} /\ RunningCalls(g, tool) = {} /\ CallLinesOf(a, tool) = {}
    BY <1>1, <1>2, <1>3, <1>4 DEF RecordsOf, RunningCalls, CallLinesOf, CallLines
  <2>2. /\ Cardinality(RecordsOf(none, tool)) = 0 /\ Cardinality(RunningCalls(g, tool)) = 0
        /\ Cardinality(CallLinesOf(a, tool)) = 0
    BY <2>1, FS_EmptySet
  <2>3. HowMany(none, "tool_end", tool, 0) = 0 /\ HowMany(none, "tool_start", tool, 0) = 0
    BY HowManyNone
  <2>4. Balanced(none, 0, 0, 0, tool)
    BY <1>1, <2>3 DEF Balanced
  <2> QED BY <2>2, <2>4
<1>12. Ahead(none, g, n.steps, a, none)
  BY <1>7, <1>8, <1>10, <1>11 DEF Ahead
<1>13. Opened(a, n.tools)
  BY <1>1, <1>2, <1>3, <1>8 DEF Opened
<1>14. Recorded(a, none)
  BY <1>1, <1>11 DEF Recorded
<1>15. Stage("running", g, none, n, r, a, none)
  BY <1>4, <1>5, <1>8, <1>9 DEF Stage
<1>16. SessionTyped("running", g, none, n, r, a, none)
  BY <1>1, <1>3, <1>6, <1>8, <1>9 DEF SessionTyped, Handlers
<1>17. SessionInv("running", g, none, n, r, a, none)
  BY <1>7, <1>9, <1>10, <1>12, <1>13, <1>14, <1>15 DEF SessionInv
<1> QED BY <1>16, <1>17

LEMMA RunSessionStep ==
    ASSUME AgentInv, NEW s \in Sessions, RunSession(s)
    PROVE  AgentInv'
<1>1. Typed(s) /\ Inv(s) /\ TypeOK
  BY TypedSession DEF AgentInv
<1>2. /\ graph[s] = NoGraph /\ queue[s] = << >> /\ session[s] = NewSession
      /\ reply[s] = NoReply /\ audit[s] = << >> /\ store[s] = << >>
  BY <1>1 DEF RunSession, Inv, SessionInv, Stage
<1>3. PICK g, none, n, r, line, a :
        /\ g = [at |-> "model", node |-> 1, calls |-> << >>] /\ none = << >>
        /\ n = NewSession /\ r = NoReply
        /\ line = AuditLine("agent_session_start", "pass", 0, none) /\ a = <<line>>
  OBVIOUS
<1>4. /\ SessionTyped("running", g, none, n, r, a, none)
      /\ SessionInv("running", g, none, n, r, a, none)
  BY <1>3, Begins
<1>5. Becomes(s, "running", g, none, n, r, a, none)
  <2>1. /\ handler' = [handler EXCEPT ![s] = "running"] /\ store' = [store EXCEPT ![s] = none]
        /\ UNCHANGED <<queue, session, reply, crashes>>
    BY <1>3 DEF RunSession
  <2>2. graph' = [graph EXCEPT ![s] = g]
    <3>1. [NoGraph EXCEPT !.at = "model", !.node = 1] = g
      BY <1>3, FirstNode
    <3> QED BY <3>1 DEF RunSession
  <2>3. Append(audit[s], line) = a
    BY <1>2, <1>3
  <2>4. audit' = [audit EXCEPT ![s] = a]
    BY <1>1, <1>3, <2>3 DEF RunSession, Emit, TypeOK
  <2> QED BY <1>1, <1>2, <1>3, <2>1, <2>2, <2>4, Unmoved DEF Becomes
<1> QED BY <1>4, <1>5, SessionStep

LEMMA ResponseSentStep ==
    ASSUME AgentInv, NEW s \in Sessions, ResponseSent(s)
    PROVE  AgentInv'
<1>1. Typed(s) /\ Inv(s) /\ TypeOK /\ handler[s] = "replied"
  BY TypedSession DEF AgentInv, ResponseSent
<1>2. PICK g, q, n, r, a, st :
        /\ g = graph[s] /\ q = queue[s] /\ n = session[s] /\ r = reply[s]
        /\ a = audit[s] /\ st = store[s]
  OBVIOUS
<1>3. SessionTyped("replied", g, q, n, r, a, st) /\ SessionInv("replied", g, q, n, r, a, st)
  BY <1>1, <1>2 DEF Typed, Inv
<1>4. PICK outcome, none : outcome = (IF r.status = 200 THEN "pass" ELSE "error") /\ none = << >>
  OBVIOUS
<1>5. PICK line, b : line = AuditLine("response_sent", outcome, 0, none) /\ b = Append(a, line)
  OBVIOUS
<1>6. line \in Line /\ line.type = "response_sent"
  <2>1. none \in Seq(Tools) /\ outcome \in {"pass", "error"}
    BY <1>4
  <2> QED BY <1>5, <2>1, LineTyped
<1>7. a \in Seq(Line) /\ b \in Seq(Line)
  BY <1>3, <1>5, <1>6 DEF SessionTyped
<1>8. r.status \in {200, 502} => Closed(b, r.status, (g.node + 1) \div 2)
  BY <1>3, <1>5, <1>6, <1>7, ClosedLonger DEF SessionInv
<1>9. Recorded(b, st)
  <2>1. \A tool \in Tools : CallLinesOf(b, tool) = CallLinesOf(a, tool)
    BY <1>5, <1>6, <1>7, OtherLine
  <2> QED BY <1>3, <2>1 DEF SessionInv, Recorded
<1>10. SessionTyped("done", g, q, n, r, b, st)
  BY <1>3, <1>7 DEF SessionTyped, Handlers
<1>11. Stage("done", g, q, n, r, b, st)
  BY <1>3 DEF SessionInv, Stage
<1>12. SessionInv("done", g, q, n, r, b, st)
  BY <1>3, <1>8, <1>9, <1>11 DEF SessionInv
<1>13. Becomes(s, "done", g, q, n, r, b, st)
  <2>1. /\ handler' = [handler EXCEPT ![s] = "done"]
        /\ UNCHANGED <<graph, queue, session, reply, store, crashes>>
    BY DEF ResponseSent
  <2>2. audit' = [audit EXCEPT ![s] = b]
    BY <1>1, <1>2, <1>4, <1>5 DEF ResponseSent, Emit, TypeOK
  <2> QED BY <1>1, <1>2, <2>1, <2>2, Unmoved DEF Becomes
<1> QED BY <1>10, <1>12, <1>13, SessionStep

LEMMA NothingRecorded ==
    ASSUME NEW a \in Seq(Line), NEW none, DOMAIN none = {}
    PROVE  Recorded(a, none)
<1>1. ASSUME NEW tool \in Tools
      PROVE  Cardinality(RecordsOf(none, tool)) <= Cardinality(CallLinesOf(a, tool))
  <2>1. RecordsOf(none, tool) = {}
    BY DEF RecordsOf
  <2>2. Cardinality(RecordsOf(none, tool)) = 0
    BY <2>1, FS_EmptySet
  <2>3. Len(a) \in Nat /\ CallLinesOf(a, tool) \subseteq 1..Len(a)
    BY DEF CallLinesOf, CallLines
  <2> QED BY <2>2, <2>3, CountOf
<1> QED BY <1>1 DEF Recorded

\* What the crash of the process makes of a session.
LEMMA Crashes ==
    ASSUME NEW h, NEW g, NEW q, NEW n, NEW r, NEW a, NEW st,
           SessionTyped(h, g, q, n, r, a, st), SessionInv(h, g, q, n, r, a, st),
           NEW left, left = (CASE h = "running" -> "lost" [] h = "replied" -> "done" [] OTHER -> h),
           NEW stopped, stopped = (IF g.at = "none" THEN NoGraph ELSE [g EXCEPT !.at = "over"]),
           NEW none, none = << >>
    PROVE  /\ SessionTyped(left, stopped, none, n, r, a, none)
           /\ SessionInv(left, stopped, none, n, r, a, none)
<1>1. /\ h \in Handlers /\ g \in Graph /\ GraphOK(g) /\ a \in Seq(Line)
      /\ Stage(h, g, q, n, r, a, st)
  BY DEF SessionTyped, SessionInv
<1>2. /\ none \in Seq(Event) /\ none \in Seq(StepRecord) /\ Len(none) = 0 /\ DOMAIN none = {} /\ Named(none)
  BY DEF Named
<1>3. /\ left \in Handlers /\ left # "running" /\ (left = "new" => h = "new")
      /\ h \in {"replied", "done"} => left \in {"replied", "done"}
  BY <1>1 DEF Handlers
<1>4. CASE g.at = "none"
  <2>1. stopped = g
    BY <1>1, <1>4 DEF GraphOK
  <2>2. stopped \in Graph /\ GraphOK(stopped) /\ stopped.node = g.node
        /\ (h = "new" => stopped = NoGraph) /\ (r.finish = "stop" => stopped.at = "over" /\ stopped.calls = << >>)
    BY <1>1, <2>1 DEF Stage
  <2>3. SessionTyped(left, stopped, none, n, r, a, none)
    BY <1>2, <1>3, <2>2 DEF SessionTyped
  <2>4. Stage(left, stopped, none, n, r, a, none)
    BY <1>1, <1>3, <2>2 DEF Stage
  <2>5. Recorded(a, none)
    BY <1>1, <1>2, NothingRecorded
  <2>6. SessionInv(left, stopped, none, n, r, a, none)
    BY <1>2, <1>3, <2>2, <2>4, <2>5 DEF SessionInv
  <2> QED BY <2>3, <2>6
<1>5. CASE g.at # "none"
  <2>1. stopped = [at |-> "over", node |-> g.node, calls |-> g.calls]
    BY <1>1, <1>5, AtIsLast
  <2>2. /\ stopped \in Graph /\ GraphOK(stopped) /\ stopped.at = "over" /\ stopped.node = g.node
        /\ stopped.calls = g.calls
    BY <1>1, <2>1, StoppedGraph
  <2>3. SessionTyped(left, stopped, none, n, r, a, none)
    BY <1>2, <1>3, <2>2 DEF SessionTyped
  <2>4. Stage(left, stopped, none, n, r, a, none)
    BY <1>1, <1>3, <1>5, <2>2 DEF Stage, NoGraph
  <2>5. Recorded(a, none)
    BY <1>1, <1>2, NothingRecorded
  <2>6. SessionInv(left, stopped, none, n, r, a, none)
    BY <1>2, <1>3, <2>2, <2>4, <2>5 DEF SessionInv
  <2> QED BY <2>3, <2>6
<1> QED BY <1>4, <1>5

LEMMA CrashStep ==
    ASSUME AgentInv, Crash
    PROVE  AgentInv'
<1>1. TypeOK /\ \A s \in Sessions : Typed(s) /\ Inv(s)
  BY TypedSession DEF AgentInv
<1>2. ASSUME NEW s \in Sessions
      PROVE  /\ SessionTyped(handler'[s], graph'[s], queue'[s], session'[s], reply'[s], audit'[s], store'[s])
             /\ SessionInv(handler'[s], graph'[s], queue'[s], session'[s], reply'[s], audit'[s], store'[s])
  <2>1. PICK h, g, q, n, r, a, st :
          /\ h = handler[s] /\ g = graph[s] /\ q = queue[s] /\ n = session[s]
          /\ r = reply[s] /\ a = audit[s] /\ st = store[s]
    OBVIOUS
  <2>2. SessionTyped(h, g, q, n, r, a, st) /\ SessionInv(h, g, q, n, r, a, st)
    BY <1>1, <2>1 DEF Typed, Inv
  <2>3. PICK left, stopped, none :
          /\ left = (CASE h = "running" -> "lost" [] h = "replied" -> "done" [] OTHER -> h)
          /\ stopped = (IF g.at = "none" THEN NoGraph ELSE [g EXCEPT !.at = "over"])
          /\ none = << >>
    OBVIOUS
  <2>4. SessionTyped(left, stopped, none, n, r, a, none) /\ SessionInv(left, stopped, none, n, r, a, none)
    BY <2>2, <2>3, Crashes
  <2>5. /\ handler'[s] = left /\ graph'[s] = stopped /\ queue'[s] = none /\ store'[s] = none
        /\ session'[s] = n /\ reply'[s] = r /\ audit'[s] = a
    BY <2>1, <2>3 DEF Crash
  <2> QED BY <2>4, <2>5
<1>3. TypeOK'
  <2>1. /\ handler' = [s \in Sessions |-> handler'[s]] /\ graph' = [s \in Sessions |-> graph'[s]]
        /\ queue' = [s \in Sessions |-> queue'[s]] /\ store' = [s \in Sessions |-> store'[s]]
    BY DEF Crash
  <2>2. UNCHANGED <<session, reply, audit>>
    BY DEF Crash
  <2>3. crashes' \in 0..MaxCrashes
    BY <1>1, AgentAssumption DEF Crash, TypeOK
  <2>4. /\ handler' \in [Sessions -> Handlers] /\ graph' \in [Sessions -> Graph]
        /\ queue' \in [Sessions -> Seq(Event)] /\ store' \in [Sessions -> Seq(StepRecord)]
    <3>1. \A s \in Sessions : /\ handler'[s] \in Handlers /\ graph'[s] \in Graph
                              /\ queue'[s] \in Seq(Event) /\ store'[s] \in Seq(StepRecord)
      BY <1>2 DEF SessionTyped
    <3> QED BY <2>1, <3>1
  <2> QED BY <1>1, <2>2, <2>3, <2>4 DEF TypeOK, Handlers
<1>4. ASSUME NEW s \in Sessions PROVE Inv(s)'
  BY <1>2 DEF Inv
<1> QED BY <1>3, <1>4 DEF AgentInv

LEMMA AgentStarts ==
    ASSUME Init
    PROVE  AgentInv
<1>1. PICK none : none = << >>
  OBVIOUS
<1>2. /\ none \in Seq(Event) /\ none \in Seq(Tools) /\ none \in Seq(StepRecord) /\ none \in Seq(ToolCall)
      /\ none \in Seq(Line) /\ Len(none) = 0 /\ DOMAIN none = {} /\ Named(none)
  BY <1>1 DEF Named
<1>3. MaxSteps \in Nat /\ RecursionLimit \in Nat /\ MaxCrashes \in Nat
  BY AgentAssumption DEF RecursionLimit
<1>4. NoGraph \in Graph /\ GraphOK(NoGraph)
  <2>1. [at |-> "none", node |-> 0, calls |-> none] \in Graph
    <3>1. PICK node \in Nat : node = 0 /\ node <= RecursionLimit + 1
      BY <1>3
    <3>2. [at |-> "none", node |-> node, calls |-> none] \in Graph
      BY <1>2, <3>1, GraphTyped
    <3> QED BY <3>1, <3>2
  <2>2. NoGraph = [at |-> "none", node |-> 0, calls |-> none]
    BY <1>1 DEF NoGraph
  <2>3. GraphOK(NoGraph)
    BY <1>1, <1>2 DEF NoGraph, GraphOK
  <2> QED BY <2>1, <2>2, <2>3
<1>5. NewSession \in Session /\ NoReply \in Reply /\ NoReply.status = 0 /\ NoReply.finish = "none"
  <2>1. NewSession = [steps |-> 0, tools |-> none] /\ 0 \in 0..MaxSteps
    BY <1>1, <1>3 DEF NewSession
  <2> QED BY <1>2, <2>1 DEF Session, NoReply, Reply
<1>6. TypeOK
  BY <1>1, <1>2, <1>3, <1>4, <1>5 DEF Init, TypeOK, Session, Reply
<1>7. ASSUME NEW s \in Sessions PROVE Inv(s)
  <2>1. /\ handler[s] = "new" /\ graph[s] = NoGraph /\ queue[s] = none /\ session[s] = NewSession
        /\ reply[s] = NoReply /\ audit[s] = none /\ store[s] = none
    BY <1>1 DEF Init
  <2>2. Recorded(none, none)
    BY <1>2, NothingRecorded
  <2>3. Stage("new", NoGraph, none, NewSession, NoReply, none, none)
    BY <1>1, <1>5 DEF Stage
  <2>4. SessionInv("new", NoGraph, none, NewSession, NoReply, none, none)
    BY <1>2, <1>4, <1>5, <2>2, <2>3 DEF SessionInv
  <2> QED BY <2>1, <2>4 DEF Inv
<1> QED BY <1>6, <1>7 DEF AgentInv

LEMMA AgentInvKept ==
    ASSUME AgentInv, [Next]_vars
    PROVE  AgentInv'
<1>1. ASSUME NEW s \in Sessions, GraphSteps(s) PROVE AgentInv'
  <2>1. CASE ModelAnswers(s) BY <2>1, ModelAnswersStep
  <2>2. CASE ModelFails(s) BY <2>2, ModelFailsStep
  <2>3. CASE NextTurn(s) BY <2>3, NextTurnStep
  <2>4. ASSUME NEW i \in DOMAIN graph[s].calls, ToolStarts(s, i) PROVE AgentInv'
    BY <2>4, ToolStartsStep
  <2>5. ASSUME NEW i \in DOMAIN graph[s].calls, ToolEnds(s, i) PROVE AgentInv'
    BY <2>5, ToolEndsStep
  <2>6. ASSUME NEW i \in DOMAIN graph[s].calls, ToolRaises(s, i) PROVE AgentInv'
    BY <2>6, ToolRaisesStep
  <2> QED BY <1>1, <2>1, <2>2, <2>3, <2>4, <2>5, <2>6 DEF GraphSteps
<1>2. ASSUME NEW s \in Sessions, Refuse(s) PROVE AgentInv'
  BY <1>2, RefuseStep
<1>3. ASSUME NEW s \in Sessions, RunSession(s) PROVE AgentInv'
  BY <1>3, RunSessionStep
<1>4. ASSUME NEW s \in Sessions, Cancelled(s) PROVE AgentInv'
  BY <1>4, CancelledStep
<1>5. ASSUME NEW s \in Sessions, Read(s) PROVE AgentInv'
  BY <1>5, ReadStep
<1>6. ASSUME NEW s \in Sessions, ResponseSent(s) PROVE AgentInv'
  BY <1>6, ResponseSentStep
<1>7. CASE Crash
  BY <1>7, CrashStep
<1>8. CASE UNCHANGED vars
  BY <1>8 DEF AgentInv, TypeOK, Inv, vars
<1> QED BY <1>1, <1>2, <1>3, <1>4, <1>5, <1>6, <1>7, <1>8 DEF Next

\* The inductive invariant holds in every state.
THEOREM AgentInvariant == Spec => []AgentInv
<1>1. Init => AgentInv
  BY AgentStarts
<1>2. AgentInv /\ [Next]_vars => AgentInv'
  BY AgentInvKept
<1> QED BY <1>1, <1>2, PTL DEF Spec

\* The state of the sessions keeps its types: step_count never passes
\* MAX_AGENT_STEPS, whatever the graph does.
THEOREM AgentTypes == Spec => []TypeOK
<1>1. AgentInv => TypeOK
  BY DEF AgentInv
<1> QED BY <1>1, AgentInvariant, PTL

\* However many sessions, tools, steps and calls: the audit trail of every
\* answered session is its start, its tool calls and its completion, which
\* names the tools of these calls in order and counts no turn the model did
\* not have.
THEOREM TrailAlwaysTellsSession == Spec => []TrailTellsSession
<1>1. AgentInv => TrailTellsSession
  <2> SUFFICES ASSUME AgentInv, NEW s \in Sessions, reply[s].status \in {200, 502}
               PROVE  Closed(audit[s], reply[s].status, Turn(s))
    BY DEF TrailTellsSession, Closed, ClosedAt
  <2> QED BY DEF AgentInv, Inv, SessionInv, Turn
<1> QED BY <1>1, AgentInvariant, PTL

\* However far the graph is ahead of the loop: a step record bears the number
\* of the turn that called its tool, and has the audit line of a call.
THEOREM RecordsAlwaysNameTheirTurn == Spec => []RecordsNameTheirTurn
<1>1. AgentInv => RecordsNameTheirTurn
  BY DEF AgentInv, Inv, SessionInv, Recorded, RecordsNameTheirTurn
<1> QED BY <1>1, AgentInvariant, PTL

\* The graph's recursion_limit of twice the steps and one never cuts a
\* session off before MAX_AGENT_STEPS does: "stop" means the model asked for
\* no more tools.
THEOREM StopIsAlwaysAnAnswer == Spec => []StopIsAnAnswer
<1>1. AgentInv => StopIsAnAnswer
  BY DEF AgentInv, Inv, SessionInv, Stage, StopIsAnAnswer
<1> QED BY <1>1, AgentInvariant, PTL
================================================================================
