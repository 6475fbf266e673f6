-------------------------- MODULE FallbackChainProofs --------------------------
(***************************************************************************)
(* The loop of get_fallback_chain returns, for every matrix, the list that *)
(* FallbackChains describes, and there is no other such list.              *)
(***************************************************************************)
EXTENDS FallbackChain, FiniteSetTheorems, TLAPS

Chains == Selector!FallbackChains(start)

ChainType ==
    /\ links \in [Models -> Names \cup {NoModel}]
    /\ start \in Names
    /\ chain \in Seq(Names)
    /\ current \in Names \cup {NoModel}

\* visited is the set of the names in the list, each of which is in it once.
VisitedIsChain ==
    /\ visited = {chain[i] : i \in 1..Len(chain)}
    /\ \A i, j \in 1..Len(chain) : chain[i] = chain[j] => i = j

\* The list follows the links, and current is where they lead from its end.
FollowsLinks ==
    /\ Len(chain) = 0 => current = start
    /\ Len(chain) > 0 =>
          /\ chain[1] = start
          /\ current = IF chain[Len(chain)] \in Models THEN links[chain[Len(chain)]] ELSE NoModel
    /\ \A i \in 1..(Len(chain) - 1) : chain[i] \in Models /\ chain[i + 1] = links[chain[i]]

\* Every list there may be begins with the one built so far.
BeginsAll ==
    \A c \in Chains : /\ Len(chain) <= Len(c)
                      /\ \A i \in 1..Len(chain) : c[i] = chain[i]

ChainInv == ChainType /\ VisitedIsChain /\ FollowsLinks /\ BeginsAll

LEMMA SameNames == Selector!Names = Names
BY DEF Selector!Names, Names

LEMMA SameSize == Selector!Cardinality(Names) = Cardinality(Names)
BY DEF Selector!Cardinality, Cardinality

\* What FallbackChains says, in terms of lengths.
LEMMA ChainsFacts ==
    ASSUME NEW c \in Chains
    PROVE  /\ c \in Seq(Names) /\ Len(c) \in Nat \ {0}
           /\ c[1] = start
           /\ \A i, j \in 1..Len(c) : c[i] = c[j] => i = j
           /\ \A i \in 1..(Len(c) - 1) : c[i] \in Models /\ c[i + 1] = links[c[i]]
           /\ c[Len(c)] \in Models =>
                 links[c[Len(c)]] \in {NoModel} \cup {c[j] : j \in 1..Len(c)}
<1>1. Selector!Cardinality(Selector!Names) \in Nat
  BY ChainAssumption, FS_CardinalityType, SameNames, SameSize DEF ChainAssumption
<1>2. PICK n \in 1..Selector!Cardinality(Selector!Names) : c \in [1..n -> Selector!Names]
  BY DEF Chains, Selector!FallbackChains
<1>3. n \in Nat \ {0}
  BY <1>1, <1>2
<1>4. c \in Seq(Names) /\ Len(c) = n /\ DOMAIN c = 1..n
  BY <1>2, <1>3, SameNames
<1>5. /\ c[1] = start
      /\ \A i, j \in 1..n : c[i] = c[j] => i = j
      /\ \A i \in 1..n : i + 1 \in 1..n => c[i] \in Models /\ c[i + 1] = links[c[i]]
      /\ \A i \in 1..n : i + 1 \notin 1..n /\ c[i] \in Models =>
            links[c[i]] \in {NoModel} \cup {c[j] : j \in 1..n}
  BY <1>4 DEF Chains, Selector!FallbackChains
<1>6. n \in 1..n /\ n + 1 \notin 1..n /\ \A i \in 1..(n - 1) : i \in 1..n /\ i + 1 \in 1..n
  BY <1>3
<1> QED BY <1>3, <1>4, <1>5, <1>6

LEMMA InitChainInv == Init => ChainInv
<1> SUFFICES ASSUME Init PROVE ChainInv
  OBVIOUS
<1>1. ChainType /\ VisitedIsChain /\ FollowsLinks
  BY DEF Init, ChainType, VisitedIsChain, FollowsLinks
<1>2. BeginsAll
  BY ChainsFacts DEF Init, BeginsAll
<1> QED BY <1>1, <1>2 DEF ChainInv

LEMMA StepChainInv ==
    ASSUME ChainInv, Step
    PROVE  ChainInv'
<1> DEFINE k == Len(chain)
<1>0. /\ current \in Names /\ current \notin visited
      /\ chain' = Append(chain, current) /\ visited' = visited \cup {current}
      /\ current' = IF current \in Models THEN links[current] ELSE NoModel
      /\ UNCHANGED <<links, start>>
  BY DEF Step, Continues, ChainInv, ChainType
<1>1. /\ chain' \in Seq(Names) /\ Len(chain') = k + 1 /\ k \in Nat
      /\ chain'[k + 1] = current
      /\ \A i \in 1..k : chain'[i] = chain[i]
  BY <1>0 DEF ChainInv, ChainType
<1>2. ChainType'
  BY <1>0, <1>1 DEF ChainInv, ChainType
<1>3. VisitedIsChain'
  <2>1. \A i \in 1..(k + 1) : i = k + 1 \/ i \in 1..k
    BY <1>1
  <2>2. \A i \in 1..k : i \in 1..(k + 1) /\ chain[i] # current
    BY <1>0, <1>1 DEF ChainInv, VisitedIsChain
  <2>3. visited' = {chain'[i] : i \in 1..(k + 1)}
    BY <1>0, <1>1, <2>1, <2>2 DEF ChainInv, VisitedIsChain
  <2>4. \A i, j \in 1..(k + 1) : chain'[i] = chain'[j] => i = j
    BY <1>1, <2>1, <2>2 DEF ChainInv, VisitedIsChain
  <2> QED BY <1>1, <2>3, <2>4 DEF VisitedIsChain
<1>4. FollowsLinks'
  <2>1. chain'[1] = start
    <3>1. CASE k = 0
      BY <1>0, <1>1, <3>1 DEF ChainInv, FollowsLinks
    <3>2. CASE k > 0
      BY <1>1, <3>2 DEF ChainInv, FollowsLinks
    <3> QED BY <1>1, <3>1, <3>2
  <2>2. ASSUME NEW i \in 1..k
        PROVE  chain'[i] \in Models /\ chain'[i + 1] = links[chain'[i]]
    <3>1. CASE i = k
      <4>1. k > 0 /\ current # NoModel
        BY <1>0, <1>1, <3>1, ChainAssumption DEF ChainAssumption
      <4> QED BY <1>1, <3>1, <4>1 DEF ChainInv, FollowsLinks
    <3>2. CASE i # k
      <4>1. i \in 1..(k - 1) /\ i + 1 \in 1..k
        BY <1>1, <3>2
      <4> QED BY <1>1, <4>1 DEF ChainInv, FollowsLinks
    <3> QED BY <3>1, <3>2
  <2> QED BY <1>0, <1>1, <2>1, <2>2 DEF FollowsLinks
<1>5. BeginsAll'
  <2>1. Chains' = Chains
    BY <1>0 DEF Chains, Selector!FallbackChains, Selector!Names
  <2>2. ASSUME NEW c \in Chains
        PROVE  k + 1 <= Len(c) /\ c[k + 1] = current
    <3>1. k <= Len(c) /\ \A i \in 1..k : c[i] = chain[i]
      BY DEF ChainInv, BeginsAll
    <3>2. CASE k = 0
      BY <1>1, <3>2, ChainsFacts DEF ChainInv, FollowsLinks
    <3>3. CASE k > 0
      <4>1. c[k] = chain[k] /\ c[k] \in Models /\ links[c[k]] = current
        BY <1>0, <1>1, <3>1, <3>3, ChainAssumption
           DEF ChainInv, FollowsLinks, ChainAssumption
      <4>2. Len(c) # k
        <5> SUFFICES ASSUME Len(c) = k PROVE FALSE
          OBVIOUS
        <5>1. current \in {NoModel} \cup {c[j] : j \in 1..k}
          BY <4>1, ChainsFacts
        <5>2. current \in visited
          BY <1>0, <3>1, <5>1, ChainAssumption DEF ChainInv, VisitedIsChain, ChainAssumption
        <5> QED BY <1>0, <5>2
      <4>3. Len(c) \in Nat /\ k \in 1..(Len(c) - 1)
        BY <1>1, <3>1, <3>3, <4>2, ChainsFacts
      <4> QED BY <1>1, <4>1, <4>3, ChainsFacts
    <3> QED BY <1>1, <3>2, <3>3
  <2>3. ASSUME NEW c \in Chains, NEW i \in 1..(k + 1)
        PROVE  c[i] = chain'[i]
    <3>1. i = k + 1 \/ i \in 1..k
      BY <1>1
    <3> QED BY <1>1, <2>2, <3>1 DEF ChainInv, BeginsAll
  <2> QED BY <1>1, <2>1, <2>2, <2>3 DEF BeginsAll
<1> QED BY <1>2, <1>3, <1>4, <1>5 DEF ChainInv

LEMMA ChainInvariant == Spec => []ChainInv
<1>1. ASSUME ChainInv, UNCHANGED vars
      PROVE  ChainInv'
  <2>1. Chains' = Chains /\ UNCHANGED <<links, start, chain, visited, current>>
    BY <1>1 DEF vars, Chains, Selector!FallbackChains, Selector!Names
  <2>2. ChainType' /\ VisitedIsChain' /\ FollowsLinks'
    BY <1>1, <2>1 DEF ChainInv, ChainType, VisitedIsChain, FollowsLinks
  <2>3. BeginsAll'
    BY <1>1, <2>1 DEF ChainInv, BeginsAll
  <2> QED BY <2>2, <2>3 DEF ChainInv
<1>2. ChainInv /\ [Next]_vars => ChainInv'
  BY <1>1, StepChainInv DEF Next
<1> QED BY <1>2, InitChainInv, PTL DEF Spec

\* A list of distinct names is no longer than there are names.
LEMMA DistinctIsShort ==
    ASSUME ChainInv
    PROVE  Len(chain) <= Cardinality(Names)
<1>1. chain \in [1..Len(chain) -> Names] /\ Len(chain) \in Nat
  BY DEF ChainInv, ChainType
<1>2. chain \in Injection(1..Len(chain), Names)
  BY <1>1 DEF ChainInv, VisitedIsChain, Injection, IsInjective
<1>3. Cardinality(1..Len(chain)) <= Cardinality(Names)
  BY <1>2, FS_Injection, ChainAssumption DEF ChainAssumption
<1>4. Cardinality(1..Len(chain)) = Len(chain)
  <2> DEFINE k == Len(chain)
  <2>1. k \in Nat
    BY <1>1
  <2> HIDE DEF k
  <2>2. 1 \in Int /\ k \in Int
    BY <2>1
  <2>3. Cardinality(1..k) = IF 1 > k THEN 0 ELSE k - 1 + 1
    BY <2>2, FS_Interval
  <2>4. Cardinality(1..k) = k
    BY <2>1, <2>3
  <2> QED BY <2>4 DEF k
<1> QED BY <1>3, <1>4

\* For every matrix, with cycles and links to names without an entry, the
\* list the loop returns is the one that the router's model works with.
THEOREM AlwaysReturnsTheChain == Spec => []ReturnsTheChain
<1>1. ASSUME ChainInv, ~Continues
      PROVE  Chains = {chain}
  <2> DEFINE k == Len(chain)
  <2>1. k \in Nat /\ chain \in [1..k -> Names] /\ DOMAIN chain = 1..k
    BY <1>1 DEF ChainInv, ChainType
  <2>2. current = NoModel \/ current \in {chain[i] : i \in 1..k}
    BY <1>1 DEF Continues, ChainInv, VisitedIsChain
  <2>3. k > 0
    BY <1>1, <2>1, <2>2, ChainAssumption DEF ChainInv, ChainType, FollowsLinks, ChainAssumption
  <2>4. chain \in Chains
    <3>1. Cardinality(Names) \in Nat
      BY ChainAssumption, FS_CardinalityType DEF ChainAssumption
    <3>2. k \in 1..Cardinality(Names)
      BY <1>1, <2>1, <2>3, <3>1, DistinctIsShort
    <3>3. \A i \in 1..k : i + 1 \in 1..k => chain[i] \in Models /\ chain[i + 1] = links[chain[i]]
      BY <1>1, <2>1 DEF ChainInv, FollowsLinks
    <3>4. \A i \in 1..k : i + 1 \notin 1..k /\ chain[i] \in Models =>
              links[chain[i]] \in {NoModel} \cup {chain[j] : j \in 1..k}
      <4>1. \A i \in 1..k : i + 1 \notin 1..k => i = k
        <5>1. k \in Nat
          BY <2>1
        <5> HIDE DEF k
        <5> QED BY <5>1
      <4>2. chain[k] \in Models => links[chain[k]] = current
        BY <1>1, <2>3 DEF ChainInv, FollowsLinks
      <4> QED BY <2>2, <4>1, <4>2
    <3>5. chain[1] = start /\ \A i, j \in 1..k : chain[i] = chain[j] => i = j
      BY <1>1, <2>3 DEF ChainInv, FollowsLinks, VisitedIsChain
    <3>6. chain \in UNION {[1..n -> Names] : n \in 1..Cardinality(Names)}
      BY <2>1, <3>2
    <3>7. Chains = {c \in UNION {[1..n -> Names] : n \in 1..Cardinality(Names)} :
              /\ c[1] = start
              /\ \A i, j \in DOMAIN c : c[i] = c[j] => i = j
              /\ \A i \in DOMAIN c : i + 1 \in DOMAIN c =>
                    c[i] \in Models /\ c[i + 1] = links[c[i]]
              /\ \A i \in DOMAIN c : i + 1 \notin DOMAIN c /\ c[i] \in Models =>
                    links[c[i]] \in {NoModel} \cup {c[j] : j \in DOMAIN c}}
      BY SameNames, SameSize DEF Chains, Selector!FallbackChains
    <3> HIDE DEF k
    <3> QED BY <2>1, <3>3, <3>4, <3>5, <3>6, <3>7
  <2>5. ASSUME NEW c \in Chains
        PROVE  c = chain
    <3>1. k <= Len(c) /\ \A i \in 1..k : c[i] = chain[i]
      BY <1>1 DEF ChainInv, BeginsAll
    <3>2. Len(c) \in Nat /\ c \in [1..Len(c) -> Names]
      BY ChainsFacts
    <3>3. Len(c) = k
      <4> SUFFICES ASSUME Len(c) # k PROVE FALSE
        OBVIOUS
      <4>1. k \in 1..(Len(c) - 1) /\ k + 1 \in 1..Len(c) /\ k \in 1..k
        <5>1. k \in Nat /\ k > 0 /\ k <= Len(c) /\ Len(c) \in Nat /\ Len(c) # k
          BY <2>1, <2>3, <3>1, <3>2
        <5> HIDE DEF k
        <5> QED BY <5>1
      <4>2. c[k] = chain[k] /\ c[k] \in Models /\ c[k + 1] = links[c[k]] /\ c[k + 1] \in Names
        BY <3>1, <3>2, <4>1, ChainsFacts
      <4>3. c[k + 1] = current
        BY <1>1, <2>3, <4>2 DEF ChainInv, FollowsLinks
      <4>4. PICK i \in 1..k : chain[i] = current
        BY <2>2, <4>2, <4>3, ChainAssumption DEF ChainAssumption
      <4>5. i \in 1..Len(c) /\ i # k + 1 /\ c[i] = c[k + 1]
        <5>1. k \in Nat /\ k <= Len(c) /\ Len(c) \in Nat
          BY <2>1, <3>1, <3>2
        <5>2. c[i] = c[k + 1]
          BY <3>1, <4>3, <4>4
        <5> HIDE DEF k
        <5> QED BY <5>1, <5>2
      <4> QED BY <4>1, <4>5, ChainsFacts
    <3> QED BY <2>1, <3>1, <3>2, <3>3
  <2> QED BY <2>4, <2>5
<1>2. ChainInv => ReturnsTheChain
  BY <1>1 DEF ReturnsTheChain, Chains
<1> QED BY <1>2, ChainInvariant, PTL
================================================================================
