------------------------- MODULE ProxyRoutingProofs -------------------------
(***************************************************************************)
(* The rule a request is given, for every set of definitions of both       *)
(* origins, every path and every host: the sort is a stable permutation,   *)
(* find_rule on its result finds the most specific definition that applies *)
(* if there is one, and what goes upstream stays below the target's path.  *)
(***************************************************************************)
EXTENDS ProxyRouting, FiniteSetTheorems, SequenceTheorems, TLAPS

\* A strict total order of the positions 1 .. n, as the set of the predecessors
\* of each.
Orders(n, before) ==
    /\ before \in [1 .. n -> SUBSET (1 .. n)]
    /\ \A i \in 1 .. n : i \notin before[i]
    /\ \A i, j \in 1 .. n : i # j => i \in before[j] \/ j \in before[i]
    /\ \A i, j \in 1 .. n : i \in before[j] => before[i] \subseteq before[j]

\* The positions in that order: at place k the one with k - 1 predecessors.
Sorts(n, before, pos) ==
    /\ pos \in [1 .. n -> 1 .. n]
    /\ \A k \in 1 .. n : pos[k] = CHOOSE i \in 1 .. n : 1 + Cardinality(before[i]) = k
    /\ \A i \in 1 .. n : \E k \in 1 .. n : pos[k] = i
    /\ \A k, l \in 1 .. n : k < l => pos[k] \in before[pos[l]]

\* Counting predecessors sorts: the count grows along the order, so no two
\* positions share one, and an injection of 1 .. n into itself is onto.
LEMMA Sorting ==
    ASSUME NEW n \in Nat, NEW before, Orders(n, before)
    PROVE  \E pos : Sorts(n, before, pos)
<1> USE DEF Orders
<1> DEFINE D == 1 .. n
           rank == [i \in D |-> 1 + Cardinality(before[i])]
           pos == [k \in D |-> CHOOSE i \in D : 1 + Cardinality(before[i]) = k]
<1>1. IsFiniteSet(D) /\ Cardinality(D) = n
  BY FS_Interval
<1>2. ASSUME NEW i \in D
      PROVE  /\ IsFiniteSet(before[i]) /\ Cardinality(before[i]) \in Nat
             /\ Cardinality(before[i]) < n
  <2>1. before[i] \in SUBSET D /\ before[i] # D
    OBVIOUS
  <2>2. IsFiniteSet(before[i]) /\ Cardinality(before[i]) <= n /\ Cardinality(before[i]) # n
    BY ONLY <1>1, <2>1, FS_Subset
  <2>3. Cardinality(before[i]) \in Nat
    BY ONLY <2>2, FS_CardinalityType
  <2> QED
    BY ONLY <2>2, <2>3
<1>3. ASSUME NEW i \in D
      PROVE  rank[i] = 1 + Cardinality(before[i]) /\ rank[i] \in D
  <2> DEFINE c == Cardinality(before[i])
  <2>1. rank[i] = 1 + c
    OBVIOUS
  <2>2. c \in Nat /\ c < n
    BY <1>2
  <2> HIDE DEF c, rank
  <2>3. rank[i] \in D
    BY <2>1, <2>2
  <2> QED
    BY <2>1, <2>3 DEF c
<1>4. rank \in [D -> D]
  BY <1>3
<1> HIDE DEF rank
<1>5. ASSUME NEW i \in D, NEW j \in D, i \in before[j]
      PROVE  rank[i] < rank[j]
  <2>1. before[i] \in SUBSET before[j] /\ before[j] # before[i]
    BY <1>5
  <2>2. Cardinality(before[i]) <= Cardinality(before[j])
         /\ Cardinality(before[i]) # Cardinality(before[j])
    BY <1>2, <2>1, FS_Subset
  <2> QED
    BY <1>2, <1>3, <2>2
<1>6. ASSUME NEW i \in D, NEW j \in D, rank[i] = rank[j]
      PROVE  i = j
  <2>1. i \notin before[j] /\ j \notin before[i]
    BY <1>3, <1>5, <1>6
  <2> QED
    BY <2>1
<1>7. rank \in Injection(D, D)
  BY <1>4, <1>6 DEF Injection, IsInjective
<1>8. rank \in Surjection(D, D)
  BY ONLY <1>1, <1>7, FS_Injection
<1>9. \A k \in D : \E i \in D : rank[i] = k
  BY <1>8 DEF Surjection
<1>10. ASSUME NEW k \in D
       PROVE  /\ pos[k] = CHOOSE i \in D : 1 + Cardinality(before[i]) = k
              /\ pos[k] \in D /\ rank[pos[k]] = k
  <2>1. pos[k] = CHOOSE i \in D : 1 + Cardinality(before[i]) = k
    OBVIOUS
  <2>2. \E i \in D : 1 + Cardinality(before[i]) = k
    BY <1>3, <1>9
  <2> HIDE DEF D, pos
  <2>3. pos[k] \in D /\ 1 + Cardinality(before[pos[k]]) = k
    BY <2>1, <2>2
  <2> QED
    BY <1>3, <2>1, <2>3
<1>11. pos \in [D -> D]
  BY <1>10
<1> HIDE DEF pos
<1>12. \A i \in D : rank[i] \in D /\ pos[rank[i]] = i
  BY <1>3, <1>6, <1>10
<1>13. ASSUME NEW k \in D, NEW l \in D, k < l
       PROVE  pos[k] \in before[pos[l]]
  <2>1. pos[k] \in D /\ pos[l] \in D /\ rank[pos[k]] = k /\ rank[pos[l]] = l
    BY <1>10
  <2>2. k # l /\ ~(l < k)
    BY <1>13
  <2>3. pos[k] # pos[l]
    BY <2>1, <2>2
  <2>4. pos[l] \in before[pos[k]] => rank[pos[l]] < rank[pos[k]]
    BY <1>5, <2>1
  <2> QED
    BY <2>1, <2>2, <2>3, <2>4
<1> QED
  BY <1>10, <1>11, <1>12, <1>13 DEF Sorts

\* The two parts of the sort key are numbers.
LEMMA KeyType ==
    ASSUME NEW d \in Defs
    PROVE  Len(d.lit) \in Nat /\ d.stars \in Nat
<1>1. d.lit \in Seq(STRING) /\ d.stars \in 0 .. 2
  BY RoutingAssumption
<1> QED
  BY <1>1, LenProperties

\* Precedes is a strict total order of the positions: no two tie.
LEMMA PrecedesOrder ==
    ASSUME NEW ds \in Seq(Defs)
    PROVE  /\ \A i \in DOMAIN ds : ~Precedes(ds, i, i)
           /\ \A i, j \in DOMAIN ds : i # j => Precedes(ds, i, j) \/ Precedes(ds, j, i)
           /\ \A i, j, k \in DOMAIN ds :
                 Precedes(ds, i, j) /\ Precedes(ds, j, k) => Precedes(ds, i, k)
<1>1. DOMAIN ds = 1 .. Len(ds) /\ Len(ds) \in Nat
  BY LenProperties
<1>2. \A i \in DOMAIN ds : SourceLen(ds[i]) \in Nat /\ ds[i].stars \in Nat /\ i \in Nat
  <2>1. ASSUME NEW i \in DOMAIN ds PROVE Len(ds[i].lit) \in Nat /\ ds[i].stars \in Nat
    BY <1>1, ElementOfSeq, KeyType
  <2> QED
    BY <1>1, <2>1 DEF SourceLen
<1> QED
  BY <1>2 DEF Precedes

\* What the sort returns is a permutation of what it is given, in the order of
\* Precedes.
LEMMA Sorted ==
    ASSUME NEW ds \in Seq(Defs)
    PROVE  \E pos \in [DOMAIN ds -> DOMAIN ds] :
              /\ SortBySpecificity(ds) = [k \in DOMAIN ds |-> ds[pos[k]]]
              /\ \A i \in DOMAIN ds : \E k \in DOMAIN ds : pos[k] = i
              /\ \A k, l \in DOMAIN ds : k < l => Precedes(ds, pos[k], pos[l])
<1> DEFINE n == Len(ds)
           D == 1 .. n
           before == [i \in D |-> {j \in D : Precedes(ds, j, i)}]
           rank(i) == 1 + Cardinality({j \in DOMAIN ds : Precedes(ds, j, i)})
<1>1. DOMAIN ds = D /\ n \in Nat
  BY LenProperties
<1>2. before \in [D -> SUBSET D] /\ \A i, j \in D : j \in before[i] <=> Precedes(ds, j, i)
  OBVIOUS
<1>3. Orders(n, before)
  <2>1. /\ \A i \in D : i \notin before[i]
        /\ \A i, j \in D : i # j => i \in before[j] \/ j \in before[i]
        /\ \A i, j \in D : i \in before[j] => before[i] \subseteq before[j]
    BY <1>1, PrecedesOrder
  <2> HIDE DEF n, before
  <2> QED
    BY <1>2, <2>1 DEF Orders
<1>4. \A i \in D : rank(i) = 1 + Cardinality(before[i])
  <2>1. \A i \in D : before[i] = {j \in DOMAIN ds : Precedes(ds, j, i)}
    BY <1>1
  <2> HIDE DEF before
  <2> QED
    BY <2>1
<1>5. SortBySpecificity(ds) = [k \in DOMAIN ds |-> ds[CHOOSE i \in DOMAIN ds : rank(i) = k]]
  BY DEF SortBySpecificity
<1> HIDE DEF n, before, rank
<1>6. PICK pos : Sorts(n, before, pos)
  BY <1>1, <1>3, Sorting
<1>7. /\ pos \in [D -> D]
      /\ \A k \in D : pos[k] = CHOOSE i \in D : 1 + Cardinality(before[i]) = k
      /\ \A i \in D : \E k \in D : pos[k] = i
      /\ \A k, l \in D : k < l => Precedes(ds, pos[k], pos[l])
  BY <1>2, <1>6 DEF Sorts
<1>8. ASSUME NEW k \in D
      PROVE  (CHOOSE i \in D : rank(i) = k) = pos[k]
  <2>1. \A i : (i \in D /\ rank(i) = k) <=> (i \in D /\ 1 + Cardinality(before[i]) = k)
    BY <1>4
  <2>2. (CHOOSE i \in D : rank(i) = k) = (CHOOSE i \in D : 1 + Cardinality(before[i]) = k)
    BY <2>1
  <2> QED
    BY <1>7, <2>2
<1> HIDE DEF D
<1>9. SortBySpecificity(ds) = [k \in D |-> ds[CHOOSE i \in D : rank(i) = k]]
  BY <1>1, <1>5
<1>10. SortBySpecificity(ds) = [k \in D |-> ds[pos[k]]]
  BY <1>8, <1>9
<1> QED
  BY <1>1, <1>7, <1>10

-----------------------------------------------------------------------------
\* A set of numbers that is not empty has a least element.
LEMMA LeastPosition ==
    ASSUME NEW S \in SUBSET Nat, S # {}
    PROVE  \E i \in S : \A j \in S : i <= j
<1>1. S \subseteq Nat
  OBVIOUS
<1>2. \E i \in S : \A j \in S : <<j, i>> \notin OpToRel(<, Nat)
  BY <1>1, NatLessThanWellFounded, WFMin
<1>3. \A i, j \in Nat : <<j, i>> \in OpToRel(<, Nat) <=> j < i
  BY DEF OpToRel
<1>4. PICK i \in S : \A j \in S : ~(j < i)
  BY <1>1, <1>2, <1>3
<1>5. \A j \in S : i <= j
  BY <1>1, <1>4
<1> QED
  BY <1>5

\* find_rule on sorted rules: some definition is found if any applies, and the
\* one that is found precedes all others that apply.
LEMMA FirstRuleApplies ==
    ASSUME NEW ds \in Seq(Defs), rules = SortBySpecificity(ds), NEW r
    PROVE  /\ (\A i \in DOMAIN ds : ~Applies(ds[i], r)) => FindRule(r) = None
           /\ (\E i \in DOMAIN ds : Applies(ds[i], r)) =>
                 \E m \in DOMAIN ds :
                    /\ FindRule(r) = ds[m]
                    /\ \A i \in DOMAIN ds : Applies(ds[i], r) => i = m \/ Precedes(ds, m, i)
<1> DEFINE D == DOMAIN ds
           hits == {k \in D : Applies(rules[k], r)}
           first == CHOOSE k \in hits : \A l \in hits : k <= l
<1>1. PICK pos \in [D -> D] :
            /\ rules = [k \in D |-> ds[pos[k]]]
            /\ \A i \in D : \E k \in D : pos[k] = i
            /\ \A k, l \in D : k < l => Precedes(ds, pos[k], pos[l])
  BY Sorted
<1>2. D = 1 .. Len(ds) /\ Len(ds) \in Nat
  BY LenProperties
<1>3. DOMAIN rules = D /\ \A k \in D : pos[k] \in D /\ rules[k] = ds[pos[k]]
  BY <1>1
<1>4. FindRule(r) = IF hits = {} THEN None ELSE rules[first]
  BY <1>3 DEF FindRule
<1> HIDE DEF D
<1>5. ASSUME \A i \in D : ~Applies(ds[i], r)
      PROVE  FindRule(r) = None
  <2>1. hits = {}
    BY <1>3, <1>5
  <2> QED
    BY <1>4, <2>1
<1>6. ASSUME NEW i0 \in D, Applies(ds[i0], r)
      PROVE  \E m \in D : /\ FindRule(r) = ds[m]
                          /\ \A i \in D : Applies(ds[i], r) => i = m \/ Precedes(ds, m, i)
  <2>0. PICK k0 \in D : pos[k0] = i0
    BY <1>1
  <2>1. hits # {}
    BY <1>3, <1>6, <2>0
  <2>2. \E k \in hits : \A l \in hits : k <= l
    <3>1. hits \in SUBSET Nat
      BY <1>2
    <3> HIDE DEF hits
    <3> QED
      BY <2>1, <3>1, LeastPosition
  <2>3. first \in hits /\ \A l \in hits : first <= l
    <3> HIDE DEF hits
    <3> QED
      BY <2>2
  <2>4. FindRule(r) = ds[pos[first]] /\ first \in D /\ pos[first] \in D
    BY <1>3, <1>4, <2>1, <2>3
  <2> HIDE DEF first
  <2>5. ASSUME NEW i \in D, Applies(ds[i], r)
        PROVE  i = pos[first] \/ Precedes(ds, pos[first], i)
    <3>1. PICK k \in D : pos[k] = i
      BY <1>1
    <3>2. k \in hits
      BY <1>3, <2>5, <3>1
    <3>3. k = first \/ first < k
      BY <1>2, <2>3, <2>4, <3>2
    <3> QED
      BY <1>1, <2>4, <3>1, <3>3
  <2> QED
    BY <2>4, <2>5
<1> QED
  BY <1>5, <1>6 DEF D

-----------------------------------------------------------------------------
Requests == [path : Paths, query : BOOLEAN, host : Hosts \cup {None}]

\* Init holds only sequences of definitions; once the rules are resolved they
\* stay the sorted definitions of both origins; and what the last request was
\* given is what find_rule and the template give it now.
TypeOK == toml \in Seq(Defs) /\ remote \in Seq(Defs)

RulesSorted == ready => rules = SortBySpecificity(toml \o remote)

Unrouted == request = None /\ chosen = None /\ target = None

RoutedByRules ==
    /\ ready /\ request \in Requests
    /\ chosen = FindRule(request)
    /\ target = IF chosen = None THEN None ELSE BuildUpstreamUri(chosen, request)

IInv == TypeOK /\ RulesSorted /\ (Unrouted \/ RoutedByRules)

\* The invariant holds before the rules are resolved ...
LEMMA Initially == Init => IInv
<1> SUFFICES ASSUME Init PROVE IInv
  OBVIOUS
<1>1. \A n \in Nat : [1 .. n -> Defs] \subseteq Seq(Defs)
  BY IsASeq
<1>2. \A n \in Nat : [1 .. n -> {d \in Defs : ValidSource(d)}] \subseteq [1 .. n -> Defs]
  OBVIOUS
<1>3. TypeOK
  BY <1>1, <1>2, RoutingAssumption DEF Init, TypeOK
<1> QED
  BY <1>3 DEF Init, IInv, RulesSorted, Unrouted

\* ... and no step disturbs it: the rules are resolved before the first request.
LEMMA Preserved == IInv /\ [Next]_vars => IInv'
<1> SUFFICES ASSUME IInv, [Next]_vars PROVE IInv'
  OBVIOUS
<1> USE DEF IInv
<1>1. CASE ResolveRules
  <2>1. TypeOK' /\ RulesSorted'
    BY <1>1 DEF ResolveRules, TypeOK, RulesSorted
  <2>2. Unrouted'
    BY <1>1 DEF ResolveRules, Unrouted, RoutedByRules
  <2> QED
    BY <2>1, <2>2
<1>2. ASSUME NEW p \in Paths, NEW q \in BOOLEAN, NEW h \in Hosts \cup {None},
             Route([path |-> p, query |-> q, host |-> h])
      PROVE  IInv'
  <2> DEFINE r == [path |-> p, query |-> q, host |-> h]
  <2>1. r \in Requests
    BY Zenon DEF Requests
  <2> HIDE DEF r
  <2>2. Route(r)
    BY <1>2 DEF r
  <2>3. TypeOK' /\ RulesSorted'
    BY <2>2 DEF Route, TypeOK, RulesSorted
  <2>4. RoutedByRules'
    <3>1. FindRule(r)' = FindRule(r)
      BY <2>2 DEF Route, FindRule
    <3>2. request' = r /\ chosen' = FindRule(r) /\ ready'
      BY <2>2 DEF Route
    <3>3. FindRule(request)' = FindRule(r)
      BY <2>2 DEF Route, FindRule
    <3>4. target' = IF chosen' = None THEN None ELSE BuildUpstreamUri(chosen', request')
      BY <2>2 DEF Route
    <3> QED
      BY <2>1, <3>2, <3>3, <3>4 DEF RoutedByRules, BuildUpstreamUri
  <2> QED
    BY <2>3, <2>4
<1>3. CASE UNCHANGED vars
  BY <1>3 DEF vars, TypeOK, RulesSorted, Unrouted, RoutedByRules, FindRule, BuildUpstreamUri
<1> QED
  BY <1>1, <1>2, <1>3 DEF Next

\* It holds all along.
LEMMA Inductive == Spec => []IInv
BY Initially, Preserved, PTL DEF Spec

-----------------------------------------------------------------------------
\* Of the routed state: the definitions of both origins and the rule found.
LEMMA RoutedFacts ==
    ASSUME IInv, RoutedByRules
    PROVE  /\ All \in Seq(Defs)
           /\ \A i \in DOMAIN All : All[i] \in Defs
           /\ (\A i \in DOMAIN All : ~Applies(All[i], request)) => chosen = None
           /\ (\E i \in DOMAIN All : Applies(All[i], request)) =>
                 \E m \in DOMAIN All :
                    /\ chosen = All[m]
                    /\ \A i \in DOMAIN All :
                          Applies(All[i], request) => i = m \/ Precedes(All, m, i)
<1>1. All \in Seq(Defs)
  BY ConcatProperties DEF IInv, TypeOK, All
<1>2. \A i \in DOMAIN All : All[i] \in Defs
  BY <1>1, LenProperties, ElementOfSeq
<1>3. rules = SortBySpecificity(All) /\ chosen = FindRule(request)
  BY DEF IInv, RulesSorted, RoutedByRules, All
<1> QED
  BY <1>1, <1>2, <1>3, FirstRuleApplies

\* A request that was seen was routed by the rules.
LEMMA RoutedMeans == IInv /\ Routed => RoutedByRules
BY DEF IInv, Routed, Unrouted

\* Merging and sorting lose no definition and invent none: a request is proxied
\* exactly if find_rule's test holds of some definition of either origin.
THEOREM Coverage == Spec => []ProxiedIffCovered
<1>1. IInv => ProxiedIffCovered
  <2> SUFFICES ASSUME IInv, Routed
               PROVE  chosen # None <=> \E i \in DOMAIN All : Applies(All[i], request)
    BY DEF ProxiedIffCovered, Applies
  <2> QED
    BY RoutedMeans, RoutedFacts, RoutingAssumption
<1> QED
  BY <1>1, Inductive, PTL

\* The longest source that applies is used, so among catch-alls written the same
\* way the deepest, in whatever order and from whichever origin they came.
THEOREM DeepestWins == Spec => []DeepestCatchAllWins
<1>1. IInv => DeepestCatchAllWins
  <2> SUFFICES ASSUME IInv, Routed, chosen # None, NEW i \in DOMAIN All,
                      All[i].stars = chosen.stars, Applies(All[i], request)
               PROVE  Len(All[i].lit) <= Len(chosen.lit)
    BY DEF DeepestCatchAllWins
  <2>1. PICK m \in DOMAIN All : chosen = All[m] /\ (i = m \/ Precedes(All, m, i))
    BY RoutedMeans, RoutedFacts
  <2>2. All[i] \in Defs /\ All[m] \in Defs
    BY RoutedMeans, RoutedFacts
  <2>3. /\ Len(All[i].lit) \in Nat /\ Len(All[m].lit) \in Nat
        /\ All[i].stars \in Nat /\ All[m].stars \in Nat
    BY <2>2, KeyType
  <2> QED
    BY <2>1, <2>3 DEF Precedes, SourceLen
<1> QED
  BY <1>1, Inductive, PTL

\* The sort is stable and the definitions of the file come first in what is
\* sorted: of definitions with the same source the first one wins.
THEOREM FirstWins == Spec => []FirstDefinitionWins
<1>1. IInv => FirstDefinitionWins
  <2> SUFFICES ASSUME IInv, Routed, chosen # None, NEW i \in DOMAIN All,
                      All[i].lit = chosen.lit, All[i].stars = chosen.stars,
                      Applies(All[i], request)
               PROVE  \E j \in 1 .. i : All[j] = chosen
    BY DEF FirstDefinitionWins
  <2>1. PICK m \in DOMAIN All : chosen = All[m] /\ (i = m \/ Precedes(All, m, i))
    BY RoutedMeans, RoutedFacts
  <2>2. All[i] \in Defs /\ All[m] \in Defs /\ DOMAIN All = 1 .. Len(All) /\ Len(All) \in Nat
    BY RoutedMeans, RoutedFacts, LenProperties
  <2>3. Len(All[m].lit) \in Nat /\ All[m].stars \in Nat
    BY <2>2, KeyType
  <2>4. i = m \/ m < i
    BY <2>1, <2>3 DEF Precedes, SourceLen
  <2> QED
    BY <2>1, <2>2, <2>4
<1> QED
  BY <1>1, Inductive, PTL

-----------------------------------------------------------------------------
\* The alphabet of the upstream URI (the provers do not know that a literal is
\* a STRING).
Chars == STRING \cup {"/", "?"}

\* Everything an upstream URI is made of is spelled in it.
LEMMA Spelled ==
    /\ Paths \subseteq Seq(Chars)
    /\ \A d \in Defs : d.base \in Seq(Chars) /\ (d.strip = None \/ d.strip \in Seq(Chars))
<1>1. STRING \subseteq Chars
  BY DEF Chars
<1>2. \A s \in Seq(STRING) : s \in Seq(Chars)
  BY <1>1, SeqMonotonic
<1> QED
  BY <1>2, RoutingAssumption

\* What is left of a sequence of strings once a prefix is cut off is one.
LEMMA StripPrefixType ==
    ASSUME NEW prefix, prefix = None \/ prefix \in Seq(Chars), NEW s \in Seq(Chars)
    PROVE  StripPrefix(prefix, s) \in Seq(Chars)
<1>1. CASE prefix # None /\ IsPrefix(prefix, s)
  <2>1. Len(prefix) \in Nat
    BY <1>1, LenProperties
  <2>2. SubSeq(s, Len(prefix) + 1, Len(s)) \in Seq(Chars)
    BY <2>1, LenProperties, SubSeqProperties
  <2> QED
    BY <1>1, <2>2 DEF StripPrefix
<1> QED
  BY <1>1 DEF StripPrefix

\* What is left of a path without its trailing slashes is spelled alike.
LEMMA TrimEndType ==
    ASSUME NEW s \in Seq(Chars)
    PROVE  TrimEnd(s) \in Seq(Chars)
<1> DEFINE Cut(n) == \A i \in n + 1 .. Len(s) : s[i] = "/"
           End(n) == Cut(n) /\ (n = 0 \/ s[n] # "/")
           S == {n \in 0 .. Len(s) : Cut(n)}
           n0 == CHOOSE n \in 0 .. Len(s) : End(n)
<1>1. Len(s) \in Nat
  BY LenProperties
<1>2. S \in SUBSET Nat /\ Len(s) \in S
  BY <1>1
<1>3. PICK n \in S : \A j \in S : n <= j
  <2> HIDE DEF S
  <2> QED
    BY <1>2, LeastPosition
<1>4. End(n)
  <2>1. ASSUME n # 0, s[n] = "/" PROVE FALSE
    <3>1. n \in Nat /\ n - 1 \in 0 .. Len(s) /\ Cut(n)
      BY <1>1, <1>3, <2>1
    <3>2. \A i \in (n - 1) + 1 .. Len(s) : s[i] = "/"
      <4> TAKE i \in (n - 1) + 1 .. Len(s)
      <4>1. i = n \/ i \in n + 1 .. Len(s)
        BY <1>1, <3>1
      <4> QED
        BY <2>1, <3>1, <4>1
    <3>3. n - 1 \in S
      BY <3>1, <3>2
    <3> QED
      BY <1>3, <3>1, <3>3
  <2> QED
    BY <1>3, <2>1
<1>5. n0 \in 0 .. Len(s)
  <2>1. \E k \in 0 .. Len(s) : End(k)
    BY <1>3, <1>4
  <2> HIDE DEF End
  <2> QED
    BY <2>1
<1>6. TrimEnd(s) = SubSeq(s, 1, n0)
  BY DEF TrimEnd
<1> HIDE DEF n0
<1>7. n0 = 0 \/ n0 \in 1 .. Len(s)
  BY <1>1, <1>5
<1>8. SubSeq(s, 1, n0) \in Seq(Chars)
  BY <1>1, <1>5, <1>7, SubSeqProperties, SubSeqEmpty, EmptySeq
<1> QED
  BY <1>6, <1>8

\* A base followed by a path begins with the base and goes on with the path.
LEMMA BelowBase ==
    ASSUME NEW b \in Seq(Chars), NEW s \in Seq(Chars), IsPath(s)
    PROVE  IsPrefix(b, b \o s) /\ IsPath(SubSeq(b \o s, Len(b) + 1, Len(b \o s)))
<1>1. b \o s \in Seq(Chars) /\ Len(b \o s) = Len(b) + Len(s)
  BY ConcatProperties
<1>2. Len(b) \in Nat /\ Len(s) \in Nat
  BY LenProperties
<1>3. SubSeq(b \o s, 1, Len(b)) = SubSeq(b, 1, Len(b))
  <2>1. CASE Len(b) = 0
    BY <2>1, SubSeqEmpty
  <2>2. CASE Len(b) # 0
    <3>1. 1 \in 1 .. Len(b) /\ Len(b) \in 1 .. Len(b)
      BY <1>2, <2>2
    <3> QED
      BY <3>1, SubSeqOfConcat1
  <2> QED
    BY <2>1, <2>2
<1>4. SubSeq(b \o s, Len(b) + 1, Len(b \o s)) = s
  <2>1. Len(s) > 0
    BY DEF IsPath
  <2>2. /\ Len(b) + 1 \in Len(b) + 1 .. Len(b) + Len(s)
        /\ Len(b) + Len(s) \in Len(b) + 1 .. Len(b) + Len(s)
    BY <1>2, <2>1
  <2>3. SubSeq(b \o s, Len(b) + 1, Len(b) + Len(s))
          = SubSeq(s, (Len(b) + 1) - Len(b), (Len(b) + Len(s)) - Len(b))
    BY <2>2, SubSeqOfConcat2
  <2>4. (Len(b) + 1) - Len(b) = 1 /\ (Len(b) + Len(s)) - Len(b) = Len(s)
    BY <1>2
  <2> QED
    BY <1>1, <2>3, <2>4, SubSeqFull
<1>5. Len(b) <= Len(b \o s)
  BY <1>1, <1>2
<1>6. IsPrefix(b, b \o s)
  BY <1>3, <1>5 DEF IsPrefix
<1> QED
  BY <1>4, <1>6

\* Whatever is stripped, the request line sent upstream stays below the path of
\* the target: what is left is a path, or "/", or no URI is built at all.
THEOREM Confined == Spec => []TargetBelowBase
<1>1. IInv => TargetBelowBase
  <2> SUFFICES ASSUME IInv, target \notin {None, Failed}
               PROVE  /\ IsPrefix(TrimEnd(chosen.base), target)
                      /\ IsPath(SubSeq(target, Len(TrimEnd(chosen.base)) + 1, Len(target)))
    BY DEF TargetBelowBase
  <2> DEFINE line == IF request.query THEN Append(request.path, "?") ELSE request.path
             stripped == StripPrefix(chosen.strip, line)
             base == TrimEnd(chosen.base)
  <2>1. RoutedByRules /\ chosen # None
    BY DEF IInv, Unrouted, RoutedByRules
  <2>2. chosen \in Defs
    BY <2>1, RoutedFacts
  <2>3. request.path \in Seq(Chars)
    BY <2>1, Spelled DEF RoutedByRules, Requests
  <2>4. chosen.strip = None \/ chosen.strip \in Seq(Chars)
    BY <2>2, Spelled
  <2>5. line \in Seq(Chars)
    <3>1. "?" \in Chars
      BY DEF Chars
    <3>2. Append(request.path, "?") \in Seq(Chars)
      BY <2>3, <3>1, AppendProperties
    <3> QED
      BY <2>3, <3>2
  <2> HIDE DEF line
  <2>6. stripped \in Seq(Chars)
    BY <2>4, <2>5, StripPrefixType
  <2>7. target = BuildUpstreamUri(chosen, request) /\ target # Failed
    BY <2>1 DEF RoutedByRules
  <2>8. target = CASE stripped = <<>> -> base \o <<"/">>
                   [] stripped # <<>> /\ stripped[1] # "/" -> Failed
                   [] OTHER -> base \o stripped
    BY <2>7 DEF BuildUpstreamUri, line
  <2> HIDE DEF stripped
  <2>9. \/ target = base \o <<"/">>
        \/ stripped # <<>> /\ stripped[1] = "/" /\ target = base \o stripped
    BY <2>7, <2>8
  <2>10. \E s \in Seq(Chars) : IsPath(s) /\ target = base \o s
    <3>1. CASE target = base \o <<"/">>
      <4>1. <<"/">> \in Seq(Chars) /\ IsPath(<<"/">>)
        <5>1. "/" \in Chars
          BY DEF Chars
        <5>2. <<"/">> \in Seq(Chars)
          BY <5>1
        <5>3. Len(<<"/">>) > 0 /\ <<"/">>[1] = "/"
          OBVIOUS
        <5> QED
          BY <5>2, <5>3 DEF IsPath
      <4> QED
        BY <3>1, <4>1
    <3>2. CASE stripped # <<>> /\ stripped[1] = "/" /\ target = base \o stripped
      <4>1. Len(stripped) > 0
        BY <2>6, <3>2, LenProperties, EmptySeq
      <4> QED
        BY <2>6, <3>2, <4>1 DEF IsPath
    <3> QED
      BY <2>9, <3>1, <3>2
  <2>11. base \in Seq(Chars)
    BY <2>2, Spelled, TrimEndType
  <2> HIDE DEF base
  <2>12. IsPrefix(base, target) /\ IsPath(SubSeq(target, Len(base) + 1, Len(target)))
    BY <2>10, <2>11, BelowBase
  <2> QED
    BY <2>12 DEF base
<1> QED
  BY <1>1, Inductive, PTL
=============================================================================
