-------------------------- MODULE DirectoryProofs --------------------------
(***************************************************************************)
(* What Directory promises, proved for every tree of files, every set of   *)
(* options and requests, and any number of changes beside the walk.        *)
(*                                                                         *)
(*  - ListingsAgree, IndexServed: a request is answered in one step, so    *)
(*    both are about what Handle computes.  They follow from what Sanitize *)
(*    keeps, what Real reaches, and where the candidates of Compose lie.   *)
(*  - ArchivesFaithful: the archive is made step by step while the tree    *)
(*    changes, and needs the inductive invariant IInv (at the end).        *)
(*                                                                         *)
(* Real and Sanitize use recursive functions.  The library's induction     *)
(* theorems take a predicate; here induction is on a SET of numbers        *)
(* (NatInduct) or of sequences (SeqInduct), from the least counterexample  *)
(* that a well-founded order gives.                                        *)
(***************************************************************************)
EXTENDS Directory, WellFoundedInduction, SequenceTheorems, TLAPS

\* Induction on the natural numbers, for a set of them instead of a predicate:
\* no least number can be missing.
LEMMA NatInduct ==
    ASSUME NEW G, 0 \in G, \A n \in Nat : n \in G => n + 1 \in G
    PROVE  Nat \subseteq G
<1> DEFINE B == Nat \ G
<1> SUFFICES ASSUME B # {} PROVE FALSE
  OBVIOUS
<1>1. PICK m \in B : \A k \in B : <<k, m>> \notin OpToRel(<, Nat)
  <2>1. B \subseteq Nat
    OBVIOUS
  <2> HIDE DEF B
  <2> QED
    BY <2>1, NatLessThanWellFounded, WFMin
<1>2. \A i, j \in Nat : <<i, j>> \in OpToRel(<, Nat) <=> i < j
  BY DEF OpToRel
<1>3. m \in Nat /\ m # 0
  OBVIOUS
<1>4. m - 1 \in Nat /\ m - 1 < m
  BY <1>3
<1>5. m - 1 \in G
  BY <1>1, <1>2, <1>3, <1>4
<1>6. (m - 1) + 1 \in G
  BY <1>4, <1>5
<1> QED
  BY <1>3, <1>6

\* Induction on sequences that grow at their end.
LEMMA SeqInduct ==
    ASSUME NEW S, NEW G, <<>> \in G,
           \A s \in Seq(S), x \in S : s \in G => Append(s, x) \in G
    PROVE  Seq(S) \subseteq G
<1> DEFINE N == {n \in Nat : \A s \in Seq(S) : Len(s) = n => s \in G}
<1>1. 0 \in N
  <2>1. \A s \in Seq(S) : Len(s) = 0 => s = <<>>
    BY EmptySeq
  <2> QED
    BY <2>1
<1>2. ASSUME NEW n \in Nat, n \in N PROVE n + 1 \in N
  <2> SUFFICES ASSUME NEW s \in Seq(S), Len(s) = n + 1 PROVE s \in G
    OBVIOUS
  <2>1. s # <<>>
    BY EmptySeq
  <2>2. PICK t \in Seq(S), x \in S : s = Append(t, x)
    BY <2>1, SequenceEmptyOrAppend
  <2>3. Len(s) = Len(t) + 1 /\ Len(t) \in Nat
    BY <2>2, AppendProperties, LenProperties
  <2>4. t \in G
    BY <1>2, <2>3
  <2> QED
    BY <2>2, <2>4
<1>3. Nat \subseteq N
  <2> HIDE DEF N
  <2> QED
    BY <1>1, <1>2, NatInduct
<1> QED
  BY <1>3, LenProperties

\* What was appended last, and the rest; the name may be of any kind.
LEMMA AppendParts ==
    ASSUME NEW S, NEW s \in Seq(S), NEW x
    PROVE  /\ Front(Append(s, x)) = s /\ Last(Append(s, x)) = x
           /\ Len(Append(s, x)) = Len(s) + 1 /\ Len(s) \in Nat
           /\ \A i \in 1 .. Len(s) : Append(s, x)[i] = s[i]
           /\ Append(s, x)[Len(s) + 1] = x
           /\ Append(s, x) \in Seq(S \cup {x}) /\ IsPrefix(s, Append(s, x))
           /\ SubSeq(Append(s, x), 1, Len(s)) = s
<1> DEFINE T == S \cup {x}
           t == Append(s, x)
<1>1. s \in Seq(T)
  BY SeqMonotonic
<1>2. t \in Seq(T) /\ Len(t) = Len(s) + 1 /\ Len(s) \in Nat
  BY <1>1, AppendProperties, LenProperties
<1>3. (\A i \in 1 .. Len(s) : t[i] = s[i]) /\ t[Len(s) + 1] = x
  BY <1>1, AppendProperties
<1>4. SubSeq(t, 1, Len(s)) = s
  <2>1. \A i \in 1 .. Len(s) : t[i] \in T
    BY <1>1, <1>3, ElementOfSeq
  <2>2. /\ SubSeq(t, 1, Len(s)) \in Seq(T)
        /\ Len(SubSeq(t, 1, Len(s))) = IF 1 <= Len(s) THEN Len(s) - 1 + 1 ELSE 0
        /\ \A i \in 1 .. Len(s) - 1 + 1 : SubSeq(t, 1, Len(s))[i] = t[1 + i - 1]
    BY <1>2, <2>1, SubSeqProperties
  <2> DEFINE u == SubSeq(t, 1, Len(s))
  <2>3. u \in Seq(T) /\ Len(u) = Len(s)
    BY <1>2, <2>2
  <2>4. \A i \in 1 .. Len(s) : u[i] = s[i]
    BY <1>2, <1>3, <2>2
  <2> HIDE DEF u
  <2>5. u = s
    BY <1>1, <2>3, <2>4, SeqEqual
  <2> QED
    BY <2>5 DEF u
<1>5. SubSeq(s, 1, Len(s)) = s
  BY SubSeqFull
<1> HIDE DEF t, T
<1>6. Front(t) = s /\ Last(t) = x
  BY <1>2, <1>3, <1>4 DEF Front, Last
<1>7. IsPrefix(s, t)
  BY <1>2, <1>4, <1>5 DEF IsPrefix
<1> QED
  BY <1>2, <1>3, <1>4, <1>6, <1>7 DEF t, T

-----------------------------------------------------------------------------
(* Where a path leads.                                                     *)

\* What Real walks through: where the names of a path lead one after the other.
Walk(tr, p) ==
    LET walk[i \in 0 .. Len(p)] ==
            IF i = 0 THEN {[path |-> <<>>, links |-> 0]}
            ELSE UNION {Enter(tr, at, p[i]) : at \in walk[i - 1]}
    IN  walk[Len(p)]

\* Where one more name leads from a set of places.
EnterAll(tr, S, x) == UNION {Enter(tr, at, x) : at \in S}

Start == {[path |-> <<>>, links |-> 0]}

\* The recursion of Walk for the first n names.
Walks(tr, p, n, f) ==
    f = [i \in 0 .. n |-> IF i = 0 THEN Start
                          ELSE EnterAll(tr, f[i - 1], p[i])]

\* One step of it.
LEMMA WalksStep ==
    ASSUME NEW tr, NEW p, NEW n \in Nat, NEW f, Walks(tr, p, n, f)
    PROVE  /\ f[0] = Start
           /\ \A i \in Nat : i + 1 <= n => f[i + 1] = EnterAll(tr, f[i], p[i + 1])
<1>1. \A i \in 0 .. n : f[i] = IF i = 0 THEN Start ELSE EnterAll(tr, f[i - 1], p[i])
  BY DEF Walks
<1>2. f[0] = Start
  BY <1>1
<1>3. ASSUME NEW i \in Nat, i + 1 <= n PROVE f[i + 1] = EnterAll(tr, f[i], p[i + 1])
  <2>1. i + 1 \in 0 .. n /\ i + 1 # 0 /\ (i + 1) - 1 = i
    BY <1>3
  <2> QED
    BY <1>1, <2>1
<1> QED
  BY <1>2, <1>3

\* It has a solution, ...
LEMMA WalksExists ==
    ASSUME NEW tr, NEW p, NEW n \in Nat
    PROVE  \E f : Walks(tr, p, n, f)
<1> DEFINE G == {k \in Nat : \E f : Walks(tr, p, k, f)}
<1>1. 0 \in G
  <2>1. Walks(tr, p, 0, [i \in 0 .. 0 |-> Start])
    BY DEF Walks
  <2> QED
    BY <2>1
<1>2. ASSUME NEW k \in Nat, k \in G PROVE k + 1 \in G
  <2>1. PICK f : Walks(tr, p, k, f)
    BY <1>2
  <2> DEFINE g == [i \in 0 .. k + 1 |-> IF i = k + 1 THEN EnterAll(tr, f[k], p[k + 1]) ELSE f[i]]
  <2>2. \A i \in 0 .. k : f[i] = IF i = 0 THEN Start ELSE EnterAll(tr, f[i - 1], p[i])
    BY <2>1 DEF Walks
  <2>3. \A i \in 0 .. k + 1 : g[i] = IF i = 0 THEN Start ELSE EnterAll(tr, g[i - 1], p[i])
    BY <2>2
  <2>4. g = [i \in 0 .. k + 1 |-> g[i]]
    OBVIOUS
  <2> HIDE DEF g
  <2>5. g = [i \in 0 .. k + 1 |-> IF i = 0 THEN Start ELSE EnterAll(tr, g[i - 1], p[i])]
    BY <2>3, <2>4
  <2>6. Walks(tr, p, k + 1, g)
    BY <2>5 DEF Walks
  <2> QED
    BY <2>6
<1>3. Nat \subseteq G
  <2> HIDE DEF G
  <2> QED
    BY <1>1, <1>2, NatInduct
<1> QED
  BY <1>3

\* ... whose values are determined by the names.
LEMMA WalksAgree ==
    ASSUME NEW tr, NEW p, NEW q, NEW n \in Nat, NEW m \in Nat, NEW f, NEW g,
           Walks(tr, p, n, f), Walks(tr, q, m, g),
           NEW k \in Nat, k <= n, k <= m, \A i \in 1 .. k : p[i] = q[i]
    PROVE  f[k] = g[k]
<1> DEFINE G == {i \in Nat : i <= k => f[i] = g[i]}
<1>1. f[0] = Start /\ g[0] = Start
  BY WalksStep
<1>2. ASSUME NEW i \in Nat, i \in G PROVE i + 1 \in G
  <2> SUFFICES ASSUME i + 1 <= k PROVE f[i + 1] = g[i + 1]
    OBVIOUS
  <2>1. f[i] = g[i] /\ p[i + 1] = q[i + 1]
    BY <1>2
  <2>2. i + 1 <= n /\ i + 1 <= m
    OBVIOUS
  <2>3. f[i + 1] = EnterAll(tr, f[i], p[i + 1])
    BY <2>2, WalksStep
  <2>4. g[i + 1] = EnterAll(tr, g[i], q[i + 1])
    BY <2>2, WalksStep
  <2> QED
    BY <2>1, <2>3, <2>4
<1>3. Nat \subseteq G
  <2>1. 0 \in G
    BY <1>1
  <2> HIDE DEF G
  <2> QED
    BY <1>2, <2>1, NatInduct
<1> QED
  BY <1>3

\* Walk computes it.
LEMMA WalkDef ==
    ASSUME NEW tr, NEW S, NEW p \in Seq(S)
    PROVE  \E f : Walks(tr, p, Len(p), f) /\ Walk(tr, p) = f[Len(p)]
<1> DEFINE w == CHOOSE f : Walks(tr, p, Len(p), f)
<1>1. Len(p) \in Nat
  BY LenProperties
<1>2. Walk(tr, p) = w[Len(p)]
  BY DEF Walk, Walks, Start, EnterAll
<1>3. Walks(tr, p, Len(p), w)
  BY <1>1, WalksExists
<1> QED
  BY <1>2, <1>3

\* No names lead nowhere, and one more name goes one step further.
LEMMA WalkSteps ==
    ASSUME NEW tr, NEW S
    PROVE  /\ Walk(tr, <<>>) = Start
           /\ \A s \in Seq(S) : \A x :
                 Walk(tr, Append(s, x)) = EnterAll(tr, Walk(tr, s), x)
<1>1. Walk(tr, <<>>) = Start
  <2>1. <<>> \in Seq(S) /\ Len(<<>>) = 0
    BY EmptySeq
  <2>2. PICK f : Walks(tr, <<>>, Len(<<>>), f) /\ Walk(tr, <<>>) = f[Len(<<>>)]
    BY <2>1, WalkDef
  <2> QED
    BY <2>1, <2>2 DEF Walks
<1>2. ASSUME NEW s \in Seq(S), NEW x
      PROVE  Walk(tr, Append(s, x)) = EnterAll(tr, Walk(tr, s), x)
  <2> DEFINE t == Append(s, x)
             n == Len(s)
  <2>1. /\ t \in Seq(S \cup {x}) /\ Len(t) = n + 1 /\ n \in Nat
        /\ t[n + 1] = x /\ \A i \in 1 .. n : t[i] = s[i]
    BY AppendParts
  <2> HIDE DEF t
  <2>2. PICK f : Walks(tr, s, n, f) /\ Walk(tr, s) = f[n]
    BY WalkDef
  <2>3. PICK g : Walks(tr, t, n + 1, g) /\ Walk(tr, t) = g[n + 1]
    BY <2>1, WalkDef
  <2> HIDE DEF n
  <2>4. f[n] = g[n]
    <3>1. n + 1 \in Nat /\ n <= n + 1 /\ n <= n /\ \A i \in 1 .. n : s[i] = t[i]
      BY <2>1
    <3> QED
      BY <2>1, <2>2, <2>3, <3>1, WalksAgree
  <2>5. \A i \in Nat : i + 1 <= n + 1 => g[i + 1] = EnterAll(tr, g[i], t[i + 1])
    <3> DEFINE m == n + 1
    <3>1. m \in Nat /\ Walks(tr, t, m, g)
      BY <2>1, <2>3
    <3> HIDE DEF m
    <3>2. \A i \in Nat : i + 1 <= m => g[i + 1] = EnterAll(tr, g[i], t[i + 1])
      BY <3>1, WalksStep
    <3> QED
      BY <3>2 DEF m
  <2>6. g[n + 1] = EnterAll(tr, g[n], t[n + 1])
    BY <2>1, <2>5
  <2>7. Walk(tr, t) = EnterAll(tr, Walk(tr, s), x)
    BY <2>1, <2>2, <2>3, <2>4, <2>6
  <2> QED
    BY <2>7 DEF t
<1> QED
  BY <1>1, <1>2

\* Names, the places a walk can be at, and the strings paths are made of.
Name == STRING
Place == [path : Seq(Name), links : Nat]

\* What an entered place is.
LEMMA EnterFacts ==
    ASSUME NEW tr, tr \subseteq Paths, NEW at \in Place, NEW x
    PROVE  /\ \A b \in Enter(tr, at, x) :
                 /\ b \in Place /\ b.path \in tr \ Links /\ at.links <= b.links
                 /\ Enter(tr, at, x) = {b}
           /\ \A u : tr \subseteq u => Enter(tr, at, x) \subseteq Enter(u, at, x)
<1> DEFINE q == Append(at.path, x)
<1>1. tr \subseteq Seq(Name)
  BY StaticPathAssumption DEF Name
<1>2. at.links \in Nat
  BY DEF Place
<1> HIDE DEF q
<1>3. Enter(tr, at, x) = IF q \in tr \ Links THEN {[path |-> q, links |-> at.links]}
                         ELSE IF q \in tr /\ at.links < MaxLinks /\ Target[q] \in tr
                         THEN {[path |-> Target[q], links |-> at.links + 1]}
                         ELSE {}
  BY DEF Enter, q
<1>4. ASSUME q \in tr, q \in Links PROVE Target[q] \notin Links
  BY <1>4, StaticPathAssumption
<1>5. CASE q \in tr \ Links
  <2>1. [path |-> q, links |-> at.links] \in Place
    BY <1>1, <1>2, <1>5 DEF Place
  <2>2. ASSUME NEW u, tr \subseteq u PROVE Enter(u, at, x) = {[path |-> q, links |-> at.links]}
    BY <1>5, <2>2 DEF Enter, q
  <2> QED
    BY <1>2, <1>3, <1>5, <2>1, <2>2
<1>6. CASE q \notin tr \ Links /\ q \in tr /\ at.links < MaxLinks /\ Target[q] \in tr
  <2>1. [path |-> Target[q], links |-> at.links + 1] \in Place
    BY <1>1, <1>2, <1>6 DEF Place
  <2>2. ASSUME NEW u, tr \subseteq u
        PROVE  Enter(u, at, x) = {[path |-> Target[q], links |-> at.links + 1]}
    BY <1>6, <2>2 DEF Enter, q
  <2> QED
    BY <1>2, <1>3, <1>4, <1>6, <2>1, <2>2
<1>7. CASE q \notin tr \ Links /\ ~(q \in tr /\ at.links < MaxLinks /\ Target[q] \in tr)
  BY <1>3, <1>7
<1> QED
  BY <1>5, <1>6, <1>7

\* A path leads to one place at most, it exists and is not a link, and more
\* files do not change where it leads.
LEMMA WalkFacts ==
    ASSUME NEW tr, tr \subseteq Paths, NEW p \in Seq(Name)
    PROVE  /\ Walk(tr, p) \subseteq Place
           /\ \A at \in Walk(tr, p) : /\ Walk(tr, p) = {at}
                                      /\ at.path \in (tr \ Links) \cup {<<>>}
                                      /\ p # <<>> => at.path \in tr \ Links
           /\ \A u : tr \subseteq u => Walk(tr, p) \subseteq Walk(u, p)
<1> DEFINE Fine(s) ==
              /\ Walk(tr, s) \subseteq Place
              /\ \A at \in Walk(tr, s) : /\ Walk(tr, s) = {at}
                                         /\ at.path \in (tr \ Links) \cup {<<>>}
                                         /\ s # <<>> => at.path \in tr \ Links
              /\ \A u : tr \subseteq u => Walk(tr, s) \subseteq Walk(u, s)
           G == {s \in Seq(Name) : Fine(s)}
<1>1. <<>> \in G
  <2>1. \A u : Walk(u, <<>>) = Start
    BY WalkSteps
  <2>2. Start \subseteq Place
    BY EmptySeq DEF Start, Place
  <2>3. \A at \in Start : Start = {at} /\ at.path = <<>>
    BY DEF Start
  <2> HIDE DEF Start
  <2> QED
    BY <2>1, <2>2, <2>3, EmptySeq
<1>2. ASSUME NEW s \in Seq(Name), NEW x \in Name, s \in G PROVE Append(s, x) \in G
  <2> DEFINE t == Append(s, x)
  <2>1. t \in Seq(Name) /\ t # <<>>
    BY AppendProperties
  <2>2. \A u : Walk(u, t) = EnterAll(u, Walk(u, s), x)
    BY WalkSteps
  <2> HIDE DEF t
  <2>3. ASSUME NEW b \in Walk(tr, t)
        PROVE  /\ b \in Place /\ Walk(tr, t) = {b} /\ b.path \in tr \ Links
               /\ \A u : tr \subseteq u => b \in Walk(u, t)
    <3>1. PICK at \in Walk(tr, s) : b \in Enter(tr, at, x)
      BY <2>2 DEF EnterAll
    <3>2. at \in Place /\ Walk(tr, s) = {at} /\ \A u : tr \subseteq u => at \in Walk(u, s)
      BY <1>2
    <3>3. /\ b \in Place /\ b.path \in tr \ Links /\ Enter(tr, at, x) = {b}
          /\ \A u : tr \subseteq u => b \in Enter(u, at, x)
      BY <3>1, <3>2, EnterFacts
    <3>4. Walk(tr, t) = {b}
      <4>1. EnterAll(tr, {at}, x) = Enter(tr, at, x)
        BY DEF EnterAll
      <4> QED
        BY <2>2, <3>2, <3>3, <4>1
    <3>5. ASSUME NEW u, tr \subseteq u PROVE b \in Walk(u, t)
      <4>1. at \in Walk(u, s) /\ b \in Enter(u, at, x)
        BY <3>2, <3>3, <3>5
      <4>2. b \in EnterAll(u, Walk(u, s), x)
        BY <4>1 DEF EnterAll
      <4> QED
        BY <2>2, <4>2
    <3> QED
      BY <3>3, <3>4, <3>5
  <2>4. Fine(t)
    BY <2>3
  <2> QED
    BY <2>1, <2>4 DEF t
<1>3. Seq(Name) \subseteq G
  <2> HIDE DEF G
  <2> QED
    BY <1>1, <1>2, SeqInduct
<1> QED
  BY <1>3

\* The same of Real.
LEMMA RealWalk ==
    ASSUME NEW tr, tr \subseteq Paths, NEW p \in Seq(Name)
    PROVE  /\ Walk(tr, p) = {} <=> Real(tr, p) = Missing
           /\ \A at \in Walk(tr, p) : Walk(tr, p) = {at} /\ Real(tr, p) = at.path
<1> DEFINE ends == {at.path : at \in Walk(tr, p)}
<1>1. Real(tr, p) = IF ends = {} THEN Missing ELSE CHOOSE q \in ends : TRUE
  BY DEF Real, Walk
<1>2. ASSUME NEW at \in Walk(tr, p)
      PROVE  Walk(tr, p) = {at} /\ Real(tr, p) = at.path /\ Real(tr, p) # Missing
  <2>1. Walk(tr, p) = {at} /\ at.path \in Paths \cup {<<>>}
    BY WalkFacts
  <2>2. ends = {at.path}
    BY <2>1
  <2> HIDE DEF ends
  <2>3. Real(tr, p) = at.path
    BY <1>1, <2>2
  <2> QED
    BY <2>1, <2>3, StaticPathAssumption
<1>3. ASSUME Walk(tr, p) = {} PROVE Real(tr, p) = Missing
  <2>1. ends = {}
    BY <1>3
  <2> QED
    BY <1>1, <2>1
<1> QED
  BY <1>2, <1>3

\* What a path leads to is there and no link, and stays the same when other
\* things are added.
LEMMA RealFacts ==
    ASSUME NEW tr, tr \subseteq Paths, NEW p \in Seq(Name), p # <<>>, Exists(tr, p)
    PROVE  /\ Real(tr, p) \in tr \ Links /\ Real(tr, p) \in Seq(Name) /\ Real(tr, p) # <<>>
           /\ \A u : tr \subseteq u /\ u \subseteq Paths =>
                 Exists(u, p) /\ Real(u, p) = Real(tr, p)
<1>1. PICK at \in Walk(tr, p) : Real(tr, p) = at.path
  BY RealWalk DEF Exists
<1>2. at.path \in tr \ Links /\ \A u : tr \subseteq u => at \in Walk(u, p)
  BY <1>1, WalkFacts
<1>3. at.path \in Seq(Name) /\ at.path # <<>>
  BY <1>2, StaticPathAssumption DEF Name
<1>4. ASSUME NEW u, tr \subseteq u, u \subseteq Paths
      PROVE  Exists(u, p) /\ Real(u, p) = Real(tr, p)
  <2>1. at \in Walk(u, p)
    BY <1>2, <1>4
  <2> QED
    BY <1>1, <1>4, <2>1, RealWalk DEF Exists
<1> QED
  BY <1>1, <1>2, <1>3, <1>4

\* One more name leads to the entry of that name, or to where it points.
LEMMA RealAppend ==
    ASSUME NEW tr, tr \subseteq Paths, NEW p \in Seq(Name), NEW x \in Name
    PROVE  /\ Exists(tr, Append(p, x)) =>
                 /\ Exists(tr, p) /\ Append(Real(tr, p), x) \in tr
                 /\ Real(tr, Append(p, x)) =
                       IF Append(Real(tr, p), x) \in Links THEN Target[Append(Real(tr, p), x)]
                       ELSE Append(Real(tr, p), x)
           /\ Exists(tr, p) /\ Append(Real(tr, p), x) \in tr \ Links =>
                 Exists(tr, Append(p, x))
<1> DEFINE t == Append(p, x)
<1>1. t \in Seq(Name)
  BY AppendProperties
<1>2. Walk(tr, t) = EnterAll(tr, Walk(tr, p), x)
  BY WalkSteps
<1> HIDE DEF t
<1>3. ASSUME Exists(tr, t)
      PROVE  /\ Exists(tr, p) /\ Append(Real(tr, p), x) \in tr
             /\ Real(tr, t) =
                   IF Append(Real(tr, p), x) \in Links THEN Target[Append(Real(tr, p), x)]
                   ELSE Append(Real(tr, p), x)
  <2>1. PICK b \in Walk(tr, t) : Real(tr, t) = b.path
    BY <1>1, <1>3, RealWalk DEF Exists
  <2>2. PICK at \in Walk(tr, p) : b \in Enter(tr, at, x)
    BY <1>2 DEF EnterAll
  <2>3. Real(tr, p) = at.path /\ Exists(tr, p)
    BY RealWalk DEF Exists
  <2> DEFINE q == Append(at.path, x)
  <2>4. q \in tr /\ b.path = IF q \in Links THEN Target[q] ELSE q
    <3> HIDE DEF q
    <3>1. Enter(tr, at, x) = IF q \in tr \ Links THEN {[path |-> q, links |-> at.links]}
                             ELSE IF q \in tr /\ at.links < MaxLinks /\ Target[q] \in tr
                             THEN {[path |-> Target[q], links |-> at.links + 1]}
                             ELSE {}
      BY DEF Enter, q
    <3>2. CASE q \in tr \ Links
      BY <2>2, <3>1, <3>2
    <3>3. CASE q \notin tr \ Links
      BY <2>2, <3>1, <3>3
    <3> QED
      BY <3>2, <3>3
  <2> QED
    BY <2>1, <2>3, <2>4
<1>4. ASSUME Exists(tr, p), Append(Real(tr, p), x) \in tr \ Links PROVE Exists(tr, t)
  <2>1. PICK at \in Walk(tr, p) : Real(tr, p) = at.path
    BY <1>4, RealWalk DEF Exists
  <2>2. Enter(tr, at, x) = {[path |-> Append(at.path, x), links |-> at.links]}
    BY <1>4, <2>1 DEF Enter
  <2>3. [path |-> Append(at.path, x), links |-> at.links] \in EnterAll(tr, Walk(tr, p), x)
    BY <2>2 DEF EnterAll
  <2>4. Walk(tr, t) # {}
    BY <1>2, <2>3
  <2> QED
    BY <1>1, <2>4, RealWalk DEF Exists
<1> QED
  BY <1>3, <1>4 DEF t

\* A path without links leads to itself.
LEMMA Canonical ==
    ASSUME NEW tr, tr \subseteq Paths, FileSystem(tr), NEW p \in tr \ Links
    PROVE  Real(tr, p) = p /\ Exists(tr, p)
<1> DEFINE G == {s \in Seq(Name) : s \in (tr \ Links) \cup {<<>>} =>
                                      Walk(tr, s) = {[path |-> s, links |-> 0]}}
<1>1. <<>> \in G
  BY WalkSteps, EmptySeq DEF Start
<1>2. ASSUME NEW s \in Seq(Name), NEW x \in Name, s \in G PROVE Append(s, x) \in G
  <2> DEFINE t == Append(s, x)
  <2>1. /\ t \in Seq(Name) /\ t # <<>> /\ Front(t) = s /\ Len(t) = Len(s) + 1
        /\ Len(s) \in Nat
    BY AppendProperties, AppendParts
  <2> SUFFICES ASSUME t \in tr \ Links PROVE Walk(tr, t) = {[path |-> t, links |-> 0]}
    BY <2>1
  <2>2. s \in (tr \ Links) \cup {<<>>}
    <3>1. CASE Len(s) = 0
      BY <3>1, EmptySeq
    <3>2. CASE Len(s) # 0
      <4>1. Len(t) > 1
        BY <2>1, <3>2
      <4> HIDE DEF t
      <4>2. s \in tr
        BY <2>1, <4>1 DEF FileSystem
      <4>3. Kind[s] = "dir"
        BY <2>1, <4>1, StaticPathAssumption
      <4> QED
        BY <4>2, <4>3 DEF Links
    <3> QED
      BY <3>1, <3>2
  <2>3. Walk(tr, s) = {[path |-> s, links |-> 0]}
    BY <1>2, <2>2
  <2>4. Walk(tr, t) = EnterAll(tr, {[path |-> s, links |-> 0]}, x)
    <3>1. Walk(tr, t) = EnterAll(tr, Walk(tr, s), x)
      BY WalkSteps
    <3> QED
      BY <2>3, <3>1
  <2>5. EnterAll(tr, {[path |-> s, links |-> 0]}, x) = Enter(tr, [path |-> s, links |-> 0], x)
    BY DEF EnterAll
  <2>6. Enter(tr, [path |-> s, links |-> 0], x) = {[path |-> t, links |-> 0]}
    BY DEF Enter
  <2> QED
    BY <2>4, <2>5, <2>6
<1>3. Seq(Name) \subseteq G
  <2> HIDE DEF G
  <2> QED
    BY <1>1, <1>2, SeqInduct
<1>4. p \in Seq(Name)
  BY StaticPathAssumption DEF Name
<1>5. Walk(tr, p) = {[path |-> p, links |-> 0]}
  BY <1>3, <1>4
<1>6. [path |-> p, links |-> 0].path = p
  OBVIOUS
<1> QED
  BY <1>4, <1>5, <1>6, RealWalk DEF Exists

\* What the last name of a path is.
LEMMA LstatAppend ==
    ASSUME NEW tr, NEW p \in Seq(Name), NEW x
    PROVE  Lstat(tr, Append(p, x)) =
              IF ~Exists(tr, p) \/ Append(Real(tr, p), x) \notin tr THEN Missing
              ELSE Kind[Append(Real(tr, p), x)]
<1>1. Front(Append(p, x)) = p /\ Last(Append(p, x)) = x
  BY AppendParts
<1> QED
  BY <1>1 DEF Lstat, Exists

\* An entry of a directory is the directory and one more name.
LEMMA ChildIs ==
    ASSUME NEW tr, tr \subseteq Paths, NEW d \in Seq(Name), NEW c \in Children(tr, d)
    PROVE  /\ c \in tr /\ c = Append(d, Last(c)) /\ Last(c) \in Name
           /\ Last(c) \notin {".", ".."}
<1>1. c \in tr /\ c \in Seq(Name) /\ Len(c) = Len(d) + 1 /\ IsPrefix(d, c)
  BY StaticPathAssumption DEF Children, Name
<1>2. c # <<>>
  BY <1>1, EmptySeq, LenProperties
<1>3. PICK e \in Seq(Name), x \in Name : c = Append(e, x)
  BY <1>1, <1>2, SequenceEmptyOrAppend
<1>4. /\ Last(c) = x /\ Len(c) = Len(e) + 1 /\ Len(e) \in Nat /\ SubSeq(c, 1, Len(e)) = e
      /\ c[Len(e) + 1] = x
  BY <1>3, AppendParts
<1>5. Len(d) \in Nat /\ Len(d) = Len(e)
  BY <1>1, <1>4, LenProperties
<1>6. d = e
  BY <1>1, <1>4, <1>5, SubSeqFull DEF IsPrefix
<1>7. x \notin {".", ".."}
  <2>1. Len(c) \in 1 .. Len(c) /\ c[Len(c)] = x
    BY <1>4
  <2> QED
    BY <1>1, <2>1, StaticPathAssumption
<1> QED
  BY <1>1, <1>3, <1>4, <1>6, <1>7

-----------------------------------------------------------------------------
(* The path of a request.                                                  *)

\* One more name on a path that is built up.
Push(path, name) == IF name \in {".", ".."} THEN path ELSE Append(path, name)

\* The recursion of Sanitize for the first n names.
Sanitizes(seg, n, f) ==
    f = [i \in 0 .. n |-> IF i = 0 THEN Root ELSE Push(f[i - 1], seg[i])]

\* One step of it.
LEMMA SanitizesStep ==
    ASSUME NEW seg, NEW n \in Nat, NEW f, Sanitizes(seg, n, f)
    PROVE  /\ f[0] = Root
           /\ \A i \in Nat : i + 1 <= n => f[i + 1] = Push(f[i], seg[i + 1])
<1>1. \A i \in 0 .. n : f[i] = IF i = 0 THEN Root ELSE Push(f[i - 1], seg[i])
  BY DEF Sanitizes
<1>2. f[0] = Root
  BY <1>1
<1>3. ASSUME NEW i \in Nat, i + 1 <= n PROVE f[i + 1] = Push(f[i], seg[i + 1])
  <2>1. i + 1 \in 0 .. n /\ i + 1 # 0 /\ (i + 1) - 1 = i
    BY <1>3
  <2> QED
    BY <1>1, <2>1
<1> QED
  BY <1>2, <1>3

\* It has a solution, ...
LEMMA SanitizesExists ==
    ASSUME NEW seg, NEW n \in Nat
    PROVE  \E f : Sanitizes(seg, n, f)
<1> DEFINE G == {k \in Nat : \E f : Sanitizes(seg, k, f)}
<1>1. 0 \in G
  <2>1. Sanitizes(seg, 0, [i \in 0 .. 0 |-> Root])
    BY DEF Sanitizes
  <2> QED
    BY <2>1
<1>2. ASSUME NEW k \in Nat, k \in G PROVE k + 1 \in G
  <2>1. PICK f : Sanitizes(seg, k, f)
    BY <1>2
  <2> DEFINE g == [i \in 0 .. k + 1 |-> IF i = k + 1 THEN Push(f[k], seg[k + 1]) ELSE f[i]]
  <2>2. \A i \in 0 .. k : f[i] = IF i = 0 THEN Root ELSE Push(f[i - 1], seg[i])
    BY <2>1 DEF Sanitizes
  <2>3. \A i \in 0 .. k + 1 : g[i] = IF i = 0 THEN Root ELSE Push(g[i - 1], seg[i])
    BY <2>2
  <2>4. g = [i \in 0 .. k + 1 |-> g[i]]
    OBVIOUS
  <2> HIDE DEF g
  <2>5. g = [i \in 0 .. k + 1 |-> IF i = 0 THEN Root ELSE Push(g[i - 1], seg[i])]
    BY <2>3, <2>4
  <2>6. Sanitizes(seg, k + 1, g)
    BY <2>5 DEF Sanitizes
  <2> QED
    BY <2>6
<1>3. Nat \subseteq G
  <2> HIDE DEF G
  <2> QED
    BY <1>1, <1>2, NatInduct
<1> QED
  BY <1>3

\* ... whose values are determined by the names.
LEMMA SanitizesAgree ==
    ASSUME NEW p, NEW q, NEW n \in Nat, NEW m \in Nat, NEW f, NEW g,
           Sanitizes(p, n, f), Sanitizes(q, m, g),
           NEW k \in Nat, k <= n, k <= m, \A i \in 1 .. k : p[i] = q[i]
    PROVE  f[k] = g[k]
<1> DEFINE G == {i \in Nat : i <= k => f[i] = g[i]}
<1>1. f[0] = Root /\ g[0] = Root
  BY SanitizesStep
<1>2. ASSUME NEW i \in Nat, i \in G PROVE i + 1 \in G
  <2> SUFFICES ASSUME i + 1 <= k PROVE f[i + 1] = g[i + 1]
    OBVIOUS
  <2>1. f[i] = g[i] /\ p[i + 1] = q[i + 1]
    BY <1>2
  <2>2. i + 1 <= n /\ i + 1 <= m
    OBVIOUS
  <2>3. f[i + 1] = Push(f[i], p[i + 1])
    BY <2>2, SanitizesStep
  <2>4. g[i + 1] = Push(g[i], q[i + 1])
    BY <2>2, SanitizesStep
  <2> QED
    BY <2>1, <2>3, <2>4
<1>3. Nat \subseteq G
  <2>1. 0 \in G
    BY <1>1
  <2> HIDE DEF G
  <2> QED
    BY <1>2, <2>1, NatInduct
<1> QED
  BY <1>3

\* Sanitize computes it.
LEMMA SanitizeDef ==
    ASSUME NEW S, NEW seg \in Seq(S)
    PROVE  \E f : Sanitizes(seg, Len(seg), f) /\ Sanitize(seg) = f[Len(seg)]
<1> DEFINE w == CHOOSE f : Sanitizes(seg, Len(seg), f)
<1>1. Len(seg) \in Nat
  BY LenProperties
<1>2. Sanitize(seg) = w[Len(seg)]
  BY DEF Sanitize, Sanitizes, Push
<1>3. Sanitizes(seg, Len(seg), w)
  BY <1>1, SanitizesExists
<1> QED
  BY <1>2, <1>3

\* The path of a request starts as the root, and one more name is pushed onto it.
LEMMA SanitizeSteps ==
    ASSUME NEW S
    PROVE  /\ Sanitize(<<>>) = Root
           /\ \A s \in Seq(S) : \A x : Sanitize(Append(s, x)) = Push(Sanitize(s), x)
<1>1. Sanitize(<<>>) = Root
  <2>1. <<>> \in Seq(S) /\ Len(<<>>) = 0
    BY EmptySeq
  <2>2. PICK f : Sanitizes(<<>>, Len(<<>>), f) /\ Sanitize(<<>>) = f[Len(<<>>)]
    BY <2>1, SanitizeDef
  <2> QED
    BY <2>1, <2>2 DEF Sanitizes
<1>2. ASSUME NEW s \in Seq(S), NEW x
      PROVE  Sanitize(Append(s, x)) = Push(Sanitize(s), x)
  <2> DEFINE t == Append(s, x)
             n == Len(s)
  <2>1. /\ t \in Seq(S \cup {x}) /\ Len(t) = n + 1 /\ n \in Nat
        /\ t[n + 1] = x /\ \A i \in 1 .. n : t[i] = s[i]
    BY AppendParts
  <2> HIDE DEF t
  <2>2. PICK f : Sanitizes(s, n, f) /\ Sanitize(s) = f[n]
    BY SanitizeDef
  <2>3. PICK g : Sanitizes(t, n + 1, g) /\ Sanitize(t) = g[n + 1]
    BY <2>1, SanitizeDef
  <2> HIDE DEF n
  <2>4. f[n] = g[n]
    <3>1. n + 1 \in Nat /\ n <= n + 1 /\ n <= n /\ \A i \in 1 .. n : s[i] = t[i]
      BY <2>1
    <3> QED
      BY <2>1, <2>2, <2>3, <3>1, SanitizesAgree
  <2>5. \A i \in Nat : i + 1 <= n + 1 => g[i + 1] = Push(g[i], t[i + 1])
    <3> DEFINE m == n + 1
    <3>1. m \in Nat /\ Sanitizes(t, m, g)
      BY <2>1, <2>3
    <3> HIDE DEF m
    <3>2. \A i \in Nat : i + 1 <= m => g[i + 1] = Push(g[i], t[i + 1])
      BY <3>1, SanitizesStep
    <3> QED
      BY <3>2 DEF m
  <2>6. g[n + 1] = Push(g[n], t[n + 1])
    BY <2>1, <2>5
  <2>7. Sanitize(t) = Push(Sanitize(s), x)
    BY <2>1, <2>2, <2>3, <2>4, <2>6
  <2> QED
    BY <2>7 DEF t
<1> QED
  BY <1>1, <1>2

\* It is a path, and never empty.
LEMMA SanitizeType ==
    ASSUME NEW seg \in Seq(Name)
    PROVE  Sanitize(seg) \in Seq(Name) /\ Sanitize(seg) # <<>>
<1> DEFINE G == {s \in Seq(Name) : Sanitize(s) \in Seq(Name) /\ Sanitize(s) # <<>>}
<1>1. <<>> \in G
  <2>1. Root \in Seq(Name) /\ Root # <<>>
    BY StaticPathAssumption, EmptySeq DEF Name
  <2> QED
    BY <2>1, SanitizeSteps, EmptySeq
<1>2. ASSUME NEW s \in Seq(Name), NEW x \in Name, s \in G PROVE Append(s, x) \in G
  <2>1. Append(s, x) \in Seq(Name)
    BY AppendProperties
  <2>2. Sanitize(Append(s, x)) = Push(Sanitize(s), x)
    BY SanitizeSteps
  <2>3. Append(Sanitize(s), x) \in Seq(Name) /\ Append(Sanitize(s), x) # <<>>
    BY <1>2, AppendProperties
  <2> QED
    BY <1>2, <2>1, <2>2, <2>3 DEF Push
<1>3. Seq(Name) \subseteq G
  <2> HIDE DEF G
  <2> QED
    BY <1>1, <1>2, SeqInduct
<1> QED
  BY <1>3

-----------------------------------------------------------------------------
(* What is found for a directory.                                          *)

\* A set of positions that is not empty has a least one.
LEMMA LeastPosition ==
    ASSUME NEW n \in Nat, NEW I, I \subseteq 1 .. n, I # {}
    PROVE  LET least == CHOOSE i \in I : \A j \in I : i <= j
           IN  least \in I /\ \A j \in I : least <= j
<1>1. I \subseteq Nat
  OBVIOUS
<1>2. \E i \in I : \A j \in I : <<j, i>> \notin OpToRel(<, Nat)
  BY <1>1, NatLessThanWellFounded, WFMin
<1>3. \A i, j \in Nat : <<j, i>> \in OpToRel(<, Nat) <=> j < i
  BY DEF OpToRel
<1>4. PICK m \in I : \A j \in I : ~(j < m)
  BY <1>1, <1>2, <1>3
<1>5. \A j \in I : m <= j
  BY <1>1, <1>4
<1> QED
  BY <1>5

\* An index file of a directory, and the file that bears the directory's name.
Index(d, i) == Append(d, IndexFiles[i])
Html(p) == WithSuffix(p, ".html")

\* The index files there are.
IndexHits(tr, d) == {i \in DOMAIN IndexFiles : Exists(tr, Index(d, i))}

\* Where these files are.
LEMMA IndexParent ==
    ASSUME NEW d \in Seq(Name), NEW i
    PROVE  Front(Index(d, i)) = d
  BY AppendParts DEF Index

\* The .html candidate of a path is a name beside it.
LEMMA HtmlParent ==
    ASSUME NEW p, Front(p) \in Seq(Name)
    PROVE  Front(Html(p)) = Front(p)
  BY AppendParts DEF Html, WithSuffix

\* Without compression the first index file is found, if there is one and no
\* file has the directory's name; and the last one, if there is nothing.
LEMMA PlainDir ==
    ASSUME NEW tr, NEW d, NEW found, found = ComposeDir(tr, d, FALSE),
           NEW hits, hits = IndexHits(tr, d)
    PROVE  /\ found.ok /\ found.isDir /\ ~found.variant
           /\ ~Exists(tr, Html(d)) /\ hits # {} =>
                 /\ found.path = Index(d, CHOOSE i \in hits : \A j \in hits : i <= j)
                 /\ Exists(tr, found.path)
           /\ ~Exists(tr, Html(d)) /\ hits = {} =>
                 found.path = Index(d, Len(IndexFiles)) /\ ~Exists(tr, found.path)
           /\ \/ found.path = Html(d) /\ Exists(tr, Html(d))
              \/ \E i \in DOMAIN IndexFiles : found.path = Index(d, i)
<1> DEFINE all   == {i \in DOMAIN IndexFiles : \/ Precompressed(tr, Index(d, i), FALSE)
                                               \/ Exists(tr, Index(d, i))
                                               \/ Exists(tr, Html(d))}
           first == Index(d, CHOOSE i \in all : \A j \in all : i <= j)
<1>1. \A p : ~Precompressed(tr, p, FALSE)
  BY DEF Precompressed
<1>2. found = IF all = {} THEN Composed(Index(d, Len(IndexFiles)), TRUE, FALSE)
              ELSE IF Precompressed(tr, first, FALSE) THEN Composed(first, FALSE, TRUE)
              ELSE IF Exists(tr, first) THEN Composed(first, TRUE, FALSE)
              ELSE Composed(Html(d), TRUE, Precompressed(tr, Html(d), FALSE))
  BY DEF ComposeDir, Index, Html
<1>3. Len(IndexFiles) \in Nat \ {0} /\ DOMAIN IndexFiles = 1 .. Len(IndexFiles)
  BY StaticPathAssumption, LenProperties
<1>4. Precompressed(tr, Html(d), FALSE) = FALSE
  BY DEF Precompressed
<1>6. all # {} => \E i \in all : first = Index(d, i)
  <2>1. all \subseteq 1 .. Len(IndexFiles)
    BY <1>3
  <2> HIDE DEF all
  <2> QED
    BY <1>3, <2>1, LeastPosition
<1>7. ~Exists(tr, Html(d)) => all = hits
  BY <1>1 DEF IndexHits
<1>8. \A i \in hits : Exists(tr, Index(d, i))
  BY DEF IndexHits
<1>9. \A i \in all : i \in DOMAIN IndexFiles /\ (Exists(tr, Index(d, i)) \/ Exists(tr, Html(d)))
  BY <1>1
<1>10. hits = {} /\ Len(IndexFiles) \in DOMAIN IndexFiles => ~Exists(tr, Index(d, Len(IndexFiles)))
  BY DEF IndexHits
<1>11. ~Exists(tr, Html(d)) /\ hits # {} =>
          first = Index(d, CHOOSE i \in hits : \A j \in hits : i <= j)
  BY <1>7
<1> HIDE DEF all, first, Composed
<1>12. CASE all = {}
  <2>1. found = Composed(Index(d, Len(IndexFiles)), TRUE, FALSE)
    BY <1>2, <1>12
  <2>2. Len(IndexFiles) \in DOMAIN IndexFiles
    BY <1>3
  <2>3. found.ok = TRUE /\ found.isDir = TRUE /\ found.variant = FALSE /\ found.path = Index(d, Len(IndexFiles))
    BY ONLY <2>1 DEF Composed
  <2>4. hits = {} \/ Exists(tr, Html(d))
    BY <1>7, <1>12
  <2> QED
    BY <1>10, <2>2, <2>3, <2>4
<1>13. CASE all # {} /\ Exists(tr, first)
  <2>1. found = Composed(first, TRUE, FALSE)
    BY <1>1, <1>2, <1>13
  <2>2. found.ok = TRUE /\ found.isDir = TRUE /\ found.variant = FALSE /\ found.path = first
    BY ONLY <2>1 DEF Composed
  <2>3. hits # {} \/ Exists(tr, Html(d))
    BY <1>7, <1>13
  <2>4. \E i \in DOMAIN IndexFiles : found.path = Index(d, i)
    BY <1>6, <1>9, <1>13, <2>2
  <2> QED
    BY <1>11, <1>13, <2>2, <2>3, <2>4
<1>14. CASE all # {} /\ ~Exists(tr, first)
  <2>1. found = Composed(Html(d), TRUE, FALSE)
    BY <1>1, <1>2, <1>4, <1>14
  <2>2. Exists(tr, Html(d))
    BY <1>6, <1>9, <1>14
  <2>3. found.ok = TRUE /\ found.isDir = TRUE /\ found.variant = FALSE /\ found.path = Html(d)
    BY ONLY <2>1 DEF Composed
  <2> QED
    BY <2>2, <2>3
<1> QED
  BY <1>12, <1>13, <1>14

\* A directory whose content is shown is the one that was asked for.
LEMMA ShownDir ==
    ASSUME NEW tr, NEW p \in Seq(Name), NEW g,
           Compose(tr, p, g).ok, Compose(tr, p, g).isDir,
           ~Exists(tr, Compose(tr, p, g).path)
    PROVE  IsDir(tr, p) /\ Front(Compose(tr, p, g).path) = p
<1> DEFINE found == Compose(tr, p, g)
           all   == {i \in DOMAIN IndexFiles : \/ Precompressed(tr, Index(p, i), g)
                                               \/ Exists(tr, Index(p, i))
                                               \/ Exists(tr, Html(p))}
           first == Index(p, CHOOSE i \in all : \A j \in all : i <= j)
<1>1. \A q, a, b : Composed(q, a, b).path = q /\ Composed(q, a, b).isDir = a
  BY DEF Composed
<1>2. IsDir(tr, p)
  BY <1>1 DEF Compose, NotComposed
<1>3. found = IF all = {} THEN Composed(Index(p, Len(IndexFiles)), TRUE, FALSE)
              ELSE IF Precompressed(tr, first, g) THEN Composed(first, FALSE, TRUE)
              ELSE IF Exists(tr, first) THEN Composed(first, TRUE, FALSE)
              ELSE Composed(Html(p), TRUE, Precompressed(tr, Html(p), g))
  BY <1>2 DEF Compose, ComposeDir, Index, Html
<1>4. ASSUME all # {} PROVE Precompressed(tr, first, g) \/ Exists(tr, first) \/ Exists(tr, Html(p))
  <2>1. DOMAIN IndexFiles = 1 .. Len(IndexFiles) /\ Len(IndexFiles) \in Nat
    BY StaticPathAssumption, LenProperties
  <2>2. all \subseteq 1 .. Len(IndexFiles)
    BY <2>1
  <2>3. \A i \in all : \/ Precompressed(tr, Index(p, i), g)
                        \/ Exists(tr, Index(p, i))
                        \/ Exists(tr, Html(p))
    OBVIOUS
  <2> HIDE DEF all
  <2>4. \E i \in all : first = Index(p, i)
    BY <1>4, <2>1, <2>2, LeastPosition
  <2> QED
    BY <2>3, <2>4
<1>5. found.isDir /\ ~Exists(tr, found.path)
  OBVIOUS
<1> HIDE DEF all, first, found
<1>6. all = {}
  <2>1. CASE all # {} /\ Precompressed(tr, first, g)
    <3>1. found.isDir = FALSE
      BY <1>1, <1>3, <2>1
    <3> QED
      BY <1>5, <3>1
  <2>2. CASE all # {} /\ ~Precompressed(tr, first, g) /\ Exists(tr, first)
    <3>1. found.path = first
      BY <1>1, <1>3, <2>2
    <3> QED
      BY <1>5, <2>2, <3>1
  <2>3. CASE all # {} /\ ~Precompressed(tr, first, g) /\ ~Exists(tr, first)
    <3>1. found.path = Html(p)
      BY <1>1, <1>3, <2>3
    <3> QED
      BY <1>4, <1>5, <2>3, <3>1
  <2> QED
    BY <2>1, <2>2, <2>3
<1>7. Front(Index(p, Len(IndexFiles))) = p
  BY IndexParent
<1>8. found.path = Index(p, Len(IndexFiles))
  BY <1>1, <1>3, <1>6
<1> QED
  BY <1>2, <1>7, <1>8 DEF found

-----------------------------------------------------------------------------
(* The checks on a path, for one more name.                                *)

\* The beginnings of a path do not depend on its last name.
LEMMA Beginnings ==
    ASSUME NEW s \in Seq(Name), NEW x \in Name, NEW i \in 0 .. Len(s)
    PROVE  SubSeq(Append(s, x), 1, i) = SubSeq(s, 1, i)
<1> DEFINE t == Append(s, x)
           a == SubSeq(t, 1, i)
           b == SubSeq(s, 1, i)
<1>1. /\ t \in Seq(Name) /\ Len(t) = Len(s) + 1 /\ Len(s) \in Nat
      /\ \A j \in 1 .. Len(s) : t[j] = s[j]
  BY AppendProperties, LenProperties
<1>2. \A j \in 1 .. i : s[j] \in Name /\ t[j] \in Name
  BY <1>1, ElementOfSeq
<1> HIDE DEF t
<1>3. /\ b \in Seq(Name) /\ Len(b) = i
      /\ \A j \in 1 .. i : b[j] = s[j]
  BY <1>1, <1>2, SubSeqProperties
<1>4. /\ a \in Seq(Name) /\ Len(a) = i
      /\ \A j \in 1 .. i : a[j] = t[j]
  BY <1>1, <1>2, SubSeqProperties
<1>5. \A j \in 1 .. i : a[j] = b[j]
  BY <1>1, <1>3, <1>4
<1> HIDE DEF a, b
<1>6. a = b
  BY <1>3, <1>4, <1>5, SeqEqual
<1> QED
  BY <1>6 DEF a, b, t

\* One more name: the path is below the root if it was, and hidden or behind a
\* link if it was or the name is.
LEMMA OneMore ==
    ASSUME NEW tr, NEW s \in Seq(Name), NEW x \in Name, IsPrefix(Root, s)
    PROVE  /\ IsPrefix(Root, Append(s, x))
           /\ IsHidden(Append(s, x)) <=> IsHidden(s) \/ IsHiddenName(x)
           /\ ContainsSymlink(tr, Append(s, x)) <=>
                 ContainsSymlink(tr, s) \/ Lstat(tr, Append(s, x)) = "link"
<1> DEFINE t == Append(s, x)
           n == Len(Root)
           m == Len(s)
<1>1. /\ t \in Seq(Name) /\ Len(t) = m + 1 /\ m \in Nat /\ t[m + 1] = x
      /\ \A j \in 1 .. m : t[j] = s[j]
  BY AppendProperties, LenProperties
<1>2. n \in Nat /\ n <= m /\ SubSeq(Root, 1, n) = SubSeq(s, 1, n)
  BY StaticPathAssumption, LenProperties DEF IsPrefix
<1>3. \A i \in 0 .. m : SubSeq(t, 1, i) = SubSeq(s, 1, i)
  BY Beginnings
<1>4. SubSeq(t, 1, m + 1) = t
  BY <1>1, SubSeqFull
<1> HIDE DEF t
<1>5. IsPrefix(Root, t)
  BY <1>1, <1>2, <1>3 DEF IsPrefix
<1>6. \A i : i \in n + 1 .. m + 1 <=> i \in n + 1 .. m \/ i = m + 1
  BY <1>1, <1>2
<1>7. \A i \in n + 1 .. m : i \in 0 .. m /\ i \in 1 .. m
  BY <1>1, <1>2
<1> HIDE DEF n, m
<1>8. IsHidden(t) <=> \E i \in n + 1 .. m + 1 : IsHiddenName(t[i])
  BY <1>1 DEF IsHidden, n
<1>9. IsHidden(s) <=> \E i \in n + 1 .. m : IsHiddenName(s[i])
  BY DEF IsHidden, n, m
<1>10. ContainsSymlink(tr, t) <=> \E i \in n + 1 .. m + 1 : Lstat(tr, SubSeq(t, 1, i)) = "link"
  BY <1>1 DEF ContainsSymlink, n
<1>11. ContainsSymlink(tr, s) <=> \E i \in n + 1 .. m : Lstat(tr, SubSeq(s, 1, i)) = "link"
  BY DEF ContainsSymlink, n, m
<1>12. IsHidden(t) <=> IsHidden(s) \/ IsHiddenName(x)
  BY <1>1, <1>6, <1>7, <1>8, <1>9
<1>13. ContainsSymlink(tr, t) <=> ContainsSymlink(tr, s) \/ Lstat(tr, t) = "link"
  BY <1>3, <1>4, <1>6, <1>7, <1>10, <1>11
<1> QED
  BY <1>5, <1>12, <1>13 DEF t

\* Handle, for what was found and what the checks say of it, and the path that
\* they look at.
Answer(tr, o, r, found, deny) ==
    IF r.method \notin {"GET", "HEAD", "OPTIONS"} THEN Error(405)
    ELSE IF ~found.ok THEN Error(404)
    ELSE IF deny # 200 THEN Error(deny)
    ELSE IF found.isDir /\ o.redirectSlash /\ ~r.slash THEN Error(308)
    ELSE IF r.method = "OPTIONS" THEN Error(204)
    ELSE IF found.isDir /\ o.listing /\ ~Exists(tr, found.path)
    THEN Reply(IF r.download THEN "archive" ELSE "listing", Front(found.path))
    ELSE FileReply(tr, found)

Checked(found) == IF found.isDir THEN Front(found.path) ELSE found.path

\* A whole request is the answer to what was found and to how it was checked.
LEMMA HandleAnswer ==
    ASSUME NEW tr, NEW o, NEW r,
           NEW found, Compose(tr, Lookup(o, r), r.gz) = found,
           NEW deny, Denied(tr, o, Checked(found)) = deny
    PROVE  Handle(tr, o, r) = Answer(tr, o, r, found, deny)
<1>1. Handle(tr, o, r) =
        Answer(tr, o, r, Compose(tr, Lookup(o, r), r.gz),
               Denied(tr, o, Checked(Compose(tr, Lookup(o, r), r.gz))))
  BY DEF Handle, Answer, Checked
<1> QED
  BY <1>1

\* The path that is looked up is a path.
LEMMA LookupType ==
    ASSUME NEW o, NEW r, r.segments \in Seq(Name)
    PROVE  Lookup(o, r) \in Seq(Name) /\ Lookup(o, r) # <<>>
<1>1. Sanitize(r.segments) \in Seq(Name) /\ Sanitize(r.segments) # <<>>
  BY SanitizeType
<1>2. AutoIndex \in Name
  BY StaticPathAssumption DEF Name
<1>3. \A s \in Seq(Name) : Append(s, AutoIndex) \in Seq(Name) /\ Append(s, AutoIndex) # <<>>
  BY <1>2, AppendProperties
<1> QED
  BY <1>1, <1>3 DEF Lookup

\* A directory whose content is sent, as a page or an archive.
LEMMA ShownReply ==
    ASSUME NEW tr, NEW o, NEW r \in Requests, NEW rep, rep = Handle(tr, o, r),
           rep.kind \in {"listing", "archive"}
    PROVE  LET s == Lookup(o, r)
           IN  /\ s \in Seq(Name) /\ s # <<>> /\ rep.path = s /\ IsDir(tr, s)
               /\ Denied(tr, o, s) = 200 /\ r.method \in {"GET", "HEAD"} /\ o.listing
               /\ o.redirectSlash => r.slash
<1> DEFINE s     == Lookup(o, r)
           found == Compose(tr, s, r.gz)
           deny  == Denied(tr, o, Checked(found))
<1>1. s \in Seq(Name) /\ s # <<>>
  BY DirectoryAssumption, LookupType DEF Name
<1>2. rep = Answer(tr, o, r, found, deny)
  <2> HIDE DEF deny
  <2>1. Denied(tr, o, Checked(found)) = deny
    BY DEF deny
  <2> QED
    BY <2>1, HandleAnswer
<1> HIDE DEF found, deny, s
<1>3. /\ r.method \in {"GET", "HEAD"} /\ found.ok /\ deny = 200 /\ found.isDir
      /\ o.listing /\ ~Exists(tr, found.path) /\ rep.path = Front(found.path)
      /\ o.redirectSlash => r.slash
  BY <1>2 DEF Answer, Error, Reply, FileReply
<1>4. IsDir(tr, s) /\ rep.path = s
  <2>1. Compose(tr, s, r.gz) = found
    BY DEF found
  <2> QED
    BY <1>1, <1>3, <2>1, ShownDir
<1>5. Denied(tr, o, s) = 200
  BY <1>3, <1>4 DEF deny, Checked
<1> QED
  BY <1>1, <1>3, <1>4, <1>5 DEF s

-----------------------------------------------------------------------------
(* The exchange: a reply that is not an archive is the one the server would *)
(* give now.                                                                *)

Exchange ==
    /\ tree \subseteq Paths /\ FileSystem(tree) /\ opts \in OptionSets
    /\ client = "idle" => reply.kind = "none"
    /\ client = "replied" => request \in Requests /\ reply = Handle(tree, opts, request)
    /\ client \notin {"idle", "replied"} => reply.kind = "archive"

\* Exchange holds at first.
LEMMA ExchangeInit == Init => Exchange
  BY DirectoryAssumption DEF Init, Exchange, Error

\* Every step keeps Exchange.
LEMMA ExchangeStep == Exchange /\ [Next]_vars => Exchange'
<1> SUFFICES ASSUME Exchange, [Next]_vars PROVE Exchange'
  OBVIOUS
<1> USE DEF Exchange
<1>1. ASSUME NEW r \in Requests, Request(r) PROVE Exchange'
  <2>1. /\ tree' = tree /\ opts' = opts /\ request' = r /\ reply' = Handle(tree, opts, r)
        /\ client' = "replied" \/ (client' = "reading" /\ reply'.kind = "archive")
    BY <1>1 DEF Request
  <2> HIDE DEF Exchange
  <2> QED
    BY <2>1 DEF Exchange
<1>2. CASE Change
  <2>1. client = "reading" /\ UNCHANGED <<opts, client, request, reply>> /\ FileSystem(tree')
    BY <1>2 DEF Change
  <2>2. tree' \subseteq Paths
    BY <1>2, DirectoryAssumption DEF Change
  <2>3. FileSystem(tree)'
    BY <2>1 DEF FileSystem
  <2> QED
    BY <2>1, <2>2, <2>3
<1>3. CASE Task
  <2>1. UNCHANGED <<tree, opts, client, request, reply>>
    BY <1>3 DEF Task, Pop, ReadDir, AppendEntry, Finish, PollReady, TrySend, Resume, Walking
  <2> QED
    BY <2>1
<1>4. CASE Take \/ EndOfBody \/ DropWant \/ DropRx
  <2>1. /\ UNCHANGED <<tree, opts, request, reply>>
        /\ client \notin {"idle", "replied"} /\ client' \notin {"idle", "replied"}
    BY <1>4 DEF Take, EndOfBody, DropWant, DropRx
  <2> QED
    BY <2>1
<1>5. CASE UNCHANGED vars
  BY <1>5 DEF vars
<1> QED
  BY <1>1, <1>2, <1>3, <1>4, <1>5 DEF Next

\* The exchange is as described in every state.
LEMMA Exchanges == Spec => []Exchange
<1> QED
  BY ExchangeInit, ExchangeStep, PTL DEF Spec

\* The reply to a request for a directory: the index files are tried in order,
\* or index.html alone where the memory cache has it looked for first.
\* The compression of an index file is left to Headers; IndexInOrder is about
\* clients that accept none.
THEOREM IndexServed == Spec => []IndexInOrder
<1>1. ASSUME Exchange, client = "replied", reply.status = 200, ~request.gz,
             Pushed(opts, request), NEW auto, auto = Append(Sanitize(request.segments), AutoIndex),
             ~IsDir(tree, auto)
      PROVE  /\ reply.kind = "file"
             /\ reply.path = IF Exists(tree, auto) THEN auto ELSE Html(auto)
  <2> DEFINE found == Compose(tree, auto, FALSE)
             deny  == Denied(tree, opts, Checked(found))
  <2>1. request.gz = FALSE
    BY <1>1, DirectoryAssumption DEF Exchange
  <2>2. Compose(tree, Lookup(opts, request), request.gz) = found
    BY <1>1, <2>1 DEF Lookup
  <2>3. found = IF Exists(tree, auto) THEN Composed(auto, FALSE, FALSE)
                ELSE IF Exists(tree, Html(auto)) THEN Composed(Html(auto), FALSE, FALSE)
                ELSE NotComposed
    BY <1>1 DEF Compose, Precompressed, Html
  <2> HIDE DEF found, deny
  <2>4. reply = Answer(tree, opts, request, found, deny)
    <3>1. deny = Denied(tree, opts, Checked(found))
      BY DEF deny
    <3>2. Handle(tree, opts, request) = Answer(tree, opts, request, found, deny)
      BY <2>2, <3>1, HandleAnswer
    <3> QED
      BY <1>1, <3>2 DEF Exchange
  <2>5. \/ found.ok /\ found.isDir
        \/ found.ok /\ reply = FileReply(tree, found)
    BY <1>1, <2>4 DEF Answer, Error
  <2>6. \A q : /\ Composed(q, FALSE, FALSE).path = q /\ ~Composed(q, FALSE, FALSE).isDir
               /\ ~Composed(q, FALSE, FALSE).variant
    BY DEF Composed
  <2>7. ~NotComposed.ok
    BY DEF NotComposed
  <2>8. /\ ~found.isDir /\ ~found.variant /\ Exists(tree, found.path)
        /\ found.path = IF Exists(tree, auto) THEN auto ELSE Html(auto)
    BY <2>3, <2>5, <2>6, <2>7
  <2>9. reply = Reply("file", found.path)
    BY <2>5, <2>8 DEF FileReply
  <2>10. reply.kind = "file" /\ reply.path = found.path
    BY ONLY <2>9 DEF Reply
  <2> QED
    BY <2>8, <2>10
<1>2. ASSUME Exchange, client = "replied", reply.status = 200, ~request.gz,
             ~Pushed(opts, request), NEW dir, dir = Sanitize(request.segments),
             IsDir(tree, dir), ~Exists(tree, Html(dir)), NEW hits, hits = IndexHits(tree, dir)
      PROVE  IF hits = {} THEN reply.kind \in {"listing", "archive"}
             ELSE reply.path = Index(dir, CHOOSE i \in hits : \A j \in hits : i <= j)
  <2> DEFINE least == CHOOSE i \in hits : \A j \in hits : i <= j
  <2> DEFINE found == ComposeDir(tree, dir, FALSE)
             deny  == Denied(tree, opts, Checked(found))
  <2>1. request.gz = FALSE
    BY <1>2, DirectoryAssumption DEF Exchange
  <2>2. Compose(tree, Lookup(opts, request), request.gz) = found
    BY <1>2, <2>1 DEF Compose, Lookup
  <2> HIDE DEF deny, found
  <2>3. reply = Answer(tree, opts, request, found, deny)
    <3>1. deny = Denied(tree, opts, Checked(found))
      BY DEF deny
    <3>2. Handle(tree, opts, request) = Answer(tree, opts, request, found, deny)
      BY <2>2, <3>1, HandleAnswer
    <3> QED
      BY <1>2, <3>2 DEF Exchange
  <2>4. \/ /\ found.isDir /\ ~Exists(tree, found.path)
           /\ reply = Reply(IF request.download THEN "archive" ELSE "listing", Front(found.path))
        \/ reply = FileReply(tree, found)
    BY <1>2, <2>3 DEF Answer, Error
  <2>5. /\ found.ok /\ found.isDir /\ ~found.variant
        /\ hits # {} => found.path = Index(dir, least) /\ Exists(tree, found.path)
        /\ hits = {} => ~Exists(tree, found.path)
    <3>1. found = ComposeDir(tree, dir, FALSE) /\ hits = IndexHits(tree, dir)
      BY <1>2 DEF found
    <3>2. ~Exists(tree, Html(dir))
      BY <1>2
    <3> QED
      BY ONLY <3>1, <3>2, PlainDir
  <2>6. FileReply(tree, found) = IF Exists(tree, found.path) THEN Reply("file", found.path)
                                 ELSE Error(404)
    BY <2>5 DEF FileReply
  <2>7. CASE hits = {}
    <3>1. FileReply(tree, found) # reply
      BY <1>2, <2>5, <2>6, <2>7 DEF Error
    <3> QED
      BY <2>4, <2>7, <3>1 DEF Reply
  <2>8. CASE hits # {}
    BY <2>4, <2>5, <2>6, <2>8 DEF Reply
  <2> QED
    BY <2>7, <2>8
<1>3. Exchange => IndexInOrder
  <2> DEFINE dir  == Sanitize(request.segments)
             auto == Append(dir, AutoIndex)
             hits == IndexHits(tree, dir)
  <2>1. ASSUME Exchange, client = "replied", reply.status = 200, ~request.gz,
               Pushed(opts, request), ~IsDir(tree, auto)
        PROVE  /\ reply.kind = "file"
               /\ reply.path = IF Exists(tree, auto) THEN auto ELSE Html(auto)
    BY <1>1, <2>1
  <2>2. ASSUME Exchange, client = "replied", reply.status = 200, ~request.gz,
               ~Pushed(opts, request), IsDir(tree, dir), ~Exists(tree, Html(dir))
        PROVE  IF hits = {} THEN reply.kind \in {"listing", "archive"}
               ELSE reply.path = Index(dir, CHOOSE i \in hits : \A j \in hits : i <= j)
    BY <1>2, <2>2
  <2> QED
    BY <2>1, <2>2 DEF IndexInOrder, IndexHits, Index, Html
<1> QED
  BY <1>3, Exchanges, PTL

\* What is asked of an entry of a directory before it is listed.
Shown(tr, o, path, n) ==
    /\ ~(o.ignoreHidden /\ IsHiddenName(n))
    /\ Lstat(tr, path) = "link" =>
          /\ ~o.disableSymlinks
          /\ Exists(tr, path)
          /\ IsPrefix(Root, Real(tr, path))

\* The checks on an entry of a directory that passed them: they are passed just
\* if the entry is listed, and if it does not exist it is not listed.
LEMMA EntryDenied ==
    ASSUME NEW tr, tr \subseteq Paths, NEW o, NEW s \in Seq(Name), s # <<>>,
           Denied(tr, o, s) = 200, NEW n \in Name, Append(Real(tr, s), n) \in tr
    PROVE  /\ Shown(tr, o, Append(s, n), n) =>
                 Exists(tr, Append(s, n)) /\ Denied(tr, o, Append(s, n)) = 200
           /\ ~Shown(tr, o, Append(s, n), n) => Denied(tr, o, Append(s, n)) \in {403, 404}
<1> DEFINE path == Append(s, n)
           q    == Append(Real(tr, s), n)
<1>1. /\ IsPrefix(Root, s) /\ Exists(tr, s) /\ IsPrefix(Root, Real(tr, s))
      /\ ~(o.disableSymlinks /\ ContainsSymlink(tr, s)) /\ ~(o.ignoreHidden /\ IsHidden(s))
  BY DEF Denied
<1>2. /\ IsPrefix(Root, path)
      /\ IsHidden(path) <=> IsHidden(s) \/ IsHiddenName(n)
      /\ ContainsSymlink(tr, path) <=> ContainsSymlink(tr, s) \/ Lstat(tr, path) = "link"
  BY <1>1, OneMore
<1>3. Real(tr, s) \in Seq(Name)
  BY <1>1, RealFacts
<1>4. IsPrefix(Root, q)
  BY <1>1, <1>3, OneMore
<1>5. Lstat(tr, path) = Kind[q]
  BY <1>1, LstatAppend
<1>6. q \in Links <=> Lstat(tr, path) = "link"
  BY <1>5 DEF Links
<1>7. q \notin Links => Exists(tr, path) /\ Real(tr, path) = q
  BY <1>1, RealAppend
<1> HIDE DEF path, q
<1>8. Denied(tr, o, path) = IF ~Exists(tr, path) THEN 404
                            ELSE IF ~IsPrefix(Root, Real(tr, path)) THEN 404
                            ELSE IF o.disableSymlinks /\ ContainsSymlink(tr, path) THEN 403
                            ELSE IF o.ignoreHidden /\ IsHidden(path) THEN 404
                            ELSE 200
  BY <1>2 DEF Denied
<1>9. ASSUME Shown(tr, o, path, n) PROVE Exists(tr, path) /\ Denied(tr, o, path) = 200
  <2>1. Exists(tr, path) /\ IsPrefix(Root, Real(tr, path))
    BY <1>4, <1>6, <1>7, <1>9 DEF Shown
  <2>2. ~(o.disableSymlinks /\ ContainsSymlink(tr, path)) /\ ~(o.ignoreHidden /\ IsHidden(path))
    BY <1>1, <1>2, <1>9 DEF Shown
  <2> QED
    BY <1>8, <2>1, <2>2
<1>10. ASSUME ~Shown(tr, o, path, n) PROVE Denied(tr, o, path) \in {403, 404}
  <2>1. \/ ~Exists(tr, path) \/ ~IsPrefix(Root, Real(tr, path))
        \/ o.disableSymlinks /\ ContainsSymlink(tr, path)
        \/ o.ignoreHidden /\ IsHidden(path)
    BY <1>2, <1>10 DEF Shown
  <2> QED
    BY <1>8, <2>1
<1> QED
  BY <1>9, <1>10 DEF path

\* A request for a path, as a browser makes it from a listing.
Fetches(tr, o, r, path) ==
    /\ Lookup(o, r) = path /\ r.gz = FALSE /\ r.method \in {"GET", "HEAD"}
    /\ IsDir(tr, path) => r.slash
    /\ o.listing

\* The answer to a request for an entry of a directory that may be listed.
LEMMA EntryAnswer ==
    ASSUME NEW tr, tr \subseteq Paths, NEW o, NEW s \in Seq(Name), s # <<>>,
           Denied(tr, o, s) = 200, NEW n \in Name, Append(Real(tr, s), n) \in tr,
           NEW r, Fetches(tr, o, r, Append(s, n))
    PROVE  /\ Shown(tr, o, Append(s, n), n) => Handle(tr, o, r).status \notin {403, 404}
           /\ ~Shown(tr, o, Append(s, n), n) /\ ~Exists(tr, Html(Append(s, n))) =>
                 Handle(tr, o, r).status \in {403, 404}
<1> DEFINE path  == Append(s, n)
           found == Compose(tr, path, FALSE)
           on    == Checked(found)
           deny  == Denied(tr, o, on)
<1>1. /\ Shown(tr, o, path, n) => Exists(tr, path) /\ Denied(tr, o, path) = 200
      /\ ~Shown(tr, o, path, n) => Denied(tr, o, path) \in {403, 404}
  BY EntryDenied
<1>2. path \in Seq(Name) /\ Front(path) = s
  BY AppendProperties, AppendParts
<1>3. Front(Html(path)) = s /\ \A i : Front(Index(path, i)) = path
  BY <1>2, IndexParent, HtmlParent
<1> HIDE DEF path, found, on, deny
<1>4. Handle(tr, o, r) = Answer(tr, o, r, found, deny)
  <2>1. Compose(tr, Lookup(o, r), r.gz) = found
    BY DEF found, path, Fetches
  <2>2. Denied(tr, o, Checked(found)) = deny
    BY DEF deny, on
  <2> QED
    BY <2>1, <2>2, HandleAnswer
<1>5. /\ Error(404).status = 404 /\ Error(deny).status = deny
      /\ \A k, p : Reply(k, p).status = 200
  BY DEF Error, Reply
<1>6. CASE IsDir(tr, path)
  <2>1. found = ComposeDir(tr, path, FALSE)
    BY <1>6 DEF Compose, found
  <2>2. /\ found.ok /\ found.isDir /\ ~found.variant
        /\ \/ found.path = Html(path) /\ Exists(tr, Html(path))
           \/ \E i \in DOMAIN IndexFiles : found.path = Index(path, i)
    BY ONLY <2>1, PlainDir
  <2>3. FileReply(tr, found) = IF Exists(tr, found.path) THEN Reply("file", found.path)
                               ELSE Error(404)
    BY <2>2 DEF FileReply
  <2>4. on = s \/ on = path
    BY <1>3, <2>2 DEF on, Checked
  <2>5. ~Exists(tr, Html(path)) => on = path
    BY <1>3, <2>2 DEF on, Checked
  <2>6. ASSUME Shown(tr, o, path, n)
        PROVE  Handle(tr, o, r).status \notin {403, 404}
    <3>1. deny = 200
      BY <1>1, <2>4, <2>6 DEF deny
    <3>2. r.slash
      BY <1>6 DEF path, Fetches
    <3>3. Answer(tr, o, r, found, deny) =
             IF ~Exists(tr, found.path)
             THEN Reply(IF r.download THEN "archive" ELSE "listing", Front(found.path))
             ELSE Reply("file", found.path)
      BY <2>2, <2>3, <2>6, <3>1, <3>2 DEF Answer, Fetches
    <3> QED
      BY <1>4, <1>5, <3>3
  <2>7. ASSUME ~Shown(tr, o, path, n), ~Exists(tr, Html(path))
        PROVE  Handle(tr, o, r).status \in {403, 404}
    <3>1. deny \in {403, 404}
      BY <1>1, <2>5, <2>7 DEF deny
    <3>2. Answer(tr, o, r, found, deny) \in {Error(404), Error(deny)}
      BY <3>1 DEF Answer, Fetches
    <3> QED
      BY <1>4, <1>5, <3>1, <3>2
  <2> QED
    BY <2>6, <2>7 DEF path
<1>7. CASE ~IsDir(tr, path) /\ Exists(tr, path)
  <2>1. found = Composed(path, FALSE, FALSE)
    BY <1>7 DEF Compose, found, Precompressed
  <2>2. found.ok = TRUE /\ found.isDir = FALSE /\ found.variant = FALSE /\ found.path = path
    BY ONLY <2>1 DEF Composed
  <2>3. deny = Denied(tr, o, path)
    BY <2>2 DEF deny, on, Checked
  <2>4. FileReply(tr, found) = Reply("file", path)
    BY <1>7, <2>2 DEF FileReply
  <2>5. ASSUME Shown(tr, o, path, n)
        PROVE  Handle(tr, o, r).status \notin {403, 404}
    <3>1. Answer(tr, o, r, found, deny) = Reply("file", path)
      BY <1>1, <2>2, <2>3, <2>4, <2>5 DEF Answer, Fetches
    <3> QED
      BY <1>4, <1>5, <3>1
  <2>6. ASSUME ~Shown(tr, o, path, n)
        PROVE  Handle(tr, o, r).status \in {403, 404}
    <3>1. Answer(tr, o, r, found, deny) = Error(deny)
      BY <1>1, <2>2, <2>3, <2>6 DEF Answer, Fetches
    <3> QED
      BY <1>1, <1>4, <1>5, <2>3, <2>6, <3>1
  <2> QED
    BY <2>5, <2>6 DEF path
<1>8. CASE ~Exists(tr, path)
  <2>1. ~Shown(tr, o, path, n)
    BY <1>1, <1>8
  <2>2. ASSUME ~Exists(tr, Html(path)) PROVE Handle(tr, o, r).status = 404
    <3>1. found = NotComposed
      BY <1>8, <2>2 DEF Compose, found, Precompressed, IsDir, Html
    <3>2. found.ok = FALSE
      BY ONLY <3>1 DEF NotComposed
    <3>3. Answer(tr, o, r, found, deny) = Error(404)
      BY <3>2 DEF Answer, Fetches
    <3> QED
      BY <1>4, <1>5, <3>3
  <2> QED
    BY <2>1, <2>2 DEF path
<1> QED
  BY <1>6, <1>7, <1>8

\* A link of a page names one more thing below the path of the page.
LEMMA BrowseFacts ==
    ASSUME NEW r \in Requests, r.method \in {"GET", "HEAD"},
           NEW n \in Name, n \notin {".", ".."}, NEW tr,
           NEW o, o.listing, ~(o.memoryCache /\ o.redirectSlash),
           NEW path, path = Append(Sanitize(r.segments), n)
    PROVE  Fetches(tr, o, Browse(r, Href(r, n), IsDir(tr, path)), path)
<1> DEFINE slash == IsDir(tr, path)
           b == Browse(r, Href(r, n), slash)
           seg == r.segments
<1> SUFFICES Fetches(tr, o, b, path)
  OBVIOUS
<1>1. r \in [segments : Seq(Name), slash : BOOLEAN, method : STRING, download : BOOLEAN, gz : BOOLEAN]
  BY DirectoryAssumption DEF Name
<1>2. seg \in Seq(Name)
  BY <1>1
<1>3. /\ b.segments = (IF r.slash \/ seg = <<>> THEN seg ELSE Front(seg)) \o Href(r, n)
      /\ b.gz = FALSE /\ b.method = r.method /\ b.slash = slash
  BY <1>1 DEF Browse, IsDir
<1> HIDE DEF b
<1>4. \A t \in Seq(Name) : \A x \in Name : t \o <<x>> = Append(t, x)
  BY AppendIsConcat
<1>5. b.segments = Append(seg, n)
  <2>1. CASE r.slash \/ seg = <<>>
    <3>1. b.segments = seg \o <<n>>
      BY <1>3, <2>1 DEF Href
    <3> QED
      BY <1>2, <1>4, <3>1
  <2>2. CASE ~(r.slash \/ seg = <<>>)
    <3>1. PICK t \in Seq(Name), x \in Name : seg = Append(t, x)
      BY <1>2, <2>2, SequenceEmptyOrAppend
    <3>2. Front(seg) = t /\ Last(seg) = x
      BY <3>1, AppendParts
    <3>3. b.segments = t \o <<x, n>>
      BY <1>3, <2>2, <3>2 DEF Href
    <3>4. t \o <<x, n>> = Append(Append(t, x), n)
      <4>1. <<x, n>> = <<x>> \o <<n>>
        OBVIOUS
      <4>2. <<x>> \in Seq(Name) /\ <<n>> \in Seq(Name)
        OBVIOUS
      <4>3. t \o (<<x>> \o <<n>>) = (t \o <<x>>) \o <<n>>
        BY <4>2, ConcatAssociative
      <4>4. t \o <<x>> = Append(t, x) /\ Append(t, x) \in Seq(Name)
        BY <1>4, AppendProperties
      <4> QED
        BY <1>4, <4>1, <4>3, <4>4
    <3> QED
      BY <3>1, <3>3, <3>4
  <2> QED
    BY <2>1, <2>2
<1>6. Sanitize(b.segments) = path
  BY <1>2, <1>5, SanitizeSteps DEF Push
<1>7. Lookup(o, b) = path
  BY <1>6 DEF Lookup, Pushed
<1> QED
  BY <1>3, <1>7 DEF Fetches

\* A listing shows what the server serves, and nothing it refuses.
THEOREM ListingsAgree == Spec => []ListingAgrees
<1>1. Exchange => ListingAgrees
  <2> SUFFICES ASSUME Exchange, reply.kind = "listing", ~Pushed(opts, request),
                      NEW p \in Children(tree, Real(tree, reply.path))
               PROVE  LET path   == Append(reply.path, Last(p))
                          answer == Handle(tree, opts, Browse(request, Href(request, Last(p)),
                                                              IsDir(tree, path)))
                      IN  /\ Last(p) \in Listed(tree, opts, reply.path) =>
                                answer.status \notin {403, 404}
                          /\ Last(p) \notin Listed(tree, opts, reply.path)
                               /\ ~Exists(tree, WithSuffix(path, ".html"))
                               => answer.status \in {403, 404}
    BY DEF ListingAgrees
  <2> DEFINE s    == Sanitize(request.segments)
             n    == Last(p)
             path == Append(s, n)
             b    == Browse(request, Href(request, n), IsDir(tree, path))
  <2>1. request \in Requests /\ reply = Handle(tree, opts, request)
    BY DEF Exchange
  <2>2. /\ s \in Seq(Name) /\ s # <<>> /\ reply.path = s /\ IsDir(tree, s)
        /\ Denied(tree, opts, s) = 200 /\ request.method \in {"GET", "HEAD"} /\ opts.listing
        /\ ~(opts.memoryCache /\ opts.redirectSlash)
    <3>1. Lookup(opts, request) = s
      BY DEF Lookup
    <3> HIDE DEF s
    <3>2. /\ s \in Seq(Name) /\ s # <<>> /\ reply.path = s /\ IsDir(tree, s)
          /\ Denied(tree, opts, s) = 200 /\ request.method \in {"GET", "HEAD"} /\ opts.listing
          /\ opts.redirectSlash => request.slash
      BY <2>1, <3>1, ShownReply
    <3> QED
      BY <3>2 DEF Pushed
  <2> HIDE DEF s
  <2>3. Real(tree, s) \in Seq(Name) /\ tree \subseteq Paths
    BY <2>2, RealFacts DEF IsDir, Exchange
  <2>4. /\ p \in tree /\ p = Append(Real(tree, s), n) /\ n \in Name /\ n \notin {".", ".."}
    <3>1. p \in Children(tree, Real(tree, s))
      BY <2>2
    <3> QED
      BY ONLY <2>3, <3>1, ChildIs
  <2>5. Fetches(tree, opts, b, path)
    BY <2>1, <2>2, <2>4, BrowseFacts DEF s
  <2>6. n \in Listed(tree, opts, s) <=> Shown(tree, opts, path, n)
    BY <2>2 DEF Listed, Shown
  <2> HIDE DEF b, n
  <2>7. /\ Shown(tree, opts, path, n) => Handle(tree, opts, b).status \notin {403, 404}
        /\ ~Shown(tree, opts, path, n) /\ ~Exists(tree, Html(path)) =>
              Handle(tree, opts, b).status \in {403, 404}
    BY <2>2, <2>3, <2>4, <2>5, EntryAnswer
  <2>8. reply.path = s
    BY <2>2
  <2> QED
    BY <2>6, <2>7, <2>8 DEF b, n, Html
<1> QED
  BY <1>1, Exchanges, PTL

-----------------------------------------------------------------------------
(* What stays true of a path while the files come and go.                  *)

\* Where a path leads does not depend on what else is there.
LEMMA RealGrows ==
    ASSUME NEW tr, NEW u, tr \subseteq u, u \subseteq Paths, NEW p \in Seq(Name), Exists(tr, p)
    PROVE  Exists(u, p) /\ Real(u, p) = Real(tr, p)
<1>1. tr \subseteq Paths
  OBVIOUS
<1>2. PICK at \in Walk(tr, p) : Real(tr, p) = at.path
  BY <1>1, RealWalk DEF Exists
<1>3. at \in Walk(u, p)
  BY <1>1, <1>2, WalkFacts
<1> QED
  BY <1>2, <1>3, RealWalk DEF Exists

\* What a name is does not, either.
LEMMA LstatGrows ==
    ASSUME NEW tr, NEW u, tr \subseteq u, u \subseteq Paths, NEW p \in Seq(Name), p # <<>>,
           Lstat(tr, p) # Missing
    PROVE  Lstat(u, p) = Lstat(tr, p)
<1>1. PICK d \in Seq(Name), n \in Name : p = Append(d, n)
  BY SequenceEmptyOrAppend
<1>2. Exists(tr, d) /\ Append(Real(tr, d), n) \in tr /\ Lstat(tr, p) = Kind[Append(Real(tr, d), n)]
  BY <1>1, LstatAppend
<1>3. Exists(u, d) /\ Real(u, d) = Real(tr, d)
  BY <1>2, RealGrows
<1>4. Lstat(u, p) = Kind[Append(Real(u, d), n)]
  BY <1>1, <1>2, <1>3, LstatAppend
<1> QED
  BY <1>2, <1>3, <1>4

\* All paths there may be are a file system.
LEMMA AllPaths == FileSystem(Paths) /\ Paths \subseteq Seq(Name) /\ <<>> \notin Paths
  BY StaticPathAssumption, EmptySeq DEF FileSystem, Name

\* A path that is no link leads to itself or nowhere.
LEMMA Plain ==
    ASSUME NEW tr, tr \subseteq Paths, NEW p \in Paths \ Links, Exists(tr, p)
    PROVE  Real(tr, p) = p
<1>1. p \in Seq(Name) /\ Paths \subseteq Paths
  BY AllPaths
<1>2. Real(Paths, p) = p
  BY <1>1, AllPaths, Canonical
<1>3. Real(Paths, p) = Real(tr, p)
  BY <1>1, RealGrows
<1> QED
  BY <1>2, <1>3

\* What a path that may be there is, if it is there.
LEMMA LstatPlain ==
    ASSUME NEW tr, tr \subseteq Paths, NEW p \in Paths, Lstat(tr, p) # Missing
    PROVE  Lstat(tr, p) = Kind[p]
<1>1. p \in Seq(Name) /\ p # <<>>
  BY AllPaths
<1>2. PICK d \in Seq(Name), n \in Name : p = Append(d, n)
  BY <1>1, SequenceEmptyOrAppend
<1>3. Exists(tr, d) /\ Lstat(tr, p) = Kind[Append(Real(tr, d), n)]
  BY <1>2, LstatAppend
<1>4. Front(p) = d /\ Len(p) = Len(d) + 1 /\ Len(d) \in Nat
  BY <1>2, AppendParts
<1>5. Real(tr, d) = d
  <2>1. CASE Len(d) = 0
    <3>1. d = <<>>
      BY <2>1, EmptySeq
    <3>2. Walk(tr, d) = {[path |-> <<>>, links |-> 0]}
      BY <3>1, WalkSteps DEF Start
    <3>3. [path |-> <<>>, links |-> 0].path = <<>>
      OBVIOUS
    <3> QED
      BY <3>1, <3>2, <3>3, RealWalk
  <2>2. CASE Len(d) # 0
    <3>1. d \in Paths /\ Kind[d] = "dir"
      BY <1>4, <2>2, StaticPathAssumption
    <3>2. d \in Paths \ Links
      BY <3>1 DEF Links
    <3> QED
      BY <1>3, <3>2, Plain
  <2> QED
    BY <2>1, <2>2
<1> QED
  BY <1>2, <1>3, <1>5

\* A path below the root that exists and has no links in it is its own.
LEMMA NoLinks ==
    ASSUME NEW tr, tr \subseteq Paths, FileSystem(tr), NEW p \in Seq(Name),
           IsPrefix(Root, p), Exists(tr, p), ~ContainsSymlink(tr, p)
    PROVE  p \in tr \ Links
<1> DEFINE Good(s) == IsPrefix(Root, s) /\ Exists(tr, s) /\ ~ContainsSymlink(tr, s)
           G == {s \in Seq(Name) : Good(s) => s \in tr \ Links}
<1>1. Root \in tr \ Links /\ Root \in Seq(Name) /\ Root # <<>>
  BY StaticPathAssumption, AllPaths DEF FileSystem, Links
<1>2. <<>> \in G
  <2>1. ~IsPrefix(Root, <<>>)
    <3>1. Len(Root) \in Nat /\ Len(Root) # 0 /\ Len(<<>>) = 0
      BY <1>1, EmptySeq, LenProperties
    <3> QED
      BY <3>1 DEF IsPrefix
  <2> QED
    BY <2>1, EmptySeq
<1>3. ASSUME NEW s \in Seq(Name), NEW x \in Name, s \in G PROVE Append(s, x) \in G
  <2> DEFINE t == Append(s, x)
  <2>1. t \in Seq(Name) /\ Len(t) = Len(s) + 1 /\ Len(s) \in Nat /\ Len(Root) \in Nat
    BY <1>1, AppendProperties, LenProperties
  <2> SUFFICES ASSUME Good(t) PROVE t \in tr \ Links
    BY <2>1
  <2>2. CASE Len(Root) = Len(t)
    <3>1. SubSeq(Root, 1, Len(Root)) = Root /\ SubSeq(t, 1, Len(t)) = t
      BY <1>1, <2>1, SubSeqFull
    <3>2. Root = t
      BY <2>2, <3>1 DEF IsPrefix
    <3> QED
      BY <1>1, <3>2
  <2>3. CASE Len(Root) # Len(t)
    <3>1. Len(Root) \in 0 .. Len(s)
      BY <2>1, <2>3 DEF IsPrefix
    <3>2. SubSeq(t, 1, Len(Root)) = SubSeq(s, 1, Len(Root))
      BY <3>1, Beginnings
    <3>3. IsPrefix(Root, s)
      BY <2>1, <3>1, <3>2 DEF IsPrefix
    <3>4. ~ContainsSymlink(tr, s) /\ Lstat(tr, t) # "link"
      BY <3>3, OneMore
    <3>5. Exists(tr, s) /\ Append(Real(tr, s), x) \in tr
      BY RealAppend
    <3>6. s \in tr \ Links
      BY <1>3, <3>3, <3>4, <3>5
    <3>7. Real(tr, s) = s
      BY <3>6, Canonical
    <3>8. t \in tr /\ Lstat(tr, t) = Kind[t]
      BY <3>5, <3>7, LstatAppend
    <3> QED
      BY <3>4, <3>8 DEF Links
  <2> QED
    BY <2>2, <2>3
<1>4. Seq(Name) \subseteq G
  <2> HIDE DEF G
  <2> QED
    BY <1>2, <1>3, SeqInduct
<1> QED
  BY <1>4

-----------------------------------------------------------------------------
(* The archive.  Entries wait on the stack, the task works on one, and what *)
(* is stored is held back, in the channel or received.                      *)

AdmittedBy(o, name) == ~(o.ignoreHidden /\ IsHiddenName(name))

\* Every name of a path below the directory is admitted.
Visible(base, o, path) == \A k \in Len(base) + 1 .. Len(path) : AdmittedBy(o, path[k])

\* An entry that was read: when links are not followed it is no other than its
\* path, and what is not a directory and not a link is not so in any file system.
SoundEntry(base, o, e) ==
    /\ e.path # <<>> /\ Visible(base, o, e.path)
    /\ o.disableSymlinks => e.path \in Paths /\ (e.dir => Kind[e.path] = "dir")
    /\ e.dir \/ (Lstat(Paths, e.path) # "dir" /\ (e.link \/ Lstat(Paths, e.path) # "link"))

SoundEntries(base, o) ==
    {e \in [path : Seq(Name), dir : BOOLEAN, link : BOOLEAN] : SoundEntry(base, o, e)}

\* An entry that was stored.
SoundItem(base, o, i) ==
    /\ i.path \in Seq(Name) /\ i.path # <<>> /\ Visible(base, o, i.path)
    /\ o.disableSymlinks => i.path \in Paths /\ i.kind = Kind[i.path]

\* The admitted entries of a directory are among some paths.
ChildrenIn(st, o, q, C) ==
    Exists(st, q) => \A p \in Children(st, Real(st, q)) :
        AdmittedBy(o, Last(p)) => Append(q, Last(p)) \in C

\* The same of all directories that are stored, and of the one asked for.
Complete(st, o, base, S, C) ==
    /\ base \in C
    /\ \A i \in S : i.kind = "dir" => ChildrenIn(st, o, i.path, C)

PathsOf(S) == {x.path : x \in S}
EntriesIn(fr) == UNION {fr[k] : k \in DOMAIN fr}

\* A stack: what is pushed onto it, and what is at its top.
LEMMA EntriesPushed ==
    ASSUME NEW S, NEW fr \in Seq(S), NEW X \in S
    PROVE  EntriesIn(Append(fr, X)) = EntriesIn(fr) \cup X /\ Append(fr, X) \in Seq(S)
<1> DEFINE t == Append(fr, X)
<1>1. /\ t \in Seq(S) /\ Len(t) = Len(fr) + 1 /\ Len(fr) \in Nat /\ t[Len(fr) + 1] = X
      /\ \A k \in 1 .. Len(fr) : t[k] = fr[k]
  BY AppendProperties, LenProperties
<1>2. DOMAIN t = 1 .. Len(fr) + 1 /\ DOMAIN fr = 1 .. Len(fr)
  BY <1>1, LenProperties
<1> HIDE DEF t
<1>3. \A k : k \in 1 .. Len(fr) + 1 <=> k \in 1 .. Len(fr) \/ k = Len(fr) + 1
  BY <1>1
<1>4. ASSUME NEW e PROVE e \in EntriesIn(t) <=> e \in EntriesIn(fr) \/ e \in X
  <2>1. e \in EntriesIn(t) <=> \E k \in 1 .. Len(fr) + 1 : e \in t[k]
    BY <1>2 DEF EntriesIn
  <2>2. e \in EntriesIn(fr) <=> \E k \in 1 .. Len(fr) : e \in fr[k]
    BY <1>2 DEF EntriesIn
  <2> QED
    BY <1>1, <1>3, <2>1, <2>2
<1>5. EntriesIn(t) = EntriesIn(fr) \cup X
  BY <1>4
<1> QED
  BY <1>1, <1>5 DEF t

\* The entries of the frames are those of the last one and of the others.
LEMMA EntriesTop ==
    ASSUME NEW S, NEW fr \in Seq(S), fr # <<>>
    PROVE  /\ Front(fr) \in Seq(S) /\ Last(fr) \in S
           /\ EntriesIn(fr) = EntriesIn(Front(fr)) \cup Last(fr)
<1>1. PICK t \in Seq(S), x \in S : fr = Append(t, x)
  BY SequenceEmptyOrAppend
<1>2. Front(fr) = t /\ Last(fr) = x
  BY <1>1, AppendParts
<1> QED
  BY <1>1, <1>2, EntriesPushed

\* With less that is there all along, or more that is stored, a directory
\* stays complete.
LEMMA ChildrenStay ==
    ASSUME NEW st, NEW su, su \subseteq st, st \subseteq Paths, NEW o, NEW q \in Seq(Name),
           NEW C, NEW D, C \subseteq D, ChildrenIn(st, o, q, C)
    PROVE  ChildrenIn(su, o, q, D)
<1> SUFFICES ASSUME Exists(su, q), NEW p \in Children(su, Real(su, q)), AdmittedBy(o, Last(p))
             PROVE  Append(q, Last(p)) \in D
  BY DEF ChildrenIn
<1>1. Exists(st, q) /\ Real(st, q) = Real(su, q)
  BY RealGrows
<1>2. p \in Children(st, Real(st, q))
  BY <1>1 DEF Children
<1> QED
  BY <1>1, <1>2 DEF ChildrenIn

\* One more admitted name.
LEMMA VisibleAppend ==
    ASSUME NEW base, NEW o, NEW q \in Seq(Name), NEW n \in Name, Visible(base, o, q),
           AdmittedBy(o, n), Len(base) \in Nat
    PROVE  Visible(base, o, Append(q, n))
<1> DEFINE t == Append(q, n)
<1>1. /\ Len(t) = Len(q) + 1 /\ Len(q) \in Nat /\ t[Len(q) + 1] = n
      /\ \A k \in 1 .. Len(q) : t[k] = q[k]
  BY AppendParts
<1> HIDE DEF t
<1> SUFFICES ASSUME NEW k \in Len(base) + 1 .. Len(t) PROVE AdmittedBy(o, t[k])
  BY DEF Visible, t
<1>2. CASE k = Len(q) + 1
  BY <1>1, <1>2
<1>3. CASE k # Len(q) + 1
  <2>1. k \in Len(base) + 1 .. Len(q) /\ k \in 1 .. Len(q)
    BY <1>1, <1>3
  <2> QED
    BY <1>1, <2>1 DEF Visible
<1> QED
  BY <1>2, <1>3

\* The entries that are read from a directory.
ReadEntry(tr, path) == Entry(path, Lstat(tr, path) = "dir", Lstat(tr, path) = "link")

\* An entry that the walker reads from a sound directory and does not filter out
\* is sound.
LEMMA EntriesSound ==
    ASSUME NEW tr, tr \subseteq Paths, NEW base, Len(base) \in Nat, NEW o,
           NEW q \in Seq(Name), q # <<>>, Visible(base, o, q),
           o.disableSymlinks => q \in Paths \ Links, IsDir(tr, q),
           NEW c \in Children(tr, Real(tr, q)), AdmittedBy(o, Last(c))
    PROVE  ReadEntry(tr, Append(q, Last(c))) \in SoundEntries(base, o)
<1> DEFINE n    == Last(c)
           path == Append(q, n)
           e    == ReadEntry(tr, path)
<1>1. Exists(tr, q) /\ q \in Seq(Name) /\ tr \subseteq Paths
  BY DEF IsDir
<1>2. Real(tr, q) \in Seq(Name)
  BY <1>1, RealFacts
<1>3. c \in tr /\ c = Append(Real(tr, q), n) /\ n \in Name
  <2>1. c \in Children(tr, Real(tr, q))
    OBVIOUS
  <2> QED
    BY ONLY <1>1, <1>2, <2>1, ChildIs
<1>4. path \in Seq(Name) /\ path # <<>> /\ Visible(base, o, path)
  BY <1>3, AppendProperties, VisibleAppend
<1> HIDE DEF n
<1>5. Lstat(tr, path) = Kind[c]
  <2>1. Lstat(tr, Append(q, n)) = Kind[Append(Real(tr, q), n)]
    BY ONLY <1>1, <1>3, LstatAppend
  <2> QED
    BY <1>3, <2>1
<1>6. Kind[c] \in {"file", "dir", "link"}
  BY <1>3, StaticPathAssumption
<1>7. Lstat(Paths, path) = Kind[c]
  <2>1. Exists(Paths, q) /\ Real(Paths, q) = Real(tr, q)
    BY <1>1, RealGrows
  <2>2. Append(Real(Paths, q), n) \in Paths
    BY <1>3, <2>1
  <2>3. Lstat(Paths, Append(q, n)) = Kind[Append(Real(Paths, q), n)]
    BY ONLY <1>1, <2>1, <2>2, LstatAppend
  <2> QED
    BY <1>3, <2>1, <2>3
<1>8. ASSUME o.disableSymlinks PROVE path \in Paths /\ path = c
  <2>1. Real(tr, q) = q
    BY <1>1, <1>8, Plain
  <2> QED
    BY <1>3, <2>1
<1> HIDE DEF path
<1>9. /\ e.path = path /\ e.dir = (Kind[c] = "dir") /\ e.link = (Kind[c] = "link")
      /\ e \in [path : Seq(Name), dir : BOOLEAN, link : BOOLEAN]
  BY <1>4, <1>5 DEF ReadEntry, Entry
<1> HIDE DEF e
<1>10. SoundEntry(base, o, e)
  BY <1>4, <1>7, <1>8, <1>9 DEF SoundEntry
<1> QED
  BY <1>9, <1>10 DEF SoundEntries, e, path, n

\* What is stored for an entry.
LEMMA ItemsSound ==
    ASSUME NEW tr, tr \subseteq Paths, NEW base, NEW o, NEW e \in SoundEntries(base, o), NEW kind,
           o.disableSymlinks =>
              \/ e.dir /\ Exists(tr, e.path) /\ kind = Kind[Real(tr, e.path)]
              \/ kind = Lstat(tr, e.path) /\ kind # Missing
    PROVE  SoundItem(base, o, Item(e.path, kind))
<1>1. e.path \in Seq(Name) /\ SoundEntry(base, o, e)
  BY DEF SoundEntries
<1>2. Item(e.path, kind).path = e.path /\ Item(e.path, kind).kind = kind
  BY DEF Item
<1>3. ASSUME o.disableSymlinks PROVE e.path \in Paths /\ kind = Kind[e.path]
  <2>1. e.path \in Paths /\ (e.dir => Kind[e.path] = "dir")
    BY <1>1, <1>3 DEF SoundEntry
  <2>2. CASE e.dir /\ Exists(tr, e.path) /\ kind = Kind[Real(tr, e.path)]
    <3>1. e.path \in Paths \ Links
      BY <2>1, <2>2 DEF Links
    <3>2. Real(tr, e.path) = e.path
      BY <2>2, <3>1, Plain
    <3> QED
      BY <2>1, <2>2, <3>2
  <2>3. CASE kind = Lstat(tr, e.path) /\ kind # Missing
    BY <2>1, <2>3, LstatPlain
  <2> QED
    BY <1>3, <2>2, <2>3
<1> QED
  BY <1>1, <1>2, <1>3 DEF SoundItem, SoundEntry

\* The directory itself, when its archive is made.
FirstEntry(s) == Entry(s, TRUE, FALSE)

\* The first entry of an archive is sound: the request was checked before.
LEMMA FirstSound ==
    ASSUME NEW tr, tr \subseteq Paths, FileSystem(tr), NEW o, NEW s \in Seq(Name), s # <<>>,
           IsDir(tr, s), Denied(tr, o, s) = 200
    PROVE  FirstEntry(s) \in SoundEntries(s, o)
<1> DEFINE e == FirstEntry(s)
<1>1. /\ IsPrefix(Root, s) /\ Exists(tr, s)
      /\ ~(o.disableSymlinks /\ ContainsSymlink(tr, s))
  BY DEF Denied
<1>2. ASSUME o.disableSymlinks PROVE s \in Paths /\ Kind[s] = "dir"
  <2>1. s \in tr \ Links
    BY <1>1, <1>2, NoLinks
  <2>2. Real(tr, s) = s
    BY <2>1, Canonical
  <2> QED
    BY <2>1, <2>2 DEF IsDir
<1>3. /\ e.path = s /\ e.dir = TRUE /\ e.link = FALSE
      /\ e \in [path : Seq(Name), dir : BOOLEAN, link : BOOLEAN]
  BY DEF FirstEntry, Entry
<1>4. Visible(s, o, s)
  <2>1. Len(s) + 1 .. Len(s) = {}
    BY LenProperties
  <2> QED
    BY <2>1 DEF Visible
<1> HIDE DEF e
<1>5. SoundEntry(s, o, e)
  BY <1>2, <1>3, <1>4 DEF SoundEntry
<1> QED
  BY <1>3, <1>5 DEF SoundEntries, e

\* What is taken for a file is not a directory that was there all along.
LEMMA FilesSound ==
    ASSUME NEW st, NEW tr, st \subseteq tr, tr \subseteq Paths, NEW base, NEW o,
           NEW e \in SoundEntries(base, o), ~e.dir, ~(e.link /\ IsDir(tr, e.path)),
           Exists(st, e.path)
    PROVE  Kind[Real(st, e.path)] # "dir"
<1> DEFINE p == e.path
<1> SUFFICES ASSUME Kind[Real(st, p)] = "dir" PROVE FALSE
  OBVIOUS
<1>1. p \in Seq(Name) /\ SoundEntry(base, o, e)
  BY DEF SoundEntries
<1>2. p # <<>>
  BY <1>1 DEF SoundEntry
<1>3. Exists(tr, p) /\ Real(tr, p) = Real(st, p)
  <2>1. Exists(st, p) /\ st \subseteq tr /\ tr \subseteq Paths
    OBVIOUS
  <2> HIDE DEF p
  <2> QED
    BY ONLY <1>1, <2>1, RealGrows
<1>4. ~e.link
  BY <1>3 DEF IsDir
<1>5. Lstat(Paths, p) \notin {"dir", "link"}
  BY <1>1, <1>4 DEF SoundEntry
<1> HIDE DEF p
<1>6. st \subseteq Paths /\ Paths \subseteq Paths /\ Exists(st, p)
  BY DEF p
<1>7. Exists(Paths, p) /\ Real(Paths, p) = Real(st, p)
  BY ONLY <1>1, <1>6, RealGrows
<1>8. PICK d \in Seq(Name), n \in Name : p = Append(d, n)
  BY <1>1, <1>2, SequenceEmptyOrAppend
<1> DEFINE c == Append(Real(Paths, d), n)
<1>9. /\ Exists(Paths, d) /\ c \in Paths
      /\ Real(Paths, p) = IF c \in Links THEN Target[c] ELSE c
  BY <1>6, <1>7, <1>8, RealAppend
<1>10. Lstat(Paths, p) = Kind[c]
  BY <1>8, <1>9, LstatAppend
<1> HIDE DEF c
<1>11. c \notin Links
  BY <1>5, <1>10 DEF Links
<1> QED
  BY <1>5, <1>7, <1>9, <1>10, <1>11

-----------------------------------------------------------------------------
(* The inductive invariant of the archive: first, what entries and items are. *)

Items == buf \cup slot \cup received
Working == pc \in {"read", "dir", "file"}

\* Nothing happens before a download, entries and items are sound, a directory
\* is read only if it is one, and what is stored as a file is none that was
\* there all along.
Shape ==
    /\ client \in {"idle", "replied"} =>
          /\ pc = "none" /\ mode = "walking" /\ frames = <<>>
          /\ buf = {} /\ slot = {} /\ received = {}
    /\ client \notin {"idle", "replied"} => Len(reply.path) \in Nat
    /\ stable \subseteq tree
    /\ frames \in Seq(SUBSET SoundEntries(reply.path, opts))
    /\ Working => entry \in SoundEntries(reply.path, opts)
    /\ \A i \in Items : i = Trailer \/ SoundItem(reply.path, opts, i)
    /\ pc \in {"read", "dir"} /\ opts.disableSymlinks => entry.dir
    /\ pc = "file" =>
          /\ ~entry.dir
          /\ Follow /\ Exists(stable, entry.path) => Kind[Real(stable, entry.path)] # "dir"

\* The shape at first.
LEMMA ShapeInit == Init => Shape
<1> SUFFICES ASSUME Init PROVE Shape
  OBVIOUS
<1>1. frames \in Seq(SUBSET SoundEntries(reply.path, opts))
  BY EmptySeq DEF Init
<1> QED
  BY <1>1 DEF Init, Shape, Items, Working

\* Steps that neither read nor store an entry.
LEMMA ShapeQuiet ==
    ASSUME Shape, UNCHANGED <<tree, stable, opts, reply, frames, entry>>, Items' \subseteq Items,
           pc' = pc \/ pc' \notin {"read", "dir", "file"},
           client \notin {"idle", "replied"}, client' \notin {"idle", "replied"}
    PROVE  Shape'
  BY DEF Shape, Working, Follow

\* A request.
LEMMA ShapeRequest ==
    ASSUME Exchange, Shape, NEW r \in Requests, Request(r)
    PROVE  Shape'
<1>1. /\ client = "idle" /\ UNCHANGED <<tree, opts, mode, entry, buf, slot, received>>
      /\ reply' = Handle(tree, opts, r)
  BY DEF Request, channel
<1>2. pc = "none" /\ mode = "walking" /\ frames = <<>> /\ buf = {} /\ slot = {} /\ received = {}
  BY <1>1 DEF Shape
<1>3. CASE reply'.kind = "archive" /\ r.method # "HEAD"
  <2> DEFINE s == Lookup(opts, r)
  <2>1. /\ client' = "reading" /\ pc' = "walk" /\ stable' = tree
        /\ frames' = <<{FirstEntry(reply'.path)}>>
    BY <1>3 DEF Request, FirstEntry
  <2>2. /\ s \in Seq(Name) /\ s # <<>> /\ reply'.path = s /\ IsDir(tree, s)
        /\ Denied(tree, opts, s) = 200
    BY <1>1, <1>3, ShownReply
  <2> HIDE DEF s
  <2>3. FirstEntry(s) \in SoundEntries(s, opts)
    BY <2>2, FirstSound DEF Exchange
  <2>4. frames' \in Seq(SUBSET SoundEntries(reply'.path, opts'))
    BY <1>1, <2>1, <2>2, <2>3
  <2>5. Len(reply'.path) \in Nat
    BY <2>2, LenProperties
  <2> QED
    BY <1>1, <1>2, <2>1, <2>4, <2>5 DEF Shape, Items, Working
<1>4. CASE ~(reply'.kind = "archive" /\ r.method # "HEAD")
  <2>1. client' = "replied" /\ UNCHANGED <<pc, frames, stable>>
    BY <1>4 DEF Request
  <2>2. frames' \in Seq(SUBSET SoundEntries(reply'.path, opts'))
    <3>1. frames' = <<>>
      BY <1>2, <2>1
    <3> QED
      BY ONLY <3>1, EmptySeq
  <2> QED
    BY <1>1, <1>2, <2>1, <2>2 DEF Shape, Items, Working
<1> QED
  BY <1>3, <1>4

\* Things come and go.
LEMMA ShapeChange ==
    ASSUME Exchange, Shape, Change
    PROVE  Shape'
<1>1. /\ client = "reading" /\ stable' = stable \cap tree'
      /\ UNCHANGED <<opts, client, reply, pc, mode, frames, entry, buf, slot, received>>
  BY DEF Change, task, channel
<1>2. ASSUME pc = "file", Follow, Exists(stable', entry.path)
      PROVE  Kind[Real(stable', entry.path)] # "dir"
  <2>1. entry \in SoundEntries(reply.path, opts)
    BY <1>2 DEF Shape, Working
  <2>2. entry.path \in Seq(Name)
    BY <2>1 DEF SoundEntries
  <2>3. stable' \subseteq stable /\ stable \subseteq Paths
    BY <1>1 DEF Shape, Exchange
  <2>4. Exists(stable, entry.path) /\ Real(stable, entry.path) = Real(stable', entry.path)
    BY <1>2, <2>2, <2>3, RealGrows
  <2> QED
    BY <1>2, <2>4 DEF Shape
<1>3. stable' \subseteq tree'
  BY <1>1
<1> QED
  BY <1>1, <1>2, <1>3 DEF Shape, Working, Items, Follow

\* An entry is taken from the stack.
LEMMA ShapePop ==
    ASSUME Exchange, Shape, Pop
    PROVE  Shape'
<1> DEFINE SE == SoundEntries(reply.path, opts)
<1>1. /\ pc = "walk" /\ frames # <<>>
      /\ UNCHANGED <<tree, opts, stable, client, reply, slot, received, mode, buf>>
  BY DEF Pop, Walking, channel
<1>2. PICK e \in Last(frames) :
         /\ entry' = e
         /\ frames' = IF Last(frames) = {e} THEN Front(frames)
                      ELSE Append(Front(frames), Last(frames) \ {e})
         /\ pc' = IF e.dir \/ (e.link /\ Follow /\ IsDir(tree, e.path)) THEN "read" ELSE "file"
  BY DEF Pop
<1>3. frames \in Seq(SUBSET SE)
  BY DEF Shape
<1> HIDE DEF SE
<1>4. Front(frames) \in Seq(SUBSET SE) /\ Last(frames) \in SUBSET SE
  BY <1>1, <1>3, EntriesTop
<1>5. frames' \in Seq(SUBSET SE)
  <2>1. Last(frames) \ {e} \in SUBSET SE
    BY <1>4
  <2>2. Append(Front(frames), Last(frames) \ {e}) \in Seq(SUBSET SE)
    BY <1>4, <2>1, AppendProperties
  <2> QED
    BY <1>2, <1>4, <2>2
<1>6. e \in SE
  BY <1>2, <1>4
<1>7. ASSUME pc' = "read", opts.disableSymlinks PROVE e.dir
  BY <1>2, <1>7 DEF Follow
<1>8. ASSUME pc' = "file"
      PROVE  ~e.dir /\ (Follow /\ Exists(stable, e.path) => Kind[Real(stable, e.path)] # "dir")
  <2>1. ~e.dir /\ ~(e.link /\ Follow /\ IsDir(tree, e.path))
    BY <1>2, <1>8
  <2>2. ASSUME Follow, Exists(stable, e.path) PROVE Kind[Real(stable, e.path)] # "dir"
    <3>1. ~(e.link /\ IsDir(tree, e.path))
      BY <2>1, <2>2
    <3>2. stable \subseteq tree /\ tree \subseteq Paths /\ e \in SoundEntries(reply.path, opts)
      BY <1>6 DEF Shape, Exchange, SE
    <3> QED
      BY ONLY <2>1, <2>2, <3>1, <3>2, FilesSound
  <2> QED
    BY <2>1, <2>2
<1>9. pc' \in {"read", "file"}
  BY <1>2
<1>10. client \notin {"idle", "replied"}
  BY <1>1 DEF Shape
<1> QED
  BY <1>1, <1>2, <1>5, <1>6, <1>7, <1>8, <1>9, <1>10 DEF Shape, Working, Items, Follow, SE

\* The entries of a directory, one by one.
LEMMA EntriesOfFacts ==
    ASSUME NEW q
    PROVE  /\ \A e \in EntriesOf(q) : \E c \in Children(tree, Real(tree, q)) :
                 AdmittedBy(opts, Last(c)) /\ e = ReadEntry(tree, Append(q, Last(c)))
           /\ \A c \in Children(tree, Real(tree, q)) : AdmittedBy(opts, Last(c)) =>
                 ReadEntry(tree, Append(q, Last(c))) \in EntriesOf(q)
<1> DEFINE cs == {c \in Children(tree, Real(tree, q)) : AdmittedBy(opts, Last(c))}
           ps == {Append(q, Last(c)) : c \in cs}
<1>1. EntriesOf(q) = {ReadEntry(tree, p) : p \in ps}
  BY DEF EntriesOf, ReadEntry, Admitted, AdmittedBy
<1>2. \A p \in ps : \E c \in Children(tree, Real(tree, q)) :
         AdmittedBy(opts, Last(c)) /\ p = Append(q, Last(c))
  OBVIOUS
<1>3. \A c \in Children(tree, Real(tree, q)) : AdmittedBy(opts, Last(c)) => Append(q, Last(c)) \in ps
  OBVIOUS
<1> HIDE DEF ps
<1> QED
  BY <1>1, <1>2, <1>3

\* A directory is read.
LEMMA ShapeReadDir ==
    ASSUME Exchange, Shape, ReadDir
    PROVE  Shape'
<1> DEFINE SE == SoundEntries(reply.path, opts)
           q  == entry.path
<1>1. /\ pc = "read"
      /\ UNCHANGED <<tree, opts, stable, client, reply, slot, received, buf, entry>>
  BY DEF ReadDir, Walking, channel
<1>2. client \notin {"idle", "replied"} /\ entry \in SE /\ frames \in Seq(SUBSET SE)
  BY <1>1 DEF Shape, Working
<1>3. CASE IsDir(tree, q)
  <2>1. /\ frames' = IF EntriesOf(q) = {} THEN frames ELSE Append(frames, EntriesOf(q))
        /\ pc' = "dir" /\ mode' = mode
    BY <1>3 DEF ReadDir
  <2>2. EntriesOf(q) \in SUBSET SE
    <3> SUFFICES ASSUME NEW c \in Children(tree, Real(tree, q)), AdmittedBy(opts, Last(c))
                 PROVE  ReadEntry(tree, Append(q, Last(c))) \in SE
      BY EntriesOfFacts
    <3>1. q \in Seq(Name) /\ SoundEntry(reply.path, opts, entry)
      BY <1>2 DEF SoundEntries
    <3>2. q # <<>> /\ Visible(reply.path, opts, q)
      BY <3>1 DEF SoundEntry
    <3>3. opts.disableSymlinks => q \in Paths \ Links
      <4>1. opts.disableSymlinks => entry.dir
        BY <1>1 DEF Shape
      <4>2. opts.disableSymlinks => q \in Paths /\ Kind[q] = "dir"
        BY <3>1, <4>1 DEF SoundEntry
      <4> QED
        BY <4>2 DEF Links
    <3>4. Len(reply.path) \in Nat /\ tree \subseteq Paths /\ AdmittedBy(opts, Last(c))
      BY <1>2 DEF Shape, Exchange
    <3>5. IsDir(tree, q) /\ c \in Children(tree, Real(tree, q))
      BY <1>3
    <3> HIDE DEF q
    <3>6. ReadEntry(tree, Append(q, Last(c))) \in SoundEntries(reply.path, opts)
      BY ONLY <3>1, <3>2, <3>3, <3>4, <3>5, EntriesSound
    <3> QED
      BY <3>6
  <2> HIDE DEF SE
  <2>3. frames' \in Seq(SUBSET SE)
    BY <1>2, <2>1, <2>2, AppendProperties
  <2> QED
    BY <1>1, <1>2, <2>1, <2>3 DEF Shape, Working, Items, Follow, SE
<1>4. CASE ~IsDir(tree, q)
  <2>1. frames' = frames /\ pc' \in {"write", "over"}
    BY <1>4 DEF ReadDir, GiveUp
  <2>2. Items' \subseteq Items
    BY <1>1 DEF Items
  <2> QED
    BY <1>1, <1>2, <2>1, <2>2, ShapeQuiet
<1> QED
  BY <1>3, <1>4

\* An entry is stored.
LEMMA ShapeAppendEntry ==
    ASSUME Exchange, Shape, AppendEntry
    PROVE  Shape'
<1>1. /\ pc \in {"dir", "file"}
      /\ UNCHANGED <<tree, opts, stable, client, reply, slot, received, frames, entry>>
  BY DEF AppendEntry, Walking, channel
<1>2. client \notin {"idle", "replied"} /\ entry \in SoundEntries(reply.path, opts)
  BY <1>1 DEF Shape, Working
<1>3. CASE StoredAs # Missing
  <2> DEFINE i == Item(entry.path, StoredAs)
  <2>1. buf' = buf \cup {i} /\ pc' \in {"walk", "write"} /\ mode' = mode
    BY <1>3 DEF AppendEntry
  <2>2. opts.disableSymlinks =>
           \/ entry.dir /\ Exists(tree, entry.path) /\ StoredAs = Kind[Real(tree, entry.path)]
           \/ StoredAs = Lstat(tree, entry.path) /\ StoredAs # Missing
    BY <1>1, <1>3 DEF StoredAs, Follow, Shape
  <2>3. tree \subseteq Paths
    BY DEF Exchange
  <2>4. SoundItem(reply.path, opts, i)
    BY ONLY <1>2, <2>2, <2>3, ItemsSound
  <2> HIDE DEF i
  <2>5. Items' = Items \cup {i}
    BY <1>1, <2>1 DEF Items
  <2>6. \A j \in Items' : j = Trailer \/ SoundItem(reply.path, opts, j)
    BY <2>4, <2>5 DEF Shape
  <2> QED
    BY <1>1, <1>2, <2>1, <2>6 DEF Shape, Working
<1>4. CASE StoredAs = Missing
  <2>1. buf' = buf /\ pc' \in {"write", "over"}
    BY <1>4 DEF AppendEntry, GiveUp
  <2>2. Items' \subseteq Items
    BY <1>1, <2>1 DEF Items
  <2> QED
    BY <1>1, <1>2, <2>1, <2>2, ShapeQuiet
<1> QED
  BY <1>3, <1>4

\* Every step keeps the shape.
LEMMA ShapeStep == Exchange /\ Shape /\ [Next]_vars => Shape'
<1> SUFFICES ASSUME Exchange, Shape, [Next]_vars PROVE Shape'
  OBVIOUS
<1>1. ASSUME NEW r \in Requests, Request(r) PROVE Shape'
  BY <1>1, ShapeRequest
<1>2. CASE Change
  BY <1>2, ShapeChange
<1>3. CASE Pop
  BY <1>3, ShapePop
<1>4. CASE ReadDir
  BY <1>4, ShapeReadDir
<1>5. CASE AppendEntry
  BY <1>5, ShapeAppendEntry
<1>6. CASE Finish
  <2>1. /\ pc = "walk" /\ pc' = "write" /\ buf' = buf \cup {Trailer}
        /\ UNCHANGED <<tree, opts, stable, client, reply, slot, received, frames, entry>>
    BY <1>6 DEF Finish, Walking, channel
  <2>2. \A i \in Items' : i \in Items \/ i = Trailer
    BY <2>1 DEF Items
  <2>3. client \notin {"idle", "replied"}
    BY <2>1 DEF Shape
  <2> QED
    BY <2>1, <2>2, <2>3 DEF Shape, Working
<1>7. CASE PollReady \/ TrySend \/ Resume
  <2>1. /\ UNCHANGED <<tree, opts, stable, client, reply, frames, entry, received>>
        /\ pc \in {"write", "send", "asleep"} /\ pc' \notin {"read", "dir", "file"}
    BY <1>7 DEF PollReady, TrySend, Resume, GiveUp
  <2>2. Items' \subseteq Items
    BY <1>7 DEF PollReady, TrySend, Resume, Items
  <2>3. client \notin {"idle", "replied"}
    BY <2>1 DEF Shape
  <2> QED
    BY <2>1, <2>2, <2>3, ShapeQuiet
<1>8. CASE Take \/ EndOfBody \/ DropWant \/ DropRx
  <2>1. /\ UNCHANGED <<tree, opts, stable, reply, frames, entry, pc>>
        /\ client \notin {"idle", "replied"} /\ client' \notin {"idle", "replied"}
    BY <1>8 DEF Take, EndOfBody, DropWant, DropRx, task, channel
  <2>2. Items' \subseteq Items
    BY <1>8 DEF Take, EndOfBody, DropWant, DropRx, task, channel, Items
  <2> QED
    BY <2>1, <2>2, ShapeQuiet
<1>9. CASE UNCHANGED vars
  BY <1>9 DEF vars, task, channel, Shape, Working, Items, Follow
<1> QED
  BY <1>1, <1>2, <1>3, <1>4, <1>5, <1>6, <1>7, <1>8, <1>9 DEF Next, Task

-----------------------------------------------------------------------------
(* Second, the order in which things are written: the trailer is the last.  *)

Writing == pc \in {"write", "send", "asleep", "over"}

Order ==
    /\ mode \in {"walking", "finishing", "failing"}
    /\ pc = "send" => slot = {}
    /\ mode # "walking" => Writing
    /\ mode = "finishing" => frames = <<>>
    /\ mode = "finishing" /\ pc = "over" => buf = {}
    /\ client = "reading" /\ Trailer \in buf => mode = "finishing"
    /\ client = "reading" /\ Trailer \in slot => mode = "finishing" /\ pc = "over"
    /\ Trailer \in received => pc = "over" /\ slot = {}

\* The order at first.
LEMMA OrderInit == Init => Order
  BY DEF Init, Order

\* Every step keeps the order.
LEMMA OrderStep == Shape /\ Order /\ [Next]_vars => Order'
<1> SUFFICES ASSUME Shape, Order, [Next]_vars PROVE Order'
  OBVIOUS
<1> USE DEF Order, Writing
<1>1. ASSUME NEW r \in Requests, Request(r) PROVE Order'
  <2>1. /\ mode' = mode /\ buf' = buf /\ slot' = slot /\ received' = received
        /\ pc' \in {"walk", pc}
    BY <1>1 DEF Request, channel
  <2>2. pc = "none" /\ mode = "walking" /\ buf = {} /\ slot = {} /\ received = {}
    BY <1>1 DEF Request, Shape
  <2> QED
    BY <2>1, <2>2
<1>2. CASE Change
  BY <1>2 DEF Change, task, channel
<1>3. CASE Pop
  <2>1. /\ pc = "walk" /\ pc' \in {"read", "file"}
        /\ UNCHANGED <<client, slot, received, mode, buf>>
    BY <1>3 DEF Pop, Walking, channel
  <2> QED
    BY <2>1
<1>4. CASE ReadDir
  <2>1. /\ pc = "read" /\ UNCHANGED <<client, slot, received, buf>>
        /\ (pc' = "dir" /\ mode' = mode) \/ (mode' = "failing" /\ pc' \in {"write", "over"})
    BY <1>4 DEF ReadDir, GiveUp, Walking, channel
  <2> QED
    BY <2>1
<1>5. CASE AppendEntry
  <2>1. /\ pc \in {"dir", "file"} /\ UNCHANGED <<client, slot, received>>
        /\ \/ /\ buf' = buf \cup {Item(entry.path, StoredAs)} /\ mode' = mode
              /\ pc' \in {"walk", "write"}
           \/ buf' = buf /\ mode' = "failing" /\ pc' \in {"write", "over"}
    BY <1>5 DEF AppendEntry, GiveUp, Walking, channel
  <2>2. Item(entry.path, StoredAs) # Trailer
    <3>1. entry.path # <<>>
      BY <2>1 DEF Shape, Working, SoundEntries, SoundEntry
    <3> QED
      BY <3>1 DEF Item, Trailer
  <2> QED
    BY <2>1, <2>2
<1>6. CASE Finish
  <2>1. /\ pc = "walk" /\ frames = <<>> /\ UNCHANGED <<client, slot, received, frames>>
        /\ mode' = "finishing" /\ pc' = "write"
    BY <1>6 DEF Finish, Walking, channel
  <2> QED
    BY <2>1
<1>7. CASE PollReady
  <2>1. /\ pc = "write" /\ UNCHANGED <<client, slot, received, frames, buf>>
        /\ \/ client # "reading" /\ mode' = "failing" /\ pc' \in {"write", "over"}
           \/ mode' = mode /\ pc' = IF slot = {} THEN "send" ELSE "asleep"
    BY <1>7 DEF PollReady, GiveUp, WantClosed, RxClosed
  <2> QED
    BY <2>1
<1>8. CASE TrySend
  <2>1. /\ pc = "send" /\ UNCHANGED <<client, received, frames, mode>>
        /\ \/ client = "gone" /\ pc' = "asleep" /\ slot' = slot /\ buf' = buf
           \/ slot' = buf /\ buf' = {} /\ pc' = IF mode = "walking" THEN "walk" ELSE "over"
    BY <1>8 DEF TrySend, RxClosed
  <2> QED
    BY <2>1
<1>9. CASE Resume
  BY <1>9 DEF Resume
<1>10. CASE Take \/ EndOfBody \/ DropWant \/ DropRx
  BY <1>10 DEF Take, EndOfBody, DropWant, DropRx, task, channel
<1>11. CASE UNCHANGED vars
  BY <1>11 DEF vars, task, channel
<1> QED
  BY <1>1, <1>2, <1>3, <1>4, <1>5, <1>6, <1>7, <1>8, <1>9, <1>10, <1>11 DEF Next, Task

-----------------------------------------------------------------------------
(* Third, nothing is lost on the way: what is to be in the archive is stored, *)
(* worked on or waiting.                                                      *)

CoveredBy(items, fr, p, e) ==
    PathsOf(items) \cup PathsOf(EntriesIn(fr))
                   \cup (IF p \in {"read", "dir", "file"} THEN {e.path} ELSE {})

Covered == CoveredBy(Items, frames, pc, entry)

Progress ==
    client = "reading" /\ mode # "failing" =>
        /\ Complete(stable, opts, reply.path, Items, Covered)
        /\ pc = "dir" => ChildrenIn(stable, opts, entry.path, Covered)

\* And an archive with its trailer is complete.
Ended == Trailer \in received => Complete(stable, opts, reply.path, received, PathsOf(received))

\* Completeness, with less that is there all along and more that is covered.
LEMMA CompleteStays ==
    ASSUME NEW st, NEW su, su \subseteq st, st \subseteq Paths, NEW o, NEW base, NEW S, NEW T, T \subseteq S,
           \A i \in S : i.kind = "dir" => i.path \in Seq(Name),
           NEW C, NEW D, C \subseteq D, Complete(st, o, base, S, C)
    PROVE  Complete(su, o, base, T, D)
<1>1. base \in D
  BY DEF Complete
<1>2. ASSUME NEW i \in T, i.kind = "dir" PROVE ChildrenIn(su, o, i.path, D)
  <2>1. i.path \in Seq(Name) /\ ChildrenIn(st, o, i.path, C)
    BY <1>2 DEF Complete
  <2> QED
    BY <2>1, ChildrenStay
<1> QED
  BY <1>1, <1>2 DEF Complete

\* Stored directories have paths.
LEMMA DirItems == Shape => \A i \in Items : i.kind = "dir" => i.path \in Seq(Name)
  BY DEF Shape, SoundItem, Trailer, Item

\* Steps that store nothing.
LEMMA ProgressQuiet ==
    ASSUME Exchange, Shape, Progress, mode # "failing", client = "reading",
           UNCHANGED <<opts, reply>>, stable' \subseteq stable, Items' \subseteq Items,
           Covered \subseteq Covered',
           pc' = "dir" => pc = "dir" /\ entry' = entry
    PROVE  Progress'
<1>1. stable \subseteq Paths
  BY DEF Exchange, Shape
<1>2. Complete(stable, opts, reply.path, Items, Covered)
  BY DEF Progress
<1>3. Complete(stable', opts, reply.path, Items', Covered')
  BY <1>1, <1>2, DirItems, CompleteStays
<1>4. ASSUME pc' = "dir" PROVE ChildrenIn(stable', opts, entry.path, Covered')
  <2>1. entry.path \in Seq(Name)
    BY <1>4 DEF Shape, Working, SoundEntries
  <2>2. ChildrenIn(stable, opts, entry.path, Covered)
    BY <1>4 DEF Progress
  <2> QED
    BY <1>1, <2>1, <2>2, ChildrenStay
<1> QED
  BY <1>3, <1>4 DEF Progress

\* An entry that is taken from the stack is worked on.
LEMMA ProgressPop ==
    ASSUME Exchange, Shape, Progress, Pop, mode # "failing", client = "reading"
    PROVE  Progress'
<1> DEFINE SE == SoundEntries(reply.path, opts)
<1>1. /\ frames # <<>> /\ pc = "walk" /\ pc' \in {"read", "file"}
      /\ UNCHANGED <<opts, stable, reply, slot, received, buf>>
  BY DEF Pop, Walking, channel
<1>2. PICK e \in Last(frames) :
         /\ entry' = e
         /\ frames' = IF Last(frames) = {e} THEN Front(frames)
                      ELSE Append(Front(frames), Last(frames) \ {e})
  BY DEF Pop
<1>3. frames \in Seq(SUBSET SE)
  BY DEF Shape
<1> HIDE DEF SE
<1>4. /\ Front(frames) \in Seq(SUBSET SE) /\ Last(frames) \in SUBSET SE
      /\ EntriesIn(frames) = EntriesIn(Front(frames)) \cup Last(frames)
  BY <1>1, <1>3, EntriesTop
<1>5. EntriesIn(frames) \subseteq EntriesIn(frames') \cup {e}
  <2>1. CASE Last(frames) = {e}
    BY <1>2, <1>4, <2>1
  <2>2. CASE Last(frames) # {e}
    <3>1. Last(frames) \ {e} \in SUBSET SE
      BY <1>4
    <3>2. EntriesIn(Append(Front(frames), Last(frames) \ {e}))
             = EntriesIn(Front(frames)) \cup (Last(frames) \ {e})
      BY <1>4, <3>1, EntriesPushed
    <3> QED
      BY <1>2, <1>4, <2>2, <3>2
  <2> QED
    BY <2>1, <2>2
<1>6. Items' = Items
  BY <1>1 DEF Items
<1>7. Covered \subseteq Covered'
  <2>1. PathsOf(EntriesIn(frames)) \subseteq PathsOf(EntriesIn(frames')) \cup {e.path}
    BY <1>5 DEF PathsOf
  <2>2. Covered = PathsOf(Items) \cup PathsOf(EntriesIn(frames))
    BY <1>1 DEF Covered, CoveredBy
  <2>3. Covered' = PathsOf(Items) \cup PathsOf(EntriesIn(frames')) \cup {e.path}
    BY <1>1, <1>2, <1>6 DEF Covered, CoveredBy
  <2> QED
    BY <2>1, <2>2, <2>3
<1> QED
  BY <1>1, <1>6, <1>7, ProgressQuiet

\* The entries of a directory that is read are waiting.
LEMMA ProgressReadDir ==
    ASSUME Exchange, Shape, Progress, ReadDir, mode # "failing", client = "reading"
    PROVE  Progress'
<1> DEFINE q == entry.path
<1>1. /\ pc = "read"
      /\ UNCHANGED <<tree, opts, stable, client, reply, slot, received, buf, entry>>
  BY DEF ReadDir, Walking, channel
<1>2. CASE ~IsDir(tree, q)
  BY <1>2 DEF ReadDir, GiveUp, Progress
<1>3. CASE IsDir(tree, q)
  <2>1. /\ frames' = IF EntriesOf(q) = {} THEN frames ELSE Append(frames, EntriesOf(q))
        /\ pc' = "dir"
    BY <1>3 DEF ReadDir
  <2>2. EntriesIn(frames') = EntriesIn(frames) \cup EntriesOf(q)
    <3> DEFINE S == UNION {SUBSET SoundEntries(reply.path, opts), {EntriesOf(q)}}
    <3>1. frames \in Seq(S) /\ EntriesOf(q) \in S
      <4>1. frames \in Seq(SUBSET SoundEntries(reply.path, opts))
        BY DEF Shape
      <4>2. (SUBSET SoundEntries(reply.path, opts)) \subseteq S /\ EntriesOf(q) \in S
        OBVIOUS
      <4> HIDE DEF S
      <4> QED
        BY <4>1, <4>2, SeqMonotonic
    <3> HIDE DEF S, q
    <3>2. EntriesIn(Append(frames, EntriesOf(q))) = EntriesIn(frames) \cup EntriesOf(q)
      BY <3>1, EntriesPushed
    <3> QED
      BY <2>1, <3>2
  <2>3. Items' = Items
    BY <1>1 DEF Items
  <2>4. Covered' = Covered \cup PathsOf(EntriesOf(q))
    <3>1. PathsOf(EntriesIn(frames')) = PathsOf(EntriesIn(frames)) \cup PathsOf(EntriesOf(q))
      BY <2>2 DEF PathsOf
    <3> QED
      BY <1>1, <2>1, <2>3, <3>1 DEF Covered, CoveredBy
  <2>5. q \in Seq(Name) /\ stable \subseteq tree /\ tree \subseteq Paths
    BY <1>1 DEF Shape, Working, SoundEntries, Exchange
  <2>6. ChildrenIn(stable, opts, q, Covered')
    <3> SUFFICES ASSUME Exists(stable, q), NEW p \in Children(stable, Real(stable, q)),
                        AdmittedBy(opts, Last(p))
                 PROVE  Append(q, Last(p)) \in Covered'
      BY DEF ChildrenIn
    <3>1. Real(tree, q) = Real(stable, q)
      <4>1. Exists(stable, q)
        OBVIOUS
      <4> HIDE DEF q
      <4> QED
        BY ONLY <2>5, <4>1, RealGrows
    <3>2. p \in Children(tree, Real(tree, q))
      BY <2>5, <3>1 DEF Children
    <3>3. ReadEntry(tree, Append(q, Last(p))) \in EntriesOf(q)
      BY <3>2, EntriesOfFacts
    <3>4. ReadEntry(tree, Append(q, Last(p))).path = Append(q, Last(p))
      BY DEF ReadEntry, Entry
    <3>5. Append(q, Last(p)) \in PathsOf(EntriesOf(q))
      BY <3>3, <3>4 DEF PathsOf
    <3> QED
      BY <2>4, <3>5
  <2>7. Complete(stable, opts, reply.path, Items, Covered')
    <3>1. Complete(stable, opts, reply.path, Items, Covered)
      BY DEF Progress
    <3>2. Covered \subseteq Covered' /\ stable \subseteq Paths
      BY <2>4, <2>5
    <3> QED
      BY <3>1, <3>2, DirItems, CompleteStays
  <2> QED
    BY <1>1, <2>1, <2>3, <2>6, <2>7 DEF Progress
<1> QED
  BY <1>2, <1>3

\* One tree of files is part of another.
Within(tr, u) == tr \subseteq u /\ u \subseteq Paths

\* Where a path leads that is there in the smaller one.
LEMMA RealWithin ==
    ASSUME NEW tr, NEW u, Within(tr, u), NEW p \in Seq(Name), Exists(tr, p)
    PROVE  Exists(u, p) /\ Real(u, p) = Real(tr, p)
<1>1. tr \subseteq u /\ u \subseteq Paths
  BY DEF Within
<1> QED
  BY <1>1, RealGrows

\* An entry that is stored is complete if it is a directory.
LEMMA ProgressAppendEntry ==
    ASSUME Exchange, Shape, Progress, AppendEntry, mode # "failing", client = "reading"
    PROVE  Progress'
<1> DEFINE q == entry.path
           i == Item(q, StoredAs)
<1>1. /\ pc \in {"dir", "file"}
      /\ UNCHANGED <<tree, opts, stable, client, reply, slot, received, frames, entry>>
  BY DEF AppendEntry, Walking, channel
<1>2. CASE StoredAs = Missing
  BY <1>2 DEF AppendEntry, GiveUp, Progress
<1>3. CASE StoredAs # Missing
  <2>1. buf' = buf \cup {i} /\ pc' \in {"walk", "write"}
    BY <1>3 DEF AppendEntry
  <2>2. Items' = Items \cup {i}
    BY <1>1, <2>1 DEF Items
  <2>3. i.path = q /\ i.kind = StoredAs
    BY DEF Item
  <2> HIDE DEF i
  <2>4. Covered \subseteq Covered'
    <3>1. PathsOf(Items') = PathsOf(Items) \cup {q}
      BY <2>2, <2>3 DEF PathsOf
    <3> QED
      BY <1>1, <2>1, <3>1 DEF Covered, CoveredBy
  <2>5. entry \in SoundEntries(reply.path, opts) /\ stable \subseteq tree /\ tree \subseteq Paths
    BY <1>1 DEF Shape, Working, Exchange
  <2>6. q \in Seq(Name) /\ SoundEntry(reply.path, opts, entry)
    BY <2>5 DEF SoundEntries
  <2>7. ASSUME StoredAs = "dir" PROVE ChildrenIn(stable, opts, q, Covered')
    <3>1. CASE pc = "dir"
      <4>1. ChildrenIn(stable, opts, q, Covered)
        BY <3>1 DEF Progress
      <4>2. stable \subseteq Paths /\ stable \subseteq stable
        BY <2>5
      <4> QED
        BY <2>4, <2>6, <4>1, <4>2, ChildrenStay
    <3>2. CASE pc = "file" /\ Follow
      <4>1. Exists(tree, q) /\ Kind[Real(tree, q)] = "dir"
        BY <1>3, <2>7, <3>2 DEF StoredAs
      <4>2. ~Exists(stable, q)
        <5> SUFFICES ASSUME Exists(stable, q) PROVE FALSE
          OBVIOUS
        <5>1. Real(tree, q) = Real(stable, q)
          <6>1. Within(stable, tree)
            BY <2>5 DEF Within
          <6> QED
            BY <2>6, <6>1, RealWithin
        <5>2. Kind[Real(stable, q)] # "dir"
          BY <3>2 DEF Shape
        <5> QED
          BY <4>1, <5>1, <5>2
      <4> QED
        BY <4>2 DEF ChildrenIn
    <3>3. CASE pc = "file" /\ ~Follow
      <4>1. Lstat(tree, q) = "dir" /\ Lstat(tree, q) # Missing
        BY <1>3, <2>7, <3>3 DEF StoredAs
      <4>2. q # <<>>
        BY <2>6 DEF SoundEntry
      <4>3. Paths \subseteq Paths
        OBVIOUS
      <4>4. Lstat(Paths, q) = Lstat(tree, q)
        BY <2>5, <2>6, <4>1, <4>2, <4>3, LstatGrows
      <4>5. ~entry.dir
        BY <3>3 DEF Shape
      <4> QED
        BY <2>6, <4>1, <4>4, <4>5 DEF SoundEntry
    <3> QED
      BY <1>1, <3>1, <3>2, <3>3
  <2>8. Complete(stable, opts, reply.path, Items, Covered')
    <3>1. Complete(stable, opts, reply.path, Items, Covered)
      BY DEF Progress
    <3>2. stable \subseteq Paths
      BY <2>5
    <3> QED
      BY <2>4, <3>1, <3>2, DirItems, CompleteStays
  <2>9. Complete(stable, opts, reply.path, Items', Covered')
    BY <2>2, <2>3, <2>7, <2>8 DEF Complete
  <2> QED
    BY <1>1, <2>1, <2>9 DEF Progress
<1> QED
  BY <1>2, <1>3

\* Every step keeps the progress.
LEMMA ProgressStep == Exchange /\ Shape /\ Order /\ Progress /\ [Next]_vars => Progress'
<1> SUFFICES ASSUME Exchange, Shape, Order, Progress, [Next]_vars,
                    client' = "reading", mode' # "failing"
             PROVE  Progress'
  BY DEF Progress
<1>1. ASSUME NEW r \in Requests, Request(r) PROVE Progress'
  <2>1. client = "idle" /\ buf' = buf /\ slot' = slot /\ received' = received
    BY <1>1 DEF Request, channel
  <2>2. pc' = "walk" /\ frames' = <<{FirstEntry(reply'.path)}>>
    BY <1>1 DEF Request, FirstEntry
  <2>3. Items' = {}
    BY <2>1 DEF Shape, Items
  <2>4. reply'.path \in Covered'
    <3>1. FirstEntry(reply'.path) \in EntriesIn(frames')
      BY <2>2 DEF EntriesIn
    <3>2. FirstEntry(reply'.path).path = reply'.path
      BY DEF FirstEntry, Entry
    <3>3. reply'.path \in PathsOf(EntriesIn(frames'))
      BY <3>1, <3>2 DEF PathsOf
    <3> QED
      BY <3>3 DEF Covered, CoveredBy
  <2>5. Complete(stable', opts', reply'.path, Items', Covered')
    BY <2>3, <2>4 DEF Complete
  <2> QED
    BY <2>2, <2>5 DEF Progress
<1>2. ASSUME ~\E r \in Requests : Request(r) PROVE client = "reading" /\ mode # "failing"
  <2>1. CASE Change
    BY <2>1 DEF Change, task
  <2>2. CASE Task
    BY <2>2 DEF Task, Pop, ReadDir, AppendEntry, Finish, PollReady, TrySend, Resume, Walking,
                GiveUp, Order, Writing
  <2>3. CASE Take \/ EndOfBody \/ DropWant \/ DropRx
    BY <2>3 DEF Take, EndOfBody, DropWant, DropRx, task
  <2>4. CASE UNCHANGED vars
    BY <2>4 DEF vars, task
  <2> QED
    BY <1>2, <2>1, <2>2, <2>3, <2>4 DEF Next
<1> SUFFICES ASSUME client = "reading", mode # "failing", ~\E r \in Requests : Request(r)
             PROVE  Progress'
  BY <1>1, <1>2
<1>3. CASE Change
  <2>1. /\ UNCHANGED <<opts, reply, pc, frames, entry, buf, slot, received>>
        /\ stable' \subseteq stable
    BY <1>3 DEF Change, task, channel
  <2>2. Items' = Items /\ Covered' = Covered
    BY <2>1 DEF Items, Covered
  <2> QED
    BY <2>1, <2>2, ProgressQuiet
<1>4. CASE Pop
  BY <1>4, ProgressPop
<1>5. CASE ReadDir
  BY <1>5, ProgressReadDir
<1>6. CASE AppendEntry
  BY <1>6, ProgressAppendEntry
<1>7. CASE Finish
  <2>1. /\ pc = "walk" /\ pc' = "write" /\ buf' = buf \cup {Trailer}
        /\ UNCHANGED <<opts, reply, stable, frames, slot, received>>
    BY <1>7 DEF Finish, Walking, channel
  <2>2. Items' = Items \cup {Trailer} /\ Trailer.kind # "dir"
    BY <2>1 DEF Items, Trailer, Item
  <2>3. Covered \subseteq Covered'
    <3>1. PathsOf(Items) \subseteq PathsOf(Items')
      BY <2>2 DEF PathsOf
    <3> QED
      BY <2>1, <3>1 DEF Covered, CoveredBy
  <2>4. Complete(stable, opts, reply.path, Items, Covered')
    <3>1. Complete(stable, opts, reply.path, Items, Covered) /\ stable \subseteq Paths
      BY DEF Progress, Shape, Exchange
    <3> QED
      BY <2>3, <3>1, DirItems, CompleteStays
  <2>5. Complete(stable, opts, reply.path, Items', Covered')
    BY <2>2, <2>4 DEF Complete
  <2> QED
    BY <2>1, <2>5 DEF Progress
<1>8. CASE PollReady \/ TrySend \/ Resume
  <2>1. /\ UNCHANGED <<opts, reply, stable, frames, entry, received>>
        /\ pc \notin {"read", "dir", "file"} /\ pc' \notin {"read", "dir", "file"}
    BY <1>8 DEF PollReady, TrySend, Resume, GiveUp
  <2>2. Items' = Items
    BY <1>8 DEF PollReady, TrySend, Resume, RxClosed, Items, Order
  <2>3. Covered' = Covered
    BY <2>1, <2>2 DEF Covered, CoveredBy
  <2> QED
    BY <2>1, <2>2, <2>3, ProgressQuiet
<1>9. CASE Take \/ EndOfBody \/ DropWant \/ DropRx
  <2>1. UNCHANGED <<opts, reply, stable, frames, entry, pc>>
    BY <1>9 DEF Take, EndOfBody, DropWant, DropRx, task
  <2>2. Items' = Items
    BY <1>9 DEF Take, EndOfBody, DropWant, DropRx, Items, task
  <2>3. Covered' = Covered
    BY <2>1, <2>2 DEF Covered
  <2> QED
    BY <2>1, <2>2, <2>3, ProgressQuiet
<1>10. CASE UNCHANGED vars
  <2>1. UNCHANGED <<opts, reply, stable, frames, entry, pc, buf, slot, received>>
    BY <1>10 DEF vars, task, channel
  <2>2. Items' = Items /\ Covered' = Covered
    BY <2>1 DEF Items, Covered
  <2> QED
    BY <2>1, <2>2, ProgressQuiet
<1> QED
  BY <1>3, <1>4, <1>5, <1>6, <1>7, <1>8, <1>9, <1>10 DEF Next, Task

\* Every step keeps a complete archive complete, and the trailer completes it.
LEMMA EndedStep == Exchange /\ Shape /\ Order /\ Progress /\ Ended /\ [Next]_vars => Ended'
<1> SUFFICES ASSUME Exchange, Shape, Order, Progress, Ended, [Next]_vars, Trailer \in received'
             PROVE  Complete(stable', opts', reply'.path, received', PathsOf(received'))
  BY DEF Ended
<1>1. CASE Take
  <2>1. /\ client = "reading" /\ slot # {} /\ received' = received \cup slot
        /\ UNCHANGED <<stable, opts, reply>>
    BY <1>1 DEF Take
  <2>2. Trailer \in slot
    BY <2>1 DEF Order
  <2>3. mode = "finishing" /\ pc = "over" /\ frames = <<>> /\ buf = {}
    BY <2>1, <2>2 DEF Order
  <2>4. Items = received'
    BY <2>1, <2>3 DEF Items
  <2>5. Covered = PathsOf(received')
    <3>1. EntriesIn(frames) = {}
      BY <2>3 DEF EntriesIn
    <3>2. PathsOf({}) = {}
      BY DEF PathsOf
    <3> QED
      BY <2>3, <2>4, <3>1, <3>2 DEF Covered, CoveredBy
  <2> QED
    BY <2>1, <2>3, <2>4, <2>5 DEF Progress
<1>2. CASE ~Take
  <2>1. received' = received
    BY <1>2 DEF Next, Request, Change, Task, Pop, ReadDir, AppendEntry, Finish, Walking, PollReady,
                TrySend, Resume, EndOfBody, DropWant, DropRx, vars
  <2>2. client # "idle"
    BY <2>1 DEF Shape
  <2>3. UNCHANGED <<opts, reply>> /\ stable' \subseteq stable
    BY <1>2, <2>2 DEF Next, Request, Change, Task, Pop, ReadDir, AppendEntry, Finish, Walking,
                      PollReady, TrySend, Resume, EndOfBody, DropWant, DropRx, vars
  <2>4. Complete(stable, opts, reply.path, received, PathsOf(received)) /\ stable \subseteq Paths
    BY <2>1 DEF Ended, Shape, Exchange
  <2>5. \A i \in received : i.kind = "dir" => i.path \in Seq(Name)
    BY DirItems DEF Items
  <2> QED
    BY <2>1, <2>3, <2>4, <2>5, CompleteStays
<1> QED
  BY <1>1, <1>2

\* The inductive invariant of the archive.
IInv == Exchange /\ Shape /\ Order /\ Progress /\ Ended

\* IInv holds at first, and every step keeps it.
LEMMA Inductive == Spec => []IInv
<1>1. Init => IInv
  BY ExchangeInit, ShapeInit, OrderInit DEF IInv, Init, Progress, Ended
<1>2. IInv /\ [Next]_vars => IInv'
  BY ExchangeStep, ShapeStep, OrderStep, ProgressStep, EndedStep DEF IInv
<1> QED
  BY <1>1, <1>2, PTL DEF Spec

\* An archive that ends with its trailer is complete, whatever came and went
\* while it was made, and none shows what the settings hide.
THEOREM ArchivesFaithful == Spec => []ArchiveFaithful
<1>1. IInv => ArchiveFaithful
  <2> SUFFICES ASSUME IInv PROVE ArchiveFaithful
    OBVIOUS
  <2>1. \A n : Admitted(n) <=> AdmittedBy(opts, n)
    BY DEF Admitted, AdmittedBy
  <2>2. ASSUME Trailer \in received
        PROVE  /\ reply.path \in PathsOf(received)
               /\ \A i \in received : i.kind = "dir" /\ Exists(stable, i.path) =>
                     \A p \in Children(stable, Real(stable, i.path)) :
                         Admitted(Last(p)) => Append(i.path, Last(p)) \in PathsOf(received)
    <3>1. Complete(stable, opts, reply.path, received, PathsOf(received))
      BY <2>2 DEF IInv, Ended
    <3> QED
      BY <2>1, <3>1 DEF Complete, ChildrenIn
  <2>3. ASSUME NEW i \in received \ {Trailer}
        PROVE  /\ \A k \in Len(reply.path) + 1 .. Len(i.path) : Admitted(i.path[k])
               /\ opts.disableSymlinks => i.path \in Paths /\ i.kind = Kind[i.path]
    <3>1. SoundItem(reply.path, opts, i)
      BY DEF IInv, Shape, Items
    <3> QED
      BY <2>1, <3>1 DEF SoundItem, Visible
  <2> QED
    BY <2>2, <2>3 DEF ArchiveFaithful, PathsOf
<1> QED
  BY <1>1, Inductive, PTL

-----------------------------------------------------------------------------
(* The wake-ups that poll_write depends on.                                *)

\* poll_ready registers the task before it looks: one that sleeps, or is about
\* to send, with no wake-up pending has a client that still reads, and is
\* registered with the flag; one that sleeps waits for a chunk to be taken.
NoLostWakeup ==
    /\ pc \in {"send", "asleep"} /\ ~woken => client = "reading" /\ wantWaker
    /\ pc = "asleep" /\ ~woken => slot # {} /\ dataWaker

\* There is no task before a download, and none at its end.
TaskSpan ==
    /\ client \in {"idle", "replied"} => pc = "none"
    /\ client = "ended" => pc = "over"
    /\ client \in {"idle", "replied", "reading", "leaving", "gone", "ended"}

\* Both hold at first and every step keeps them.
LEMMA WakeupStep == TaskSpan /\ NoLostWakeup /\ [Next]_vars => TaskSpan' /\ NoLostWakeup'
<1> SUFFICES ASSUME TaskSpan, NoLostWakeup, [Next]_vars PROVE TaskSpan' /\ NoLostWakeup'
  OBVIOUS
<1> USE DEF TaskSpan, NoLostWakeup
<1>1. ASSUME NEW r \in Requests, Request(r) PROVE TaskSpan' /\ NoLostWakeup'
  BY <1>1 DEF Request, channel
<1>2. CASE Change
  BY <1>2 DEF Change, task, channel
<1>3. CASE Pop \/ ReadDir \/ AppendEntry \/ Finish
  BY <1>3 DEF Pop, ReadDir, AppendEntry, Finish, GiveUp, Walking, channel
<1>4. CASE PollReady
  BY <1>4 DEF PollReady, GiveUp, WantClosed, RxClosed
<1>5. CASE TrySend
  BY <1>5 DEF TrySend, RxClosed
<1>6. CASE Resume
  BY <1>6 DEF Resume
<1>7. CASE Take
  BY <1>7 DEF Take, task
<1>8. CASE EndOfBody
  BY <1>8 DEF EndOfBody, task, channel
<1>9. CASE DropWant \/ DropRx
  BY <1>9 DEF DropWant, DropRx, task
<1>10. CASE UNCHANGED vars
  BY <1>10 DEF vars, task, channel
<1> QED
  BY <1>1, <1>2, <1>3, <1>4, <1>5, <1>6, <1>7, <1>8, <1>9, <1>10 DEF Next, Task

\* Whether the body is dropped between poll_ready and try_send_data, while the
\* task sleeps or before it polls: no wake-up is lost, which is what the end of
\* the task (TaskEnds) rests on.
THEOREM WakeupsKept == Spec => []NoLostWakeup
<1>1. Init => TaskSpan /\ NoLostWakeup
  BY DEF Init, TaskSpan, NoLostWakeup
<1> QED
  BY <1>1, WakeupStep, PTL DEF Spec
=============================================================================
