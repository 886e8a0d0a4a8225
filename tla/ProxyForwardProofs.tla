------------------------- MODULE ProxyForwardProofs -------------------------
(***************************************************************************)
(* Proofs about ProxyForward, for every finite set of connections, every   *)
(* set of rules with any positive number of targets, every counter width   *)
(* and every tunnel limit.                                                 *)
(***************************************************************************)
EXTENDS ProxyForward, FiniteSetTheorems, TLAPS

\* Only an upgrade asks for a permit or opens a tunnel.
UpgradePath ==
    \A c \in Conns : pc[c] \in {"acquire", "joining", "copying"} => upgrade[c]

\* The inductive invariant: types, where every permit is, and which requests
\* walk the upgrade path.
PermitInv == TypeOK /\ PermitsAccounted /\ UpgradePath

\* proxy::init creates the semaphore full, before any connection owns a permit.
LEMMA InitPermitInv == Init => PermitInv
<1> SUFFICES ASSUME Init PROVE PermitInv
  OBVIOUS
<1>1. TypeOK
  BY ProxyAssumption DEF Init, TypeOK, PCs, Statuses, Indices
<1>2. Cardinality(holding) = 0
  BY FS_EmptySet DEF Init
<1>3. PermitsAccounted
  BY <1>2, ProxyAssumption DEF Init, PermitsAccounted
<1>4. UpgradePath
  BY DEF Init, UpgradePath
<1> QED
  BY <1>1, <1>3, <1>4 DEF PermitInv

\* Dropping the permit of a connection, whether it owns one or not, keeps the
\* semaphore's count and the owners in balance.
LEMMA DropPermitBalance ==
  ASSUME PermitInv, NEW c \in Conns, DropPermit(c)
  PROVE  /\ holding' = holding \ {c}
         /\ available' \in 0 .. MaxTunnels
         /\ available' + Cardinality(holding') = MaxTunnels
<1>1. IsFiniteSet(holding) /\ Cardinality(holding) \in Nat
  BY ProxyAssumption, FS_Subset, FS_CardinalityType DEF PermitInv, TypeOK
<1>2. /\ Cardinality(holding \ {c})
           = IF c \in holding THEN Cardinality(holding) - 1 ELSE Cardinality(holding)
      /\ IsFiniteSet(holding \ {c})
  BY <1>1, FS_RemoveElement
<1>3. Cardinality(holding \ {c}) \in Nat
  BY <1>2, FS_CardinalityType
<1>4. available \in 0 .. MaxTunnels /\ available + Cardinality(holding) = MaxTunnels
  BY DEF PermitInv, TypeOK, PermitsAccounted
<1>5. CASE c \in holding
  BY <1>1, <1>2, <1>3, <1>4, <1>5, ProxyAssumption DEF DropPermit
<1>6. CASE c \notin holding
  BY <1>1, <1>2, <1>3, <1>4, <1>6, ProxyAssumption DEF DropPermit
<1> QED
  BY <1>5, <1>6 DEF DropPermit

\* next_index keeps the counter inside its width.
LEMMA NextIndexType ==
  ASSUME TypeOK, NEW r \in Rules, NextIndex(r)
  PROVE  /\ next' \in [Rules -> 0 .. CounterSize - 1]
         /\ DOMAIN picks' = Rules
         /\ \A q \in Rules : picks'[q] \in [Indices(q) -> Nat]
<1> DEFINE after == (next[r] + 1) % CounterSize
           idx   == next[r] % Targets[r]
<1>1. after \in 0 .. CounterSize - 1 /\ idx \in Indices(r)
  BY ProxyAssumption DEF TypeOK, Indices
<1>2. next' \in [Rules -> 0 .. CounterSize - 1]
  BY <1>1 DEF TypeOK, NextIndex
<1>3. DOMAIN picks' = Rules
  BY DEF TypeOK, NextIndex, Count
<1>4. ASSUME NEW q \in Rules PROVE picks'[q] \in [Indices(q) -> Nat]
  BY DEF TypeOK, NextIndex, Count
<1> QED
  BY <1>2, <1>3, <1>4

\* The owners of permits, as PermitsAccounted describes them.
Owners == {c \in Conns : /\ Limited /\ upgrade[c]
                         /\ pc[c] \notin {"idle", "acquire"}}

\* A step that ends the handling of c and drops its permit removes c, and only
\* c, from the owners.
LEMMA EndingStep ==
  ASSUME PermitInv, NEW c \in Conns, DropPermit(c),
         pc' = [pc EXCEPT ![c] = "idle"], UNCHANGED upgrade,
         rule' = rule, status' \in [Conns -> Statuses],
         next' \in [Rules -> 0 .. CounterSize - 1],
         DOMAIN picks' = Rules,
         \A q \in Rules : picks'[q] \in [Indices(q) -> Nat]
  PROVE  PermitInv'
<1>1. /\ holding' = holding \ {c}
      /\ available' \in 0 .. MaxTunnels
      /\ available' + Cardinality(holding') = MaxTunnels
  BY DropPermitBalance
<1>2. pc' \in [Conns -> PCs]
  BY DEF PermitInv, TypeOK, PCs
<1>3. TypeOK'
  BY <1>1, <1>2 DEF PermitInv, TypeOK, Indices
<1>4. holding = Owners
  BY DEF PermitInv, PermitsAccounted, Owners
<1>5. ASSUME NEW d \in Conns PROVE d \in Owners' <=> d \in Owners \ {c}
  BY DEF Owners, Limited, PermitInv, TypeOK
<1>6. Owners' = Owners \ {c}
  BY <1>5 DEF Owners
<1>7. UpgradePath'
  BY DEF UpgradePath, PermitInv, TypeOK
<1> QED
  BY <1>1, <1>3, <1>4, <1>6, <1>7 DEF PermitInv, PermitsAccounted, Owners, Limited

\* Every step of forward_http, forward_upgrade and the tunnel task keeps the
\* semaphore's count and its owners in balance.
LEMMA StepPermitInv == PermitInv /\ [Next]_vars => PermitInv'
<1> SUFFICES ASSUME PermitInv, [Next]_vars PROVE PermitInv'
  OBVIOUS
<1>0. TypeOK /\ PermitsAccounted /\ UpgradePath
  BY DEF PermitInv
<1>1. CASE UNCHANGED vars
  BY <1>0, <1>1
  DEF vars, PermitInv, TypeOK, PermitsAccounted, UpgradePath, Limited, Indices
<1>2. ASSUME NEW c \in Conns, NEW r \in Rules, NEW isUpgrade \in BOOLEAN,
             Forward(c, r, isUpgrade)
      PROVE  PermitInv'
  <2>1. TypeOK'
    BY <1>0, <1>2 DEF Forward, TypeOK, PCs, Statuses, Indices
  <2>2. PermitsAccounted' /\ UpgradePath'
    <3>1. CASE isUpgrade = TRUE
      <4>1. pc' = [pc EXCEPT ![c] = "acquire"] /\ upgrade' = [upgrade EXCEPT ![c] = TRUE]
        BY <1>2, <3>1 DEF Forward
      <4> QED
        BY <1>0, <1>2, <4>1
        DEF Forward, TypeOK, PermitsAccounted, UpgradePath, Limited
    <3>2. CASE isUpgrade = FALSE
      <4>1. pc' = [pc EXCEPT ![c] = "choose"] /\ upgrade' = [upgrade EXCEPT ![c] = FALSE]
        BY <1>2, <3>2 DEF Forward
      <4> QED
        BY <1>0, <1>2, <4>1
        DEF Forward, TypeOK, PermitsAccounted, UpgradePath, Limited
    <3> QED
      BY <3>1, <3>2
  <2> QED
    BY <2>1, <2>2 DEF PermitInv
<1>3. ASSUME NEW c \in Conns, TryAcquire(c) PROVE PermitInv'
  <2>1. c \notin holding /\ upgrade[c]
    BY <1>0, <1>3 DEF TryAcquire, PermitsAccounted, UpgradePath
  <2>2. Cardinality(holding \cup {c}) = Cardinality(holding) + 1
    BY <1>0, <2>1, ProxyAssumption, FS_Subset, FS_AddElement DEF TypeOK
  <2>3. Cardinality(holding) \in Nat
    BY <1>0, ProxyAssumption, FS_Subset, FS_CardinalityType DEF TypeOK
  <2>4. /\ available' \in 0 .. MaxTunnels
        /\ available' + Cardinality(holding') = MaxTunnels
    <3>1. available \in 0 .. MaxTunnels /\ available + Cardinality(holding) = MaxTunnels
      BY <1>0 DEF TypeOK, PermitsAccounted
    <3>2. CASE Limited
      BY <1>3, <2>2, <2>3, <3>1, <3>2, ProxyAssumption DEF TryAcquire
    <3>3. CASE ~Limited
      BY <1>3, <3>1, <3>3 DEF TryAcquire
    <3> QED
      BY <3>2, <3>3
  <2>5. TypeOK'
    BY <1>0, <1>3, <2>4 DEF TryAcquire, TypeOK, PCs, Indices
  <2>6. UpgradePath'
    BY <1>0, <1>3, <2>1 DEF TryAcquire, TypeOK, UpgradePath
  <2>7. PermitsAccounted'
    BY <1>0, <1>3, <2>1, <2>4 DEF TryAcquire, TypeOK, PermitsAccounted, Limited
  <2> QED
    BY <2>5, <2>6, <2>7 DEF PermitInv
<1>4. ASSUME NEW c \in Conns, RejectUpgrade(c) PROVE PermitInv'
  BY <1>0, <1>4 DEF RejectUpgrade, PermitInv, TypeOK, PermitsAccounted,
                    UpgradePath, PCs, Statuses, Indices, Limited
<1>5. ASSUME NEW c \in Conns, SendUpstream(c) PROVE PermitInv'
  <2>1. rule[c] \in Rules
    BY <1>0 DEF TypeOK
  <2>2. TypeOK'
    BY <1>0, <1>5, <2>1, NextIndexType DEF SendUpstream, TypeOK, PCs, Indices
  <2>3. PermitsAccounted' /\ UpgradePath'
    BY <1>0, <1>5 DEF SendUpstream, TypeOK, PermitsAccounted, UpgradePath, Limited
  <2> QED
    BY <2>2, <2>3 DEF PermitInv
<1>6. ASSUME NEW c \in Conns, BuildFails(c) PROVE PermitInv'
  <2>1. rule[c] \in Rules /\ NextIndex(rule[c])
    BY <1>0, <1>6 DEF TypeOK, BuildFails
  <2>2. /\ next' \in [Rules -> 0 .. CounterSize - 1]
        /\ DOMAIN picks' = Rules
        /\ \A q \in Rules : picks'[q] \in [Indices(q) -> Nat]
    BY <1>0, <2>1, NextIndexType
  <2>3. status' \in [Conns -> Statuses]
    BY <1>0, <1>6 DEF BuildFails, TypeOK, Statuses
  <2> QED
    BY <1>6, <2>2, <2>3, EndingStep DEF BuildFails
<1>7. ASSUME NEW c \in Conns,
             UpstreamFails(c) \/ UpstreamAnswers(c) \/ ClientLeaves(c) \/ TunnelEnds(c)
      PROVE  PermitInv'
  <2>1. status' \in [Conns -> Statuses]
    BY <1>0, <1>7
    DEF UpstreamFails, UpstreamAnswers, ClientLeaves, TunnelEnds, TypeOK, Statuses
  <2>2. /\ DropPermit(c) /\ pc' = [pc EXCEPT ![c] = "idle"]
        /\ UNCHANGED <<upgrade, rule, next, picks>>
    BY <1>7 DEF UpstreamFails, UpstreamAnswers, ClientLeaves, TunnelEnds
  <2>3. /\ next' \in [Rules -> 0 .. CounterSize - 1]
        /\ DOMAIN picks' = Rules
        /\ \A q \in Rules : picks'[q] \in [Indices(q) -> Nat]
    BY <1>0, <2>2 DEF TypeOK
  <2> QED
    BY <2>1, <2>2, <2>3, EndingStep
<1>8. ASSUME NEW c \in Conns, UpstreamSwitches(c) \/ BothUpgraded(c) PROVE PermitInv'
  <2>1. upgrade[c]
    BY <1>0, <1>8 DEF UpstreamSwitches, BothUpgraded, UpgradePath
  <2>2. TypeOK'
    BY <1>0, <1>8 DEF UpstreamSwitches, BothUpgraded, TypeOK, PCs, Statuses, Indices
  <2>3. PermitsAccounted' /\ UpgradePath'
    BY <1>0, <1>8, <2>1
    DEF UpstreamSwitches, BothUpgraded, TypeOK, PermitsAccounted, UpgradePath, Limited
  <2> QED
    BY <2>2, <2>3 DEF PermitInv
<1> QED
  BY <1>1, <1>2, <1>3, <1>4, <1>5, <1>6, <1>7, <1>8 DEF Next, Step, Settle

\* TypeOK and PermitsAccounted hold in every reachable state: no path out of
\* forward_upgrade or of the tunnel task loses or duplicates a permit.
THEOREM PermitsNeverLeak == Spec => [](TypeOK /\ PermitsAccounted)
<1>1. PermitInv => TypeOK /\ PermitsAccounted
  BY DEF PermitInv
<1> QED
  BY InitPermitInv, StepPermitInv, <1>1, PTL DEF Spec

\* The state of forward() and its tunnels keeps its types: the semaphore's
\* count stays within 0 .. max-upgrade-tunnels.
THEOREM ForwardTypes == Spec => []TypeOK
BY PermitsNeverLeak, PTL

\* The detached tunnel tasks never outnumber max-upgrade-tunnels.
THEOREM TunnelsBounded == Spec => []TunnelBound
<1>1. PermitInv => TunnelBound
  <2> SUFFICES ASSUME PermitInv, Limited PROVE Cardinality(Tunnels) <= MaxTunnels
    BY DEF TunnelBound
  <2>1. Tunnels \subseteq holding
    BY DEF PermitInv, Tunnels, PermitsAccounted, UpgradePath
  <2>2. IsFiniteSet(holding)
    BY ProxyAssumption, FS_Subset DEF PermitInv, TypeOK
  <2>3. /\ Cardinality(Tunnels) <= Cardinality(holding)
        /\ IsFiniteSet(Tunnels)
    BY <2>1, <2>2, FS_Subset
  <2>4. Cardinality(Tunnels) \in Nat /\ Cardinality(holding) \in Nat
    BY <2>2, <2>3, FS_CardinalityType
  <2>5. available \in Nat /\ available + Cardinality(holding) = MaxTunnels
    BY ProxyAssumption DEF PermitInv, TypeOK, PermitsAccounted
  <2> QED
    BY <2>3, <2>4, <2>5, ProxyAssumption
<1> QED
  BY InitPermitInv, StepPermitInv, <1>1, PTL DEF Spec

\* forward_upgrade answers 503 only when every permit is out.
THEOREM RefusalsJustified == Spec => RefusedOnlyWhenFull
<1> DEFINE Justified ==
      \A c \in Conns : status'[c] = "503" /\ status[c] # "503"
                        => Limited /\ Cardinality(holding) = MaxTunnels
<1>1. PermitInv /\ [Next]_vars => [Justified]_vars
  <2> SUFFICES ASSUME PermitInv, Next, NEW c \in Conns,
                      status'[c] = "503", status[c] # "503"
               PROVE  Limited /\ Cardinality(holding) = MaxTunnels
    OBVIOUS
  <2>1. PICK d \in Conns :
            \/ \E r \in Rules, isUpgrade \in BOOLEAN : Forward(d, r, isUpgrade)
            \/ Step(d) \/ Settle(d)
    BY DEF Next
  <2>2. RejectUpgrade(d)
    BY <2>1 DEF PermitInv, TypeOK, Step, Settle, Forward, TryAcquire, SendUpstream,
                BuildFails, UpstreamFails, UpstreamAnswers, UpstreamSwitches,
                ClientLeaves, BothUpgraded, TunnelEnds
  <2>3. Cardinality(holding) \in Nat
    BY ProxyAssumption, FS_Subset, FS_CardinalityType DEF PermitInv, TypeOK
  <2> QED
    BY <2>2, <2>3, ProxyAssumption DEF RejectUpgrade, PermitInv, PermitsAccounted
<1> QED
  BY InitPermitInv, StepPermitInv, <1>1, PTL DEF Spec, RefusedOnlyWhenFull

-----------------------------------------------------------------------------
\* Multiplication keeps a gap of at least one factor.
LEMMA MulMono ==
  ASSUME NEW n \in Nat, NEW x \in Int, NEW y \in Int, x < y
  PROVE  n * x + n <= n * y
<1>1. n * (y - x - 1) >= 0
  OBVIOUS
<1>2. n * (y - x - 1) = n * y - n * x - n
  OBVIOUS
<1> QED
  BY <1>1, <1>2

\* Quotient and remainder are unique.
LEMMA UniqueRemainder ==
  ASSUME NEW n \in Nat \ {0}, NEW x \in Int, NEW y \in Int,
         NEW j \in 0 .. n - 1, NEW k \in 0 .. n - 1,
         n * x + j = n * y + k
  PROVE  j = k
<1>1. CASE x < y
  BY <1>1, MulMono
<1>2. CASE y < x
  BY <1>2, MulMono
<1>3. CASE x = y
  BY <1>3
<1> QED
  BY <1>1, <1>2, <1>3

\* Division with remainder.
LEMMA DivMod == ASSUME NEW a \in Nat, NEW n \in Nat \ {0}
  PROVE a \div n \in Int /\ a % n \in 0 .. n-1 /\ a = n * (a \div n) + (a % n)
  OBVIOUS

\* The walk of a counter through the residues modulo the number of targets.
LEMMA NextResidue ==
  ASSUME NEW a \in Nat, NEW n \in Nat \ {0}
  PROVE  (a + 1) % n = IF a % n = n - 1 THEN 0 ELSE (a % n) + 1
<1>1. PICK q \in Int, k \in 0 .. n - 1 : a = n * q + k /\ k = a % n
  BY DivMod
<1>2. PICK Q \in Int, j \in 0 .. n - 1 : a + 1 = n * Q + j /\ j = (a + 1) % n
  BY DivMod, a + 1 \in Nat
<1>3. CASE k = n - 1
  <2>1. n * (q + 1) + 0 = n * Q + j
    <3>1. n * (q + 1) = n * q + n
      OBVIOUS
    <3>2. n * q \in Int /\ n * Q \in Int /\ n * (q + 1) \in Int
      OBVIOUS
    <3>3. n * q + (n - 1) + 1 = n * Q + j
      BY <1>1, <1>2, <1>3
    <3>4. n * q + n = n * Q + j
      BY <3>2, <3>3
    <3> QED
      BY <3>1, <3>2, <3>4
  <2>2. j = 0
    BY <2>1, UniqueRemainder, q + 1 \in Int, 0 \in 0 .. n - 1
  <2> QED
    BY <1>1, <1>2, <1>3, <2>2
<1>4. CASE k # n - 1
  <2>1. n * q + (k + 1) = n * Q + j /\ k + 1 \in 0 .. n - 1
    BY <1>1, <1>2, <1>4
  <2>2. j = k + 1
    BY <2>1, UniqueRemainder
  <2> QED
    BY <1>1, <1>2, <1>4, <2>2
<1> QED
  BY <1>3, <1>4

\* A number below the modulus is its own residue.
LEMMA SmallResidue ==
  ASSUME NEW n \in Nat \ {0}, NEW a \in 0 .. n - 1
  PROVE  a % n = a
<1>1. a = n * (a \div n) + (a % n) /\ a % n \in 0 .. n - 1 /\ a \div n \in Int
  BY DivMod, a \in Nat
<1>2. n * 0 + a = n * (a \div n) + (a % n)
  BY <1>1
<1> QED
  BY <1>1, <1>2, UniqueRemainder, 0 \in Int

\* Strengthening of EvenSpread: the targets before the counter's residue are
\* exactly one pick ahead of the others.
Staircase ==
    \A r \in Rules : \E q \in Nat : \A i \in Indices(r) :
        picks[r][i] = IF i < next[r] % Targets[r] THEN q + 1 ELSE q

\* A new ProxyBalancer starts at target 0 with no picks.
LEMMA InitStaircase == Init => Staircase
<1> SUFFICES ASSUME Init, NEW r \in Rules
             PROVE  \E q \in Nat : \A i \in Indices(r) :
                      picks[r][i] = IF i < next[r] % Targets[r] THEN q + 1 ELSE q
  BY DEF Staircase
<1>1. next[r] % Targets[r] = 0
  BY ProxyAssumption DEF Init
<1>2. \A i \in Indices(r) : picks[r][i] = IF i < 0 THEN 0 + 1 ELSE 0
  BY ProxyAssumption DEF Init, Indices
<1> QED
  BY <1>1, <1>2

\* next_index moves the step of the staircase one target to the right.
LEMMA NextIndexStaircase ==
  ASSUME TypeOK, Staircase, NEW r \in Rules, NextIndex(r)
  PROVE  Staircase'
<1> SUFFICES ASSUME NEW s \in Rules
             PROVE  \E q \in Nat : \A i \in Indices(s) :
                      picks'[s][i] = IF i < next'[s] % Targets[s] THEN q + 1 ELSE q
  BY DEF Staircase, Indices
<1>1. PICK q \in Nat : \A i \in Indices(s) :
                      picks[s][i] = IF i < next[s] % Targets[s] THEN q + 1 ELSE q
  BY DEF Staircase
<1>2. CASE s # r
  <2>1. picks'[s] = picks[s] /\ next'[s] = next[s]
    BY <1>2 DEF NextIndex, Count, TypeOK
  <2> QED
    BY <1>1, <2>1
<1>3. CASE s = r
  <2> DEFINE n == Targets[r]
             k == next[r] % n
  <2>0. n \in Nat \ {0} /\ k \in 0 .. n - 1 /\ next[r] \in 0 .. CounterSize - 1
    BY ProxyAssumption DEF TypeOK
  <2>1. next'[r] = (next[r] + 1) % CounterSize
    BY DEF NextIndex, TypeOK
  <2>2. CASE next'[r] = 0
    <3>1. \A i \in Indices(r) : picks'[r][i] = 0
      BY <2>1, <2>2 DEF NextIndex, Count, TypeOK
    <3>2. next'[r] % Targets[r] = 0
      BY <2>0, <2>2
    <3>3. \A i \in Indices(r) : picks'[r][i] = IF i < 0 THEN 0 + 1 ELSE 0
      BY <3>1 DEF Indices
    <3> QED
      BY <1>3, <3>2, <3>3
  <2>3. CASE next'[r] # 0
    <3>1. next'[r] = next[r] + 1
      <4>1. next[r] % CounterSize = next[r]
        BY <2>0, SmallResidue, ProxyAssumption
      <4>2. next[r] \in Nat /\ CounterSize \in Nat \ {0}
        BY <2>0, ProxyAssumption
      <4>3. (next[r] + 1) % CounterSize
              = IF next[r] % CounterSize = CounterSize - 1 THEN 0
                                                         ELSE (next[r] % CounterSize) + 1
        BY <4>2, NextResidue
      <4> QED
        BY <2>1, <2>3, <4>1, <4>3
    <3>2. \A i \in Indices(r) :
             picks'[r][i] = picks[r][i] + (IF i = k THEN 1 ELSE 0)
      BY <2>1, <2>3 DEF NextIndex, Count, TypeOK
    <3>3. next'[r] % n = IF k = n - 1 THEN 0 ELSE k + 1
      <4>1. next[r] \in Nat
        BY <2>0, ProxyAssumption
      <4>2. (next[r] + 1) % n = IF next[r] % n = n - 1 THEN 0 ELSE (next[r] % n) + 1
        BY <2>0, <4>1, NextResidue
      <4> QED
        BY <3>1, <4>2
    <3>4. CASE k = n - 1
      <4>1. \A i \in Indices(r) :
               picks'[r][i] = IF i < 0 THEN (q + 1) + 1 ELSE q + 1
        BY <1>1, <1>3, <2>0, <3>2, <3>4 DEF Indices
      <4> QED
        BY <1>3, <3>3, <3>4, <4>1
    <3>5. CASE k # n - 1
      <4>1. \A i \in Indices(r) :
               picks'[r][i] = IF i < k + 1 THEN q + 1 ELSE q
        BY <1>1, <1>3, <2>0, <3>2, <3>5 DEF Indices
      <4> QED
        BY <1>3, <3>3, <3>5, <4>1
    <3> QED
      BY <3>4, <3>5
  <2> QED
    BY <2>2, <2>3
<1> QED
  BY <1>2, <1>3

\* No step but a call of next_index touches a balancer.
LEMMA StepStaircase == PermitInv /\ Staircase /\ [Next]_vars => Staircase'
<1> SUFFICES ASSUME PermitInv, Staircase, [Next]_vars PROVE Staircase'
  OBVIOUS
<1>1. CASE UNCHANGED <<next, picks>>
  BY <1>1 DEF Staircase, Indices
<1>2. CASE \E c \in Conns : SendUpstream(c) \/ BuildFails(c)
  <2>1. PICK c \in Conns : NextIndex(rule[c])
    BY <1>2 DEF SendUpstream, BuildFails
  <2>2. rule[c] \in Rules /\ TypeOK
    BY DEF PermitInv, TypeOK
  <2> QED
    BY <2>1, <2>2, NextIndexStaircase
<1>3. UNCHANGED <<next, picks>> \/ \E c \in Conns : SendUpstream(c) \/ BuildFails(c)
  BY DEF Next, vars, Step, Settle, Forward, TryAcquire, RejectUpgrade, UpstreamFails,
         UpstreamAnswers, UpstreamSwitches, ClientLeaves, BothUpgraded, TunnelEnds
<1> QED
  BY <1>1, <1>2, <1>3

\* Whatever the interleaving, the failures and the cancellations, between two
\* wraps of its counter a balancer never favours a target by more than one pick.
THEOREM BalancerSpreadsEvenly == Spec => []EvenSpread
<1>1. Staircase /\ TypeOK => EvenSpread
  <2> SUFFICES ASSUME Staircase, NEW r \in Rules,
                      NEW i \in Indices(r), NEW j \in Indices(r)
               PROVE  picks[r][i] <= picks[r][j] + 1
    BY DEF EvenSpread
  <2>1. PICK q \in Nat : \A h \in Indices(r) :
                      picks[r][h] = IF h < next[r] % Targets[r] THEN q + 1 ELSE q
    BY DEF Staircase
  <2> QED
    BY <2>1
<1>2. PermitInv => TypeOK
  BY DEF PermitInv
<1> QED
  BY InitPermitInv, StepPermitInv, InitStaircase, StepStaircase, <1>1, <1>2, PTL DEF Spec

-----------------------------------------------------------------------------
\* A request in flight has not been refused: Forward clears the last answer.
FreshStatus == \A c \in Conns : pc[c] # "idle" => status[c] # "503"

\* A request under way has not been answered with 503 yet.
LEMMA StepFreshStatus == PermitInv /\ FreshStatus /\ [Next]_vars => FreshStatus'
<1> SUFFICES ASSUME TypeOK, FreshStatus, [Next]_vars PROVE FreshStatus'
  BY DEF PermitInv
<1>1. CASE UNCHANGED vars
  BY <1>1 DEF vars, FreshStatus
<1>2. ASSUME NEW c \in Conns, NEW r \in Rules, NEW isUpgrade \in BOOLEAN,
             Forward(c, r, isUpgrade)
      PROVE  FreshStatus'
  BY <1>2 DEF Forward, FreshStatus, TypeOK
<1>3. ASSUME NEW c \in Conns, Step(c) \/ Settle(c) PROVE FreshStatus'
  BY <1>3 DEF Step, Settle, FreshStatus, TypeOK, TryAcquire, RejectUpgrade, SendUpstream,
              BuildFails, UpstreamFails, UpstreamAnswers, UpstreamSwitches,
              ClientLeaves, BothUpgraded, TunnelEnds
<1> QED
  BY <1>1, <1>2, <1>3 DEF Next

\* The instance's copy of Cardinality is the standard one.
LEMMA SameCardinality == Abs!Cardinality(holding) = Cardinality(holding)
  BY Zenon DEF Abs!Cardinality, Cardinality

\* The abstract view of the refused connections.
Refused == {c \in Conns : status[c] = "503"}

\* A step that drops the permit of c and does not refuse anybody is Leave(c),
\* or invisible when c had none.
LEMMA DropIsLeave ==
  ASSUME PermitInv, NEW c \in Conns, DropPermit(c), Refused' = Refused
  PROVE  [Abs!LimitNext]_(Abs!limitVars)
<1>1. CASE c \in holding
  <2>1. Abs!Leave(c)
    BY <1>1 DEF Abs!Leave, DropPermit, Refused
  <2> QED
    BY <2>1 DEF Abs!LimitNext
<1>2. CASE c \notin holding
  <2>1. holding' = holding
    BY <1>2 DEF DropPermit
  <2> QED
    BY <2>1 DEF Abs!limitVars, Refused
<1> QED
  BY <1>1, <1>2

\* The proxy's admission control implements TunnelLimit: its semaphore, its
\* error paths and its tunnel tasks together behave as a set of places.
THEOREM ForwardImplementsLimit == Spec => ImplementsTunnelLimit
<1>1. Init => Abs!LimitInit /\ FreshStatus
  BY DEF Init, Abs!LimitInit, FreshStatus
<1>2. PermitInv /\ FreshStatus /\ [Next]_vars => [Abs!LimitNext]_(Abs!limitVars)
  <2> SUFFICES ASSUME PermitInv, FreshStatus, [Next]_vars
               PROVE  [Abs!LimitNext]_(Abs!limitVars)
    OBVIOUS
  <2>0. TypeOK /\ PermitsAccounted
    BY DEF PermitInv
  <2>1. CASE UNCHANGED vars
    BY <2>1 DEF vars, Abs!limitVars
  <2>2. ASSUME NEW c \in Conns, NEW r \in Rules, NEW isUpgrade \in BOOLEAN,
               Forward(c, r, isUpgrade)
        PROVE  [Abs!LimitNext]_(Abs!limitVars)
    <3>1. Refused' = Refused \ {c} /\ holding' = holding
      BY <2>0, <2>2 DEF Forward, Refused, TypeOK
    <3>2. CASE c \in Refused
      <4>1. Abs!Forget(c)
        BY <3>1, <3>2 DEF Abs!Forget, Refused
      <4> QED
        BY <4>1 DEF Abs!LimitNext
    <3>3. CASE c \notin Refused
      BY <3>1, <3>3 DEF Abs!limitVars, Refused
    <3> QED
      BY <3>2, <3>3
  <2>3. ASSUME NEW c \in Conns, TryAcquire(c) PROVE [Abs!LimitNext]_(Abs!limitVars)
    <3>1. CASE Limited
      <4>1. c \notin holding /\ holding' = holding \cup {c} /\ Refused' = Refused
        BY <2>0, <2>3, <3>1 DEF TryAcquire, PermitsAccounted, Refused
      <4>2. Cardinality(holding) \in Nat
        BY <2>0, ProxyAssumption, FS_Subset, FS_CardinalityType DEF TypeOK
      <4>3. available > 0 /\ available \in 0 .. MaxTunnels
            /\ available + Cardinality(holding) = MaxTunnels
        BY <2>0, <2>3, <3>1 DEF TryAcquire, PermitsAccounted, TypeOK
      <4>4. Cardinality(holding) < MaxTunnels
        BY <4>2, <4>3, ProxyAssumption
      <4>5. Abs!Admit(c)
        BY <4>1, <4>4, SameCardinality DEF Abs!Admit, Refused
      <4> QED
        BY <4>5 DEF Abs!LimitNext
    <3>2. CASE ~Limited
      BY <2>3, <3>2 DEF TryAcquire, Abs!limitVars
    <3> QED
      BY <3>1, <3>2
  <2>4. ASSUME NEW c \in Conns, RejectUpgrade(c) PROVE [Abs!LimitNext]_(Abs!limitVars)
    <3>1. c \notin holding /\ holding' = holding
      BY <2>0, <2>4 DEF RejectUpgrade, PermitsAccounted
    <3>2. Refused' = Refused \cup {c}
      BY <2>0, <2>4 DEF RejectUpgrade, Refused, TypeOK
    <3>3. Cardinality(holding) \in Nat
      BY <2>0, ProxyAssumption, FS_Subset, FS_CardinalityType DEF TypeOK
    <3>4. MaxTunnels > 0 /\ Cardinality(holding) = MaxTunnels
      BY <2>0, <2>4, <3>3, ProxyAssumption DEF RejectUpgrade, PermitsAccounted, Limited
    <3>5. Abs!Refuse(c)
      BY <3>1, <3>2, <3>4, SameCardinality DEF Abs!Refuse, Refused
    <3> QED
      BY <3>5 DEF Abs!LimitNext
  <2>5. ASSUME NEW c \in Conns, SendUpstream(c) \/ UpstreamSwitches(c) \/ BothUpgraded(c)
        PROVE  [Abs!LimitNext]_(Abs!limitVars)
    <3>1. holding' = holding /\ Refused' = Refused
      BY <2>0, <2>5
      DEF SendUpstream, UpstreamSwitches, BothUpgraded, Refused, TypeOK, FreshStatus
    <3> QED
      BY <3>1 DEF Abs!limitVars, Refused
  <2>6. ASSUME NEW c \in Conns,
               \/ BuildFails(c) \/ UpstreamFails(c) \/ UpstreamAnswers(c)
               \/ ClientLeaves(c) \/ TunnelEnds(c)
        PROVE  [Abs!LimitNext]_(Abs!limitVars)
    <3>1. DropPermit(c)
      BY <2>6 DEF BuildFails, UpstreamFails, UpstreamAnswers, ClientLeaves, TunnelEnds
    <3>2. Refused' = Refused
      BY <2>0, <2>6 DEF BuildFails, UpstreamFails, UpstreamAnswers, ClientLeaves,
                        TunnelEnds, Refused, TypeOK, FreshStatus
    <3> QED
      BY <3>1, <3>2, DropIsLeave
  <2> QED
    BY <2>1, <2>2, <2>3, <2>4, <2>5, <2>6 DEF Next, Step, Settle
<1> QED
  BY InitPermitInv, StepPermitInv, StepFreshStatus, <1>1, <1>2, PTL
  DEF Spec, ImplementsTunnelLimit, Abs!LimitSpec
=============================================================================
