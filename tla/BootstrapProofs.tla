-------------------------- MODULE BootstrapProofs --------------------------
(***************************************************************************)
(* Proofs about Bootstrap, for any finite set of gateways, any documents   *)
(* and any deployments, with crashes at every step and losses of power.    *)
(***************************************************************************)
EXTENDS Bootstrap, FiniteSetTheorems, TLAPS

\* What a gateway or a file can hold: an answer of the control plane.
Answers == served \cup {None}

\* Whatever is in memory or in a file was served by the control plane.
Authentic ==
    /\ cache \in Answers \cup {Torn} /\ tmp \in Answers \cup {Torn}
    /\ \A g \in Gateways : doc[g] \in Answers /\ fetched[g] \in Answers

\* The rules Merge makes of the file's definitions and a document.
MergedRules(d) == [toml |-> config.toml # "none", remote |-> IF d \in EmptyDocs THEN None ELSE d]

\* What a gateway knows by the time it reaches a phase of its startup.
PhaseOK(g) ==
    /\ phase[g] \in {"down", "fetch", "fallback"} => doc[g] = None /\ fetched[g] = None
    /\ phase[g] \in {"merge", "running"} =>
          /\ doc[g] # None => doc[g] \in ValidDocs
          /\ fetched[g] # None => doc[g] = fetched[g]
    /\ phase[g] = "running" => Compiles(g) /\ rules[g] = MergedRules(doc[g])

\* A gateway without competitors: its descriptor names the temporary file while
\* it writes it, the file is complete before it is renamed, and nothing is
\* written after the snapshot has been published.
WriterOK(g) ==
    /\ phase[g] # "down" => g \in config.gateways
    /\ Alone => /\ fd[g] = IF phase[g] = "write" THEN "tmp" ELSE "none"
                /\ phase[g] = "rename" => tmp = doc[g]
                /\ snapshot[g] => /\ phase[g] \in {"convert", "merge", "running", "aborted"}
                                  /\ cache = fetched[g]

SoleWriter == (Alone => cache # Torn) /\ \A g \in Gateways : WriterOK(g)

BootInv == TypeOK /\ Authentic /\ (\A g \in Gateways : PhaseOK(g)) /\ SoleWriter

-----------------------------------------------------------------------------
LEMMA InitBoot == Init => BootInv
  <1> SUFFICES ASSUME Init PROVE BootInv
    OBVIOUS
  <1> USE BootstrapAssumption
  <1>1. TypeOK
    <2>1. rules \in [Gateways -> [toml : BOOLEAN, remote : Docs \cup {None}]]
      <3>1. NoRules \in [toml : BOOLEAN, remote : Docs \cup {None}]
        BY DEF NoRules
      <3> QED BY <3>1, Zenon DEF Init
    <2>2. snapshot \in [Gateways -> BOOLEAN] /\ synced \in BOOLEAN
      BY DEF Init
    <2> QED BY <2>1, <2>2 DEF Init, TypeOK, Phases, Contents
  <1>2. Authentic
    BY DEF Init, Authentic, Answers
  <1>3. \A g \in Gateways : PhaseOK(g)
    BY DEF Init, PhaseOK
  <1>4. SoleWriter
    BY DEF Init, SoleWriter, WriterOK
  <1> QED BY <1>1, <1>2, <1>3, <1>4 DEF BootInv

\* The deployment never changes, and with it who is alone.
LEMMA ConfigStays == [Next]_vars => config' = config /\ Alone' = Alone
  BY DEF Next, Proceed, Start, FetchOk, FetchFails, Timeout, OpenTmp, WriteTmp, WriteCacheFails,
         RenameTmp, Convert, UseCache, NoCache, Merge, Exit, LosePower, WriteBack, vars, Alone,
         InPlace

\* A gateway that is alone is the only one of its deployment.
LEMMA OnlyOne ==
    ASSUME TypeOK, Alone, NEW g \in config.gateways
    PROVE  config.gateways = {g}
  <1>1. config \in Deployment
    BY BootstrapAssumption DEF TypeOK
  <1>2. config.gateways \subseteq Gateways
    BY <1>1 DEF Deployment
  <1>3. IsFiniteSet(config.gateways)
    BY <1>2, FS_Subset, BootstrapAssumption
  <1>4. PICK x : config.gateways = {x}
    BY <1>3, FS_Singleton DEF Alone
  <1> QED BY <1>4

-----------------------------------------------------------------------------
\* Every step keeps the types of the state.
LEMMA TypeStep == TypeOK /\ [Next]_vars => TypeOK'
  <1> SUFFICES ASSUME TypeOK, [Next]_vars PROVE TypeOK'
    OBVIOUS
  <1> USE BootstrapAssumption DEF Phases, Contents
  <1>0. config.answers \subseteq Docs
    <2>1. config \in Deployment
      BY DEF TypeOK
    <2> QED BY <2>1 DEF Deployment
  <1>a. NoRules \in [toml : BOOLEAN, remote : Docs \cup {None}]
    BY DEF NoRules
  <1>1. ASSUME NEW g \in Gateways, Start(g) PROVE TypeOK'
    BY <1>1 DEF Start, Goto, TypeOK
  <1>2. ASSUME NEW g \in Gateways, FetchOk(g) PROVE TypeOK'
    BY <1>0, <1>2 DEF FetchOk, Goto, TypeOK
  <1>3. ASSUME NEW g \in Gateways, FetchFails(g) PROVE TypeOK'
    BY <1>3 DEF FetchFails, Goto, TypeOK
  <1>4. ASSUME NEW g \in Gateways, OpenTmp(g) PROVE TypeOK'
    BY <1>4 DEF OpenTmp, Goto, TypeOK
  <1>5. ASSUME NEW g \in Gateways, WriteTmp(g) PROVE TypeOK'
    BY <1>5 DEF WriteTmp, Written, Goto, TypeOK
  <1>6. ASSUME NEW g \in Gateways, WriteCacheFails(g) PROVE TypeOK'
    BY <1>6 DEF WriteCacheFails, Goto, TypeOK
  <1>7. ASSUME NEW g \in Gateways, RenameTmp(g) PROVE TypeOK'
    BY <1>7 DEF RenameTmp, Goto, TypeOK
  <1>8. ASSUME NEW g \in Gateways, Convert(g) PROVE TypeOK'
    BY <1>8 DEF Convert, Goto, TypeOK
  <1>9. ASSUME NEW g \in Gateways, UseCache(g) PROVE TypeOK'
    BY <1>9 DEF UseCache, Readable, Goto, TypeOK
  <1>10. ASSUME NEW g \in Gateways, NoCache(g) PROVE TypeOK'
    BY <1>10 DEF NoCache, Goto, TypeOK
  <1>11. ASSUME NEW g \in Gateways, Merge(g) PROVE TypeOK'
    <2>1. MergedRules(doc[g]) \in [toml : BOOLEAN, remote : Docs \cup {None}]
      BY DEF MergedRules, TypeOK
    <2>2. rules' \in [Gateways -> [toml : BOOLEAN, remote : Docs \cup {None}]]
      <3>1. rules' \in {rules, [rules EXCEPT ![g] = MergedRules(doc[g])]}
        BY <1>11 DEF Merge, MergedRules
      <3> QED BY <2>1, <3>1 DEF TypeOK
    <2> QED BY <1>11, <2>2 DEF Merge, Goto, TypeOK
  <1>12. ASSUME NEW g \in Gateways, Exit(g) PROVE TypeOK'
    BY <1>12, <1>a DEF Exit, Goto, TypeOK
  <1>13. CASE LosePower
    BY <1>13, <1>a DEF LosePower, TypeOK
  <1>14. CASE WriteBack
    BY <1>14 DEF WriteBack, TypeOK
  <1>15. CASE UNCHANGED vars
    BY <1>15 DEF vars, TypeOK
  <1> QED BY <1>1, <1>2, <1>3, <1>4, <1>5, <1>6, <1>7, <1>8, <1>9, <1>10, <1>11, <1>12,
             <1>13, <1>14, <1>15 DEF Next, Proceed, Timeout

\* Documents come from the control plane and are only passed on.
LEMMA AuthenticStep == TypeOK /\ Authentic /\ [Next]_vars => Authentic'
  <1> SUFFICES ASSUME TypeOK, Authentic, [Next]_vars PROVE Authentic'
    OBVIOUS
  <1> USE BootstrapAssumption DEF Authentic, Answers, TypeOK
  <1>1. ASSUME NEW g \in Gateways, FetchOk(g) PROVE Authentic'
    BY <1>1 DEF FetchOk
  <1>2. ASSUME NEW g \in Gateways, OpenTmp(g) PROVE Authentic'
    BY <1>2 DEF OpenTmp
  <1>3. ASSUME NEW g \in Gateways, WriteTmp(g) PROVE Authentic'
    BY <1>3 DEF WriteTmp, Written
  <1>4. ASSUME NEW g \in Gateways, RenameTmp(g) PROVE Authentic'
    BY <1>4 DEF RenameTmp
  <1>5. ASSUME NEW g \in Gateways, UseCache(g) PROVE Authentic'
    BY <1>5 DEF UseCache, Readable
  <1>6. ASSUME NEW g \in Gateways, Exit(g) PROVE Authentic'
    BY <1>6 DEF Exit
  <1>7. CASE LosePower
    BY <1>7 DEF LosePower
  <1>8. CASE UNCHANGED <<doc, fetched, cache, tmp, served>>
    BY <1>8
  <1> QED BY <1>1, <1>2, <1>3, <1>4, <1>5, <1>6, <1>7, <1>8
          DEF Next, Proceed, Timeout, Start, FetchFails, WriteCacheFails, Convert, NoCache,
              Merge, WriteBack, vars

\* A step of one gateway leaves what the others know alone.
LEMMA OtherPhase ==
    ASSUME NEW h \in Gateways, PhaseOK(h), config' = config,
           phase'[h] = phase[h], doc'[h] = doc[h], fetched'[h] = fetched[h], rules'[h] = rules[h]
    PROVE  PhaseOK(h)'
  BY DEF PhaseOK, Compiles, MergedRules

\* What a gateway knows about its document grows with its phases.
LEMMA PhaseStep ==
    TypeOK /\ (\A g \in Gateways : PhaseOK(g)) /\ [Next]_vars => \A g \in Gateways : PhaseOK(g)'
  <1> SUFFICES ASSUME TypeOK, \A g \in Gateways : PhaseOK(g), [Next]_vars, NEW h \in Gateways
               PROVE  PhaseOK(h)'
    OBVIOUS
  <1>0. config' = config
    BY ConfigStays
  <1>a. TypeOK'
    BY TypeStep
  <1> USE BootstrapAssumption
  <1>1. ASSUME NEW g \in Gateways,
               Start(g) \/ FetchOk(g) \/ FetchFails(g) \/ Proceed(g) \/ Exit(g)
        PROVE  PhaseOK(h)'
    <2>1. CASE h # g
      <3>1. /\ phase'[h] = phase[h] /\ doc'[h] = doc[h]
            /\ fetched'[h] = fetched[h] /\ rules'[h] = rules[h]
        BY <1>1, <2>1 DEF Start, FetchOk, FetchFails, Proceed, OpenTmp, WriteTmp,
              WriteCacheFails, RenameTmp, Convert, UseCache, NoCache, Merge, Exit, Goto, TypeOK
      <3> QED BY <3>1, <1>0, OtherPhase
    <2>2. CASE h = g
      <3>1. CASE Start(g)
        BY <2>2, <3>1 DEF Start, Goto, PhaseOK, TypeOK
      <3>2. CASE FetchOk(g)
        BY <2>2, <3>2 DEF FetchOk, Goto, PhaseOK, TypeOK
      <3>3. CASE FetchFails(g)
        BY <2>2, <3>3 DEF FetchFails, Goto, PhaseOK, TypeOK
      <3>4. CASE OpenTmp(g)
        BY <2>2, <3>4 DEF OpenTmp, Goto, PhaseOK, TypeOK
      <3>5. CASE WriteTmp(g)
        BY <2>2, <3>5 DEF WriteTmp, Goto, PhaseOK, TypeOK
      <3>6. CASE WriteCacheFails(g)
        BY <2>2, <3>6 DEF WriteCacheFails, Goto, PhaseOK, TypeOK
      <3>7. CASE RenameTmp(g)
        BY <2>2, <3>7 DEF RenameTmp, Goto, PhaseOK, TypeOK
      <3>8. CASE Convert(g)
        BY <2>2, <3>8 DEF Convert, Goto, PhaseOK, TypeOK
      <3>9. CASE UseCache(g)
        BY <2>2, <3>9 DEF UseCache, Readable, Goto, PhaseOK, TypeOK
      <3>10. CASE NoCache(g)
        BY <2>2, <3>10 DEF NoCache, Goto, PhaseOK, TypeOK
      <3>11. CASE Merge(g)
        BY <2>2, <3>11 DEF Merge, Goto, PhaseOK, Compiles, MergedRules, TypeOK
      <3>12. CASE Exit(g)
        BY <2>2, <3>12 DEF Exit, Goto, PhaseOK, TypeOK
      <3> QED BY <1>1, <3>1, <3>2, <3>3, <3>4, <3>5, <3>6, <3>7, <3>8, <3>9, <3>10, <3>11,
                 <3>12 DEF Proceed
    <2> QED BY <2>1, <2>2
  <1>2. CASE LosePower
    BY <1>2 DEF LosePower, PhaseOK
  <1>3. CASE UNCHANGED <<phase, doc, fetched, rules>>
    BY <1>0, <1>3 DEF PhaseOK, Compiles, MergedRules
  <1> QED BY <1>1, <1>2, <1>3 DEF Next, Timeout, WriteBack, vars

\* A gateway that is alone finds the other gateways down.
LEMMA OthersDown ==
    ASSUME TypeOK, SoleWriter, Alone, NEW g \in Gateways, NEW h \in Gateways,
           phase[g] # "down", h # g
    PROVE  phase[h] = "down" /\ fd[h] = "none" /\ snapshot[h] = FALSE
  <1>1. g \in config.gateways
    BY DEF SoleWriter, WriterOK
  <1>2. phase[h] = "down"
    BY <1>1, OnlyOne DEF SoleWriter, WriterOK
  <1>3. fd[h] = "none" /\ ~snapshot[h]
    BY <1>2 DEF SoleWriter, WriterOK
  <1> QED BY <1>2, <1>3 DEF TypeOK

\* The steps that write the snapshot, and those that do not.
LEMMA WriterStep == TypeOK /\ SoleWriter /\ [Next]_vars => SoleWriter'
  <1> SUFFICES ASSUME TypeOK, SoleWriter, [Next]_vars PROVE SoleWriter'
    OBVIOUS
  <1>0. config' = config /\ Alone' = Alone
    BY ConfigStays
  <1> USE BootstrapAssumption
  <1>1. ASSUME NEW g \in Gateways, Start(g) PROVE SoleWriter'
    BY <1>0, <1>1 DEF Start, Goto, SoleWriter, WriterOK, TypeOK
  <1>2. ASSUME NEW g \in Gateways, FetchOk(g) PROVE SoleWriter'
    BY <1>0, <1>2 DEF FetchOk, Goto, SoleWriter, WriterOK, TypeOK
  <1>3. ASSUME NEW g \in Gateways, FetchFails(g) PROVE SoleWriter'
    BY <1>0, <1>3 DEF FetchFails, Goto, SoleWriter, WriterOK, TypeOK
  <1>4. ASSUME NEW g \in Gateways, OpenTmp(g) PROVE SoleWriter'
    <2>1. ASSUME Alone, NEW h \in Gateways, h # g PROVE phase[h] = "down"
      BY <1>4, <2>1, OthersDown DEF OpenTmp
    <2> QED BY <1>0, <1>4, <2>1 DEF OpenTmp, Alone, Goto, SoleWriter, WriterOK, TypeOK
  <1>5. ASSUME NEW g \in Gateways, WriteTmp(g) PROVE SoleWriter'
    <2>1. ASSUME Alone, NEW h \in Gateways, h # g PROVE phase[h] = "down" /\ ~snapshot[h]
      BY <1>5, <2>1, OthersDown DEF WriteTmp
    <2>2. Alone => fd[g] = "tmp" /\ ~snapshot[g]
      BY <1>5 DEF WriteTmp, SoleWriter, WriterOK
    <2>3. Alone => Written(g) = {doc[g]}
      BY <1>5, OnlyOne DEF WriteTmp, SoleWriter, WriterOK, Written
    <2> QED BY <1>0, <1>5, <2>1, <2>2, <2>3 DEF WriteTmp, Goto, SoleWriter, WriterOK, TypeOK
  <1>6. ASSUME NEW g \in Gateways, WriteCacheFails(g) PROVE SoleWriter'
    BY <1>0, <1>6 DEF WriteCacheFails, Goto, SoleWriter, WriterOK, TypeOK
  <1>7. ASSUME NEW g \in Gateways, RenameTmp(g) PROVE SoleWriter'
    <2>1. ASSUME Alone, NEW h \in Gateways, h # g
          PROVE  phase[h] = "down" /\ fd[h] = "none" /\ snapshot[h] = FALSE
      BY <1>7, <2>1, OthersDown DEF RenameTmp
    <2>2. Alone => fd[g] = "none" /\ tmp = fetched[g] /\ tmp \in Docs
      BY <1>7 DEF RenameTmp, SoleWriter, WriterOK, TypeOK
    <2>3. ASSUME NEW h \in Gateways PROVE WriterOK(h)'
      <3>1. CASE h = g
        BY <1>0, <1>7, <2>2, <3>1 DEF RenameTmp, Alone, Goto, SoleWriter, WriterOK, TypeOK
      <3>2. CASE h # g
        BY <1>0, <1>7, <2>1, <3>2 DEF RenameTmp, Alone, Goto, SoleWriter, WriterOK, TypeOK
      <3> QED BY <3>1, <3>2
    <2>4. Alone => cache' # Torn
      BY <1>7, <2>2 DEF RenameTmp, Alone
    <2> QED BY <1>0, <2>3, <2>4 DEF SoleWriter
  <1>8. ASSUME NEW g \in Gateways, Convert(g) PROVE SoleWriter'
    BY <1>0, <1>8 DEF Convert, Goto, SoleWriter, WriterOK, TypeOK
  <1>9. ASSUME NEW g \in Gateways, UseCache(g) PROVE SoleWriter'
    BY <1>0, <1>9 DEF UseCache, Goto, SoleWriter, WriterOK, TypeOK
  <1>10. ASSUME NEW g \in Gateways, NoCache(g) PROVE SoleWriter'
    BY <1>0, <1>10 DEF NoCache, Goto, SoleWriter, WriterOK, TypeOK
  <1>11. ASSUME NEW g \in Gateways, Merge(g) PROVE SoleWriter'
    BY <1>0, <1>11 DEF Merge, Goto, SoleWriter, WriterOK, TypeOK
  <1>12. ASSUME NEW g \in Gateways, Exit(g) PROVE SoleWriter'
    BY <1>0, <1>12 DEF Exit, Goto, SoleWriter, WriterOK, TypeOK
  <1>13. CASE LosePower
    <2>1. ~Alone
      BY <1>13 DEF LosePower, Alone
    <2> QED BY <1>0, <1>13, <2>1 DEF LosePower, SoleWriter, WriterOK
  <1>14. CASE UNCHANGED <<phase, doc, fetched, snapshot, cache, tmp, fd>>
    BY <1>0, <1>14 DEF SoleWriter, WriterOK
  <1> QED BY <1>1, <1>2, <1>3, <1>4, <1>5, <1>6, <1>7, <1>8, <1>9, <1>10, <1>11, <1>12,
             <1>13, <1>14 DEF Next, Proceed, Timeout, WriteBack, vars

\* The inductive invariant of the startup.
LEMMA BootInductive == Spec => []BootInv
  <1>1. BootInv /\ [Next]_vars => BootInv'
    BY TypeStep, AuthenticStep, PhaseStep, WriterStep DEF BootInv
  <1> QED BY InitBoot, <1>1, PTL DEF Spec

-----------------------------------------------------------------------------
\* A gateway that has a document to write or to convert has fetched it in this
\* very start, and all of the state keeps its type.
THEOREM BootTypes == Spec => []TypeOK
  <1>1. BootInv => TypeOK
    BY DEF BootInv
  <1> QED BY <1>1, BootInductive, PTL

\* Whatever is torn, lost or shared: resolve_rules returns the file's rules and
\* those of one answer that was served, validated and compiled.
THEOREM OnlyAuthenticRules == Spec => []RulesAuthentic
  <1>1. BootInv => RulesAuthentic
    <2> SUFFICES ASSUME BootInv, NEW g \in Gateways, phase[g] = "running"
                 PROVE  /\ rules[g].toml <=> config.toml # "none"
                        /\ config.toml # "unsound"
                        /\ rules[g].remote # None =>
                             rules[g].remote \in (served \cap ValidDocs \cap SoundDocs) \ EmptyDocs
      BY DEF RulesAuthentic
    <2>1. PhaseOK(g) /\ doc[g] \in served \cup {None}
      BY DEF BootInv, Authentic, Answers
    <2>2. rules[g].toml = (config.toml # "none")
      BY <2>1 DEF PhaseOK, MergedRules
    <2>3. rules[g].remote = IF doc[g] \in EmptyDocs THEN None ELSE doc[g]
      BY <2>1 DEF PhaseOK, MergedRules
    <2> QED BY <2>1, <2>2, <2>3 DEF PhaseOK, Compiles
  <1> QED BY <1>1, BootInductive, PTL

\* A gateway that got an answer runs with it and not with an older snapshot.
THEOREM FreshRules == Spec => []FreshAnswerWins
  <1>1. BootInv => FreshAnswerWins
    <2> SUFFICES ASSUME BootInv, NEW g \in Gateways, phase[g] = "running", fetched[g] # None
                 PROVE  rules[g].remote = IF fetched[g] \in EmptyDocs THEN None ELSE fetched[g]
      BY DEF FreshAnswerWins
    <2>1. rules[g] = MergedRules(doc[g]) /\ doc[g] = fetched[g]
      BY DEF BootInv, PhaseOK
    <2> QED BY <2>1 DEF MergedRules
  <1> QED BY <1>1, BootInductive, PTL

\* write_cache of a gateway that shares its cache-path with no other leaves,
\* wherever it is killed, a whole file, and once renamed the answer it fetched.
THEOREM SnapshotsSound == Spec => []SnapshotSound
  <1>1. BootInv => SnapshotSound
    BY DEF BootInv, SoleWriter, WriterOK, SnapshotSound
  <1> QED BY <1>1, BootInductive, PTL
=============================================================================
