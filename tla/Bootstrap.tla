----------------------------- MODULE Bootstrap -----------------------------
(***************************************************************************)
(* Where a starting gateway gets its proxy rules from: resolve_rules       *)
(* (src/proxy.rs), the control-plane fetch with its timeout, the on-disk   *)
(* snapshot and the on-failure policies (src/routes/bootstrap.rs), the     *)
(* validation of the document (src/routes/document.rs) and of the rules    *)
(* (src/proxy_compile.rs).                                                 *)
(*                                                                         *)
(* Gateways start, abort, run, crash at any step and start again; those    *)
(* that share a configuration share the snapshot file and its temporary    *)
(* file, and only files survive.                                           *)
(***************************************************************************)
EXTENDS Naturals, FiniteSets

CONSTANTS Gateways,     \* processes that may be started
          Docs,         \* documents the control plane may answer with (JSON
                        \* that deserialises into RoutesDocument)
          ValidDocs,    \* those into_proxy_defs accepts
          EmptyDocs,    \* those without a single route
          SoundDocs,    \* those whose routes compile_proxy_rules accepts
          Configs,      \* deployments to consider, see Deployment below
          None, Torn    \* no document; a file that is not valid JSON

\* The on-failure policy, the cache-path ("tmp" for one that already ends in
\* .tmp), the [[advanced.proxies]] of the file, the gateways that share all this,
\* what their control plane may answer with, may the machine lose power?
Deployment == [mode      : {"cache-then-file", "fail", "file-only"},
               cachePath : {"none", "plain", "tmp"},
               toml      : {"none", "sound", "unsound"},
               gateways  : SUBSET Gateways,
               answers   : SUBSET Docs,
               powerLoss : BOOLEAN]

ASSUME BootstrapAssumption ==
    /\ IsFiniteSet(Gateways)
    /\ ValidDocs \subseteq Docs /\ SoundDocs \subseteq Docs
    /\ EmptyDocs \subseteq ValidDocs \cap SoundDocs
    /\ Configs \subseteq Deployment
    /\ None \notin Docs /\ Torn \notin Docs /\ None # Torn

VARIABLES config,    \* the deployment, the same at every start
          phase,     \* how far the startup of each gateway is
          doc,       \* the document fetched or read, None before
          rules,     \* the rules a gateway runs with
          fetched,   \* ghost: the answer of the control plane in this start
          snapshot,  \* ghost: did this start publish its answer in the cache?
          cache,     \* content of the file at cache-path
          tmp,       \* content of the temporary file next to it
          synced,    \* has the system written the cache file back to the disk?
          fd,        \* the file a gateway's open descriptor now names
          served     \* ghost: documents the control plane ever answered with

vars == <<config, phase, doc, rules, fetched, snapshot, cache, tmp, synced, fd, served>>

NoRules == [toml |-> FALSE, remote |-> None]

Phases == {"down", "fetch", "open", "write", "rename", "convert", "fallback",
           "merge", "running", "aborted"}

Init ==
    /\ config \in Configs
    /\ phase    = [g \in Gateways |-> "down"]
    /\ doc      = [g \in Gateways |-> None]
    /\ rules    = [g \in Gateways |-> NoRules]
    /\ fetched  = [g \in Gateways |-> None]
    /\ snapshot = [g \in Gateways |-> FALSE]
    /\ fd       = [g \in Gateways |-> "none"]
    /\ cache = None /\ tmp = None /\ synced = TRUE
    /\ served = {}

Goto(g, p) == phase' = [phase EXCEPT ![g] = p]

-----------------------------------------------------------------------------
\* resolve_rules begins; fetch_routes_defs returns None at once for file-only.
Start(g) ==
    /\ phase[g] = "down" /\ g \in config.gateways
    /\ Goto(g, IF config.mode = "file-only" THEN "merge" ELSE "fetch")
    /\ UNCHANGED <<config, doc, rules, fetched, snapshot, cache, tmp, synced, fd, served>>

\* The control plane answers in time with a document that deserialises.
FetchOk(g) ==
    /\ phase[g] = "fetch"
    /\ \E d \in config.answers :
         /\ doc' = [doc EXCEPT ![g] = d]
         /\ fetched' = [fetched EXCEPT ![g] = d]
         /\ served' = served \cup {d}
    /\ Goto(g, IF config.cachePath # "none" THEN "open" ELSE "convert")
    /\ UNCHANGED <<config, rules, snapshot, cache, tmp, synced, fd>>

\* Mutant: a failed fetch falls through to the conversion of the document.
FetchFailsConverts(g) ==
    /\ phase[g] = "fetch"
    /\ Goto(g, "convert")
    /\ UNCHANGED <<config, doc, rules, fetched, snapshot, cache, tmp, synced, fd, served>>

\* Connection refused, HTTP error, body or JSON error, missing token variable.
FetchFails(g) ==
    /\ phase[g] = "fetch"
    /\ Goto(g, "fallback")
    /\ UNCHANGED <<config, doc, rules, fetched, snapshot, cache, tmp, synced, fd, served>>

\* Mutant: the request is awaited without tokio::time::timeout.
NoTimeout(g) == FALSE /\ FetchFails(g)

\* tokio::time::timeout elapses: handled like any other failure.
Timeout(g) == FetchFails(g)

\* Mutant: the snapshot is written in place.
WriteInPlace(g) ==
    /\ phase[g] = "open"
    /\ cache' = Torn
    /\ fd' = [fd EXCEPT ![g] = "cache"]
    /\ Goto(g, "write")
    /\ UNCHANGED <<config, doc, rules, fetched, snapshot, tmp, synced, served>>

\* path.with_extension("tmp") is the path itself: the snapshot is its own
\* temporary file.
InPlace == config.cachePath = "tmp"

\* write_cache, std::fs::write opens (creates or truncates) the temporary file.
OpenTmp(g) ==
    /\ phase[g] = "open"
    /\ IF InPlace
       THEN cache' = Torn /\ synced' = FALSE /\ UNCHANGED tmp
       ELSE tmp' = Torn /\ UNCHANGED <<cache, synced>>
    /\ fd' = [fd EXCEPT ![g] = IF InPlace THEN "cache" ELSE "tmp"]
    /\ Goto(g, "write")
    /\ UNCHANGED <<config, doc, rules, fetched, snapshot, served>>

\* What a file may hold once a gateway has written its document to it: in a file
\* that others write too, bytes of theirs can be left behind the end of a
\* shorter document or in between, and the mixture does not parse.
Written(g) == {doc[g]} \cup IF config.gateways = {g} THEN {} ELSE {Torn}

\* ... and fills it.  The descriptor names whatever file that inode is by now.
WriteTmp(g) ==
    /\ phase[g] = "write"
    /\ tmp' \in IF fd[g] = "tmp" THEN Written(g) ELSE {tmp}
    /\ cache' \in IF fd[g] = "cache" THEN Written(g) ELSE {cache}
    /\ synced' = IF fd[g] = "cache" THEN FALSE ELSE synced
    /\ fd' = [fd EXCEPT ![g] = "none"]
    /\ Goto(g, "rename")
    /\ UNCHANGED <<config, doc, rules, fetched, snapshot, served>>

\* Any step of write_cache may fail (no space, no permission): a warning only.
WriteCacheFails(g) ==
    /\ phase[g] \in {"open", "write", "rename"}
    /\ fd' = [fd EXCEPT ![g] = "none"]
    /\ Goto(g, "convert")
    /\ UNCHANGED <<config, doc, rules, fetched, snapshot, cache, tmp, synced, served>>

\* std::fs::rename over cache-path, without an fsync before or after it; of a
\* file onto itself it does nothing.
RenameTmp(g) ==
    /\ phase[g] = "rename"
    /\ \/ InPlace /\ cache # None /\ UNCHANGED <<cache, tmp, synced, fd>>
       \/ /\ ~InPlace /\ tmp # None
          /\ cache' = tmp /\ tmp' = None /\ synced' = FALSE
          /\ fd' = [h \in Gateways |-> IF fd[h] = "tmp" THEN "cache"
                                       ELSE IF fd[h] = "cache" THEN "gone" ELSE fd[h]]
    /\ snapshot' = [snapshot EXCEPT ![g] = TRUE]
    /\ Goto(g, "convert")
    /\ UNCHANGED <<config, doc, rules, fetched, served>>

\* Mutant: a document is used without the checks of into_proxy_defs.
ConvertUnchecked(g) ==
    /\ phase[g] = "convert"
    /\ Goto(g, "merge")
    /\ UNCHANGED <<config, doc, rules, fetched, snapshot, cache, tmp, synced, fd, served>>

\* read_cache returns a document only for a file that exists and parses.
Readable == config.cachePath # "none" /\ cache \in Docs

\* Mutant: the snapshot is read back and preferred to the answer.
ConvertPrefersCache(g) ==
    /\ phase[g] = "convert"
    /\ LET d == IF Readable THEN cache ELSE doc[g]
       IN  /\ doc' = [doc EXCEPT ![g] = d]
           /\ Goto(g, IF d \in ValidDocs THEN "merge" ELSE "aborted")
    /\ UNCHANGED <<config, rules, fetched, snapshot, cache, tmp, synced, fd, served>>

\* doc.into_proxy_defs()?: an error of a fetched document aborts the startup
\* whatever on-failure says.
Convert(g) ==
    /\ phase[g] = "convert"
    /\ Goto(g, IF doc[g] \in ValidDocs THEN "merge" ELSE "aborted")
    /\ UNCHANGED <<config, doc, rules, fetched, snapshot, cache, tmp, synced, fd, served>>

\* handle_fetch_failure with a readable snapshot: validation errors propagate.
UseCache(g) ==
    /\ phase[g] = "fallback"
    /\ Readable
    /\ doc' = [doc EXCEPT ![g] = cache]
    /\ Goto(g, IF cache \in ValidDocs THEN "merge" ELSE "aborted")
    /\ UNCHANGED <<config, rules, fetched, snapshot, cache, tmp, synced, fd, served>>

\* handle_fetch_failure without one.
NoCache(g) ==
    /\ phase[g] = "fallback"
    /\ ~Readable
    /\ Goto(g, IF config.mode = "fail" THEN "aborted" ELSE "merge")
    /\ UNCHANGED <<config, doc, rules, fetched, snapshot, cache, tmp, synced, fd, served>>

\* compile_proxy_rules of the TOML definitions and the remote ones together.
Compiles(g) == config.toml # "unsound" /\ (doc[g] # None => doc[g] \in SoundDocs)

\* The rest of resolve_rules: TOML definitions extended by the remote ones are
\* sorted and compiled; one bad rule aborts the startup.
Merge(g) ==
    /\ phase[g] = "merge"
    /\ IF Compiles(g)
       THEN /\ Goto(g, "running")
            /\ rules' = [rules EXCEPT ![g] = [toml |-> config.toml # "none",
                                              remote |-> IF doc[g] \in EmptyDocs THEN None
                                                         ELSE doc[g]]]
       ELSE /\ Goto(g, "aborted")
            /\ UNCHANGED rules
    /\ UNCHANGED <<config, doc, fetched, snapshot, cache, tmp, synced, fd, served>>

\* A gateway forgets everything but its files: it is stopped, aborted, killed
\* or crashes, at any point of its startup.
Exit(g) ==
    /\ phase[g] # "down"
    /\ Goto(g, "down")
    /\ doc'      = [doc EXCEPT ![g] = None]
    /\ rules'    = [rules EXCEPT ![g] = NoRules]
    /\ fetched'  = [fetched EXCEPT ![g] = None]
    /\ snapshot' = [snapshot EXCEPT ![g] = FALSE]
    /\ fd'       = [fd EXCEPT ![g] = "none"]
    /\ UNCHANGED <<config, cache, tmp, synced, served>>

\* The machine loses power: a cache file not yet written back may be damaged.
LosePower ==
    /\ config.powerLoss
    /\ phase'    = [g \in Gateways |-> "down"]
    /\ doc'      = [g \in Gateways |-> None]
    /\ rules'    = [g \in Gateways |-> NoRules]
    /\ fetched'  = [g \in Gateways |-> None]
    /\ snapshot' = [g \in Gateways |-> FALSE]
    /\ fd'       = [g \in Gateways |-> "none"]
    /\ cache' \in IF synced THEN {cache} ELSE {cache, Torn}
    /\ tmp' \in {tmp, IF tmp = None THEN None ELSE Torn}
    /\ synced' = TRUE
    /\ UNCHANGED <<config, served>>

\* The operating system writes dirty pages back.
WriteBack ==
    /\ ~synced
    /\ synced' = TRUE
    /\ UNCHANGED <<config, phase, doc, rules, fetched, snapshot, cache, tmp, fd, served>>

Proceed(g) == \/ OpenTmp(g) \/ WriteTmp(g) \/ WriteCacheFails(g) \/ RenameTmp(g)
              \/ Convert(g) \/ UseCache(g) \/ NoCache(g) \/ Merge(g)

Next == \/ \E g \in Gateways : \/ Start(g) \/ FetchOk(g) \/ FetchFails(g) \/ Timeout(g)
                               \/ Proceed(g) \/ Exit(g)
        \/ LosePower \/ WriteBack

Spec == Init /\ [][Next]_vars

\* The startup code runs on; the timer of the fetch fires.  Nothing makes the
\* control plane answer.
FairSpec == Spec /\ \A g \in Gateways : WF_vars(Proceed(g)) /\ WF_vars(Timeout(g))

-----------------------------------------------------------------------------
Contents == Docs \cup {None, Torn}

TypeOK ==
    /\ config \in Configs
    /\ phase \in [Gateways -> Phases]
    /\ doc \in [Gateways -> Docs \cup {None}]
    /\ rules \in [Gateways -> [toml : BOOLEAN, remote : Docs \cup {None}]]
    /\ fetched \in [Gateways -> Docs \cup {None}]
    /\ snapshot \in [Gateways -> BOOLEAN]
    /\ cache \in Contents /\ tmp \in Contents
    /\ synced \in BOOLEAN
    /\ fd \in [Gateways -> {"none", "tmp", "cache", "gone"}]
    /\ served \subseteq Docs
    /\ \A g \in Gateways : phase[g] \in {"open", "write", "rename", "convert"}
                            => doc[g] = fetched[g] /\ doc[g] # None

\* A gateway that runs proxies only by remote rules the control plane really
\* served at some time, that passed validation and compilation, and in addition
\* to all of the file's rules; whatever was cached, torn or lost on the way.
RulesAuthentic ==
    \A g \in Gateways : phase[g] = "running" =>
        /\ rules[g].toml <=> config.toml # "none"
        /\ config.toml # "unsound"
        /\ rules[g].remote # None =>
              rules[g].remote \in (served \cap ValidDocs \cap SoundDocs) \ EmptyDocs

\* When the control plane answered, its answer is what the gateway runs with,
\* never an older snapshot.
FreshAnswerWins ==
    \A g \in Gateways : phase[g] = "running" /\ fetched[g] # None =>
        rules[g].remote = IF fetched[g] \in EmptyDocs THEN None ELSE fetched[g]

\* One gateway of its own cache-path, that does not end in .tmp, on a machine
\* that keeps its power.
Alone == Cardinality(config.gateways) = 1 /\ ~config.powerLoss /\ ~InPlace

\* "WeaveGate writes the raw JSON response to `cache-path` (atomic replace)"
\* (docs/routes-bootstrap-v1.md): the file at cache-path is never partial,
\* wherever a gateway is killed; and once published it is the answer it was
\* taken from, so that a later start that falls back finds what this one fetched.
SnapshotSound ==
    Alone => /\ cache # Torn
             /\ \A g \in Gateways : snapshot[g] => cache = fetched[g]

\* Every start ends: the gateway runs, aborts or is stopped, even when the
\* control plane accepts the connection and never answers.
StartupSettles ==
    \A g \in Gateways :
        phase[g] \notin {"down", "running", "aborted"}
            ~> phase[g] \in {"down", "running", "aborted"}

\* "HTTP failure -> read `cache-path` snapshot -> fall back to TOML"
\* (docs/routes-bootstrap-v1.md, cache-then-file): with sound TOML rules, a
\* gateway whose fetch failed does not abort.
CacheThenFileFallsBack ==
    \A g \in Gateways :
        phase[g] = "aborted" /\ config.mode = "cache-then-file" /\ config.toml = "sound"
            => fetched[g] # None
=============================================================================
