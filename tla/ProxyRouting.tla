---------------------------- MODULE ProxyRouting ----------------------------
(***************************************************************************)
(* Which proxy rule a request is forwarded by, and under which path:       *)
(* merging and sorting the definitions (resolve_rules in src/proxy.rs,     *)
(* src/proxy_sort.rs), find_rule, and the upstream URI                     *)
(* (build_upstream_uri_from_template).                                     *)
(*                                                                         *)
(* Paths are sequences over an alphabet with "/".  A source glob is a      *)
(* literal followed by no, one or two stars: globset's `*` crosses "/", so *)
(* any star at the end means "and whatever follows".                       *)
(***************************************************************************)
EXTENDS Naturals, Sequences, FiniteSets, SequencesExt

CONSTANTS Defs,       \* proxy definitions: [name, lit, stars, host, strip, base],
                      \* base being the path of the target they name
          MaxDefs,    \* bound: definitions per origin (file, control plane)
          Paths,      \* request paths
          Hosts,      \* hosts of requests and rules
          None,       \* no host, no prefix, no rule
          Failed      \* no upstream URI could be built: the answer is 502

IsPath(p) == Len(p) > 0 /\ p[1] = "/"

\* validate_route_source, which only sees definitions of the control plane: the
\* sources of the file are whatever globset compiles.
ValidSource(d) ==
    /\ IsPath(d.lit)
    /\ \A i \in 1 .. Len(d.lit) - 1 : ~(d.lit[i] = "." /\ d.lit[i + 1] = ".")

ASSUME RoutingAssumption ==
    /\ MaxDefs \in Nat
    /\ Paths \subseteq Seq(STRING) /\ \A p \in Paths : IsPath(p)
    /\ None \notin Hosts /\ None \notin Defs /\ Failed # None
    /\ \A d \in Defs : /\ d.lit \in Seq(STRING) /\ d.base \in Seq(STRING)
                       /\ d.stars \in 0 .. 2
                       /\ d.host \in Hosts \cup {None}
                       /\ d.strip = None \/ (d.strip \in Seq(STRING) /\ IsPath(d.strip))

VARIABLES toml,     \* [[advanced.proxies]] of the configuration file
          remote,   \* definitions from the control plane
          rules,    \* compiled rules in matching order
          ready,    \* has resolve_rules run?
          request,  \* the last request: [path, query, host]
          chosen,   \* the rule it was given, or None
          target    \* path sent upstream, Failed (502), or None

vars == <<toml, remote, rules, ready, request, chosen, target>>

Init ==
    /\ toml   \in UNION {[1 .. n -> Defs] : n \in 0 .. MaxDefs}
    /\ remote \in UNION {[1 .. n -> {d \in Defs : ValidSource(d)}] : n \in 0 .. MaxDefs}
    /\ rules = <<>> /\ ready = FALSE
    /\ request = None /\ chosen = None /\ target = None

-----------------------------------------------------------------------------
\* specificity_key: (source.len(), number of wildcards)
SourceLen(d) == Len(d.lit) + d.stars

\* Mutant: shorter sources first.
PrecedesShorter(ds, i, j) ==
    \/ SourceLen(ds[i]) < SourceLen(ds[j])
    \/ SourceLen(ds[i]) = SourceLen(ds[j]) /\ i < j

\* Mutant: an unstable sort.
PrecedesUnstable(ds, i, j) ==
    \/ SourceLen(ds[i]) > SourceLen(ds[j])
    \/ SourceLen(ds[i]) = SourceLen(ds[j]) /\ ds[i].stars > ds[j].stars
    \/ SourceLen(ds[i]) = SourceLen(ds[j]) /\ ds[i].stars = ds[j].stars /\ i > j

\* Definition i comes before definition j in the stable sort by key_b.cmp(&key_a),
\* which puts the larger key first in both components.
Precedes(ds, i, j) ==
    \/ SourceLen(ds[i]) > SourceLen(ds[j])
    \/ SourceLen(ds[i]) = SourceLen(ds[j]) /\ ds[i].stars > ds[j].stars
    \/ SourceLen(ds[i]) = SourceLen(ds[j]) /\ ds[i].stars = ds[j].stars /\ i < j

\* sort_proxy_defs_by_specificity
SortBySpecificity(ds) ==
    LET rank(i) == 1 + Cardinality({j \in DOMAIN ds : Precedes(ds, j, i)})
    IN  [k \in DOMAIN ds |-> ds[CHOOSE i \in DOMAIN ds : rank(i) = k]]

\* Mutant: remote definitions replace those of the file.
ResolveRulesRemoteOnly ==
    /\ ~ready
    /\ rules' = SortBySpecificity(IF remote = <<>> THEN toml ELSE remote)
    /\ ready' = TRUE
    /\ UNCHANGED <<toml, remote, request, chosen, target>>

\* resolve_rules: the file's definitions extended by the remote ones, sorted
\* and compiled one by one.
ResolveRules ==
    /\ ~ready
    /\ rules' = SortBySpecificity(toml \o remote)
    /\ ready' = TRUE
    /\ UNCHANGED <<toml, remote, request, chosen, target>>

\* rule.source.is_match
IsMatch(d, path) == IF d.stars = 0 THEN path = d.lit ELSE IsPrefix(d.lit, path)

\* The test of find_rule's loop; request_host(req)? gives up without a host.
Applies(d, r) ==
    /\ r.host # None
    /\ d.host \in {None, r.host}
    /\ IsMatch(d, r.path)

\* find_rule: the first rule that applies.
FindRule(r) ==
    LET hits == {i \in DOMAIN rules : Applies(rules[i], r)}
    IN  IF hits = {} THEN None
        ELSE rules[CHOOSE i \in hits : \A j \in hits : i <= j]

\* str::strip_prefix(..).unwrap_or(..)
StripPrefix(prefix, s) ==
    IF prefix # None /\ IsPrefix(prefix, s) THEN SubSeq(s, Len(prefix) + 1, Len(s)) ELSE s

\* str::trim_end_matches('/')
TrimEnd(s) ==
    LET n == CHOOSE n \in 0 .. Len(s) : /\ \A i \in n + 1 .. Len(s) : s[i] = "/"
                                        /\ n = 0 \/ s[n] # "/"
    IN  SubSeq(s, 1, n)

\* Mutant: what is left after the prefix is glued to the base as it is.
BuildUpstreamUriUnchecked(d, r) ==
    TrimEnd(d.base) \o StripPrefix(d.strip, IF r.query THEN Append(r.path, "?") ELSE r.path)

\* build_upstream_uri_from_template: the prefix is cut off the path *and query*;
\* a base of "/" or nothing trims to nothing.
BuildUpstreamUri(d, r) ==
    LET stripped == StripPrefix(d.strip, IF r.query THEN Append(r.path, "?") ELSE r.path)
    IN  CASE stripped = <<>>         -> TrimEnd(d.base) \o <<"/">>
          [] stripped # <<>> /\ stripped[1] # "/" -> Failed
          [] OTHER                   -> TrimEnd(d.base) \o stripped

\* A request reaches pre_process.
Route(r) ==
    /\ ready
    /\ request' = r
    /\ chosen' = FindRule(r)
    /\ target' = IF FindRule(r) = None THEN None ELSE BuildUpstreamUri(FindRule(r), r)
    /\ UNCHANGED <<toml, remote, rules, ready>>

Next == \/ ResolveRules
        \/ \E p \in Paths, q \in BOOLEAN, h \in Hosts \cup {None} :
              Route([path |-> p, query |-> q, host |-> h])

Spec == Init /\ [][Next]_vars

-----------------------------------------------------------------------------
All == toml \o remote

Routed == request # None

\* A request is proxied exactly if some definition of either origin covers its
\* host and path: merging and sorting lose none and invent none, and a request
\* without a host never is.
ProxiedIffCovered ==
    Routed => (chosen # None <=> \E i \in DOMAIN All : /\ request.host # None
                                                       /\ All[i].host \in {None, request.host}
                                                       /\ IsMatch(All[i], request.path))

\* "Specific paths to individual services [...] fallback `/app1/api/**`"
\* (docs/routes-bootstrap-v1.md): among catch-alls written the same way the
\* deepest one that applies is used, in whatever order and from whichever
\* origin they came.
DeepestCatchAllWins ==
    Routed /\ chosen # None =>
        \A i \in DOMAIN All :
            All[i].stars = chosen.stars /\ Applies(All[i], request)
                => Len(All[i].lit) <= Len(chosen.lit)

\* Of definitions with the same source the one of the file wins, and among
\* those of one origin the first.
FirstDefinitionWins ==
    Routed /\ chosen # None =>
        \A i \in DOMAIN All :
            All[i].lit = chosen.lit /\ All[i].stars = chosen.stars /\ Applies(All[i], request)
                => \E j \in 1 .. i : All[j] = chosen

\* What goes upstream begins with the target's own path, up to its trailing
\* slashes, and goes on with a slash: a prefix never cuts a segment in two.  The
\* path is compared as text: ".." in it is forwarded as it came.
TargetBelowBase ==
    target \notin {None, Failed} =>
        LET base == TrimEnd(chosen.base)
        IN  IsPrefix(base, target) /\ IsPath(SubSeq(target, Len(base) + 1, Len(target)))

\* "ties broken by fewer `*` wildcards" (proxy_sort.rs), "longer paths, fewer
\* `*` wildcards first" (docs/routes-bootstrap-v1.md).
FewerWildcardsFirst ==
    \A i, j \in DOMAIN rules :
        i < j /\ SourceLen(rules[i]) = SourceLen(rules[j]) => rules[i].stars <= rules[j].stars
=============================================================================
