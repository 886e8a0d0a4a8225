# WeaveGate in TLA+

WeaveGate is an HTTP gateway written in Rust on tokio and hyper: a static file
server (it grew out of static-web-server) with a reverse proxy whose rules come
from a TOML file and, at start, from a control plane. This directory holds TLA+
models of its control logic, the TLC instances that check them and TLAPS proofs
of the results that matter most. `PROJECT.json` maps every definition to the
lines it was translated from. In the paths below, `src/` is the crate's source directory.

## 1. The system

| component | source | state | operations | talks to |
|---|---|---|---|---|
| reverse proxy, forwarding | `proxy.rs`, `settings/mod.rs` | tunnel semaphore, one atomic counter per balancer, detached tunnel tasks | forward HTTP, forward upgrade, tunnel | handler (called by), upstreams |
| reverse proxy, rule selection | `proxy.rs`, `proxy_sort.rs`, `proxy_compile.rs` | the sorted rules, fixed after start | merge, sort, compile, find rule, build the upstream URI | bootstrap (rules), forwarding |
| routes bootstrap | `routes/` | snapshot file and its temporary file | fetch with timeout, write and read snapshot, validate, fall back | control plane, file system, other gateways on the same path |
| termination | `signals.rs`, `server.rs` | two tasks and a channel per server, one shared cancel receiver behind a mutex | signal, cancel, grace period, drain, stop | hyper servers, the embedding program |
| request pipeline | `handler.rs` and one file per stage | the request and the response being built | thirteen stages before and after the resource | all of the above and below |
| metrics | `metrics.rs`, `service.rs` | gauges, counters, histograms | open and close connection, enter and leave request, expose | pipeline |
| path resolution | `static_files.rs`, `fs/path.rs`, `fs/meta.rs` | none | sanitize, find index file, suffix or variant, check links, root and hidden names | file system, listing, file responses |
| file responses | `static_files.rs`, `response.rs`, `conditional_headers.rs`, `fs/` | open file, metadata, body stream | stat, open, range, stream | file system, memory cache |
| in-memory cache | `mem_cache/` | cache entries, one permit | look up, acquire, fill while streaming, evict | file responses |
| response decoration | `control_headers.rs`, `security_headers.rs`, `custom_headers.rs`, `text_charset.rs` | none | set headers | pipeline |
| negotiation | `headers_ext/`, `compression.rs`, `compression_static.rs` | none | order encodings by quality, choose a coding or a pre-compressed file | compression, file responses |
| directory listing and download | `directory_listing/`, `directory_listing_download.rs` | archive task and its bounded channel | list, sort, stream an archive | path resolution, file system, hyper's body channel |
| settings, TLS, transport, logging, Windows service | `settings/`, `tls.rs`, `transport.rs`, ... | configuration | parse, adapt | all |

What is hard about it, and what correctness means in each part:

* **Cancellation.** hyper drops a handler's future when the client goes away, at
  whichever `await` it is suspended. Code after that `await` never runs; only
  `Drop` does. The tunnel permit relies on `Drop` (correct when every path
  accounts for it exactly once), the in-flight gauge does not.
* **Shared atomics and detached tasks.** Upgrades race for permits, a tunnel
  outlives its request, requests of a rule race for the balancer's counter,
  which wraps. Correct: never more tunnels than configured, refusal only at the
  limit, an even spread over the targets.
* **Several ways to stop.** Two servers, each with a signal task, a cancel task
  and a channel of capacity one, share one cancel receiver. Correct: the process
  stops when and only when asked to, and cuts no request off.
* **Crashes, restarts and shared files at start.** The snapshot is written by
  rename; the gateway can die between any two system calls, and gateways may
  share the path. Correct: the rules are always those of the file and of one
  validated answer, and a fresh answer beats an old one.
* **Order of stages.** Authentication, CORS, maintenance, redirects, rewrites
  and proxy can be reordered by `proxy-first`; three stages write `Vary`.
  Upstreams and the operator bring headers of their own. Correct: no effect
  behind a closed gate; no stage loses what another one wrote.
* **Files that change under the server.** Metadata, canonical path, open and
  read are separate steps; the body is collected for the cache as it is streamed.
  Correct: no response is older than its date says, the cache holds only the
  beginning of one file, every response ends.
* **Two views of one directory.** Request path, listing and archive each decide
  by themselves which entries exist for a client: through links, hidden or not,
  below the root or not. Correct: a listing and the server agree, index files are
  tried in order, an archive leaves nothing out without showing it.
* **A task that feeds a body.** The archive is written by a detached task into a
  channel that holds one chunk, while entries come and go, errors can only cut
  the archive short, and the client may leave at any moment. Correct: a complete
  archive is complete; the task ends when nobody reads any more.
* **Preferences.** Quality values are floats multiplied by 1000 and squeezed into
  a `u16`, repeated, unparsable or spread over several header lines. Correct: the
  client gets the coding it likes best of those there are, as far as that tells.
* **Numeric edges.** Wrap-around of the counter, `b + 1` on a `u64`, ranges at
  the end of a file, prefixes that leave nothing, qualities above 65.5.

## 2. Modules

| module | models | MC module, configurations |
|---|---|---|
| `TunnelLimit` | what `max-upgrade-tunnels` promises (abstract) | through `ProxyForward` |
| `ProxyForward` | forwarding, upgrades, tunnels, balancers | `MCProxyForward` |
| `ProxyForwardProofs` | proofs about `ProxyForward` | - |
| `Shutdown` | `wait_for_signals` of every server and the end of `start_server` | `MCShutdown`, `MCShutdownPair` |
| `ShutdownProofs` | proofs about `Shutdown` | - |
| `Bootstrap` | start of a gateway, snapshot, crash and restart | `MCBootstrap`, `MCBootstrapPoison` |
| `BootstrapProofs` | proofs about `Bootstrap` | - |
| `Handler` | the pipeline and the gauges | `MCHandler` |
| `HandlerProofs` | proofs about `Handler` | - |
| `ProxyRouting` | merge, sort, match, upstream URI | `MCProxyRouting`, `MCProxyRoutingTie` |
| `ProxyRoutingProofs` | proofs about `ProxyRouting` | - |
| `ByteRange` | ranges and conditional headers, pure operators | `MCHeaders` |
| `Negotiation` | quality values, choice of a coding and of a pre-compressed file, pure operators | `MCHeaders` |
| `HeadersProofs` | proofs about `ByteRange` and `Negotiation` | - |
| `FileServing` | a file, its variant, the cache and a response, on top of `ByteRange` | `MCFileServing`, `MCFileServingWhole` |
| `FileServingProofs` | proofs about `FileServing` | - |
| `StaticPath` | from a request path to a file, a listing or an error, pure operators over a file system | through `Directory` |
| `Directory` | a request for a directory, its listing, the archive task and its channel, on top of `StaticPath` | `MCDirectory` |
| `DirectoryProofs` | proofs about `StaticPath` and `Directory` | - |

How the models follow the code:

* A step is the code between two awaits, or a single access to shared state (the
  semaphore, the balancer's counter, a channel, a file) where other threads can
  see the difference. `pc`, `phase`, `sigTask`... say where a future is.
* A future dropped by its client is an action of its own (`ClientLeaves`, `Drop`,
  `Leave`), enabled at the awaits, that releases what `Drop` releases and
  nothing else.
* Parsed text is abstracted to its outcome: a request carries "credentials are
  right", "a supported encoding is accepted", "the preflight is acceptable"; a
  document is valid or not, sound or not. Routing keeps paths as sequences of
  characters, because matching and prefix stripping are about them.
* Variables marked *ghost* record history for a property and guard nothing.
* `Mutant:` definitions are plausible bugs in the definition that follows them.
  Each property has one that TLC finds violated when it takes the place of the
  original, which shows that the property depends on that piece of code.

`ProxyForward`: `Forward` is `pre_process` after `find_rule`; `TryAcquire` and
`RejectUpgrade` are `forward_upgrade`; `SendUpstream` and `BuildFails` the call
of `upstream_uri_for_rule` (a target is consumed even if building fails);
`UpstreamFails`, `UpstreamAnswers`, `UpstreamSwitches` the outcomes of the
await; `BothUpgraded`, `TunnelEnds` the task of `tunnel_upgrades`.

`Shutdown`: per server `sigTask`, `cancelTask`, `chan` (capacity 1) and the
`waiter`; `TakeLock`/`Changed` hold the receiver's mutex across the await as the
code does; `BeginDrain` starts hyper's graceful shutdown, `Stop` is the
`select!`/`try_join!` at the end of `start_server`.

`Bootstrap`: `OpenTmp`, `WriteTmp`, `RenameTmp` are the system calls of
`write_cache`; `fd` remembers which name the open file has by now, so two
gateways interleave as on a real file system. A file that two of them write may
hold bytes of both afterwards: such a mixture (`Written`) is taken not to parse.
A `cache-path` that ends in `.tmp` is its own temporary file (`InPlace`).
`synced` and `LosePower` model the missing `fsync`.

`Handler`: one action per stage, in the order of `RequestHandler::handle`; the
whole post-processing chain is one action because nothing in it suspends. A
member of `Calls` is a request on connection `ConnOf[c]`, which with HTTP/2
carries several; `Drop` takes one future away at an await, `Close` the
connection. A response records the names in `Vary`, who put
`Access-Control-Allow-Origin` on it (the CORS module, the upstream, the
operator's custom headers) and the codings of its body. `AsUpstream` are the
headers `forward_http` copies from the upstream, `Custom` is `append_headers`.

`ProxyRouting`: `ValidSource` is `validate_route_source`, which only the control
plane's definitions pass through; a source in the file may be any glob.
`TrimEnd` and `BuildUpstreamUri` put the target's own path before the request's.

`StaticPath`: a file system is a set of paths (sequences of names) whose kinds
are fixed; `Real` is `canonicalize`, `Lstat` is `symlink_metadata`. `Sanitize`,
`Lookup`, `Compose`, `Denied`, `FileReply` and `Handle` are the functions of the same role
in `static_files.rs`, in their order (`Lookup` with the `index.html` that a memory
cache appends to a path with a slash, `Pushed`); `Listed` and `Href` are `read_dir_entries`.

`Directory`: `Request` is `static_files::handle`, which for a download spawns the
task; `Pop`, `ReadDir`, `AppendEntry`, `Finish` are the loop of `archive`, with
`frames` as its stack (entries of one directory come in any order); `GiveUp` is
the `?` behind each of its calls. `PollReady` and `TrySend` are the two halves
of `poll_write`, between which the body can be dropped; `wantWaker`, `dataWaker`
and `woken` are the registrations a sleeping task depends on. External and
modelled from how the code uses them: hyper's `Body::channel` (one chunk; when
the body is dropped the flag that says "wanted" falls before the receiver
closes), the tar builder (it finishes the archive as it is dropped), the executor.

`Negotiation`: an offer is a token with the values of its `q` parameters in
thousandths; `Quality` keeps the last one that parses; `ToU16` cuts off what the
product in `f32` falls short by (`Truncated`: 0.502 becomes 501) and saturates as
the cast to `u16` does; `Before` is the comparison of the stable sort. `Weight`,
`Outweighs`, `Listed` and `Honoured` are the reference: exact weights, the
documented list of codings, and nothing of the code's own order.

`FileServing`: `Stat`, `StatVariant`, `Resolve` (canonicalisation), `Open` and
`OpenFails` (404, 403, 500); `Poll`, `EndOfStream` and `ReadFails` are the two body
streams; `Hit`, `Miss`, `Acquire` are `get_or_acquire`. `Asks[c]` is what the client
of a connection sends: GET, HEAD (its body is dropped unread) or OPTIONS, with a
range, an accepted variant and a date of its copy if it is one of the `Keepers`.
`Deploy` and `Remove` are the operator of the site, who replaces files by rename.

## 3. Runs

Bounds are the constants of the configurations and the `Max...` constants of the
modules; every one is named where it is declared.

| run | instance | result |
|---|---|---|
| `proxy_forward` | 3 connections, 2 permits, 2 targets, a counter of 5 values (odd, so it wraps in the middle of a turn); fair | permits accounted for on all paths and returned; tunnels bounded; 503 only at the limit; even spread; implements `TunnelLimit` |
| `shutdown` | main and redirect server, cancel channel whose sender may vanish, one tick of grace, one connection each; fair | nothing stops unasked, no request is cut off, a termination signal stops the process, and so does the loss of the cancel sender (`LostSenderStops`) |
| `shutdown_cancel_pair` | the same, the sender stays | **violated** `CancelStops`: finding 1 |
| `bootstrap` | the deployments of `MCBootstrap`: 1 gateway with documents of every kind, every policy, every kind of `cache-path` and crashes; 2 gateways on one snapshot with loss of power; fair | authentic and fresh rules, also where the snapshot may be damaged; a whole snapshot (`SnapshotSound`) where one gateway uses it without loss of power and not as its own temporary file; every start settles |
| `bootstrap_poison` | 1 gateway, `cache-then-file`, sound TOML | **violated** `CacheThenFileFallsBack`: finding 2 |
| `handler` | 1 connection with 2 streams, 127 configurations, a URI of every kind, upstreams and custom headers that write `Vary` and CORS headers themselves, two futures dropped | gates, upstream URI, no name lost from `Vary`, CORS grants, gauges (`Gauges`: open connections exactly; requests in flight never too few, and exactly while none was dropped) |
| `routing` | up to 2 definitions from the file and 2 from the control plane out of 8 (one only the file may have), 6 paths, 2 hosts | covered requests are proxied, the deepest catch-all and the first definition win, what goes upstream is below the target's path |
| `routing_tie` | one definition of each origin | **violated** `FewerWildcardsFirst`: finding 3 |
| `headers` | all ranges and lengths over a small word; up to three plain or two weighted offers, weights -0.001, 0, 0.501 to 0.503, 70, 80, repeated and unparsable, on one or two lines, every set of siblings | the slice is exactly what was asked for; a satisfiable range is honoured; the coding of a compressed response, and the pre-compressed file sent, are `Honoured` by the reference definition |
| `directory` | a site with a directory, nested directory, links to it, out of the site and back to itself, a hidden file, every combination of index files, with and without memory cache; one entry that comes or goes during a download, a client that leaves; fair | `ListingAgrees`, `IndexInOrder`, `ArchiveFaithful`, `TaskEnds` |
| `file_serving` | 2 connections, one that asks in every way and keeps a copy, one that races it for the cache; 2 files deployed under 2 names, lengths 1 and 2, blocks of 2, cache on, clients that leave, opens and reads that fail; fair | dates, revalidation, cache contents, termination of streams |
| `file_whole` | 2 files, no cache | **violated** `VariantSentWhole`: finding 4 |

Why the bounds are enough: three connections give a holder, a competitor and
one that is refused, and two permits tell an off-by-one from an unlimited
semaphore. Stages keep their state per request, so one stream with every
configuration reaches each path; under two configurations a second stream shares
the gauges with it, and both futures may be dropped. Two connections make a
filler and a reader of the cache, or two fillers, of a file that is replaced or
gets a variant in between (see section 5 for the statements over any number). A
read may return any part of a block, so a body of length 2 can take more
than one. The weights 0.501 and 0.502 become the same, 0.502 and 0.503
do not; 70 and 80 both saturate, so they tie.

Bounds of `directory`: `MaxLinks` is 1 link per path (the system has 40), enough
for a link and for the cycle that ends in ELOOP; `MaxChanges` is one entry, of
`Volatile`, which includes a file behind a link and a directory with contents.
A path keeps its kind while it exists, a directory is read in one step (tokio
reads its entries in batches), and names of index and `.html` files are never
directories. There `gz` stands for every pre-compressed extension; their order
is the matter of `headers`.

**Fairness.** `FairSpec` of every module is weak fairness of the steps a task
takes by itself: the runtime polls a task that is ready. `ProxyForward` also
assumes that peers end what they began, because the code has no timeout for
upstreams or tunnels: a silent peer keeps its permit. `Shutdown` assumes the
same of draining connections, which have no deadline. `Bootstrap` assumes it of
its own steps only: `tokio::time::timeout` is in the code. `FileServing` assumes,
beside the handler's own steps (`Serve`), that a client which does not leave reads
on (`Transmit`): hyper polls a body as the client takes it, and there is no
timeout for one that stalls. It assumes nothing of deployments, evictions or
failures. `Directory` assumes that the
executor polls the archive task when it can run and that the drop of a body,
once begun, runs to its end; nothing makes a client read or leave.

**Deadlock** checking is on in every run but `headers`, which evaluates one
call and stops, and `directory`, where a behaviour is one exchange that ends when
the response has been sent, or waits for a client that does not read (there is
no timeout); a terminated process stutters explicitly.

## 4. Findings

1. *Cancel with two servers* (`server.rs:469`). One task keeps the receiver's
   mutex while it waits and consumes the change; the other server never sees it
   and the process keeps running.
2. *Poisoned snapshot* (`routes/bootstrap.rs:65`). The answer is written to the
   snapshot before it is validated. When the control plane is down at the next
   start, the invalid snapshot aborts it instead of falling back to the TOML rules.
3. *Ties* (`proxy_sort.rs:15`). Both parts of the key are sorted in descending
   order, so more wildcards win, against the comment and the documentation.
4. *Variant cut short* (`static_files.rs:421`). With an original on disk the
   body of the pre-compressed variant is cut at the original's length.

Other disagreements between code and comments or documents met while modelling,
all behaviours of the models as they stand:

* The in-flight gauge is never decremented for a request whose future is dropped
  (`handler.rs:459`), against "Number of HTTP requests currently being processed"
  (`metrics.rs:64`). `Gauges` claims no more than that it covers what is being
  processed; `InflightDrift` in `HandlerProofs` says by how much it is off.
* A Markdown variant is chosen by `Accept`, which no stage adds to `Vary`
  (`markdown.rs:55`); custom headers come last and replace `Vary`,
  `Access-Control-Allow-Origin` and `Content-Encoding` (`custom_headers.rs:61`);
  a 101 keeps the upstream's own CORS headers (`handler.rs:250`).
* A `cache-path` that ends in `.tmp` is its own temporary file and is written in
  place (`routes/bootstrap.rs:165`), against "atomic replace"
  (`docs/routes-bootstrap-v1.md`).
* The sources of the file's proxies are not validated as the control plane's are
  (`routes/document.rs:76`).
* With the memory cache and `redirect-trailing-slash`, `index.html` is looked for
  under a path with a slash whatever the list of index files says
  (`static_files.rs:113`), against `docs/content/features/multiple-index-files.md:7`.
* Gateways that share `cache-path` share the temporary file too, and it is not
  synced before the rename: the snapshot can be torn (`routes/bootstrap.rs:165`).
  `SnapshotSound` therefore speaks of one gateway without loss of power.
* `on-failure = "fail"` aborts without looking at the file's rules
  (`routes/bootstrap.rs:80`), `docs/routes-bootstrap-v1.md:116` reads otherwise.
* In maintenance mode a refused method gets 405 and `/metrics` is answered
  (`handler.rs:297`); the documentation says every request.
* An error page is labelled `text/markdown` if the variant vanished in between
  (`markdown.rs:55`).
* A longer glob, `/a/**`, sorts before the exact path `/a/b` inside it (`proxy_sort.rs:21`).
* A request for exactly the stripped prefix with a query cannot be forwarded (`proxy.rs:377`).
* A range that ends at the largest `u64` wraps and is refused (`response.rs:176`),
  and one that starts at the length gets an empty 206 (`response.rs:199`).
* The cache permit is dropped as soon as it is acquired (`mem_cache/cache.rs:128`);
  bytes of a variant, as many as the original is long, are cached under the
  original's path without their encoding (`response.rs:81`); a cached file answers `OPTIONS` too (`static_files.rs:117`);
  a variant without an original is found and then answered with 404
  (`static_files.rs:152`). For the same reason a left-over variant of an index
  file hides the index files after it.
* A coding offered with `q=0` is still used (`compression.rs:312`,
  `compression_static.rs:71`), and a client that prefers `deflate` gets the `.gz`
  file labelled `deflate` (`compression_static.rs:75`).
* A file `d.html` next to a directory `d` is sent before its second and later
  index files are looked for (`static_files.rs:403`), against the order promised
  in `docs/content/features/multiple-index-files.md:7`; `IndexInOrder` excepts it.
* A directory whose index is pre-compressed is answered without the redirect to
  the path with a slash, since it does not count as a directory (`static_files.rs:386`).
* The checks of links, root and hidden names are made on the directory of a
  directory request, not on the index file that is sent (`static_files.rs:138`).
* With links followed, the archive holds what is behind links that the listing
  leaves out (`directory_listing_download.rs:135`); a dangling link or a cycle of
  links ends the archive. A failed archive ends its body in good order; only the
  missing trailer tells (`directory_listing_download.rs:124`).

## 5. Proofs

`ProxyForwardProofs` holds for any finite set of connections, any rules, target
counts, counter width and limit (`ProxyAssumption`; `Targets` is positive because
`ProxyBalancer::new` refuses an empty list).

* `PermitsNeverLeak`: `TypeOK` and `PermitsAccounted` always hold. The inductive
  invariant `PermitInv` adds that only upgrades are in the states that precede
  and follow the acquisition; without it a plain request in `acquire` could own a
  permit. `DropPermitBalance` and `EndingStep` cover the five ways a request ends.
* `ForwardTypes`: the part of it about the types.
* `TunnelsBounded`: tunnels are a subset of the owners, whose number is
  `MaxTunnels - available`.
* `RefusalsJustified`: the action property, from `PermitInv` and the guard.
* `BalancerSpreadsEvenly`: `EvenSpread` is not inductive, since it does not say
  which targets are ahead. `Staircase` does: the targets before the counter's
  residue have exactly one pick more. The arithmetic of the residues is in
  `MulMono`, `UniqueRemainder`, `DivMod`, `NextResidue`.
* `ForwardImplementsLimit`: every step is a step of `TunnelLimit` or a stutter,
  under `admitted <- holding`, `refused <-` connections with a 503. `FreshStatus`
  (a request under way has no 503) makes `Forward` a `Forget`.

`HandlerProofs` holds for any finite set of connections, any number of requests on
each, any settings, rules, custom headers and requests and any number of dropped
futures (`HandlerAssumption`).

* `HandlerTypes`: `TypeOK`. One lemma per post-processing stage says that it
  turns a response into a response; `DataOK` is the part of `TypeOK` about the
  request and its response, `GaugeInv` the part about the gauges.
* `GaugesCover`: `Gauges`, that is `ConnectionsExact` and `InflightCovers`, which is
  not inductive. `GaugeInv` has the exact count `InflightDrift`, the requests being
  processed and the futures dropped; `inflight >= 1` where a request ends is not
  an assumption but follows from it, so the gauge never wraps below zero.
* `GatesHold`: `GuardedEffects`. A state property of `touched` is not inductive:
  `ConnInv` says for every stage which gates a request in it has passed
  (`GateOK`), which rules it has been tried against and what its URI is by then
  (`UriOK`), and that a connection without a request keeps nothing of the last
  one (`RestOK`).
* `UpstreamSeesRightUri`: `UpstreamUri`, from the same `ConnInv`.
* `VaryNeverLost` and `CorsGrantsRight`: `HeadersInv` adds to `ConnInv` what a
  response is before the post-processing (`Bare`) and after it (`Final`).
  `CorsFacts`, `CompressionStaticFacts`, `CompressionFacts` and `CustomFacts` say
  what each stage changes; `PostProper` and `CustomFinal` chain them, and
  `UpstreamFinal` is about what an upstream brings. That an allowed origin is
  granted access needs the gate as well: a preflight that the gate refuses is
  not granted any, and a refused origin reaches no upstream that could grant it.

`ProxyRoutingProofs` holds for any definitions of either origin, any number of
them, any path, host and base path of a target (`RoutingAssumption`; that
prefixes are paths is what `compile_proxy_rules` refuses otherwise; nothing is
assumed of the sources in the file).

* `Sorting`: the sort counts for each position those that precede it. Along a strict
  total order that count grows, so no two positions share one, and an injection
  of `1 .. n` into itself is onto: the result is a permutation in that order.
  `PrecedesOrder` shows that the sort's key with the position as the last
  resort is such an order, which makes the sort stable.
* `Coverage`, `DeepestWins`, `FirstWins`: `ProxiedIffCovered`,
  `DeepestCatchAllWins`, `FirstDefinitionWins`. The inductive invariant `IInv`
  ties the rules to the definitions they came from, and the rule found to the
  request; `FirstRuleApplies` says that what `find_rule` returns precedes all
  other definitions that apply.
* `Confined`: `TargetBelowBase`, from what stripping a prefix leaves
  (`StripPrefixType`), what is left of a base (`TrimEndType`) and how they are
  joined (`BelowBase`).

`HeadersProofs` holds for every word size and every length below it, and for
every list of field lines and offers (`ByteRangeAssumption`,
`NegotiationAssumption`).

* `RangesExact` and `RangesHonoured` follow from `SliceExact` and
  `SatisfiableHonoured`, case by case on the form of the range: the only
  arithmetic that can wrap is `b + 1`, and there the code refuses the range.
* `PreferredChosen` and `VariantChosen`: the first coding in sorted order that is
  wanted (supported, or with a file on disk) is the best one in the code's own
  order (`FirstIsBest`, on `EncodingsSorted`), and `FirstHonoured` carries that over
  to the reference: `QualityOfWeight` and `QualityTells` say how far a quality is
  from the weight it was made of, for any set of weights that the product
  truncates, and `PriorityListed` that priorities and documented list agree. The lines of a header are joined
  by a recursive function, whose result `FlattensExists` and `FlattenType` describe.

`ShutdownProofs` holds for any servers, grace period, number of connections and
uses of the cancel channel. `ShutdownInv` adds to the properties:

* `OnItsWay`: a demand to stop exists from the moment it is in a signal stream,
  in one of the two tasks or in the channel of a server. `StopsOnlyOnDemand` speaks
  of the waiter alone, which learns of the demand several steps later.
* `DoneIsIdle`: a server that is done has no connection left, and the process
  stops when all are done; `GracefulStop` follows.

`BootstrapProofs` holds for any finite set of gateways, any documents and
deployments, with crashes at every step and losses of power. `BootInv` adds:

* `Authentic`: whatever is in memory or in a file was served by the control
  plane, or is torn. With `PhaseOK`, what a gateway knows by the time it reaches a
  phase, it gives `OnlyAuthenticRules` and `FreshRules`.
* `SoleWriter`: in a deployment of one gateway, on a machine that keeps its power
  and with a `cache-path` that does not end in `.tmp`, its descriptor names the temporary file only while it writes, the file is
  complete before it is renamed, and nothing is written after that. `SnapshotsSound` needs it; that the others are
  down comes from the cardinality of the deployment (`OnlyOne`, `OthersDown`),
  which is why `Gateways` is assumed finite.

`FileServingProofs` holds for any connections, files, lengths, ranges and block
sizes, with and without cache and pre-compressed variants. It assumes
`ClockAssumption`: a file deployed later has a later modification time; without it
`NotModifiedFresh` is false of the code, since a date with the precision of a second
does not tell two files of the same second apart. `FileInv` adds:

* `Pair`: for each pair of a file and a date (cached, being sent, or in a client's
  copy) the date is that of some file deployed so far, an original is not older
  than its date, and no file on the disk of the same name that is not newer than
  the date was deployed after it. The last part makes a 304 safe
  (`NotModifiedIsFresh`); a deployment keeps it since the new file is newer than
  every date there is (`PairDeployed`).
* `MetaOK`: between the metadata and the opening of the file what is under the
  name only gets newer (`LabelsFresh`), so that the metadata is of the file
  that is opened or of one it replaced (`Describes`).
* `StreamOK`: a stream is within its slice, the slice within the length in the
  metadata, and the buffer for the cache has what was sent. A buffer that is as
  long as the metadata says therefore began at offset 0 (`ReadFacts`,
  `CacheIsAuthentic`).
* `FreshOK`: nothing is left of an earlier request on the connection.

`SliceWithin`, `CheckFacts` and `HeadFacts` say what `FileServing` relies on of
`ByteRange`.

`DirectoryProofs` holds for any tree of files with links, any list of index
files, options and requests, and any number of changes beside a download.
`StaticPathAssumption` says what a file system is: every path has a parent
directory, no name is `.` or `..`, a link leads to something that is no
link, the root is a directory. `FileSystem` is what a set of paths must have to be one;
every change keeps it.

* `WalkDef`, `SanitizeDef`: `Real` and `Sanitize` use recursive functions on the
  length of a path, and that they satisfy their equations has to be proved
  first (`WalksExists`, `WalksAgree` and their counterparts: there is a solution of
  each size, and any two agree).
* `IndexServed`: `IndexInOrder`. `LookupType` is about the path with or without
  the appended `index.html`; `HandleAnswer` splits a request into what was
  found and how it was checked; `PlainDir` and `ShownDir` say where the
  candidates of a path lie, and `ShownReply` which reply follows from each.
* `ListingsAgree`: `ListingAgrees`. The path of a listed entry is the path of its
  directory and one more name, so `Denied` of the one is `Denied` of the
  other and the test of that name (`OneMore`, `EntryDenied`), and
  `RealAppend` says where it leads. Both invariants need `Exchange`: the reply is
  the one the server would give now.
* `ArchivesFaithful`: `ArchiveFaithful`. That an archive is complete is a statement
  about its last byte, and nothing of it can be seen earlier in `received`
  alone. `IInv` adds to `Exchange`:
  - `Shape`: entries on the stack and items on their way are admitted and, where
    links are disabled, on a path without any. What is about to be stored as a
    file is no directory that was there all along: what a link leads to can
    come or go between the look at an entry and the storing of it.
  - `Order`: items pass from the buffer to the slot to the client, and the
    trailer is the last of them, written by a walk whose stack is empty.
  - `Progress`: while the archive can still succeed, each entry that was there all along
    of each directory already stored is stored, waiting on the stack or in hand.
  - `Ended`: with the trailer nothing is waiting any more, so it is stored.

* `WakeupsKept`: an archive task that sleeps with no wake-up pending has a client that still reads,
  a full channel and both of its registrations (`NoLostWakeup`), wherever the
  drop of the body falls. It is the safety on which `TaskEnds` rests, and
  inductive because it also speaks of the task between `poll_ready` and
  `try_send_data`.

The provers lack induction over a predicate. `NatInduct` and `SeqInduct` are
induction over a *set* of numbers or sequences, from the least element that a
well-founded order (`NatLessThanWellFounded`, `WFMin`) gives to the
counterexamples.

Only model-checked: liveness under fairness (`PermitReturned`, `SignalStops`,
`LostSenderStops`, `StartupSettles`, `Settles`, `TaskEnds`), which is out of the prover's reach, and
the runs that end in a violation. Every other property of a passing run is also a theorem.

## 6. Not modelled

Parsing of settings from the command line and TOML, which is declarative: its
outcome is the constants and configurations of the models. TLS and transport
adapters, polling glue without state of their own. The sorting and rendering of
listings; the text of headers, pages and logs; the search of an `Accept` header
for `text/markdown`; counters and histograms that only grow; the Windows service.

## 7. Plan

1. Proofs: the safety behind the liveness that is only model-checked, as
   `WakeupsKept` is for `TaskEnds`: for `Shutdown`, that a waiter which holds the lock
   has a sender left; for `ProxyForward`, that a permit is held only where a step
   that returns it can follow.
2. `Gateway`: `Bootstrap`, `ProxyRouting`, `Handler` and `ProxyForward` composed.
