------------------------------ MODULE Handler ------------------------------
(***************************************************************************)
(* The request pipeline: RequestHandler::handle (src/handler.rs), the      *)
(* stages it calls before and after the resource is produced, and the      *)
(* gauges of src/metrics.rs that src/service.rs and the handler maintain.  *)
(*                                                                         *)
(* A member of Calls stands for one call of RequestService on connection   *)
(* ConnOf[c] at a time: the request of an HTTP/1 connection, a stream of an *)
(* HTTP/2 one, which multiplexes several.  The handler suspends only while *)
(* it waits for an upstream or for the file system; a client that resets   *)
(* the stream or goes away then takes the future with it.                  *)
(***************************************************************************)
EXTENDS Naturals, Sequences, FiniteSets

CONSTANTS Conns,        \* client connections
          Calls,        \* requests that can be on the connections at once
          ConnOf,       \* ConnOf[c]: the connection of a call
          Configs,      \* server settings to consider
          Requests,     \* Requests[f][c]: requests sent in call c under settings f
          Uris,         \* host and path of a request
          HealthUris,   \* those whose path is /health
          MetricsUris,  \* those whose path is /metrics
          RedirectRule, \* RedirectRule[u]: none, redirect, or a bad destination
          RewriteRule,  \* RewriteRule[u]: [kind, to]
          Routed,       \* URIs for which find_rule finds a proxy rule
          CustomHeaders,\* CustomHeaders[u]: the sets of headers [[advanced.headers]]
                        \* may insert for u, depending on the index file found
          MaxDrops      \* bound: futures dropped during a request

Methods == {"GET", "HEAD", "OPTIONS", "other"}

Config == [health : BOOLEAN, metrics : BOOLEAN, cors : BOOLEAN,
           auth : {"off", "on", "malformed"}, maintenance : BOOLEAN,
           proxyFirst : BOOLEAN, markdown : BOOLEAN, fallback : BOOLEAN,
           compression : BOOLEAN, compressionStatic : BOOLEAN]

\* uri, method and what the headers say: the Origin, whether the headers of a
\* preflight name an allowed method and allowed headers, whether the
\* credentials are right, whether a supported encoding is accepted and whether
\* text/markdown is.
Request == [uri : Uris, method : Methods, origin : {"none", "allowed", "denied"},
            preflight : BOOLEAN, creds : BOOLEAN, encoding : BOOLEAN, md : BOOLEAN]

ASSUME HandlerAssumption ==
    /\ IsFiniteSet(Conns) /\ IsFiniteSet(Calls) /\ ConnOf \in [Calls -> Conns]
    /\ Configs \subseteq Config
    /\ Requests \in [Configs -> [Calls -> SUBSET Request]]
    /\ HealthUris \subseteq Uris /\ MetricsUris \subseteq Uris /\ Routed \subseteq Uris
    /\ RedirectRule \in [Uris -> {"none", "redirect", "error"}]
    /\ RewriteRule \in [Uris -> [kind : {"none", "redirect", "error", "uri"}, to : Uris]]
    /\ CustomHeaders \in [Uris -> SUBSET SUBSET {"vary", "acao", "encoding"}]
    /\ MaxDrops \in Nat

VARIABLES config,      \* RequestHandlerOpts
          open,        \* connections with a RequestService
          pc,          \* the stage the request of a call is in
          req,         \* the request as it was sent
          uri,         \* its URI now: rewrites change it
          variant,     \* did markdown::pre_process find a variant?
          resp,        \* the response so far
          sent,        \* ghost: the URI a request went upstream with, or "none"
          touched,     \* ghost: what the request reached, upstream or disk
          inflight,    \* sws_http_requests_inflight
          connections, \* sws_http_connections_active
          dropped      \* ghost: futures dropped during a request

vars == <<config, open, pc, req, uri, variant, resp, sent, touched, inflight, connections, dropped>>

\* idle: no request.  The other values name the next stage; "upstream" and
\* "disk" are the two awaits.
PCs == {"idle", "method", "health", "metrics", "cors", "auth",
        "maintenance", "proxyEarly", "redirects", "rewrites", "proxyLate",
        "static", "upstream", "disk", "post", "finish"}

\* A response: the stage that made it, status, body, type, Vary (the set of
\* names; "upstream" and "custom" stand for what those wrote there), who put
\* Access-Control-Allow-Origin on it, the codings applied to the body and who
\* wrote Content-Encoding.
Reply(by, status, body, ctype) ==
    [by |-> by, status |-> status, body |-> body, ctype |-> ctype,
     vary |-> {}, acao |-> "none", enc |-> <<>>, label |-> "own"]

Makers == {"none", "method", "health", "metrics", "cors", "auth", "maintenance",
           "redirects", "rewrites", "proxy", "static"}
Bodies == {"empty", "page", "ok", "file", "markdown", "upstream"}
Types  == {"none", "html", "text", "binary", "markdown"}
VaryNames == {"origin", "accept-encoding", "upstream", "custom"}
Granters == {"none", "cors", "upstream", "custom"}

Response == [by : Makers, status : Nat, body : Bodies, ctype : Types,
             vary : SUBSET VaryNames, acao : Granters,
             enc : Seq({"pre", "auto"}), label : {"own", "custom"}]

NoReply == Reply("none", 0, "empty", "none")

NoRequest == [uri |-> "none", method |-> "other", origin |-> "none", preflight |-> FALSE,
              creds |-> FALSE, encoding |-> FALSE, md |-> FALSE]

\* error_page::error_response
ErrorResponse(by, status) == Reply(by, status, "page", "html")

Init ==
    /\ config \in Configs
    /\ open = {}
    /\ pc      = [c \in Calls |-> "idle"]
    /\ req     = [c \in Calls |-> NoRequest]
    /\ uri     = [c \in Calls |-> "none"]
    /\ variant = [c \in Calls |-> FALSE]
    /\ resp    = [c \in Calls |-> NoReply]
    /\ sent    = [c \in Calls |-> "none"]
    /\ touched = [c \in Calls |-> {}]
    /\ inflight = 0 /\ connections = 0 /\ dropped = 0

Goto(c, stage) == pc' = [pc EXCEPT ![c] = stage]

\* The request, its future and its response are gone.
Forget(c) ==
    /\ req'     = [req EXCEPT ![c] = NoRequest]
    /\ uri'     = [uri EXCEPT ![c] = "none"]
    /\ variant' = [variant EXCEPT ![c] = FALSE]
    /\ resp'    = [resp EXCEPT ![c] = NoReply]
    /\ sent'    = [sent EXCEPT ![c] = "none"]
    /\ touched' = [touched EXCEPT ![c] = {}]

Answer(c, r) == Goto(c, "finish") /\ resp' = [resp EXCEPT ![c] = r]

\* The common shape of a stage: answer with r if the condition holds, or go on.
Stage(c, here, condition, r, next) ==
    /\ pc[c] = here
    /\ IF condition THEN Answer(c, r) ELSE Goto(c, next) /\ UNCHANGED resp
    /\ UNCHANGED <<config, open, req, uri, variant, sent, touched, inflight, connections, dropped>>

-----------------------------------------------------------------------------
\* RequestService::new and its Drop.  A connection may end at any time; the
\* calls of an HTTP/2 connection are tasks of their own and end after it.  A
\* member of Conns stands for a new connection once the old one's are gone.
Open(k) ==
    /\ k \notin open
    /\ \A c \in Calls : ConnOf[c] = k => pc[c] = "idle"
    /\ open' = open \cup {k}
    /\ connections' = connections + 1
    /\ UNCHANGED <<config, pc, req, uri, variant, resp, sent, touched, inflight, dropped>>

Close(k) ==
    /\ k \in open
    /\ open' = open \ {k}
    /\ connections' = connections - 1
    /\ UNCHANGED <<config, pc, req, uri, variant, resp, sent, touched, inflight, dropped>>

\* A request arrives: handle() is called and counts it.
Arrive(c, q) ==
    /\ ConnOf[c] \in open
    /\ pc[c] = "idle"
    /\ Goto(c, "method")
    /\ req' = [req EXCEPT ![c] = q]
    /\ uri' = [uri EXCEPT ![c] = q.uri]
    /\ inflight' = IF config.metrics THEN inflight + 1 ELSE inflight
    /\ UNCHANGED <<config, open, variant, resp, sent, touched, connections, dropped>>

\* MethodExt::is_allowed
MethodAllowed(q) == q.method \in {"GET", "HEAD", "OPTIONS"}

CheckMethod(c) ==
    Stage(c, "method", ~MethodAllowed(req[c]), ErrorResponse("method", 405), "health")

Health(c) ==
    Stage(c, "health",
          config.health /\ uri[c] \in HealthUris /\ req[c].method \in {"GET", "HEAD"},
          Reply("health", 200, "ok", "html"), "metrics")

Metrics(c) ==
    Stage(c, "metrics",
          config.metrics /\ uri[c] \in MetricsUris /\ req[c].method \in {"GET", "HEAD"},
          Reply("metrics", 200, "ok", "text"), "cors")

\* Configured::check_request: Ok or Forbidden.
CorsAllows(q) ==
    \/ q.origin = "none"
    \/ q.origin = "allowed" /\ (q.method = "OPTIONS" => q.preflight)

Cors(c) ==
    Stage(c, "cors", config.cors /\ ~CorsAllows(req[c]),
          ErrorResponse("cors", 403), "auth")

\* basic_auth::pre_process lets the request through.
Authorized(q) ==
    \/ config.auth = "off"
    \/ q.method = "OPTIONS"
    \/ config.auth = "on" /\ q.creds

BasicAuth(c) ==
    Stage(c, "auth", ~Authorized(req[c]),
          ErrorResponse("auth", IF config.auth = "malformed" THEN 500 ELSE 401),
          "maintenance")

\* Mutant: with proxy-first the proxy comes before the maintenance page.
MaintenanceAfterProxy(c) ==
    Stage(c, "maintenance", config.maintenance /\ ~config.proxyFirst,
          Reply("maintenance", 503, "page", "html"),
          IF config.proxyFirst THEN "proxyEarly" ELSE "redirects")

Maintenance(c) ==
    Stage(c, "maintenance", config.maintenance,
          Reply("maintenance", 503, "page", "html"),
          IF config.proxyFirst THEN "proxyEarly" ELSE "redirects")

\* Mutant: the request goes upstream under the URI the client sent.
ProxyOriginalUri(c) ==
    /\ pc[c] \in {"proxyEarly", "proxyLate"}
    /\ IF uri[c] \in Routed
       THEN /\ Goto(c, "upstream")
            /\ sent' = [sent EXCEPT ![c] = req[c].uri]
            /\ touched' = [touched EXCEPT ![c] = @ \cup {"upstream"}]
       ELSE /\ Goto(c, IF pc[c] = "proxyEarly" THEN "redirects" ELSE "static")
            /\ UNCHANGED <<sent, touched>>
    /\ UNCHANGED <<config, open, req, uri, variant, resp, inflight, connections, dropped>>

\* try_reverse_proxy: a matching rule sends the request upstream, at one of
\* two places of the pipeline.
Proxy(c) ==
    /\ pc[c] \in {"proxyEarly", "proxyLate"}
    /\ IF uri[c] \in Routed
       THEN /\ Goto(c, "upstream")
            /\ sent' = [sent EXCEPT ![c] = uri[c]]
            /\ touched' = [touched EXCEPT ![c] = @ \cup {"upstream"}]
       ELSE /\ Goto(c, IF pc[c] = "proxyEarly" THEN "redirects" ELSE "static")
            /\ UNCHANGED <<sent, touched>>
    /\ UNCHANGED <<config, open, req, uri, variant, resp, inflight, connections, dropped>>

Redirects(c) ==
    Stage(c, "redirects", RedirectRule[uri[c]] # "none",
          IF RedirectRule[uri[c]] = "error" THEN ErrorResponse("redirects", 500)
          ELSE Reply("redirects", 301, "empty", "none"),
          "rewrites")

\* rewrites::pre_process: an error, a redirect, or an internal rewrite of the
\* URI (and of Host with it).
Rewrites(c) ==
    LET rule == RewriteRule[uri[c]] IN
    /\ pc[c] = "rewrites"
    /\ CASE rule.kind = "error"    -> /\ Answer(c, ErrorResponse("rewrites", 500))
                                      /\ UNCHANGED uri
         [] rule.kind = "redirect" -> /\ Answer(c, Reply("rewrites", 302, "empty", "none"))
                                      /\ UNCHANGED uri
         [] OTHER -> /\ Goto(c, IF config.proxyFirst THEN "static" ELSE "proxyLate")
                     /\ uri' = IF rule.kind = "uri" THEN [uri EXCEPT ![c] = rule.to] ELSE uri
                     /\ UNCHANGED resp
    /\ UNCHANGED <<config, open, req, variant, sent, touched, inflight, connections, dropped>>

\* virtual_hosts and markdown::pre_process, then static_files::handle begins.
StartStatic(c) ==
    /\ pc[c] = "static"
    /\ \E found \in {FALSE, config.markdown /\ req[c].md} :
          variant' = [variant EXCEPT ![c] = found]
    /\ Goto(c, "disk")
    /\ touched' = [touched EXCEPT ![c] = @ \cup {"disk"}]
    /\ UNCHANGED <<config, open, req, uri, resp, sent, inflight, connections, dropped>>

\* A file or a part of it, or the answers to a conditional request.
FileReplies(c) ==
    {Reply("static", s, IF variant[c] THEN "markdown" ELSE "file", t) :
        s \in {200, 206}, t \in {"text", "binary"}}
      \cup {Reply("static", s, "empty", "none") : s \in {304, 412, 416}}

\* What static_files::handle may return: an error status the handler turns
\* into an error page, a trailing-slash redirect, the answer to OPTIONS, or
\* that of a file or listing, in a precompressed variant if there is one and
\* it is asked for.
StaticReplies(c) ==
    {ErrorResponse("static", s) : s \in {403, 404, 500}}
      \cup {Reply("static", 308, "empty", "none")}
      \cup (IF req[c].method = "OPTIONS" THEN {Reply("static", 204, "empty", "none")}
            ELSE FileReplies(c))
      \cup (IF config.compressionStatic /\ req[c].encoding /\ req[c].method # "OPTIONS"
            THEN {[r EXCEPT !.enc = <<"pre">>] : r \in FileReplies(c)} ELSE {})

-----------------------------------------------------------------------------
(* The stages after the resource, as functions of the response.            *)

\* fallback_page::post_process
FallbackPage(q, r) ==
    IF config.fallback /\ q.method = "GET" /\ r.status = 404
    THEN Reply("static", 200, "page", "html") ELSE r

\* Mutant: a header the response already has is left as it is.
CorsPostIfAbsent(q, r) ==
    IF config.cors /\ q.origin # "none" /\ CorsAllows(q) /\ r.acao = "none"
    THEN [r EXCEPT !.acao = "cors", !.vary = {"origin"}] ELSE r

\* cors::post_process inserts, so it replaces the upstream's own header, and Vary.
CorsPost(q, r) ==
    IF config.cors /\ q.origin # "none" /\ CorsAllows(q)
    THEN [r EXCEPT !.acao = "cors", !.vary = {"origin"}] ELSE r

\* markdown::post_process
MarkdownPost(found, r) ==
    IF config.markdown /\ found THEN [r EXCEPT !.ctype = "markdown"] ELSE r

\* Mutant: Vary is set only if it is not there yet.
CompressionStaticIfNoVary(r) ==
    IF config.compressionStatic /\ r.vary = {}
    THEN [r EXCEPT !.vary = {"accept-encoding"}] ELSE r

\* compression_static::post_process appends to Vary.
CompressionStatic(r) ==
    IF config.compressionStatic
    THEN [r EXCEPT !.vary = @ \cup {"accept-encoding"}] ELSE r

\* compression::auto: for GET, an accepted encoding, and no type that does not
\* gain by it.
AutoCompress(q, r) ==
    IF q.method = "GET" /\ q.encoding /\ r.ctype # "binary"
    THEN [r EXCEPT !.enc = Append(@, "auto")] ELSE r

\* compression::post_process
Compression(q, r) ==
    IF ~config.compression \/ r.enc # <<>> THEN r
    ELSE AutoCompress(q, [r EXCEPT !.vary = @ \cup {"accept-encoding"}])

\* custom_headers::append_headers inserts what the matching entries name.
Custom(names, r) ==
    [r EXCEPT !.vary  = IF "vary" \in names THEN {"custom"} ELSE @,
              !.acao  = IF "acao" \in names THEN "custom" ELSE @,
              !.label = IF "encoding" \in names THEN "custom" ELSE @]

-----------------------------------------------------------------------------
\* static_files::handle(..).await returns.
FileRead(c) ==
    /\ pc[c] = "disk"
    /\ \E r \in StaticReplies(c) : resp' = [resp EXCEPT ![c] = r]
    /\ Goto(c, "post")
    /\ UNCHANGED <<config, open, req, uri, variant, sent, touched, inflight, connections, dropped>>

\* The post-processing chain: custom headers come last and are matched against
\* the URI as it is now; text-charset, cache-control and security headers change
\* no part of the response that is modelled.
PostProcess(c) ==
    /\ pc[c] = "post"
    /\ LET q == req[c]
           r == MarkdownPost(variant[c], CorsPost(q, FallbackPage(q, resp[c])))
           z == Compression(q, CompressionStatic(r))
       IN  \E names \in {{}} \cup CustomHeaders[uri[c]] : Answer(c, Custom(names, z))
    /\ UNCHANGED <<config, open, req, uri, variant, sent, touched, inflight, connections, dropped>>

\* A response of the upstream, with the CORS and Vary headers it chose.
AsUpstream(r) ==
    {[r EXCEPT !.acao = a, !.vary = v] : a \in {"none", "upstream"}, v \in {{}, {"upstream"}}}

\* The upstream failed (502), switched protocols (101, sent as it came), answered,
\* or was not asked since the tunnel limit is reached (503); only the last two get
\* CORS headers, and none is compressed or otherwise changed.
UpstreamReplies(c) ==
    /\ pc[c] = "upstream"
    /\ \/ Answer(c, ErrorResponse("proxy", 502))
       \/ \E r \in AsUpstream(Reply("proxy", 101, "empty", "none")) : Answer(c, r)
       \/ \E r \in AsUpstream(Reply("proxy", 200, "upstream", "text"))
                     \cup {Reply("proxy", 503, "empty", "none")} :
             Answer(c, CorsPost(req[c], r))
    /\ UNCHANGED <<config, open, req, uri, variant, sent, touched, inflight, connections, dropped>>

\* Mutant: a handler that returns early does not come by the decrement.
FinishEarlyReturn(c) ==
    /\ pc[c] = "finish"
    /\ Goto(c, "idle")
    /\ Forget(c)
    /\ inflight' = IF config.metrics /\ touched[c] # {} THEN inflight - 1 ELSE inflight
    /\ UNCHANGED <<config, open, connections, dropped>>

\* Mutant: the gauge goes down although it never went up.
FinishAlwaysCounts(c) ==
    /\ pc[c] = "finish"
    /\ Goto(c, "idle")
    /\ Forget(c)
    /\ inflight' = inflight - 1
    /\ UNCHANGED <<config, open, connections, dropped>>

\* The end of handle(): the gauge goes down and the response is sent.
Finish(c) ==
    /\ pc[c] = "finish"
    /\ Goto(c, "idle")
    /\ Forget(c)
    /\ inflight' = IF config.metrics THEN inflight - 1 ELSE inflight
    /\ UNCHANGED <<config, open, connections, dropped>>

\* The future is dropped while the handler is suspended, for the stream was reset
\* or the connection is gone: the rest of handle() never runs.
Drop(c) ==
    /\ dropped < MaxDrops
    /\ pc[c] \in {"upstream", "disk"}
    /\ Goto(c, "idle")
    /\ Forget(c)
    /\ dropped' = dropped + 1
    /\ UNCHANGED <<config, open, inflight, connections>>

Next == \/ \E k \in Conns : Open(k) \/ Close(k)
        \/ \E c \in Calls :
             \/ \E q \in Requests[config][c] : Arrive(c, q)
             \/ CheckMethod(c) \/ Health(c) \/ Metrics(c) \/ Cors(c) \/ BasicAuth(c)
             \/ Maintenance(c) \/ Proxy(c) \/ Redirects(c) \/ Rewrites(c)
             \/ StartStatic(c) \/ FileRead(c) \/ PostProcess(c) \/ UpstreamReplies(c)
             \/ Finish(c) \/ Drop(c)

Spec == Init /\ [][Next]_vars

-----------------------------------------------------------------------------
Active(c) == pc[c] # "idle"

TypeOK ==
    /\ config \in Configs
    /\ open \subseteq Conns
    /\ pc \in [Calls -> PCs]
    /\ req \in [Calls -> Request \cup {NoRequest}]
    /\ uri \in [Calls -> Uris \cup {"none"}]
    /\ \A c \in Calls : Active(c) => req[c] \in Request /\ uri[c] \in Uris
    /\ variant \in [Calls -> BOOLEAN]
    /\ resp \in [Calls -> Response]
    /\ sent \in [Calls -> Uris \cup {"none"}]
    /\ touched \in [Calls -> SUBSET {"upstream", "disk"}]
    /\ inflight \in Nat /\ connections \in Nat /\ dropped \in 0 .. MaxDrops

\* Whatever the settings and the order proxy-first selects, no upstream and no
\* file is reached for a request with a refused method, from a refused origin,
\* without the credentials, or during maintenance.
GuardedEffects ==
    \A c \in Calls : touched[c] # {} =>
        /\ MethodAllowed(req[c])
        /\ config.cors => req[c].origin # "denied"
        /\ config.auth # "off" /\ req[c].method # "OPTIONS"
               => config.auth = "on" /\ req[c].creds
        /\ ~config.maintenance

\* "`proxy-first`: skips redirects/rewrites before proxy" (README.md): with it
\* the upstream sees the URI the client sent; without it the rewritten one, and
\* it never sees a request that a redirect rule covers.
UpstreamUri ==
    \A c \in Calls : sent[c] # "none" =>
        LET u == req[c].uri IN
        IF config.proxyFirst THEN sent[c] = u
        ELSE /\ RedirectRule[u] = "none"
             /\ RewriteRule[u].kind \in {"none", "uri"}
             /\ sent[c] = IF RewriteRule[u].kind = "uri" THEN RewriteRule[u].to ELSE u

\* Of the stages that write Vary none loses what another wrote: whichever of them
\* are on, the response of a file is encoded at most once, an encoded one names
\* Accept-Encoding and one with a grant of the CORS module names Origin, unless
\* the operator's own headers replace Vary for that URI.  (No stage names Accept,
\* by which a Markdown variant is chosen.)
VaryKept ==
    \A c \in Calls : pc[c] = "finish" /\ resp[c].by = "static" =>
        LET r == resp[c] IN
        /\ Len(r.enc) <= 1
        /\ \/ /\ r.enc # <<>> => "accept-encoding" \in r.vary
              /\ r.acao = "cors" => "origin" \in r.vary
           \/ r.vary = {"custom"} /\ \E names \in CustomHeaders[uri[c]] : "vary" \in names

\* With CORS on, nothing sent to a refused origin carries
\* Access-Control-Allow-Origin, whoever would have set it, and what an allowed
\* one gets (files, error and fallback pages, answers of an upstream) carries the
\* gateway's own grant, never the upstream's, unless the operator's headers
\* replace it.  Excepted are the 101 and 502 of the proxy.  Without CORS the
\* gateway grants nothing.
CorsGranted ==
    \A c \in Calls : pc[c] = "finish" =>
        LET r == resp[c] IN
        /\ config.cors /\ req[c].origin = "denied" => r.acao = "none"
        /\ config.cors /\ req[c].origin = "allowed"
           /\ (r.by = "static" \/ (r.by = "proxy" /\ r.status \notin {101, 502}))
             => \/ r.acao = "cors"
                \/ /\ r.by = "static" /\ r.acao = "custom"
                   /\ \E names \in CustomHeaders[uri[c]] : "acao" \in names
        /\ r.acao = "cors" => config.cors /\ req[c].origin = "allowed"

Processed == {c \in Calls : Active(c)}

\* "Number of HTTP requests currently being processed" (metrics.rs): however many
\* calls a connection carries and whichever stage answers them, the gauge never
\* shows fewer, and shows their number as long as no future was dropped.  (Each
\* dropped one leaves it too high for good, against that description.)
InflightCovers ==
    IF config.metrics
    THEN /\ inflight >= Cardinality(Processed)
         /\ dropped = 0 => inflight = Cardinality(Processed)
    ELSE inflight = 0

\* "Number of currently active HTTP connections" (metrics.rs): exact, calls that
\* outlive their connection or are dropped with it included.
ConnectionsExact == connections = Cardinality(open)

\* What the two gauges of the metrics endpoint show.
Gauges == InflightCovers /\ ConnectionsExact
=============================================================================
