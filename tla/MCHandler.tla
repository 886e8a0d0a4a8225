----------------------------- MODULE MCHandler -----------------------------
(* Instance of Handler for TLC.  One URI of every kind: /old is redirected  *)
(* and routed, /alias is rewritten to the routed /api, /own gets headers of *)
(* the operator.                                                             *)
EXTENDS Handler, TLC

CONSTANTS k1, c1, c2

MCConnOf == [c \in {c1, c2} |-> k1]

MCUris == {"/health", "/metrics", "/old", "/broken", "/alias", "/moved", "/lost",
           "/api", "/page", "/own"}
MCRedirect == [u \in MCUris |-> CASE u = "/old"    -> "redirect"
                                  [] u = "/broken" -> "error"
                                  [] OTHER         -> "none"]
MCRewrite == [u \in MCUris |->
    [kind |-> CASE u = "/alias" -> "uri"
                [] u = "/moved" -> "redirect"
                [] u = "/lost"  -> "error"
                [] OTHER        -> "none",
     to |-> "/api"]]
MCRouted == {"/old", "/api", "/moved"}
MCCustom == [u \in MCUris |-> IF u = "/own" THEN {{"vary"}, {"vary", "acao", "encoding"}}
                                            ELSE {}]

Plain == [health |-> FALSE, metrics |-> TRUE, cors |-> FALSE, auth |-> "off",
          maintenance |-> FALSE, proxyFirst |-> FALSE, markdown |-> FALSE,
          fallback |-> FALSE, compression |-> FALSE, compressionStatic |-> FALSE]
Get(u) == [uri |-> u, method |-> "GET", origin |-> "none", preflight |-> TRUE,
           creds |-> TRUE, encoding |-> FALSE, md |-> FALSE]

\* Every combination of the settings that guard or reorder the pipeline, and
\* every combination of those that change the response.
GateConfigs == {[Plain EXCEPT !.fallback = TRUE, !.health = h, !.metrics = h, !.cors = c,
                              !.auth = a, !.maintenance = t, !.proxyFirst = p] :
                   h, c, t, p \in BOOLEAN, a \in {"off", "on", "malformed"}}
ReplyConfigs == {[Plain EXCEPT !.cors = c, !.markdown = m, !.fallback = f,
                               !.compression = z, !.compressionStatic = s] :
                    c, m, f, z, s \in BOOLEAN}
MCConfigs == GateConfigs \cup ReplyConfigs

\* A request matters to a stage only with the header the stage looks at:
\* preflight to OPTIONS under CORS, credentials to authentication, encodings and
\* Markdown to the routed and to the plain URIs.
GateRequests(f) ==
    {r \in {[Get(u) EXCEPT !.method = m, !.origin = o, !.preflight = p, !.creds = k] :
                u \in MCUris \ {"/own"}, m \in Methods,
                o \in {"none", "allowed", "denied"}, p, k \in BOOLEAN} :
        /\ ~r.preflight => f.cors /\ r.method = "OPTIONS" /\ r.origin = "allowed"
        /\ ~r.creds => f.auth = "on"
        /\ ~f.cors => r.origin # "denied"}
ReplyRequests ==
    {r \in {[Get(u) EXCEPT !.method = m, !.origin = o, !.encoding = e, !.md = d] :
                u \in {"/api", "/page", "/own"}, m \in {"GET", "HEAD", "OPTIONS"},
                o \in {"none", "allowed"}, e, d \in BOOLEAN} :
        r.md => r.uri = "/page"}

\* Under two of the settings both streams of the connection send requests that
\* reach an upstream or the disk; under the others one of them sends every one.
Shared == {Plain, [Plain EXCEPT !.cors = TRUE]}
SharedRequests == {Get("/alias"), [Get("/page") EXCEPT !.origin = "allowed"],
                   [Get("/page") EXCEPT !.origin = "denied"]}

MCRequests == [f \in MCConfigs |->
    [c \in {c1, c2} |->
        IF f \in Shared THEN SharedRequests
        ELSE IF c = c2 THEN {}
        ELSE IF f \in ReplyConfigs THEN ReplyRequests ELSE GateRequests(f)]]
=============================================================================
