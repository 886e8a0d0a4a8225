--------------------------- MODULE HandlerProofs ---------------------------
(***************************************************************************)
(* Proofs about Handler: the gauges, the gates and the upstream URI, for   *)
(* any number of connections and calls on them, every setting and request. *)
(***************************************************************************)
EXTENDS Handler, FiniteSetTheorems, TLAPS

Resting == {"idle"}

\* A step inside handle(): the request stays where it is and no gauge moves.
Internal(c) ==
    /\ pc[c] \notin Resting
    /\ \E stage \in PCs \ Resting : pc' = [pc EXCEPT ![c] = stage]
    /\ UNCHANGED <<config, open, req, inflight, connections, dropped>>

\* The actions of the pipeline between arrival and departure.
Pipeline(c) ==
    \/ CheckMethod(c) \/ Health(c) \/ Metrics(c) \/ Cors(c) \/ BasicAuth(c)
    \/ Maintenance(c) \/ Proxy(c) \/ Redirects(c) \/ Rewrites(c)
    \/ StartStatic(c) \/ FileRead(c) \/ PostProcess(c) \/ UpstreamReplies(c)

\* Every stage of handle() before its end is an internal step.
LEMMA PipelineInternal ==
  ASSUME NEW c \in Calls, Pipeline(c)
  PROVE  Internal(c)
<1> USE DEF PCs, Resting, Internal, Goto, Answer
<1>1. CASE CheckMethod(c)
  BY <1>1 DEF CheckMethod, Stage
<1>2. CASE Health(c)
  BY <1>2 DEF Health, Stage
<1>3. CASE Metrics(c)
  BY <1>3 DEF Metrics, Stage
<1>4. CASE Cors(c)
  BY <1>4 DEF Cors, Stage
<1>5. CASE BasicAuth(c)
  BY <1>5 DEF BasicAuth, Stage
<1>6. CASE Maintenance(c)
  BY <1>6 DEF Maintenance, Stage
<1>7. CASE Proxy(c)
  BY <1>7 DEF Proxy
<1>8. CASE Redirects(c)
  BY <1>8 DEF Redirects, Stage
<1>9. CASE Rewrites(c)
  BY <1>9 DEF Rewrites
<1>10. CASE StartStatic(c)
  BY <1>10 DEF StartStatic
<1>11. CASE FileRead(c)
  BY <1>11 DEF FileRead
<1>12. CASE PostProcess(c)
  BY <1>12 DEF PostProcess
<1>13. CASE UpstreamReplies(c)
  BY <1>13 DEF UpstreamReplies
<1> QED
  BY <1>1, <1>2, <1>3, <1>4, <1>5, <1>6, <1>7, <1>8, <1>9, <1>10, <1>11, <1>12, <1>13
     DEF Pipeline

-----------------------------------------------------------------------------
(* The gauges.                                                             *)

\* The request gauge is too high by exactly the futures that were dropped.
InflightDrift ==
    IF config.metrics THEN inflight = Cardinality(Processed) + dropped ELSE inflight = 0

\* The inductive invariant of the gauges.
GaugeInv ==
    /\ pc \in [Calls -> PCs] /\ open \subseteq Conns
    /\ inflight \in Nat /\ connections \in Nat /\ dropped \in 0 .. MaxDrops
    /\ InflightDrift
    /\ ConnectionsExact

\* The gauges start at zero, with no connection.
LEMMA InitGaugeInv == Init => GaugeInv
<1> SUFFICES ASSUME Init PROVE GaugeInv
  OBVIOUS
<1>1. Processed = {} /\ open = {}
  BY DEF Init, Processed, Active
<1>2. Cardinality(Processed) = 0 /\ Cardinality(open) = 0
  BY <1>1, FS_EmptySet
<1> QED
  BY <1>1, <1>2, HandlerAssumption DEF Init, GaugeInv, InflightDrift, ConnectionsExact, PCs

\* How the set of processed requests changes when one call moves to a stage.
LEMMA CountMove ==
  ASSUME pc \in [Calls -> PCs], NEW c \in Calls, NEW stage \in PCs,
         pc' = [pc EXCEPT ![c] = stage]
  PROVE  /\ pc' \in [Calls -> PCs]
         /\ Cardinality(Processed) \in Nat /\ Cardinality(Processed') \in Nat
         /\ Cardinality(Processed') =
              IF pc[c] \in Resting /\ stage \notin Resting THEN Cardinality(Processed) + 1
              ELSE IF pc[c] \notin Resting /\ stage \in Resting
                   THEN Cardinality(Processed) - 1 ELSE Cardinality(Processed)
<1>1. IsFiniteSet(Processed) /\ IsFiniteSet(Processed')
  BY HandlerAssumption, FS_Subset DEF Processed
<1>2. Processed' = IF stage \in Resting THEN Processed \ {c} ELSE Processed \cup {c}
  BY DEF Processed, Active, Resting
<1>3. c \in Processed <=> pc[c] \notin Resting
  BY DEF Processed, Active, Resting
<1>4. pc' \in [Calls -> PCs]
  OBVIOUS
<1>5. Cardinality(Processed) \in Nat /\ Cardinality(Processed') \in Nat
  BY <1>1, FS_CardinalityType
<1>6. /\ Cardinality(Processed \ {c})
           = IF c \in Processed THEN Cardinality(Processed) - 1 ELSE Cardinality(Processed)
      /\ Cardinality(Processed \cup {c})
           = IF c \in Processed THEN Cardinality(Processed) ELSE Cardinality(Processed) + 1
  BY <1>1, FS_AddElement, FS_RemoveElement
<1>7. Cardinality(Processed') =
              IF pc[c] \in Resting /\ stage \notin Resting THEN Cardinality(Processed) + 1
              ELSE IF pc[c] \notin Resting /\ stage \in Resting
                   THEN Cardinality(Processed) - 1 ELSE Cardinality(Processed)
  BY <1>2, <1>3, <1>6, Zenon
<1> QED
  BY <1>4, <1>5, <1>7

\* Each step moves a gauge exactly as it moves what it counts, but for the drop
\* of a future in the middle of a request.
LEMMA StepGaugeInv == GaugeInv /\ [Next]_vars => GaugeInv'
<1> SUFFICES ASSUME GaugeInv, [Next]_vars PROVE GaugeInv'
  OBVIOUS
<1> USE DEF GaugeInv
<1>1. CASE UNCHANGED vars
  BY <1>1 DEF vars, Processed, Active, InflightDrift, ConnectionsExact
<1>2. ASSUME NEW k \in Conns, Open(k) \/ Close(k) PROVE GaugeInv'
  <2>1. UNCHANGED <<config, pc, inflight, dropped>>
    BY <1>2 DEF Open, Close
  <2>2. InflightDrift' /\ (pc \in [Calls -> PCs])'
    BY <2>1 DEF InflightDrift, Processed, Active
  <2>3. IsFiniteSet(open)
    BY HandlerAssumption, FS_Subset
  <2>4. Cardinality(open) \in Nat
    BY <2>3, FS_CardinalityType
  <2>5. CASE Open(k)
    <3>1. open' = open \cup {k} /\ k \notin open /\ connections' = connections + 1
      BY <2>5 DEF Open
    <3>2. Cardinality(open') = Cardinality(open) + 1
      BY <2>3, <3>1, FS_AddElement
    <3> QED
      BY <2>1, <2>2, <2>4, <3>1, <3>2 DEF ConnectionsExact
  <2>6. CASE Close(k)
    <3>1. open' = open \ {k} /\ k \in open /\ connections' = connections - 1
      BY <2>6 DEF Close
    <3>2. Cardinality(open') = Cardinality(open) - 1 /\ IsFiniteSet(open')
      BY <2>3, <3>1, FS_RemoveElement
    <3>3. Cardinality(open') \in Nat
      BY <3>2, FS_CardinalityType
    <3> QED
      BY <2>1, <2>2, <2>4, <3>1, <3>2, <3>3 DEF ConnectionsExact
  <2> QED
    BY <1>2, <2>5, <2>6
<1>3. ASSUME NEW c \in Calls, UNCHANGED <<open, connections>> PROVE ConnectionsExact'
  BY <1>3 DEF ConnectionsExact
<1>4. ASSUME NEW c \in Calls, NEW q, Arrive(c, q) PROVE GaugeInv'
  <2>1. /\ Cardinality(Processed') = Cardinality(Processed) + 1
        /\ pc' \in [Calls -> PCs] /\ Cardinality(Processed) \in Nat
    BY <1>4, CountMove DEF Arrive, Goto, PCs, Resting
  <2> QED
    BY <1>3, <1>4, <2>1 DEF Arrive, InflightDrift
<1>5. ASSUME NEW c \in Calls, Pipeline(c) PROVE GaugeInv'
  <2>1. Internal(c)
    BY <1>5, PipelineInternal
  <2>2. PICK stage \in PCs \ Resting : pc' = [pc EXCEPT ![c] = stage]
    BY <2>1 DEF Internal
  <2>3. Cardinality(Processed') = Cardinality(Processed) /\ pc' \in [Calls -> PCs]
    BY <2>1, <2>2, CountMove DEF Internal, Resting
  <2> QED
    BY <1>3, <2>1, <2>3 DEF Internal, InflightDrift
<1>6. ASSUME NEW c \in Calls, Finish(c) PROVE GaugeInv'
  <2>1. /\ Cardinality(Processed') = Cardinality(Processed) - 1
        /\ pc' \in [Calls -> PCs]
        /\ Cardinality(Processed) \in Nat /\ Cardinality(Processed') \in Nat
    BY <1>6, CountMove DEF Finish, Goto, PCs, Resting
  <2> QED
    BY <1>3, <1>6, <2>1 DEF Finish, InflightDrift
<1>7. ASSUME NEW c \in Calls, Drop(c) PROVE GaugeInv'
  <2>1. /\ Cardinality(Processed') = Cardinality(Processed) - 1
        /\ pc' \in [Calls -> PCs]
        /\ Cardinality(Processed) \in Nat /\ Cardinality(Processed') \in Nat
    BY <1>7, CountMove DEF Drop, Goto, PCs, Resting
  <2> QED
    BY <1>3, <1>7, <2>1, HandlerAssumption DEF Drop, InflightDrift
<1> QED
  BY <1>1, <1>2, <1>4, <1>5, <1>6, <1>7 DEF Next, Pipeline

\* Whichever stage answers and however many calls a connection carries, the
\* request gauge never shows fewer requests than are being processed, and their
\* number until a first future is dropped; the connection gauge is exact.
THEOREM GaugesCover == Spec => []Gauges
<1>1. GaugeInv => Gauges
  <2> SUFFICES ASSUME GaugeInv PROVE Gauges
    OBVIOUS
  <2>1. Cardinality(Processed) \in Nat
    BY HandlerAssumption, FS_Subset, FS_CardinalityType DEF Processed
  <2> QED
    BY <2>1, HandlerAssumption DEF GaugeInv, Gauges, InflightDrift, InflightCovers
<1> QED
  BY <1>1, InitGaugeInv, StepGaugeInv, PTL DEF Spec

-----------------------------------------------------------------------------
(* Types.                                                                  *)

\* The types that do not concern the gauges.
DataOK ==
    /\ config \in Configs
    /\ pc \in [Calls -> PCs]
    /\ req \in [Calls -> Request \cup {NoRequest}]
    /\ uri \in [Calls -> Uris \cup {"none"}]
    /\ \A c \in Calls : Active(c) => req[c] \in Request /\ uri[c] \in Uris
    /\ variant \in [Calls -> BOOLEAN]
    /\ resp \in [Calls -> Response]
    /\ sent \in [Calls -> Uris \cup {"none"}]
    /\ touched \in [Calls -> SUBSET {"upstream", "disk"}]

\* What the stages answer with is a response.
LEMMA ReplyType ==
  ASSUME NEW by \in Makers, NEW status \in Nat, NEW body \in Bodies, NEW ctype \in Types
  PROVE  Reply(by, status, body, ctype) \in Response
<1>1. <<>> \in Seq({"pre", "auto"})
  OBVIOUS
<1>2. {} \in SUBSET VaryNames /\ "none" \in Granters /\ "own" \in {"own", "custom"}
  BY DEF Granters
<1> QED
  BY <1>1, <1>2, Zenon DEF Reply, Response

\* The names of Vary may be replaced by others.
LEMMA SetVary ==
  ASSUME NEW r \in Response, NEW names \in SUBSET VaryNames
  PROVE  [r EXCEPT !.vary = names] \in Response
  BY Zenon DEF Response

\* fallback_page::post_process returns a response.
LEMMA FallbackType == ASSUME NEW q, NEW r \in Response PROVE FallbackPage(q, r) \in Response
<1>1. Reply("static", 200, "page", "html") \in Response
  BY ReplyType DEF Makers, Bodies, Types
<1> QED
  BY <1>1, Zenon DEF FallbackPage

\* cors::post_process returns a response.
LEMMA CorsType == ASSUME NEW q, NEW r \in Response PROVE CorsPost(q, r) \in Response
<1>1. {"origin"} \in SUBSET VaryNames /\ "cors" \in Granters
  BY DEF VaryNames, Granters
<1>2. [r EXCEPT !.acao = "cors", !.vary = {"origin"}] \in Response
  BY <1>1, Zenon DEF Response
<1> QED
  BY <1>2, Zenon DEF CorsPost

\* markdown::post_process returns a response.
LEMMA MarkdownType ==
  ASSUME NEW found, NEW r \in Response PROVE MarkdownPost(found, r) \in Response
<1>1. "markdown" \in Types
  BY DEF Types
<1>2. [r EXCEPT !.ctype = "markdown"] \in Response
  BY <1>1, Zenon DEF Response
<1> QED
  BY <1>2, Zenon DEF MarkdownPost

\* Adding a name to Vary.
LEMMA ExtendVary ==
  ASSUME NEW r \in Response
  PROVE  r.vary \cup {"accept-encoding"} \in SUBSET VaryNames
<1>1. r.vary \in SUBSET VaryNames
  BY Zenon DEF Response
<1> QED
  BY <1>1 DEF VaryNames

\* compression_static::post_process returns a response.
LEMMA CompressionStaticType ==
  ASSUME NEW r \in Response PROVE CompressionStatic(r) \in Response
  BY SetVary, ExtendVary, Zenon DEF CompressionStatic

\* compression::auto returns a response.
LEMMA AutoCompressType == ASSUME NEW q, NEW r \in Response PROVE AutoCompress(q, r) \in Response
<1> DEFINE enc == Append(r.enc, "auto")
<1>1. r.enc \in Seq({"pre", "auto"})
  BY Zenon DEF Response
<1>2. enc \in Seq({"pre", "auto"})
  BY <1>1
<1>3. AutoCompress(q, r) \in {r, [r EXCEPT !.enc = enc]}
  BY Zenon DEF AutoCompress
<1> HIDE DEF enc
<1>4. [r EXCEPT !.enc = enc] \in Response
  BY <1>2, Zenon DEF Response
<1> QED
  BY <1>3, <1>4, Zenon

\* compression::post_process returns a response.
LEMMA CompressionType ==
  ASSUME NEW q, NEW r \in Response PROVE Compression(q, r) \in Response
<1> DEFINE varied == [r EXCEPT !.vary = r.vary \cup {"accept-encoding"}]
<1>1. varied \in Response
  BY SetVary, ExtendVary
<1>2. Compression(q, r) \in {r, AutoCompress(q, varied)}
  BY Zenon DEF Compression
<1> HIDE DEF varied
<1>3. AutoCompress(q, varied) \in Response
  BY <1>1, AutoCompressType, Zenon
<1> QED
  BY <1>2, <1>3, Zenon

\* custom_headers::post_process returns a response.
LEMMA CustomType == ASSUME NEW names, NEW r \in Response PROVE Custom(names, r) \in Response
<1> DEFINE v == IF "vary" \in names THEN {"custom"} ELSE r.vary
           a == IF "acao" \in names THEN "custom" ELSE r.acao
           l == IF "encoding" \in names THEN "custom" ELSE r.label
<1>1. r.vary \in SUBSET VaryNames /\ r.acao \in Granters /\ r.label \in {"own", "custom"}
  BY Zenon DEF Response
<1>2. v \in SUBSET VaryNames /\ a \in Granters /\ l \in {"own", "custom"}
  BY <1>1 DEF VaryNames, Granters
<1>3. Custom(names, r) = [r EXCEPT !.vary = v, !.acao = a, !.label = l]
  BY Zenon DEF Custom
<1> HIDE DEF v, a, l
<1> QED
  BY <1>2, <1>3, Zenon DEF Response

\* A response of an upstream is a response.
LEMMA UpstreamType ==
  ASSUME NEW r \in Response, NEW z \in AsUpstream(r)
  PROVE  z \in Response
<1>1. PICK a \in {"none", "upstream"}, v \in {{}, {"upstream"}} :
         z = [r EXCEPT !.acao = a, !.vary = v]
  BY DEF AsUpstream
<1>2. a \in Granters /\ v \in SUBSET VaryNames
  BY DEF Granters, VaryNames
<1> QED
  BY <1>1, <1>2, Zenon DEF Response

\* A file, a part of it or the answer to a conditional request is a response.
LEMMA FileType == ASSUME NEW c \in Calls PROVE FileReplies(c) \subseteq Response
<1> DEFINE body == IF variant[c] THEN "markdown" ELSE "file"
<1> USE DEF Makers, Bodies, Types
<1>1. \A s \in {200, 206}, t \in {"text", "binary"} : Reply("static", s, body, t) \in Response
  BY ReplyType
<1>2. \A s \in {304, 412, 416} : Reply("static", s, "empty", "none") \in Response
  BY ReplyType
<1>3. ASSUME NEW r \in FileReplies(c) PROVE r \in Response
  <2>1. \/ \E s \in {200, 206}, t \in {"text", "binary"} : r = Reply("static", s, body, t)
        \/ \E s \in {304, 412, 416} : r = Reply("static", s, "empty", "none")
    BY <1>3 DEF FileReplies
  <2> QED
    BY <1>1, <1>2, <2>1
<1> QED
  BY <1>3

\* What static_files::handle returns is a response.
LEMMA StaticType == ASSUME NEW c \in Calls PROVE StaticReplies(c) \subseteq Response
<1> USE DEF Makers, Bodies, Types
<1>1. \A s \in {403, 404, 500} : ErrorResponse("static", s) \in Response
  BY ReplyType DEF ErrorResponse
<1>2. Reply("static", 308, "empty", "none") \in Response
      /\ Reply("static", 204, "empty", "none") \in Response
  BY ReplyType
<1>3. \A r \in FileReplies(c) : [r EXCEPT !.enc = <<"pre">>] \in Response
  <2>1. <<"pre">> \in Seq({"pre", "auto"})
    OBVIOUS
  <2> QED
    BY FileType, <2>1, Zenon DEF Response
<1>4. {ErrorResponse("static", s) : s \in {403, 404, 500}} \subseteq Response
  BY <1>1
<1>5. {[r EXCEPT !.enc = <<"pre">>] : r \in FileReplies(c)} \subseteq Response
  BY <1>3
<1> QED
  BY FileType, <1>2, <1>4, <1>5 DEF StaticReplies

\* RequestHandler starts without a request.
LEMMA InitDataOK == Init => DataOK
<1> SUFFICES ASSUME Init PROVE DataOK
  OBVIOUS
<1>1. NoReply \in Response
  BY ReplyType DEF NoReply, Makers, Bodies, Types
<1> QED
  BY <1>1 DEF Init, DataOK, PCs, Active

\* Every step of the pipeline keeps the types.
LEMMA StepDataOK == DataOK /\ [Next]_vars => DataOK'
<1> SUFFICES ASSUME DataOK, [Next]_vars PROVE DataOK'
  OBVIOUS
<1> USE DEF Active, PCs
<1>1. CASE UNCHANGED vars
  BY <1>1 DEF vars, DataOK
<1>2. ASSUME NEW k \in Conns, Open(k) \/ Close(k) PROVE DataOK'
  BY <1>2 DEF Open, Close, DataOK
<1>4. ASSUME NEW c \in Calls, NEW q \in Requests[config][c], Arrive(c, q) PROVE DataOK'
  <2>1. q \in Request
    BY HandlerAssumption DEF DataOK
  <2>2. q.uri \in Uris
    BY <2>1 DEF Request
  <2> QED
    BY <1>4, <2>1, <2>2 DEF Arrive, Goto, DataOK
<1>6. ASSUME NEW c \in Calls,
             CheckMethod(c) \/ Health(c) \/ Metrics(c) \/ Cors(c) \/ BasicAuth(c)
               \/ Maintenance(c) \/ Redirects(c)
      PROVE DataOK'
  <2>0. /\ \A m \in Makers, s \in Nat : ErrorResponse(m, s) \in Response
        /\ \A m \in Makers, s \in Nat, b \in Bodies, t \in Types : Reply(m, s, b, t) \in Response
    BY ReplyType DEF ErrorResponse, Bodies, Types
  <2> USE <2>0 DEF Stage, Answer, Goto, DataOK, Makers, Bodies, Types
  <2>1. CASE CheckMethod(c)
    BY <2>1 DEF CheckMethod
  <2>2. CASE Health(c)
    BY <2>2 DEF Health
  <2>3. CASE Metrics(c)
    BY <2>3 DEF Metrics
  <2>4. CASE Cors(c)
    BY <2>4 DEF Cors
  <2>5. CASE BasicAuth(c)
    BY <2>5 DEF BasicAuth
  <2>6. CASE Maintenance(c)
    BY <2>6 DEF Maintenance
  <2>7. CASE Redirects(c)
    BY <2>7 DEF Redirects
  <2> QED
    BY <1>6, <2>1, <2>2, <2>3, <2>4, <2>5, <2>6, <2>7
<1>7. ASSUME NEW c \in Calls, Proxy(c) PROVE DataOK'
  BY <1>7 DEF Proxy, Goto, DataOK
<1>8. ASSUME NEW c \in Calls, Rewrites(c) PROVE DataOK'
  <2>1. uri[c] \in Uris
    BY <1>8 DEF Rewrites, DataOK
  <2>2. RewriteRule[uri[c]].to \in Uris
    BY <2>1, HandlerAssumption
  <2>3. ErrorResponse("rewrites", 500) \in Response
        /\ Reply("rewrites", 302, "empty", "none") \in Response
    BY ReplyType DEF ErrorResponse, Makers, Bodies, Types
  <2> QED
    BY <1>8, <2>1, <2>2, <2>3 DEF Rewrites, Answer, Goto, DataOK
<1>9. ASSUME NEW c \in Calls, StartStatic(c) PROVE DataOK'
  <2>1. (config.markdown /\ req[c].md) \in BOOLEAN
    OBVIOUS
  <2> QED
    BY <1>9, <2>1 DEF StartStatic, Goto, DataOK
<1>10. ASSUME NEW c \in Calls, FileRead(c) PROVE DataOK'
  BY <1>10, StaticType DEF FileRead, Goto, DataOK
<1>11. ASSUME NEW c \in Calls, PostProcess(c) PROVE DataOK'
  <2> DEFINE q == req[c]
             r == MarkdownPost(variant[c], CorsPost(q, FallbackPage(q, resp[c])))
             z == Compression(q, CompressionStatic(r))
  <2>1. resp[c] \in Response
    BY DEF DataOK
  <2>2. r \in Response
    BY <2>1, FallbackType, CorsType, MarkdownType
  <2> HIDE DEF r
  <2>3. z \in Response
    BY <2>2, CompressionStaticType, CompressionType
  <2>4. PICK names : Answer(c, Custom(names, z))
    BY <1>11 DEF PostProcess, r
  <2>5. UNCHANGED <<config, req, uri, variant, sent, touched>> /\ pc[c] = "post"
    BY <1>11 DEF PostProcess
  <2> HIDE DEF z
  <2>6. Custom(names, z) \in Response
    BY <2>3, CustomType
  <2> QED
    BY <2>4, <2>5, <2>6 DEF Answer, Goto, DataOK
<1>12. ASSUME NEW c \in Calls, UpstreamReplies(c) PROVE DataOK'
  <2>1. /\ ErrorResponse("proxy", 502) \in Response
        /\ Reply("proxy", 101, "empty", "none") \in Response
        /\ Reply("proxy", 503, "empty", "none") \in Response
        /\ Reply("proxy", 200, "upstream", "text") \in Response
    BY ReplyType DEF ErrorResponse, Makers, Bodies, Types
  <2>2. PICK z : Answer(c, z) /\ z \in Response
    BY <1>12, <2>1, UpstreamType, CorsType DEF UpstreamReplies
  <2>3. UNCHANGED <<config, req, uri, variant, sent, touched>> /\ pc[c] = "upstream"
    BY <1>12 DEF UpstreamReplies
  <2> QED
    BY <2>2, <2>3 DEF Answer, Goto, DataOK
<1>13. ASSUME NEW c \in Calls, Finish(c) \/ Drop(c) PROVE DataOK'
  <2>0. Forget(c) /\ Goto(c, "idle") /\ UNCHANGED config
    BY <1>13 DEF Finish, Drop
  <2>1. NoReply \in Response
    BY ReplyType DEF NoReply, Makers, Bodies, Types
  <2> QED
    BY <2>0, <2>1 DEF Forget, Goto, DataOK
<1> QED
  BY <1>1, <1>2, <1>4, <1>6, <1>7, <1>8, <1>9, <1>10, <1>11, <1>12, <1>13 DEF Next

\* The state of the pipeline is always of the expected types.
THEOREM HandlerTypes == Spec => []TypeOK
<1>1. DataOK /\ GaugeInv => TypeOK
  BY DEF DataOK, GaugeInv, TypeOK
<1> QED
  BY <1>1, InitDataOK, StepDataOK, InitGaugeInv, StepGaugeInv, PTL DEF Spec

-----------------------------------------------------------------------------
(* The gates, the upstream URI and the headers of the response.            *)

\* The stages behind the last gate.
Inside == {"proxyEarly", "redirects", "rewrites", "proxyLate", "static", "upstream",
           "disk", "post"}

\* The request on c has been let through by every gate.
Passed(c) ==
    /\ MethodAllowed(req[c])
    /\ config.cors => CorsAllows(req[c])
    /\ Authorized(req[c])
    /\ ~config.maintenance

\* Where a request has got to tells which gates it has passed.
GateOK(c) ==
    /\ pc[c] \in {"health", "metrics", "cors", "auth", "maintenance"} => MethodAllowed(req[c])
    /\ pc[c] \in {"auth", "maintenance"} => (config.cors => CorsAllows(req[c]))
    /\ pc[c] = "maintenance" => Authorized(req[c])
    /\ pc[c] \in Inside => Passed(c)
    /\ touched[c] # {} => Passed(c)

\* The URI a request without proxy-first goes upstream with.
Rewritten(u) == IF RewriteRule[u].kind = "uri" THEN RewriteRule[u].to ELSE u

\* Neither a redirect nor a failed or redirecting rewrite covers u.
Uncovered(u) == RedirectRule[u] = "none" /\ RewriteRule[u].kind \in {"none", "uri"}

\* What has happened to the URI so far.
UriOK(c) ==
    /\ pc[c] \in {"method", "health", "metrics", "cors", "auth", "maintenance",
                  "proxyEarly", "redirects", "rewrites"} => uri[c] = req[c].uri
    /\ pc[c] = "proxyEarly" => config.proxyFirst
    /\ pc[c] = "rewrites" => RedirectRule[req[c].uri] = "none"
    /\ pc[c] = "proxyLate" => /\ ~config.proxyFirst
                              /\ Uncovered(req[c].uri) /\ uri[c] = Rewritten(req[c].uri)
    /\ sent[c] # "none" => IF config.proxyFirst THEN sent[c] = req[c].uri
                           ELSE Uncovered(req[c].uri) /\ sent[c] = Rewritten(req[c].uri)

\* A resting call has left nothing behind.
RestOK(c) == pc[c] \in Resting => touched[c] = {} /\ sent[c] = "none"

ConnOK(c) == GateOK(c) /\ UriOK(c) /\ RestOK(c)

ConnInv == DataOK /\ \A c \in Calls : ConnOK(c)

\* Calls start at rest.
LEMMA InitConnInv == Init => ConnInv
  BY InitDataOK DEF Init, ConnInv, ConnOK, GateOK, UriOK, RestOK, Inside, Resting

\* A step of one call leaves what is known of the others alone.
LEMMA OtherConn ==
  ASSUME ConnInv, NEW c \in Calls, NEW d \in Calls, d # c, UNCHANGED config,
         pc'[d] = pc[d], req'[d] = req[d], uri'[d] = uri[d], sent'[d] = sent[d],
         touched'[d] = touched[d]
  PROVE  ConnOK(d)'
  BY DEF ConnInv, ConnOK, GateOK, UriOK, RestOK, Passed, Authorized, CorsAllows, MethodAllowed

\* The acting call passes a gate only as the gate allows.
LEMMA ActingConn ==
  ASSUME ConnInv, NEW c \in Calls,
         (\E q : Arrive(c, q)) \/ Pipeline(c) \/ Finish(c) \/ Drop(c)
  PROVE  ConnOK(c)'
<1> USE DEF ConnInv, ConnOK, DataOK, Goto
<1>2. CASE \E q : Arrive(c, q)
  BY <1>2 DEF Arrive, GateOK, UriOK, RestOK, Inside, Resting
<1>3. CASE Finish(c) \/ Drop(c)
  BY <1>3 DEF Finish, Drop, Forget, GateOK, UriOK, RestOK, Inside, Resting
<1>4. CASE Pipeline(c)
  <2> USE DEF Stage, Answer, GateOK, UriOK, RestOK, Inside, Resting, Passed,
             Authorized, CorsAllows, MethodAllowed
  <2>1. CASE CheckMethod(c)
    BY <2>1 DEF CheckMethod
  <2>2. CASE Health(c)
    BY <2>2 DEF Health
  <2>3. CASE Metrics(c)
    BY <2>3 DEF Metrics
  <2>4. CASE Cors(c)
    BY <2>4 DEF Cors
  <2>5. CASE BasicAuth(c)
    BY <2>5 DEF BasicAuth
  <2>6. CASE Maintenance(c)
    BY <2>6 DEF Maintenance
  <2>7. CASE Proxy(c)
    BY <2>7 DEF Proxy
  <2>8. CASE Redirects(c)
    BY <2>8 DEF Redirects
  <2>9. CASE Rewrites(c)
    <3> DEFINE kind == RewriteRule[uri[c]].kind
    <3>0. uri[c] \in Uris /\ uri[c] = req[c].uri /\ RedirectRule[req[c].uri] = "none"
      BY <2>9 DEF Rewrites, Active
    <3>1. kind \in {"none", "redirect", "error", "uri"}
      BY <3>0, HandlerAssumption
    <3>2. CASE kind \in {"error", "redirect"}
      <4>1. pc' = [pc EXCEPT ![c] = "finish"] /\ UNCHANGED <<config, req, uri, sent, touched>>
            /\ pc[c] = "rewrites"
        BY <2>9, <3>2 DEF Rewrites
      <4> QED
        BY <4>1
    <3>3. CASE kind \in {"none", "uri"}
      <4>1. /\ pc' = [pc EXCEPT ![c] = IF config.proxyFirst THEN "static" ELSE "proxyLate"]
            /\ uri' = IF kind = "uri" THEN [uri EXCEPT ![c] = RewriteRule[uri[c]].to] ELSE uri
            /\ UNCHANGED <<config, req, sent, touched>> /\ pc[c] = "rewrites"
        BY <2>9, <3>3 DEF Rewrites
      <4> QED
        BY <3>0, <3>3, <4>1 DEF Uncovered, Rewritten
    <3> QED
      BY <3>1, <3>2, <3>3
  <2>10. CASE StartStatic(c)
    BY <2>10 DEF StartStatic
  <2>11. CASE FileRead(c) \/ PostProcess(c) \/ UpstreamReplies(c)
    <3>1. /\ pc[c] \in {"disk", "post", "upstream"}
          /\ \E p \in {"post", "finish"} : pc' = [pc EXCEPT ![c] = p]
          /\ UNCHANGED <<config, req, uri, sent, touched>>
      BY <2>11 DEF FileRead, PostProcess, UpstreamReplies
    <3> QED
      BY <3>1
  <2> QED
    BY <1>4, <2>1, <2>2, <2>3, <2>4, <2>5, <2>6, <2>7, <2>8, <2>9, <2>10, <2>11
       DEF Pipeline
<1> QED
  BY <1>2, <1>3, <1>4

\* Every step keeps what is known of every call.
LEMMA StepConnInv == ConnInv /\ [Next]_vars => ConnInv'
<1> SUFFICES ASSUME ConnInv, [Next]_vars PROVE ConnInv'
  OBVIOUS
<1>1. DataOK'
  BY StepDataOK DEF ConnInv
<1>2. CASE UNCHANGED vars
  <2>1. ASSUME NEW c \in Calls PROVE ConnOK(c)'
    BY <1>2 DEF vars, ConnInv, ConnOK, GateOK, UriOK, RestOK, Passed, Authorized, CorsAllows
  <2> QED
    BY <1>1, <2>1 DEF ConnInv
<1>4. ASSUME NEW k \in Conns, Open(k) \/ Close(k) PROVE ConnInv'
  <2>0. UNCHANGED <<config, pc, req, uri, sent, touched>>
    BY <1>4 DEF Open, Close
  <2>1. ASSUME NEW c \in Calls PROVE ConnOK(c)'
    BY <2>0 DEF ConnInv, ConnOK, GateOK, UriOK, RestOK, Passed, Authorized, CorsAllows
  <2> QED
    BY <1>1, <2>1 DEF ConnInv
<1>3. ASSUME NEW c \in Calls,
             (\E q : Arrive(c, q)) \/ Pipeline(c) \/ Finish(c) \/ Drop(c)
      PROVE  ConnInv'
  <2>1. ConnOK(c)'
    BY <1>3, ActingConn
  <2>2. ASSUME NEW d \in Calls, d # c PROVE ConnOK(d)'
    <3>1. UNCHANGED config /\ pc'[d] = pc[d] /\ req'[d] = req[d]
      <4>1. CASE Pipeline(c)
        BY <2>2, <4>1, PipelineInternal DEF Internal, ConnInv, DataOK
      <4>2. CASE ~Pipeline(c)
        BY <1>3, <2>2, <4>2 DEF Arrive, Finish, Drop, Forget, Goto, ConnInv, DataOK
      <4> QED
        BY <4>1, <4>2
    <3>2. uri'[d] = uri[d] /\ sent'[d] = sent[d] /\ touched'[d] = touched[d]
      <4>1. CASE Pipeline(c)
        BY <2>2, <4>1 DEF Pipeline, CheckMethod, Health, Metrics, Cors, BasicAuth, Maintenance,
           Redirects, Stage, Proxy, Rewrites, StartStatic, FileRead, PostProcess,
           UpstreamReplies, ConnInv, DataOK
      <4>2. CASE ~Pipeline(c)
        BY <1>3, <2>2, <4>2 DEF Arrive, Finish, Drop, Forget, ConnInv, DataOK
      <4> QED
        BY <4>1, <4>2
    <3> QED
      BY <2>2, <3>1, <3>2, OtherConn
  <2> QED
    BY <1>1, <2>1, <2>2 DEF ConnInv
<1> QED
  BY <1>2, <1>3, <1>4 DEF Next, Pipeline

\* Under every setting, with proxy-first or without, a request that reaches an
\* upstream or the disk has passed the method, CORS, authentication and
\* maintenance gates.
THEOREM GatesHold == Spec => []GuardedEffects
<1>1. ConnInv => GuardedEffects
  <2> SUFFICES ASSUME ConnInv, NEW c \in Calls, touched[c] # {}
               PROVE  Passed(c)
    BY DEF GuardedEffects, Passed, CorsAllows, Authorized
  <2> QED
    BY DEF ConnInv, ConnOK, GateOK
<1> QED
  BY <1>1, InitConnInv, StepConnInv, PTL DEF Spec

\* The upstream is sent the client's URI with proxy-first and the rewritten one
\* without, and then never a URI that a redirect covers.
THEOREM UpstreamSeesRightUri == Spec => []UpstreamUri
<1>1. ConnInv => UpstreamUri
  BY DEF ConnInv, ConnOK, UriOK, UpstreamUri, Uncovered, Rewritten
<1> QED
  BY <1>1, InitConnInv, StepConnInv, PTL DEF Spec

-----------------------------------------------------------------------------
(* The headers of the response.                                            *)

\* A response of static_files::handle: no CORS headers yet, and encoded only if
\* a pre-compressed file was sent.
Bare(r) ==
    /\ r.by = "static" /\ r.acao = "none"
    /\ r.enc = <<>> \/ (r.enc = <<"pre">> /\ config.compressionStatic)

\* What a response to q is before the operator's headers are added.
Proper(q, r) ==
    /\ r.by = "static"
    /\ Len(r.enc) <= 1
    /\ r.enc # <<>> => "accept-encoding" \in r.vary
    /\ r.acao = "cors" => "origin" \in r.vary
    /\ r.acao \in {"none", "cors"}
    /\ r.acao = "cors" <=> config.cors /\ q.origin = "allowed"

\* The operator may replace a header of a response for u.
Replaced(u, name) == \E names \in CustomHeaders[u] : name \in names

\* A response to q that may be sent, the URI being u by then.
Final(q, u, r) ==
    /\ r.by = "static" =>
          /\ Len(r.enc) <= 1
          /\ \/ /\ r.enc # <<>> => "accept-encoding" \in r.vary
                /\ r.acao = "cors" => "origin" \in r.vary
             \/ r.vary = {"custom"} /\ Replaced(u, "vary")
    /\ config.cors /\ q.origin = "denied" => r.acao = "none"
    /\ config.cors /\ q.origin = "allowed"
       /\ (r.by = "static" \/ (r.by = "proxy" /\ r.status \notin {101, 502}))
         => \/ r.acao = "cors"
            \/ r.by = "static" /\ r.acao = "custom" /\ Replaced(u, "acao")
    /\ r.acao = "cors" => config.cors /\ q.origin = "allowed"

HeadersOK(c) ==
    /\ pc[c] = "post" => Bare(resp[c])
    /\ pc[c] = "finish" => Final(req[c], uri[c], resp[c])

HeadersInv == ConnInv /\ \A c \in Calls : HeadersOK(c)

\* A stage that answers before the disk or the upstream sends no CORS headers,
\* and no file.
LEMMA ReplyFinal ==
  ASSUME NEW by, by \notin {"static", "proxy"}, NEW status, NEW body, NEW ctype, NEW q, NEW u
  PROVE  Final(q, u, Reply(by, status, body, ctype))
<1> DEFINE r == Reply(by, status, body, ctype)
<1>1. r.by = by /\ r.acao = "none"
  BY DEF Reply
<1> HIDE DEF r
<1> SUFFICES Final(q, u, r)
  BY DEF r
<1> QED
  BY <1>1 DEF Final

\* cors::post_process grants what the gate has let through.
LEMMA CorsFacts ==
  ASSUME NEW q, NEW r \in Response, NEW z, z = CorsPost(q, r)
  PROVE  /\ z.by = r.by /\ z.enc = r.enc /\ z.status = r.status
         /\ IF config.cors /\ q.origin # "none" /\ CorsAllows(q)
            THEN z.acao = "cors" /\ "origin" \in z.vary
            ELSE z.acao = r.acao /\ z.vary = r.vary
<1> DEFINE granted == [r EXCEPT !.acao = "cors", !.vary = {"origin"}]
<1>1. /\ granted.by = r.by /\ granted.enc = r.enc /\ granted.acao = "cors"
      /\ granted.status = r.status /\ "origin" \in granted.vary
  BY Zenon DEF Response
<1>2. z = IF config.cors /\ q.origin # "none" /\ CorsAllows(q) THEN granted ELSE r
  BY Zenon DEF CorsPost
<1> HIDE DEF granted
<1> QED
  BY <1>1, <1>2, Zenon

\* custom_headers::post_process replaces what the operator names.
LEMMA CustomFacts ==
  ASSUME NEW names, NEW r \in Response, NEW z, z = Custom(names, r)
  PROVE  /\ z.by = r.by /\ z.enc = r.enc /\ z.status = r.status
         /\ z.vary = IF "vary" \in names THEN {"custom"} ELSE r.vary
         /\ z.acao = IF "acao" \in names THEN "custom" ELSE r.acao
<1> DEFINE v == IF "vary" \in names THEN {"custom"} ELSE r.vary
           a == IF "acao" \in names THEN "custom" ELSE r.acao
           l == IF "encoding" \in names THEN "custom" ELSE r.label
<1>1. z = [r EXCEPT !.vary = v, !.acao = a, !.label = l]
  BY Zenon DEF Custom
<1>2. z.by = r.by /\ z.enc = r.enc /\ z.status = r.status /\ z.vary = v /\ z.acao = a
  <2> HIDE DEF v, a, l
  <2> QED
    BY <1>1, Zenon DEF Response
<1> QED
  BY <1>2

\* compression_static::post_process adds to Vary what it was chosen by.
LEMMA CompressionStaticFacts ==
  ASSUME NEW r \in Response
  PROVE  LET z == CompressionStatic(r) IN
         /\ z.by = r.by /\ z.enc = r.enc /\ z.acao = r.acao
         /\ r.vary \subseteq z.vary
         /\ config.compressionStatic => "accept-encoding" \in z.vary
<1> DEFINE varied == [r EXCEPT !.vary = r.vary \cup {"accept-encoding"}]
           z == CompressionStatic(r)
<1>1. /\ varied.by = r.by /\ varied.enc = r.enc /\ varied.acao = r.acao
      /\ varied.vary = r.vary \cup {"accept-encoding"}
  BY Zenon DEF Response
<1>2. z = IF config.compressionStatic THEN varied ELSE r
  BY Zenon DEF CompressionStatic
<1> HIDE DEF varied, z
<1> SUFFICES /\ z.by = r.by /\ z.enc = r.enc /\ z.acao = r.acao
             /\ r.vary \subseteq z.vary
             /\ config.compressionStatic => "accept-encoding" \in z.vary
  BY DEF z
<1> QED
  BY <1>1, <1>2

\* compression::post_process leaves an encoded response alone, and encodes
\* another one once.
LEMMA CompressionFacts ==
  ASSUME NEW q, NEW r \in Response
  PROVE  LET z == Compression(q, r) IN
         /\ z.by = r.by /\ z.acao = r.acao /\ r.vary \subseteq z.vary
         /\ r.enc # <<>> => z.enc = r.enc
         /\ r.enc = <<>> => /\ z.enc = <<>> \/ z.enc = <<"auto">>
                            /\ z.enc # <<>> => "accept-encoding" \in z.vary
<1> DEFINE varied == [r EXCEPT !.vary = r.vary \cup {"accept-encoding"}]
           enc == Append(r.enc, "auto")
           coded == [varied EXCEPT !.enc = enc]
           z == Compression(q, r)
<1>1. /\ varied.by = r.by /\ varied.enc = r.enc /\ varied.acao = r.acao
      /\ varied.vary = r.vary \cup {"accept-encoding"} /\ varied \in Response
  <2>1. varied \in Response
    BY SetVary, ExtendVary
  <2> QED
    BY <2>1, Zenon DEF Response
<1>2. r.enc = <<>> => enc = <<"auto">>
  OBVIOUS
<1>3. z = r \/ (r.enc = <<>> /\ (z = varied \/ z = [varied EXCEPT !.enc = Append(varied.enc, "auto")]))
  BY Zenon DEF Compression, AutoCompress
<1> HIDE DEF varied, enc, z
<1>4. coded.by = varied.by /\ coded.enc = enc /\ coded.acao = varied.acao
      /\ coded.vary = varied.vary
  BY <1>1, Zenon DEF Response
<1>5. z = r \/ (r.enc = <<>> /\ (z = varied \/ z = coded))
  BY <1>1, <1>3, Zenon DEF enc
<1> HIDE DEF coded
<1> SUFFICES /\ z.by = r.by /\ z.acao = r.acao /\ r.vary \subseteq z.vary
             /\ r.enc # <<>> => z.enc = r.enc
             /\ r.enc = <<>> => /\ z.enc = <<>> \/ z.enc = <<"auto">>
                                /\ z.enc # <<>> => "accept-encoding" \in z.vary
  BY DEF z
<1> QED
  BY <1>1, <1>2, <1>4, <1>5

\* What static_files::handle returns.
LEMMA StaticBare == ASSUME NEW c \in Calls, NEW r \in StaticReplies(c) PROVE Bare(r)
<1>1. \A s, b, t : Bare(Reply("static", s, b, t))
  BY Zenon DEF Bare, Reply
<1>2. ASSUME NEW f \in FileReplies(c) PROVE Bare(f)
  <2>1. \E s, b, t : f = Reply("static", s, b, t)
    BY <1>2 DEF FileReplies
  <2> QED
    BY <1>1, <2>1
<1>3. ASSUME NEW f \in FileReplies(c), r = [f EXCEPT !.enc = <<"pre">>], config.compressionStatic
      PROVE  Bare(r)
  <2>1. f \in Response
    BY <1>3, FileType
  <2>2. r.by = f.by /\ r.acao = f.acao /\ r.enc = <<"pre">>
    BY <1>3, <2>1, Zenon DEF Response
  <2>3. f.by = "static" /\ f.acao = "none"
    BY <1>2, <1>3, Zenon DEF Bare
  <2> QED
    BY <1>3, <2>2, <2>3, Zenon DEF Bare
<1>4. \/ \E s \in {403, 404, 500} : r = ErrorResponse("static", s)
      \/ r = Reply("static", 308, "empty", "none") \/ r = Reply("static", 204, "empty", "none")
      \/ r \in FileReplies(c)
      \/ /\ config.compressionStatic
         /\ r \in {[f EXCEPT !.enc = <<"pre">>] : f \in FileReplies(c)}
  BY DEF StaticReplies
<1>5. CASE r \in {[f EXCEPT !.enc = <<"pre">>] : f \in FileReplies(c)} /\ config.compressionStatic
  <2>1. PICK f \in FileReplies(c) : r = [f EXCEPT !.enc = <<"pre">>]
    BY <1>5, Zenon
  <2> QED
    BY <1>3, <1>5, <2>1, Zenon
<1> QED
  BY <1>1, <1>2, <1>4, <1>5 DEF ErrorResponse

\* The post-processing chain up to the custom headers.
LEMMA PostProper ==
  ASSUME ConnInv, NEW c \in Calls, pc[c] = "post", Bare(resp[c])
  PROVE  LET q == req[c]
             r == MarkdownPost(variant[c], CorsPost(q, FallbackPage(q, resp[c])))
             z == Compression(q, CompressionStatic(r))
         IN  Proper(q, z) /\ z \in Response
<1> DEFINE q == req[c]
           f == FallbackPage(q, resp[c])
           o == CorsPost(q, f)
           r == MarkdownPost(variant[c], o)
           s == CompressionStatic(r)
           z == Compression(q, s)
<1>1. f \in Response /\ o \in Response /\ r \in Response /\ s \in Response
  <2>1. resp[c] \in Response
    BY DEF ConnInv, DataOK
  <2> QED
    BY <2>1, FallbackType, CorsType, MarkdownType, CompressionStaticType, Zenon
<1>z. z \in Response
  <2> HIDE DEF s
  <2> QED
    BY <1>1, CompressionType
<1>2. Bare(f)
  <2>1. Bare(Reply("static", 200, "page", "html"))
    BY Zenon DEF Bare, Reply
  <2> QED
    BY <2>1, Zenon DEF FallbackPage
<1>3. config.cors => CorsAllows(q)
  BY DEF ConnInv, ConnOK, GateOK, Inside, Passed
<1>a. q \in Request
  BY DEF ConnInv, DataOK, Active
<1>b. q.origin \in {"none", "allowed", "denied"}
  <2> HIDE DEF q
  <2> QED
    BY <1>a, Zenon DEF Request
<1>4. /\ o.by = f.by /\ o.enc = f.enc
      /\ o.acao \in {"none", "cors"}
      /\ o.acao = "cors" => "origin" \in o.vary
      /\ o.acao = "cors" <=> config.cors /\ q.origin = "allowed"
  <2> HIDE DEF f, q
  <2>1. /\ o.by = f.by /\ o.enc = f.enc
        /\ IF config.cors /\ q.origin # "none" /\ CorsAllows(q)
           THEN o.acao = "cors" /\ "origin" \in o.vary
           ELSE o.acao = f.acao /\ o.vary = f.vary
    BY <1>1, CorsFacts
  <2>2. f.acao = "none"
    BY <1>2, Zenon DEF Bare
  <2>3. (config.cors /\ q.origin # "none" /\ CorsAllows(q))
           <=> (config.cors /\ q.origin = "allowed")
    BY <1>3, <1>b DEF CorsAllows
  <2> HIDE DEF o
  <2> QED
    BY <2>1, <2>2, <2>3
<1>5. r.by = o.by /\ r.enc = o.enc /\ r.acao = o.acao /\ r.vary = o.vary
  <2> HIDE DEF o
  <2>1. r = [o EXCEPT !.ctype = "markdown"] \/ r = o
    BY Zenon DEF MarkdownPost
  <2> HIDE DEF r
  <2> QED
    BY <1>1, <2>1, Zenon DEF Response
<1>6. /\ s.by = r.by /\ s.enc = r.enc /\ s.acao = r.acao /\ r.vary \subseteq s.vary
      /\ config.compressionStatic => "accept-encoding" \in s.vary
  <2> HIDE DEF r
  <2> QED
    BY <1>1, CompressionStaticFacts
<1>7. /\ z.by = s.by /\ z.acao = s.acao /\ s.vary \subseteq z.vary
      /\ s.enc # <<>> => z.enc = s.enc
      /\ s.enc = <<>> => /\ z.enc = <<>> \/ z.enc = <<"auto">>
                         /\ z.enc # <<>> => "accept-encoding" \in z.vary
  <2> HIDE DEF s
  <2> QED
    BY <1>1, CompressionFacts
<1> SUFFICES Proper(q, z) /\ z \in Response
  OBVIOUS
<1> HIDE DEF q, f, o, r, s, z
<1>8. /\ z.enc = <<>> \/ z.enc = <<"auto">> \/ z.enc = <<"pre">>
      /\ z.enc # <<>> => "accept-encoding" \in z.vary
  BY <1>2, <1>4, <1>5, <1>6, <1>7, Zenon DEF Bare
<1>9. Len(z.enc) <= 1
  <2>1. Len(<<>>) = 0 /\ Len(<<"auto">>) = 1 /\ Len(<<"pre">>) = 1
    OBVIOUS
  <2> DEFINE n == Len(z.enc)
  <2>2. n = 0 \/ n = 1
    BY <1>8, <2>1, Zenon
  <2> HIDE DEF n
  <2>3. n <= 1
    BY <2>2
  <2> QED
    BY <2>3 DEF n
<1>10. /\ z.by = "static"
       /\ z.acao \in {"none", "cors"}
       /\ z.acao = "cors" => "origin" \in z.vary
       /\ z.acao = "cors" <=> config.cors /\ q.origin = "allowed"
  <2>1. z.by = "static" /\ z.acao = o.acao /\ o.vary \subseteq z.vary
    BY <1>2, <1>4, <1>5, <1>6, <1>7 DEF Bare
  <2> QED
    BY <1>4, <2>1
<1> QED
  BY <1>8, <1>9, <1>10, <1>z, Zenon DEF Proper

\* The operator's headers come last and replace only what they name.
LEMMA CustomFinal ==
  ASSUME NEW q, NEW u, NEW r \in Response, Proper(q, r), config.cors => q.origin # "denied",
         NEW names \in {{}} \cup CustomHeaders[u]
  PROVE  Final(q, u, Custom(names, r))
<1> DEFINE z == Custom(names, r)
<1>1. /\ z.by = r.by /\ z.enc = r.enc /\ z.status = r.status
      /\ z.vary = IF "vary" \in names THEN {"custom"} ELSE r.vary
      /\ z.acao = IF "acao" \in names THEN "custom" ELSE r.acao
  BY CustomFacts
<1>2. /\ "vary" \in names => Replaced(u, "vary")
      /\ "acao" \in names => Replaced(u, "acao")
  BY DEF Replaced
<1>3. /\ r.by = "static" /\ Len(r.enc) <= 1
      /\ r.enc # <<>> => "accept-encoding" \in r.vary
      /\ r.acao = "cors" => "origin" \in r.vary
      /\ r.acao = "cors" <=> config.cors /\ q.origin = "allowed"
  BY DEF Proper
<1> SUFFICES Final(q, u, z)
  OBVIOUS
<1> HIDE DEF z
<1>4. "cors" # "custom"
  OBVIOUS
<1>5. /\ Len(z.enc) <= 1
      /\ \/ /\ z.enc # <<>> => "accept-encoding" \in z.vary
            /\ z.acao = "cors" => "origin" \in z.vary
         \/ z.vary = {"custom"} /\ Replaced(u, "vary")
  BY <1>1, <1>2, <1>3, <1>4, Zenon
<1>6. /\ ~(config.cors /\ q.origin = "denied")
      /\ config.cors /\ q.origin = "allowed"
           => z.acao = "cors" \/ (z.by = "static" /\ z.acao = "custom" /\ Replaced(u, "acao"))
      /\ z.acao = "cors" => config.cors /\ q.origin = "allowed"
  BY <1>1, <1>2, <1>3, <1>4, Zenon
<1> QED
  BY <1>5, <1>6, Zenon DEF Final

\* A response of an upstream is that response but for two headers.
LEMMA UpstreamFacts ==
  ASSUME NEW r \in Response, NEW z \in AsUpstream(r)
  PROVE  z.by = r.by /\ z.status = r.status /\ z.acao \in {"none", "upstream"}
<1>1. PICK a \in {"none", "upstream"}, v \in {{}, {"upstream"}} :
         z = [r EXCEPT !.acao = a, !.vary = v]
  BY DEF AsUpstream
<1>2. z.by = r.by /\ z.status = r.status /\ z.acao = a
  BY <1>1, Zenon DEF Response
<1> QED
  BY <1>2

\* What comes of an upstream: the gateway's grant replaces the upstream's own.
LEMMA UpstreamFinal ==
  ASSUME NEW c \in Calls, NEW q \in Request, NEW u, UpstreamReplies(c), q = req[c],
         config.cors => CorsAllows(q)
  PROVE  \E z : Answer(c, z) /\ Final(q, u, z)
<1>0. q.origin \in {"none", "allowed", "denied"}
  BY Zenon DEF Request
<1>c. config.cors => q.origin # "denied"
  BY DEF CorsAllows
<1>1. /\ Reply("proxy", 502, "page", "html") \in Response
      /\ Reply("proxy", 101, "empty", "none") \in Response
      /\ Reply("proxy", 503, "empty", "none") \in Response
      /\ Reply("proxy", 200, "upstream", "text") \in Response
  BY ReplyType DEF Makers, Bodies, Types
<1>2. \A s, b, t : LET r == Reply("proxy", s, b, t)
                  IN  r.by = "proxy" /\ r.status = s /\ r.acao = "none"
  BY DEF Reply
<1>3. ASSUME NEW z, z.by = "proxy", z.status \in {101, 502}, z.acao \in {"none", "upstream"}
      PROVE  Final(q, u, z)
  <2>1. z.by # "static" /\ z.acao # "cors"
    BY <1>3
  <2> QED
    BY <1>3, <1>c, <2>1 DEF Final
<1>4. ASSUME NEW r \in Response, r.by = "proxy", r.acao \in {"none", "upstream"}
      PROVE  Final(q, u, CorsPost(q, r))
  <2> DEFINE z == CorsPost(q, r)
  <2>1. /\ z.by = r.by
        /\ IF config.cors /\ q.origin # "none" /\ CorsAllows(q)
           THEN z.acao = "cors" /\ "origin" \in z.vary
           ELSE z.acao = r.acao /\ z.vary = r.vary
    BY <1>4, CorsFacts
  <2> SUFFICES Final(q, u, z)
    OBVIOUS
  <2> HIDE DEF z
  <2>2. /\ z.by # "static"
        /\ config.cors /\ q.origin = "allowed" => z.acao = "cors"
        /\ z.acao = "cors" => config.cors /\ q.origin = "allowed"
    BY <1>0, <1>4, <1>c, <2>1
  <2> QED
    BY <1>c, <2>2 DEF Final
<1>5. CASE Answer(c, ErrorResponse("proxy", 502))
  BY <1>2, <1>3, <1>5 DEF ErrorResponse
<1>6. CASE \E r \in AsUpstream(Reply("proxy", 101, "empty", "none")) : Answer(c, r)
  <2>1. PICK r \in AsUpstream(Reply("proxy", 101, "empty", "none")) : Answer(c, r)
    BY <1>6
  <2>2. r.by = "proxy" /\ r.status = 101 /\ r.acao \in {"none", "upstream"}
    BY <1>1, <1>2, UpstreamFacts
  <2> QED
    BY <1>3, <2>1, <2>2
<1>7. CASE \E r \in AsUpstream(Reply("proxy", 200, "upstream", "text"))
                     \cup {Reply("proxy", 503, "empty", "none")} :
             Answer(c, CorsPost(req[c], r))
  <2>1. PICK r \in AsUpstream(Reply("proxy", 200, "upstream", "text"))
                     \cup {Reply("proxy", 503, "empty", "none")} :
             Answer(c, CorsPost(q, r))
    BY <1>7
  <2>2. r \in Response /\ r.by = "proxy" /\ r.acao \in {"none", "upstream"}
    BY <1>1, <1>2, UpstreamFacts, UpstreamType
  <2> QED
    BY <1>4, <2>1, <2>2
<1> QED
  BY <1>5, <1>6, <1>7 DEF UpstreamReplies

\* A response is sent as it left the stage that answered.
LEMMA AnswerHeaders ==
  ASSUME DataOK, NEW c \in Calls, NEW r, Answer(c, r), Final(req[c], uri[c], r),
         UNCHANGED <<config, req>>, uri'[c] = uri[c]
  PROVE  HeadersOK(c)'
<1>1. pc'[c] = "finish" /\ resp'[c] = r
  BY DEF Answer, Goto, DataOK
<1>2. Final(req[c], uri[c], resp[c])'
  BY <1>1, SMT DEF Final, Replaced
<1>3. "finish" # "post"
  OBVIOUS
<1> QED
  BY <1>1, <1>2, <1>3, Zenon DEF HeadersOK

\* A call that is neither at the end nor before the post-processing.
LEMMA ElsewhereHeaders ==
  ASSUME DataOK, NEW c \in Calls, NEW p, p \notin {"post", "finish"}, Goto(c, p)
  PROVE  HeadersOK(c)'
  BY DEF Goto, DataOK, HeadersOK

\* The acting call.
LEMMA ActingHeaders ==
  ASSUME HeadersInv, NEW c \in Calls, Pipeline(c)
  PROVE  HeadersOK(c)'
<1>0. DataOK /\ HeadersOK(c) /\ ConnInv
  BY DEF HeadersInv, ConnInv
<1>1. CASE CheckMethod(c) \/ Health(c) \/ Metrics(c) \/ Cors(c) \/ BasicAuth(c)
           \/ Maintenance(c) \/ Redirects(c) \/ Rewrites(c)
  <2>1. \/ /\ \E by \in Makers \ {"static", "proxy"} : \E s, b, t : Answer(c, Reply(by, s, b, t))
           /\ UNCHANGED uri
        \/ \E p \in PCs \ {"post", "finish"} : Goto(c, p)
    <3>1. CASE CheckMethod(c) \/ Health(c) \/ Metrics(c) \/ Cors(c) \/ BasicAuth(c)
               \/ Maintenance(c) \/ Redirects(c)
      BY <3>1 DEF CheckMethod, Health, Metrics, Cors, BasicAuth, Maintenance, Redirects,
                  Stage, ErrorResponse, PCs, Makers
    <3>2. CASE Rewrites(c)
      BY <3>2 DEF Rewrites, ErrorResponse, PCs, Makers
    <3> QED
      BY <1>1, <3>1, <3>2
  <2>2. UNCHANGED <<config, req>>
    BY <1>1 DEF CheckMethod, Health, Metrics, Cors, BasicAuth, Maintenance, Redirects,
                Rewrites, Stage
  <2> QED
    BY <1>0, <2>1, <2>2, ReplyFinal, AnswerHeaders, ElsewhereHeaders
<1>2. CASE Proxy(c) \/ StartStatic(c)
  <2>1. \E p \in PCs \ {"post", "finish"} : Goto(c, p)
    BY <1>2 DEF Proxy, StartStatic, PCs
  <2> QED
    BY <1>0, <2>1, ElsewhereHeaders
<1>3. CASE FileRead(c)
  <2>1. PICK r \in StaticReplies(c) : resp' = [resp EXCEPT ![c] = r]
    BY <1>3 DEF FileRead
  <2>2. pc'[c] = "post" /\ resp'[c] = r /\ UNCHANGED config
    BY <1>0, <1>3, <2>1 DEF FileRead, Goto, DataOK
  <2>3. Bare(resp[c])'
    BY <2>2, StaticBare, Zenon DEF Bare
  <2>4. "finish" # "post"
    OBVIOUS
  <2> QED
    BY <2>2, <2>3, <2>4, Zenon DEF HeadersOK
<1>p. pc[c] \in {"post", "upstream"} =>
         req[c] \in Request /\ (config.cors => CorsAllows(req[c]))
  BY <1>0 DEF DataOK, Active, ConnInv, ConnOK, GateOK, Inside, Passed
<1>4. CASE PostProcess(c)
  <2> DEFINE q == req[c]
             r == MarkdownPost(variant[c], CorsPost(q, FallbackPage(q, resp[c])))
             z == Compression(q, CompressionStatic(r))
  <2>1. /\ pc[c] = "post" /\ UNCHANGED <<config, req, uri>>
        /\ \E names \in {{}} \cup CustomHeaders[uri[c]] : Answer(c, Custom(names, z))
    BY <1>4 DEF PostProcess
  <2>2. Proper(q, z) /\ z \in Response
    BY <1>0, <2>1, PostProper DEF HeadersOK
  <2>3. config.cors => q.origin # "denied"
    BY <1>p, <2>1 DEF CorsAllows
  <2> HIDE DEF q, z
  <2>4. PICK names \in {{}} \cup CustomHeaders[uri[c]] : Answer(c, Custom(names, z))
    BY <2>1
  <2>5. Final(q, uri[c], Custom(names, z))
    BY <2>2, <2>3, CustomFinal
  <2> QED
    BY <1>0, <2>1, <2>4, <2>5, AnswerHeaders DEF q
<1>5. CASE UpstreamReplies(c)
  <2>1. UNCHANGED <<config, req, uri>> /\ pc[c] = "upstream"
    BY <1>5 DEF UpstreamReplies
  <2>2. PICK z : Answer(c, z) /\ Final(req[c], uri[c], z)
    BY <1>5, <1>p, <2>1, UpstreamFinal
  <2> QED
    BY <1>0, <2>1, <2>2, AnswerHeaders
<1> QED
  BY <1>1, <1>2, <1>3, <1>4, <1>5 DEF Pipeline

\* Every step keeps what is known of every response.
LEMMA StepHeadersInv == HeadersInv /\ [Next]_vars => HeadersInv'
<1> SUFFICES ASSUME HeadersInv, [Next]_vars PROVE HeadersInv'
  OBVIOUS
<1>0. ConnInv' /\ DataOK
  BY StepConnInv DEF HeadersInv, ConnInv
<1>1. CASE UNCHANGED vars
  <2>1. ASSUME NEW c \in Calls PROVE HeadersOK(c)'
    BY <1>1, Zenon DEF vars, HeadersInv, HeadersOK, Bare, Final, Replaced
  <2> QED
    BY <1>0, <2>1 DEF HeadersInv
<1>3. ASSUME NEW k \in Conns, Open(k) \/ Close(k) PROVE HeadersInv'
  <2>0. UNCHANGED <<config, pc, req, uri, resp>>
    BY <1>3 DEF Open, Close
  <2>1. ASSUME NEW c \in Calls PROVE HeadersOK(c)'
    BY <2>0, Zenon DEF HeadersInv, HeadersOK, Bare, Final, Replaced
  <2> QED
    BY <1>0, <2>1 DEF HeadersInv
<1>2. ASSUME NEW c \in Calls,
             (\E q : Arrive(c, q)) \/ Pipeline(c) \/ Finish(c) \/ Drop(c)
      PROVE  HeadersInv'
  <2>1. HeadersOK(c)'
    <3>1. CASE Pipeline(c)
      BY <3>1, ActingHeaders
    <3>2. CASE ~Pipeline(c)
      <4>1. \E p \in {"idle", "method"} : Goto(c, p)
        BY <1>2, <3>2 DEF Arrive, Finish, Drop
      <4> QED
        BY <1>0, <4>1, ElsewhereHeaders
    <3> QED
      BY <3>1, <3>2
  <2>2. ASSUME NEW d \in Calls, d # c PROVE HeadersOK(d)'
    <3>1. UNCHANGED config /\ pc'[d] = pc[d] /\ req'[d] = req[d]
      <4>1. CASE Pipeline(c)
        BY <1>0, <2>2, <4>1, PipelineInternal DEF Internal, DataOK
      <4>2. CASE ~Pipeline(c)
        BY <1>0, <1>2, <2>2, <4>2 DEF Arrive, Finish, Drop, Forget, Goto, DataOK
      <4> QED
        BY <4>1, <4>2
    <3>2. resp'[d] = resp[d]
      <4>1. resp' = resp \/ \E r : resp' = [resp EXCEPT ![c] = r]
        BY <1>2 DEF Arrive, Finish, Drop, Forget, Pipeline, CheckMethod, Health,
           Metrics, Cors, BasicAuth, Maintenance, Redirects, Stage, Answer, Proxy, Rewrites,
           StartStatic, FileRead, PostProcess, UpstreamReplies
      <4> QED
        BY <1>0, <2>2, <4>1 DEF DataOK
    <3>3. HeadersOK(d)
      BY DEF HeadersInv
    <3>4. uri'[d] = uri[d]
      <4>1. uri' = uri \/ \E u : uri' = [uri EXCEPT ![c] = u]
        BY <1>2 DEF Arrive, Finish, Drop, Forget, Pipeline, CheckMethod, Health,
           Metrics, Cors, BasicAuth, Maintenance, Redirects, Stage, Proxy, Rewrites,
           StartStatic, FileRead, PostProcess, UpstreamReplies
      <4> QED
        BY <1>0, <2>2, <4>1 DEF DataOK
    <3> QED
      BY <3>1, <3>2, <3>3, <3>4, SMT DEF HeadersOK, Bare, Final, Replaced
  <2> QED
    BY <1>0, <2>1, <2>2 DEF HeadersInv
<1> QED
  BY <1>1, <1>2, <1>3 DEF Next, Pipeline

\* Calls start without a response.
LEMMA InitHeadersInv == Init => HeadersInv
  BY InitConnInv DEF Init, HeadersInv, HeadersOK

\* The chain after static_files::handle encodes a response at most once and loses
\* nothing from Vary but to the operator's own headers, under every setting of
\* the stages that write Vary.
THEOREM VaryNeverLost == Spec => []VaryKept
<1>1. HeadersInv => VaryKept
  BY Zenon DEF HeadersInv, HeadersOK, Final, Replaced, VaryKept
<1> QED
  BY <1>1, InitHeadersInv, StepHeadersInv, PTL DEF Spec

\* With CORS on, nothing grants a refused origin access, and what an allowed one
\* gets carries the gateway's grant instead of the upstream's.
THEOREM CorsGrantsRight == Spec => []CorsGranted
<1>1. HeadersInv => CorsGranted
  BY Zenon DEF HeadersInv, HeadersOK, Final, Replaced, CorsGranted
<1> QED
  BY <1>1, InitHeadersInv, StepHeadersInv, PTL DEF Spec
=============================================================================
