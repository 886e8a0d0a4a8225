---------------------------- MODULE FileServing ----------------------------
(***************************************************************************)
(* A file on its way from the disk to a client: static_files::handle,      *)
(* get_composed_file_metadata, file_reply, response_body, the body streams *)
(* and the in-memory cache (src/static_files.rs, src/response.rs,          *)
(* src/mem_cache/, src/fs/), while the files are replaced and removed.     *)
(*                                                                         *)
(* One path is modelled, with its original file and one pre-compressed     *)
(* variant next to it.  A file is replaced atomically (a new file is       *)
(* renamed over it), so an open file keeps its bytes.  Which path it is    *)
(* that a request stands for (directories, index files, .html suffixes,    *)
(* hidden files and symbolic links) is in StaticPath.                      *)
(***************************************************************************)
EXTENDS ByteRange, FiniteSets

CONSTANTS Conns,              \* client connections
          CompressionStatic,  \* compression-static
          MemoryCache,        \* advanced.memory-cache is configured
          MaxFileSize,        \* its max-file-size
          BlockSize,          \* preferred block size of the file system
          Mtime,              \* Mtime[i]: modification time of the i-th file deployed
          Lengths,            \* Lengths.orig, Lengths.gz: lengths of the files deployed
          Asks,               \* Asks[c]: what the client of c asks for [method, gzip, range, date]
          Keepers,            \* connections whose client keeps a copy and revalidates it
          MaxFiles,           \* bound: files deployed
          None

Ranges == [kind : RangeKinds, a : U64, b : U64]

\* The methods is_allowed lets through, and the headers that carry a date.
Methods == {"GET", "HEAD", "OPTIONS"}
Dates == {"modifiedSince", "unmodifiedSince", "ifRange"}

ASSUME FileAssumption ==
    /\ CompressionStatic \in BOOLEAN /\ MemoryCache \in BOOLEAN
    /\ MaxFileSize \in Nat /\ BlockSize \in Nat \ {0}
    /\ MaxFiles \in Nat
    /\ Mtime \in [1 .. MaxFiles -> Nat]
    /\ Lengths \in [orig : SUBSET U64, gz : SUBSET U64]
    /\ Asks \in [Conns -> SUBSET [method : Methods, gzip : BOOLEAN, range : Ranges,
                                 date : Dates \cup {"none"}]]

\* Files are deployed in different seconds, and clocks do not go back.
ASSUME ClockAssumption == \A i, j \in 1 .. MaxFiles : i < j => Mtime[i] < Mtime[j]

VARIABLES disk,      \* disk.orig, disk.gz: the file now under the name, or None
          deployed,  \* number of files deployed so far
          cache,     \* CACHE_STORE's entry for the path, or None
          pc,        \* where the request of a connection is
          req,       \* [method, gzip, cond]
          meta,      \* the file whose metadata was read
          variant,   \* is the pre-compressed variant to be opened?
          file,      \* the file that was opened, or that the cached bytes are of
          head,      \* status and slice of the response
          label,     \* its Last-Modified
          encoded,   \* does it carry Content-Encoding?
          sent,      \* bytes the body stream has yielded
          memBuf,    \* bytes collected for the cache, or None
          copy       \* ghost: the client's last complete copy [file, label], or None

request == <<pc, req, meta, variant, file, head, label, encoded, sent, memBuf>>
vars == <<disk, deployed, cache, request, copy>>

PCs == {"idle", "lookup", "permit", "stat", "variant", "resolve", "open", "stream", "done"}

\* On its way from the disk: past the cache, not answered yet.
Reading == {"stat", "variant", "resolve", "open", "stream"}

NoHead == [status |-> 0, slice |-> Slice(0, 0)]

NoBody(status) == [status |-> status, slice |-> Slice(0, 0)]

NoRequest == [method |-> "GET", gzip |-> FALSE, cond |-> Plain]

Init ==
    /\ disk     = [orig |-> None, gz |-> None]
    /\ deployed = 0
    /\ cache    = None
    /\ pc       = [c \in Conns |-> "idle"]
    /\ req      = [c \in Conns |-> NoRequest]
    /\ meta     = [c \in Conns |-> None]
    /\ variant  = [c \in Conns |-> FALSE]
    /\ file     = [c \in Conns |-> None]
    /\ head     = [c \in Conns |-> NoHead]
    /\ label    = [c \in Conns |-> Absent]
    /\ encoded  = [c \in Conns |-> FALSE]
    /\ sent     = [c \in Conns |-> 0]
    /\ memBuf   = [c \in Conns |-> None]
    /\ copy     = [c \in Conns |-> None]

Goto(c, p) == pc' = [pc EXCEPT ![c] = p]

Answer(c, h) == Goto(c, "done") /\ head' = [head EXCEPT ![c] = h]

\* The Last-Modified of a file: none if it is the UNIX epoch.
Modified(f) == IF f.mtime = 0 THEN Absent ELSE f.mtime

-----------------------------------------------------------------------------
(* The operator of the site and the clients.                               *)

\* Variants are deployed where they are served.
Names == IF CompressionStatic THEN {"orig", "gz"} ELSE {"orig"}

Deploy(name, len) ==
    /\ deployed < MaxFiles
    /\ deployed' = deployed + 1
    /\ disk' = [disk EXCEPT ![name] = [id |-> deployed + 1, name |-> name, len |-> len,
                                       mtime |-> Mtime[deployed + 1]]]
    /\ UNCHANGED <<cache, request, copy>>

Remove(name) ==
    /\ disk[name] # None
    /\ disk' = [disk EXCEPT ![name] = None]
    /\ UNCHANGED <<deployed, cache, request, copy>>

\* The conditional headers of a request: the date is that of the client's copy.
Conditional(c, ask) ==
    LET plain == [Plain EXCEPT !.range = ask.range]
    IN  IF ask.date = "none" THEN plain ELSE [plain EXCEPT ![ask.date] = copy[c].label]

\* handle, up to the cache.  A date is sent only by a client that has one.
Request(c, ask) ==
    /\ pc[c] = "idle"
    /\ ask.date # "none" => copy[c] # None /\ copy[c].label # Absent
    /\ req' = [req EXCEPT ![c] = [method |-> ask.method, gzip |-> ask.gzip,
                                  cond |-> Conditional(c, ask)]]
    /\ Goto(c, IF MemoryCache THEN "lookup" ELSE "stat")
    /\ UNCHANGED <<disk, deployed, cache, meta, variant, file, head, label, encoded, sent,
                   memBuf, copy>>

\* The request and its stream are dropped.
Forget(c) ==
    /\ Goto(c, "idle")
    /\ req'     = [req EXCEPT ![c] = NoRequest]
    /\ meta'    = [meta EXCEPT ![c] = None]
    /\ variant' = [variant EXCEPT ![c] = FALSE]
    /\ file'    = [file EXCEPT ![c] = None]
    /\ head'    = [head EXCEPT ![c] = NoHead]
    /\ label'   = [label EXCEPT ![c] = Absent]
    /\ encoded' = [encoded EXCEPT ![c] = FALSE]
    /\ sent'    = [sent EXCEPT ![c] = 0]
    /\ memBuf'  = [memBuf EXCEPT ![c] = None]

\* The client has the response.  It keeps the 200 to a GET whose body is as long
\* as announced; a pre-compressed body announces no length.
Receive(c) ==
    /\ pc[c] = "done"
    /\ Forget(c)
    /\ copy' = IF /\ head[c].status = 200 /\ req[c].method = "GET"
                  /\ encoded[c] \/ sent[c] = head[c].slice.end
                  /\ c \in Keepers
               THEN [copy EXCEPT ![c] = [file |-> file[c], label |-> label[c]]] ELSE copy
    /\ UNCHANGED <<disk, deployed, cache>>

\* The client goes away: hyper drops the handler, or the stream in the middle of
\* the body.
Leave(c) ==
    /\ pc[c] \notin {"idle", "done"}
    /\ Forget(c)
    /\ UNCHANGED <<disk, deployed, cache, copy>>

\* mini_moka evicts the entry, for its age or for room.
Evict ==
    /\ cache # None
    /\ cache' = None
    /\ UNCHANGED <<disk, deployed, request, copy>>

-----------------------------------------------------------------------------
(* The request.                                                            *)

\* get_or_acquire: the cached file is the answer, whatever the method is.
Hit(c) ==
    /\ pc[c] = "lookup" /\ cache # None
    /\ LET h == ResponseHead(req[c].cond, cache.label, cache.len) IN
          /\ Answer(c, h)
          /\ sent' = [sent EXCEPT ![c] = IF req[c].method = "HEAD" THEN 0
                                         ELSE h.slice.end - h.slice.start]
    /\ file'  = [file EXCEPT ![c] = cache.file]
    /\ label' = [label EXCEPT ![c] = cache.label]
    /\ UNCHANGED <<disk, deployed, cache, req, meta, variant, encoded, memBuf, copy>>

Miss(c) ==
    /\ pc[c] = "lookup" /\ cache = None
    /\ Goto(c, "permit")
    /\ UNCHANGED <<disk, deployed, cache, req, meta, variant, file, head, label, encoded, sent,
                   memBuf, copy>>

\* CACHE_PERMIT.acquire().await: the permit is a temporary of the condition and
\* is back before get_or_acquire returns.
Acquire(c) ==
    /\ pc[c] = "permit"
    /\ Goto(c, "stat")
    /\ UNCHANGED <<disk, deployed, cache, req, meta, variant, file, head, label, encoded, sent,
                   memBuf, copy>>

\* get_composed_file_metadata, first try_metadata: of the original.
Stat(c) ==
    /\ pc[c] = "stat"
    /\ meta' = [meta EXCEPT ![c] = disk.orig]
    /\ Goto(c, "variant")
    /\ UNCHANGED <<disk, deployed, cache, req, variant, file, head, label, encoded, sent,
                   memBuf, copy>>

\* precompressed_variant: is there a file for an encoding the client accepts?
VariantFound(c) == CompressionStatic /\ req[c].gzip /\ disk.gz # None

\* Mutant: a missing file is noticed only later.
StatVariantUnchecked(c) ==
    /\ pc[c] = "variant"
    /\ Goto(c, "resolve")
    /\ variant' = [variant EXCEPT ![c] = VariantFound(c)]
    /\ UNCHANGED <<disk, deployed, cache, req, meta, file, head, label, encoded, sent, memBuf,
                   copy>>

\* The variant's metadata is used only if there is no original.
StatVariant(c) ==
    /\ pc[c] = "variant"
    /\ IF meta[c] = None /\ ~VariantFound(c)
       THEN Answer(c, NoBody(404)) /\ UNCHANGED <<meta, variant>>
       ELSE /\ Goto(c, "resolve")
            /\ meta' = IF meta[c] = None THEN [meta EXCEPT ![c] = disk.gz] ELSE meta
            /\ variant' = [variant EXCEPT ![c] = VariantFound(c)]
            /\ UNCHANGED head
    /\ UNCHANGED <<disk, deployed, cache, req, file, label, encoded, sent, memBuf, copy>>

\* The rest of handle: the original's path is canonicalized, and OPTIONS is
\* answered.
Resolve(c) ==
    /\ pc[c] = "resolve"
    /\ IF disk.orig = None THEN Answer(c, NoBody(404))
       ELSE IF req[c].method = "OPTIONS" THEN Answer(c, NoBody(204))
       ELSE Goto(c, "open") /\ UNCHANGED head
    /\ UNCHANGED <<disk, deployed, cache, req, meta, variant, file, label, encoded, sent, memBuf,
                   copy>>

\* Mutant: the file is opened first and its metadata read when it is answered.
OpenThenStat(c) ==
    LET f == meta[c]
        m == disk.orig
        h == ResponseHead(req[c].cond, Modified(m), m.len)
    IN  /\ pc[c] = "open" /\ m # None
        /\ head'  = [head EXCEPT ![c] = h]
        /\ file'  = [file EXCEPT ![c] = f]
        /\ label' = [label EXCEPT ![c] = Modified(m)]
        /\ encoded' = [encoded EXCEPT ![c] = variant[c]]
        /\ Goto(c, IF h.status \in {200, 206} /\ req[c].method # "HEAD" THEN "stream" ELSE "done")
        /\ UNCHANGED <<disk, deployed, cache, req, meta, variant, sent, memBuf, copy>>

\* file_reply and response_body: the file is opened, and answered according
\* to the metadata read before.  The body of a HEAD is dropped unread.
Open(c) ==
    LET f == disk[IF variant[c] THEN "gz" ELSE "orig"]
        m == meta[c]
        h == ResponseHead(req[c].cond, Modified(m), m.len)
    IN  /\ pc[c] = "open" /\ f # None
        /\ head'  = [head EXCEPT ![c] = h]
        /\ file'  = [file EXCEPT ![c] = f]
        /\ label' = [label EXCEPT ![c] = Modified(m)]
        /\ encoded' = [encoded EXCEPT ![c] = variant[c]]
        /\ IF h.status \in {200, 206} /\ req[c].method # "HEAD"
           THEN /\ Goto(c, "stream")
                /\ memBuf' = IF MemoryCache /\ m.len <= MaxFileSize
                             THEN [memBuf EXCEPT ![c] = 0] ELSE memBuf
           ELSE Goto(c, "done") /\ UNCHANGED memBuf
        /\ UNCHANGED <<disk, deployed, cache, req, meta, variant, sent, copy>>

\* The file is gone by the time it is opened; or the system does not let it be
\* read, or fails (too many open files, no seek).
OpenFails(c) ==
    /\ pc[c] = "open"
    /\ \E status \in IF disk[IF variant[c] THEN "gz" ELSE "orig"] = None THEN {404}
                      ELSE {403, 500} :
          Answer(c, NoBody(status))
    /\ UNCHANGED <<disk, deployed, cache, req, meta, variant, file, label, encoded, sent, memBuf,
                   copy>>

Least(a, b) == IF a <= b THEN a ELSE b

\* Bytes the reader (seek to start, take end - start) still has.
Available(c) ==
    LET end  == Least(head[c].slice.end, file[c].len)
        here == head[c].slice.start + sent[c]
    IN  IF here < end THEN end - here ELSE 0

\* The most one read yields; optimal_buf_size is the size of its buffer.
ReadSize(c) == Least(Least(BlockSize, meta[c].len), Available(c))

\* MemFile::new: n more bytes complete the buffer.  (meta is a ghost: the file
\* that the metadata was of.)
Entry(c, n) == [file |-> file[c], from |-> head[c].slice.start, len |-> memBuf[c] + n,
                label |-> label[c], meta |-> meta[c]]

\* Mutant: what has been read is cached when the stream ends.
CacheAtEnd(c, n) == n = Available(c)

\* "If file size is reached then proceed cache it": the buffer is at its
\* capacity, the length in the metadata.
CacheNow(c, n) == memBuf[c] + n = meta[c].len

\* poll_next of MemCacheFileStream (or of FileStream, without memBuf).
Poll(c) ==
    /\ pc[c] = "stream"
    /\ \E n \in 1 .. ReadSize(c) :
          /\ sent' = [sent EXCEPT ![c] = @ + n]
          /\ IF memBuf[c] = None THEN UNCHANGED <<memBuf, cache>>
             ELSE IF CacheNow(c, n)
                  THEN memBuf' = [memBuf EXCEPT ![c] = None] /\ cache' = Entry(c, n)
                  ELSE memBuf' = [memBuf EXCEPT ![c] = @ + n] /\ UNCHANGED cache
    /\ UNCHANGED <<disk, deployed, pc, req, meta, variant, file, head, label, encoded, copy>>

\* Mutant: the stream ends when everything announced was sent.
EndOfStreamWhenSent(c) ==
    /\ pc[c] = "stream" /\ sent[c] = head[c].slice.end - head[c].slice.start
    /\ Goto(c, "done")
    /\ UNCHANGED <<disk, deployed, cache, req, meta, variant, file, head, label, encoded, sent,
                   memBuf, copy>>

\* A read of 0 bytes ends the stream.
EndOfStream(c) ==
    /\ pc[c] = "stream" /\ ReadSize(c) = 0
    /\ Goto(c, "done")
    /\ UNCHANGED <<disk, deployed, cache, req, meta, variant, file, head, label, encoded, sent,
                   memBuf, copy>>

\* A read fails: the stream yields the error, the connection is closed in the
\* middle of the body, and what was collected for the cache goes with the stream.
ReadFails(c) ==
    /\ pc[c] = "stream"
    /\ Forget(c)
    /\ UNCHANGED <<disk, deployed, cache, copy>>

\* The handler, up to the head of the response.
Serve(c) == \/ Hit(c) \/ Miss(c) \/ Acquire(c) \/ Stat(c) \/ StatVariant(c) \/ Resolve(c)
            \/ Open(c) \/ OpenFails(c)

\* The connection, which asks the stream for more as the client takes it.
Transmit(c) == Poll(c) \/ EndOfStream(c)

Next == \/ \E name \in Names : Remove(name) \/ \E len \in Lengths[name] : Deploy(name, len)
        \/ \E c \in Conns : \/ \E ask \in Asks[c] : Request(c, ask)
                            \/ Serve(c) \/ Transmit(c) \/ ReadFails(c) \/ Receive(c) \/ Leave(c)
        \/ Evict

Spec == Init /\ [][Next]_vars

\* The runtime polls a handler that is ready.  A stream is polled only as fast as
\* the client reads and the code sets no time limit, so WF_vars(Transmit(c)) is
\* an assumption on clients: one that does not go away reads on.  Deployments,
\* evictions, failures and further requests owe nothing.
FairSpec == Spec /\ \A c \in Conns : WF_vars(Serve(c)) /\ WF_vars(Transmit(c))

-----------------------------------------------------------------------------
Files == [id : 1 .. MaxFiles, name : {"orig", "gz"}, len : U64, mtime : Nat]

Times == Nat \cup {Absent}

Conditions == [unmodifiedSince : Times, modifiedSince : Times, ifRange : Times,
               range : Ranges]

Requests == [method : Methods, gzip : BOOLEAN, cond : Conditions]

Slices == [ok : {TRUE}, start : U64, end : U64]

Heads == [status : {0, 200, 204, 206, 304, 403, 404, 412, 416, 500}, slice : Slices]

Entries == [file : Files, from : U64, len : U64, label : Times, meta : Files]

Copies == [file : Files, label : Times]

TypeOK ==
    /\ disk \in [{"orig", "gz"} -> Files \cup {None}]
    /\ deployed \in 0 .. MaxFiles
    /\ cache \in Entries \cup {None}
    /\ pc \in [Conns -> PCs]
    /\ req \in [Conns -> Requests]
    /\ meta \in [Conns -> Files \cup {None}]
    /\ file \in [Conns -> Files \cup {None}]
    /\ variant \in [Conns -> BOOLEAN] /\ encoded \in [Conns -> BOOLEAN]
    /\ head \in [Conns -> Heads]
    /\ label \in [Conns -> Times]
    /\ sent \in [Conns -> U64]
    /\ memBuf \in [Conns -> U64 \cup {None}]
    /\ copy \in [Conns -> Copies \cup {None}]
    /\ \A c \in Conns : /\ pc[c] \in {"resolve", "open", "stream"} => meta[c] # None
                        /\ pc[c] = "stream" => file[c] # None

\* A body is never older than the Last-Modified it carries: the metadata is
\* read before the file is opened, and the cache keeps the pair.  (Deployed
\* files have growing modification times; a pre-compressed body carries the
\* date of the original.)
FreshLabel ==
    \A c \in Conns :
        head[c].status \in {200, 206} /\ label[c] # Absent /\ file[c].name = "orig"
            => label[c] <= file[c].mtime

\* A 304 from the disk never confirms a copy older than the file it was
\* decided on, although a copy may carry the date of an earlier file.
NotModifiedFresh ==
    \A c \in Conns :
        head[c].status = 304 /\ meta[c] # None /\ copy[c].file.name = meta[c].name
            => copy[c].file.id >= meta[c].id

\* What is in the cache starts with the first byte of a file and is as long, and
\* dated, as the metadata says that was read for the same request: never the
\* slice of a Range request or what was sent of an interrupted body.  The file
\* is the one of that metadata or one that replaced it later.  (When a variant
\* was opened, its first bytes are kept in the place of the original, and the
\* metadata is the original's: names differ.)
CacheAuthentic ==
    cache # None => /\ cache.from = 0
                    /\ cache.len = cache.meta.len /\ cache.label = Modified(cache.meta)
                    /\ cache.len <= cache.file.len
                    /\ cache.meta.name = cache.file.name => cache.meta.id <= cache.file.id

\* Every request gets its answer, provided that its client reads on or goes
\* away: no stream runs for ever, whatever happens to the file under it.
Settles ==
    \A c \in Conns : pc[c] \in Reading \cup {"lookup", "permit"} ~> pc[c] \in {"done", "idle"}

\* "the `meta` param value will belong to the `path_precompressed`"
\* (static_files.rs): a pre-compressed file is sent to its last byte.
VariantSentWhole ==
    \A c \in Conns :
        pc[c] = "done" /\ head[c].status = 200 /\ encoded[c] /\ req[c].method = "GET"
            => sent[c] = file[c].len
=============================================================================
