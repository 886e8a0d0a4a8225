------------------------- MODULE FileServingProofs -------------------------
(***************************************************************************)
(* Proofs about FileServing, for any number of connections, files, sizes   *)
(* and ranges, with and without cache and pre-compressed variants.         *)
(***************************************************************************)
EXTENDS FileServing, TLAPS

\* f is one of the k files deployed so far.
Known(f, k) == f # None => f.id <= k /\ f.mtime = Mtime[f.id]

\* l is the date of one of the k files deployed so far.
Dated(l, k) == l # Absent => \E i \in 1 .. k : l = Mtime[i]

\* A file x of the same name that is not newer than the date l sent with f did
\* not replace f.
NotReplaced(f, l, x) == x # None /\ x.name = f.name /\ l # Absent /\ x.mtime <= l => x.id <= f.id

\* A file and the date it is sent with, while d is on the disk.
Pair(f, l, d, k) ==
    /\ Dated(l, k)
    /\ l # Absent /\ f.name = "orig" => l <= f.mtime
    /\ \A n \in {"orig", "gz"} : NotReplaced(f, l, d[n])

DiskOK == \A n \in {"orig", "gz"} : Known(disk[n], deployed) /\ (disk[n] # None => disk[n].name = n)

\* The metadata m is that of the file f or of one that f replaced.
Describes(m, f) == m.name = f.name => m.id <= f.id

CacheOK == cache # None => /\ Pair(cache.file, cache.label, disk, deployed)
                           /\ cache.from = 0
                           /\ cache.len = cache.meta.len /\ cache.label = Modified(cache.meta)
                           /\ cache.len <= cache.file.len
                           /\ Describes(cache.meta, cache.file)

\* Nothing is left of an earlier request, and the metadata is read late.
FreshOK(c) ==
    /\ Known(meta[c], deployed)
    /\ pc[c] \notin {"stream", "done"} => sent[c] = 0 /\ memBuf[c] = None /\ head[c] = NoHead
    /\ pc[c] \in {"idle", "lookup", "permit", "stat"} => meta[c] = None
    /\ pc[c] \in {"idle", "lookup", "permit", "stat", "variant"} => ~variant[c]

\* The file under a name is at least as new as metadata that was read of it, and
\* the metadata is the original's unless the variant is to be opened.
MetaOK(c) ==
    pc[c] \in {"variant", "resolve", "open"} /\ meta[c] # None =>
        /\ ~variant[c] => meta[c].name = "orig"
        /\ \A n \in {"orig", "gz"} :
              disk[n] # None /\ meta[c].name = n =>
                  meta[c].mtime <= disk[n].mtime /\ meta[c].id <= disk[n].id

HeadOK(c) ==
    /\ head[c].status \in {200, 206} => /\ file[c] \in Files
                                        /\ Pair(file[c], label[c], disk, deployed)
    /\ head[c].status = 304 /\ meta[c] # None =>
          copy[c] # None /\ copy[c].label # Absent /\ meta[c].mtime <= copy[c].label

\* A stream is within its slice, its slice within the metadata, what it has
\* read within the file; and it collects what it sends.
StreamOK(c) ==
    pc[c] = "stream" =>
        /\ head[c].status \in {200, 206}
        /\ head[c].slice.start <= head[c].slice.end /\ head[c].slice.end <= meta[c].len
        /\ sent[c] <= head[c].slice.end - head[c].slice.start
        /\ memBuf[c] # None => memBuf[c] = sent[c]
        /\ label[c] = Modified(meta[c]) /\ Describes(meta[c], file[c])

CopyOK(c) ==
    /\ copy[c] # None => /\ Pair(copy[c].file, copy[c].label, disk, deployed)
                         /\ NotReplaced(copy[c].file, copy[c].label, meta[c])
    /\ req[c].cond.modifiedSince # Absent =>
          copy[c] # None /\ copy[c].label = req[c].cond.modifiedSince

ConnOK(c) == FreshOK(c) /\ MetaOK(c) /\ HeadOK(c) /\ StreamOK(c) /\ CopyOK(c)

FileInv == TypeOK /\ DiskOK /\ CacheOK /\ \A c \in Conns : ConnOK(c)

-----------------------------------------------------------------------------
(* The operators of ByteRange.                                             *)

\* b + 1 on an unsigned word.
LEMMA Successor ==
    ASSUME NEW b \in Nat, NEW w \in Nat, b < w
    PROVE  (b + 1) % w = IF b = w - 1 THEN 0 ELSE b + 1
  <1>1. CASE b = w - 1
    BY <1>1
  <1>2. CASE b < w - 1
    BY <1>2
  <1> QED BY <1>1, <1>2

\* A request without a Range header.
LEMMA NoRangeType == NoRange \in Ranges
  BY ByteRangeAssumption DEF NoRange, RangeSpec, RangeKinds, Ranges, U64

\* bytes_range accepts a range only with a slice within the file.
LEMMA SliceWithin ==
    ASSUME NEW r \in Ranges, NEW n \in U64, BytesRange(r, n).ok
    PROVE  LET s == BytesRange(r, n) IN
           /\ s \in Slices
           /\ s.start <= s.end /\ s.end <= n
  <1>1. r.a \in U64 /\ r.b \in U64 /\ r.kind \in RangeKinds
    BY DEF Ranges
  <1>2. Word \in Nat /\ n \in Nat /\ n < Word /\ r.a \in Nat /\ r.b \in Nat /\ r.b < Word
    BY <1>1, ByteRangeAssumption DEF U64
  <1>3. (r.b + 1) % Word = IF r.b = Word - 1 THEN 0 ELSE r.b + 1
    BY <1>2, Successor
  <1>4. CASE r.kind \in {"none", "all"}
    <2>1. BytesRange(r, n) = Slice(0, n)
      BY <1>2, <1>4 DEF BytesRange, Bounds, Slice, BadRange, Unusable
    <2>2. Slice(0, n) \in Slices
      BY <1>2 DEF Slice, Slices, U64
    <2> QED BY <1>2, <2>1, <2>2 DEF Slice
  <1>5. CASE r.kind = "malformed"
    BY <1>2, <1>5 DEF BytesRange, Bounds, Slice, BadRange, Unusable, U64, Slices
  <1>6. CASE r.kind = "from"
    BY <1>1, <1>2, <1>6 DEF BytesRange, Bounds, Slice, BadRange, Unusable, U64, Slices
  <1>7. CASE r.kind = "suffix"
    BY <1>1, <1>2, <1>7 DEF BytesRange, Bounds, Slice, BadRange, Unusable, U64, Slices
  <1>8. CASE r.kind = "span"
    BY <1>1, <1>2, <1>3, <1>8 DEF BytesRange, Bounds, Slice, BadRange, Unusable, U64, Slices
  <1> QED BY <1>1, <1>4, <1>5, <1>6, <1>7, <1>8 DEF RangeKinds

\* The conditional headers of a request lead to one of four answers.
LEMMA CheckFacts ==
    ASSUME NEW cond \in Conditions, NEW m \in Times
    PROVE  LET k == Check(cond, m) IN
           /\ k.status \in {200, 304, 412}
           /\ k.range \in Ranges
           /\ k.status = 304 => /\ cond.modifiedSince # Absent /\ m # Absent
                                /\ m <= cond.modifiedSince
  <1>1. /\ cond.modifiedSince \in Times /\ cond.range \in Ranges
    BY DEF Conditions
  <1> QED BY <1>1, NoRangeType, ByteRangeAssumption DEF Check, NewerThan, Times

\* response_body announces a slice within the file, and answers 304 only to a
\* date that is not older than the file's.
LEMMA HeadFacts ==
    ASSUME NEW cond \in Conditions, NEW m \in Times, NEW len \in U64
    PROVE  LET h == ResponseHead(cond, m, len) IN
           /\ h \in Heads
           /\ h.slice.start <= h.slice.end /\ h.slice.end <= len
           /\ h.status = 304 => /\ cond.modifiedSince # Absent /\ m # Absent
                                /\ m <= cond.modifiedSince
  <1> DEFINE k == Check(cond, m)
             s == BytesRange(k.range, len)
             h == ResponseHead(cond, m, len)
  <1>1. /\ k.status \in {200, 304, 412} /\ k.range \in Ranges
        /\ k.status = 304 => /\ cond.modifiedSince # Absent /\ m # Absent
                             /\ m <= cond.modifiedSince
    BY CheckFacts
  <1>2. s.ok => /\ s \in Slices
                /\ s.start <= s.end /\ s.end <= len
    BY <1>1, SliceWithin
  <1>3. Slice(0, 0) \in Slices /\ len \in Nat
    BY ByteRangeAssumption DEF Slice, Slices, U64
  <1>4. h = IF k.status # 200 THEN [status |-> k.status, slice |-> Slice(0, 0)]
            ELSE IF ~s.ok THEN [status |-> 416, slice |-> Slice(0, 0)]
            ELSE [status |-> IF s.end - s.start = len THEN 200 ELSE 206, slice |-> s]
    BY DEF ResponseHead
  <1> SUFFICES /\ h \in Heads
               /\ h.slice.start <= h.slice.end /\ h.slice.end <= len
               /\ h.status = 304 => /\ cond.modifiedSince # Absent /\ m # Absent
                                    /\ m <= cond.modifiedSince
    OBVIOUS
  <1> HIDE DEF k, s, h
  <1>5. CASE k.status # 200
    BY <1>1, <1>3, <1>4, <1>5 DEF Heads, Slice
  <1>6. CASE k.status = 200 /\ ~s.ok
    BY <1>3, <1>4, <1>6 DEF Heads, Slice
  <1>7. CASE k.status = 200 /\ s.ok
    <2>1. h = [status |-> IF s.end - s.start = len THEN 200 ELSE 206, slice |-> s]
      BY <1>4, <1>7
    <2>2. h.slice = s /\ h.status \in {200, 206} /\ h \in Heads
      BY <2>1, <1>2, <1>7 DEF Heads
    <2> QED BY <1>2, <1>7, <2>2
  <1> QED BY <1>1, <1>5, <1>6, <1>7

-----------------------------------------------------------------------------
LEMMA InitFile == Init => FileInv
  <1> SUFFICES ASSUME Init PROVE FileInv
    OBVIOUS
  <1> USE FileAssumption, ByteRangeAssumption
  <1>1. NoHead \in Heads /\ NoHead.status = 0
    BY DEF NoHead, Heads, Slice, Slices, U64
  <1>2. NoRequest \in Requests /\ NoRequest.cond.modifiedSince = Absent
    BY NoRangeType DEF NoRequest, Requests, Conditions, Plain, Times, Methods
  <1>3. TypeOK
    BY <1>1, <1>2 DEF Init, TypeOK, PCs, Times, U64
  <1>4. DiskOK /\ CacheOK
    BY DEF Init, DiskOK, CacheOK, Known
  <1>5. ASSUME NEW c \in Conns PROVE ConnOK(c)
    BY <1>1, <1>2, <1>5 DEF Init, ConnOK, FreshOK, Known, MetaOK, HeadOK, StreamOK, CopyOK
  <1> QED BY <1>3, <1>4, <1>5 DEF FileInv

-----------------------------------------------------------------------------
(* Files are deployed and removed.                                         *)

\* Later files have later dates.
LEMMA LaterDate ==
    ASSUME NEW i \in 1 .. MaxFiles, NEW j \in 1 .. MaxFiles, i < j
    PROVE  Mtime[i] < Mtime[j] /\ Mtime[i] \in Nat /\ Mtime[j] \in Nat
  BY ClockAssumption, FileAssumption

\* A file that is deployed now replaces nothing it is not newer than.
LEMMA PairDeployed ==
    ASSUME NEW k \in 0 .. MaxFiles, k < MaxFiles, NEW f \in Files, NEW l \in Times,
           NEW d \in [{"orig", "gz"} -> Files \cup {None}], NEW n \in {"orig", "gz"},
           NEW x \in Files, x.id = k + 1, x.mtime = Mtime[k + 1], Pair(f, l, d, k)
    PROVE  Pair(f, l, [d EXCEPT ![n] = x], k + 1)
  <1>1. MaxFiles \in Nat /\ k \in Nat
    BY FileAssumption
  <1>2. Dated(l, k + 1)
    BY <1>1 DEF Pair, Dated
  <1>3. l # Absent => ~(x.mtime <= l)
    <2> SUFFICES ASSUME l # Absent PROVE ~(x.mtime <= l)
      OBVIOUS
    <2>1. PICK i \in 1 .. k : l = Mtime[i]
      BY DEF Pair, Dated
    <2>2. Mtime[i] < Mtime[k + 1] /\ Mtime[i] \in Nat /\ Mtime[k + 1] \in Nat
      BY <1>1, <2>1, LaterDate
    <2> QED BY <2>1, <2>2
  <1>4. ASSUME NEW m \in {"orig", "gz"} PROVE NotReplaced(f, l, [d EXCEPT ![n] = x][m])
    <2>1. CASE m = n
      BY <1>3, <2>1 DEF NotReplaced
    <2>2. CASE m # n
      BY <2>2 DEF Pair
    <2> QED BY <2>1, <2>2
  <1> QED BY <1>2, <1>4 DEF Pair

LEMMA PairRemoved ==
    ASSUME NEW k, NEW f, NEW l, NEW d \in [{"orig", "gz"} -> Files \cup {None}],
           NEW n \in {"orig", "gz"}, Pair(f, l, d, k)
    PROVE  Pair(f, l, [d EXCEPT ![n] = None], k)
  <1>1. ASSUME NEW m \in {"orig", "gz"} PROVE NotReplaced(f, l, [d EXCEPT ![n] = None][m])
    <2>1. CASE m = n
      BY <2>1 DEF NotReplaced
    <2>2. CASE m # n
      BY <2>2 DEF Pair
    <2> QED BY <2>1, <2>2
  <1> QED BY <1>1 DEF Pair

\* A known file stays known, and is older than the next one.
LEMMA KnownLater ==
    ASSUME NEW k \in 0 .. MaxFiles, k < MaxFiles, NEW f \in Files \cup {None}, Known(f, k)
    PROVE  /\ Known(f, k + 1)
           /\ f # None => f.mtime <= Mtime[k + 1] /\ f.id <= k + 1
  <1>1. MaxFiles \in Nat /\ k \in Nat
    BY FileAssumption
  <1>2. f # None => f.id \in 1 .. MaxFiles /\ f.id <= k /\ f.mtime = Mtime[f.id]
    BY DEF Known, Files
  <1>3. f # None => f.mtime <= Mtime[k + 1]
    <2> SUFFICES ASSUME f # None PROVE f.mtime <= Mtime[k + 1]
      OBVIOUS
    <2>1. Mtime[f.id] < Mtime[k + 1] /\ Mtime[f.id] \in Nat /\ Mtime[k + 1] \in Nat
      BY <1>1, <1>2, LaterDate
    <2> QED BY <1>2, <2>1
  <1> QED BY <1>1, <1>2, <1>3 DEF Known

LEMMA DeployStep ==
    ASSUME FileInv, NEW n \in Names, NEW len \in Lengths[n], Deploy(n, len)
    PROVE  FileInv'
  <1> USE FileAssumption
  <1> DEFINE x == [id |-> deployed + 1, name |-> n, len |-> len, mtime |-> Mtime[deployed + 1]]
  <1>0. n \in {"orig", "gz"}
    BY DEF Names
  <1>1. deployed \in 0 .. MaxFiles /\ deployed < MaxFiles /\ deployed' = deployed + 1
    BY DEF FileInv, TypeOK, Deploy
  <1>2. x \in Files /\ x.id = deployed + 1 /\ x.mtime = Mtime[deployed + 1] /\ x.name = n
    <2>1. len \in U64
      BY <1>0
    <2> QED BY <1>0, <1>1, <2>1 DEF Files
  <1>3. Known(x, deployed + 1)
    BY <1>1 DEF Known
  <1>4. disk' = [disk EXCEPT ![n] = x]
    BY DEF Deploy
  <1>5. disk \in [{"orig", "gz"} -> Files \cup {None}]
    BY DEF FileInv, TypeOK
  <1>6. UNCHANGED <<cache, pc, req, meta, variant, file, head, label, encoded, sent, memBuf,
                    copy>>
    BY DEF Deploy, request
  <1> HIDE DEF x
  <1>7. disk' \in [{"orig", "gz"} -> Files \cup {None}] /\ disk'[n] = x
        /\ \A m \in {"orig", "gz"} : m # n => disk'[m] = disk[m]
    BY <1>0, <1>2, <1>4, <1>5
  <1>8. ASSUME NEW f \in Files, NEW l \in Times, Pair(f, l, disk, deployed)
        PROVE  Pair(f, l, disk', deployed')
    <2>1. Pair(f, l, [disk EXCEPT ![n] = x], deployed + 1)
      BY <1>0, <1>1, <1>2, <1>5, <1>8, PairDeployed
    <2> QED BY <2>1, <1>1, <1>4
  <1>9. TypeOK'
    BY <1>1, <1>6, <1>7 DEF FileInv, TypeOK
  <1>10. DiskOK'
    <2> SUFFICES ASSUME NEW m \in {"orig", "gz"}
                 PROVE  Known(disk'[m], deployed') /\ (disk'[m] # None => disk'[m].name = m)
      BY DEF DiskOK
    <2>1. CASE m = n
      BY <2>1, <1>1, <1>2, <1>3, <1>7
    <2>2. CASE m # n
      <3>1. disk[m] \in Files \cup {None} /\ Known(disk[m], deployed)
            /\ (disk[m] # None => disk[m].name = m)
        BY <1>5 DEF FileInv, DiskOK
      <3> QED BY <2>2, <3>1, <1>1, <1>7, KnownLater
    <2> QED BY <2>1, <2>2
  <1>11. CacheOK'
    <2>1. cache # None => cache.file \in Files /\ cache.label \in Times
      BY DEF FileInv, TypeOK, Entries
    <2> QED BY <2>1, <1>6, <1>8 DEF FileInv, CacheOK
  <1>12. ASSUME NEW c \in Conns PROVE ConnOK(c)'
    <2>0. ConnOK(c)
      BY DEF FileInv
    <2>1. meta[c] \in Files \cup {None} /\ Known(meta[c], deployed)
      BY <2>0 DEF FileInv, TypeOK, ConnOK, FreshOK
    <2>2. /\ Known(meta[c], deployed')
          /\ meta[c] # None => meta[c].mtime <= Mtime[deployed + 1] /\ meta[c].id <= deployed + 1
      BY <2>1, <1>1, KnownLater
    <2>3. FreshOK(c)'
      BY <2>0, <2>2, <1>6 DEF ConnOK, FreshOK
    <2>4. MetaOK(c)'
      BY <2>0, <2>2, <1>0, <1>2, <1>6, <1>7 DEF ConnOK, MetaOK
    <2>5. HeadOK(c)'
      <3>1. label[c] \in Times
        BY DEF FileInv, TypeOK
      <3> QED BY <2>0, <3>1, <1>6, <1>8 DEF ConnOK, HeadOK
    <2>6. StreamOK(c)'
      BY <2>0, <1>6 DEF ConnOK, StreamOK
    <2>7. CopyOK(c)'
      <3>1. copy[c] # None => copy[c].file \in Files /\ copy[c].label \in Times
        BY DEF FileInv, TypeOK, Copies
      <3> QED BY <2>0, <3>1, <1>6, <1>8 DEF ConnOK, CopyOK
    <2> QED BY <2>3, <2>4, <2>5, <2>6, <2>7 DEF ConnOK
  <1> QED BY <1>9, <1>10, <1>11, <1>12 DEF FileInv

LEMMA RemoveStep ==
    ASSUME FileInv, NEW n \in Names, Remove(n)
    PROVE  FileInv'
  <1>0. n \in {"orig", "gz"}
    BY DEF Names
  <1>1. disk' = [disk EXCEPT ![n] = None] /\ deployed' = deployed
    BY DEF Remove
  <1>2. disk \in [{"orig", "gz"} -> Files \cup {None}]
    BY DEF FileInv, TypeOK
  <1>3. UNCHANGED <<cache, pc, req, meta, variant, file, head, label, encoded, sent, memBuf,
                    copy>>
    BY DEF Remove, request
  <1>4. disk' \in [{"orig", "gz"} -> Files \cup {None}] /\ disk'[n] = None
        /\ \A m \in {"orig", "gz"} : m # n => disk'[m] = disk[m]
    BY <1>0, <1>1, <1>2
  <1>5. TypeOK'
    BY <1>1, <1>3, <1>4 DEF FileInv, TypeOK
  <1>6. DiskOK'
    BY <1>1, <1>4 DEF FileInv, DiskOK, Known
  <1>7. CacheOK'
    BY <1>0, <1>1, <1>2, <1>3, PairRemoved DEF FileInv, CacheOK
  <1>8. ASSUME NEW c \in Conns PROVE ConnOK(c)'
    <2>0. ConnOK(c)
      BY DEF FileInv
    <2>1. FreshOK(c)' /\ StreamOK(c)'
      BY <2>0, <1>1, <1>3 DEF ConnOK, FreshOK, StreamOK
    <2>2. MetaOK(c)'
      BY <2>0, <1>0, <1>3, <1>4 DEF ConnOK, MetaOK
    <2>3. HeadOK(c)'
      <3>1. Pair(file[c], label[c], disk, deployed)
              => Pair(file[c], label[c], [disk EXCEPT ![n] = None], deployed)
        BY <1>0, <1>2, PairRemoved
      <3>2. Pair(file[c], label[c], disk, deployed) => Pair(file[c], label[c], disk, deployed)'
        BY <3>1, <1>1, <1>3
      <3> QED BY <2>0, <3>2, <1>3 DEF ConnOK, HeadOK
    <2>4. CopyOK(c)'
      BY <2>0, <1>0, <1>1, <1>2, <1>3, PairRemoved DEF ConnOK, CopyOK
    <2> QED BY <2>1, <2>2, <2>3, <2>4 DEF ConnOK
  <1> QED BY <1>5, <1>6, <1>7, <1>8 DEF FileInv

LEMMA EvictStep == ASSUME FileInv, Evict PROVE FileInv'
  <1>1. UNCHANGED <<disk, deployed, pc, req, meta, variant, file, head, label, encoded, sent,
                    memBuf, copy>> /\ cache' = None
    BY DEF Evict, request
  <1>2. TypeOK' /\ DiskOK' /\ CacheOK'
    BY <1>1 DEF FileInv, TypeOK, DiskOK, CacheOK
  <1>3. ASSUME NEW c \in Conns PROVE ConnOK(c)'
    BY <1>1 DEF FileInv, ConnOK, FreshOK, MetaOK, HeadOK, StreamOK, CopyOK
  <1> QED BY <1>2, <1>3 DEF FileInv

-----------------------------------------------------------------------------
(* A step of the connection c.                                             *)

Same(d) ==
    /\ pc'[d] = pc[d] /\ req'[d] = req[d] /\ meta'[d] = meta[d] /\ variant'[d] = variant[d]
    /\ file'[d] = file[d] /\ head'[d] = head[d] /\ label'[d] = label[d]
    /\ sent'[d] = sent[d] /\ memBuf'[d] = memBuf[d] /\ copy'[d] = copy[d]

\* A step that leaves the disk and the other connections alone.
LEMMA ConnectionStep ==
    ASSUME FileInv, NEW c \in Conns, UNCHANGED <<disk, deployed>>, TypeOK', CacheOK',
           ConnOK(c)', \A d \in Conns \ {c} : Same(d)
    PROVE  FileInv'
  <1>1. DiskOK'
    BY DEF FileInv, DiskOK
  <1>2. ASSUME NEW d \in Conns PROVE ConnOK(d)'
    <2>1. CASE d = c
      BY <2>1
    <2>2. CASE d # c
      <3>1. ConnOK(d) /\ Same(d)
        BY <2>2 DEF FileInv
      <3>2. FreshOK(d)' /\ MetaOK(d)'
        BY <3>1 DEF ConnOK, Same, FreshOK, MetaOK
      <3>3. HeadOK(d)' /\ StreamOK(d)' /\ CopyOK(d)'
        BY <3>1 DEF ConnOK, Same, HeadOK, StreamOK, CopyOK
      <3> QED BY <3>2, <3>3 DEF ConnOK
    <2> QED BY <2>1, <2>2
  <1> QED BY <1>1, <1>2 DEF FileInv

\* The types of what a request starts and ends with.
LEMMA Blank ==
    /\ NoHead \in Heads /\ NoHead.status = 0
    /\ NoRequest \in Requests /\ NoRequest.cond.modifiedSince = Absent
    /\ \A s \in {204, 403, 404, 500} : NoBody(s) \in Heads /\ NoBody(s).status = s
  <1> USE FileAssumption, ByteRangeAssumption
  <1>1. NoHead \in Heads /\ NoHead.status = 0
    BY DEF NoHead, Heads, Slice, Slices, U64
  <1>2. NoRequest \in Requests /\ NoRequest.cond.modifiedSince = Absent
    BY NoRangeType DEF NoRequest, Requests, Conditions, Plain, Times, Methods
  <1>3. \A s \in {204, 403, 404, 500} : NoBody(s) \in Heads /\ NoBody(s).status = s
    BY DEF NoBody, Heads, Slice, Slices, U64
  <1> QED BY <1>1, <1>2, <1>3

\* A date in If-Modified-Since is that of the client's copy.
LEMMA ConditionalFacts ==
    ASSUME FileInv, NEW c \in Conns, NEW ask \in Asks[c],
           ask.date # "none" => copy[c] # None /\ copy[c].label # Absent,
           NEW cond, cond = Conditional(c, ask)
    PROVE  /\ cond \in Conditions
           /\ cond.modifiedSince # Absent => copy[c] # None /\ copy[c].label = cond.modifiedSince
  <1>1. copy[c] # None => copy[c].label \in Times
    BY DEF FileInv, TypeOK, Copies
  <1>2. Absent \in Times
    BY DEF Times
  <1>3. ask.range \in Ranges /\ ask.date \in Dates \cup {"none"}
    BY FileAssumption
  <1>4. cond = [unmodifiedSince |-> IF ask.date = "unmodifiedSince" THEN copy[c].label ELSE Absent,
                modifiedSince   |-> IF ask.date = "modifiedSince" THEN copy[c].label ELSE Absent,
                ifRange         |-> IF ask.date = "ifRange" THEN copy[c].label ELSE Absent,
                range           |-> ask.range]
    BY <1>3 DEF Conditional, Plain, Dates
  <1> QED BY <1>1, <1>2, <1>3, <1>4 DEF Conditions

LEMMA RequestStep ==
    ASSUME FileInv, NEW c \in Conns, NEW ask \in Asks[c], Request(c, ask)
    PROVE  FileInv'
  <1> DEFINE cond == Conditional(c, ask)
             r == [method |-> ask.method, gzip |-> ask.gzip, cond |-> cond]
  <1>1. req' = [req EXCEPT ![c] = r]
    BY DEF Request
  <1>2. /\ cond \in Conditions
        /\ cond.modifiedSince # Absent => copy[c] # None /\ copy[c].label = cond.modifiedSince
    <2> HIDE DEF cond
    <2>1. cond = Conditional(c, ask)
      BY DEF cond
    <2>2. ask.date # "none" => copy[c] # None /\ copy[c].label # Absent
      BY DEF Request
    <2> QED BY <2>1, <2>2, ConditionalFacts
  <1>3. ask.method \in Methods /\ ask.gzip \in BOOLEAN
    BY FileAssumption
  <1> HIDE DEF cond
  <1>4. r \in Requests /\ r.cond = cond
    BY <1>2, <1>3 DEF Requests
  <1>5. req' = [req EXCEPT ![c] = r]
    BY <1>1
  <1>6. PICK p \in {"lookup", "stat"} : pc' = [pc EXCEPT ![c] = p]
    BY DEF Request, Goto
  <1> HIDE DEF r
  <1>7. pc[c] = "idle" /\ UNCHANGED <<disk, deployed, cache, meta, variant, file, head, label,
                                      encoded, sent, memBuf, copy>>
    BY DEF Request
  <1>8. TypeOK'
    BY <1>4, <1>5, <1>6, <1>7 DEF FileInv, TypeOK, PCs
  <1>9. CacheOK'
    BY <1>7 DEF FileInv, CacheOK
  <1>10. req'[c] = r /\ pc'[c] = p /\ \A d \in Conns \ {c} : Same(d)
    BY <1>5, <1>6, <1>7 DEF FileInv, TypeOK, Same
  <1>11. ConnOK(c)
    BY DEF FileInv
  <1>12. FreshOK(c)' /\ MetaOK(c)' /\ HeadOK(c)' /\ StreamOK(c)'
    BY <1>6, <1>7, <1>10, <1>11 DEF ConnOK, FreshOK, MetaOK, HeadOK, StreamOK
  <1>13. CopyOK(c)'
    BY <1>2, <1>4, <1>7, <1>10, <1>11 DEF ConnOK, CopyOK
  <1> QED BY <1>7, <1>8, <1>9, <1>10, <1>12, <1>13, ConnectionStep DEF ConnOK

\* The request of c moves on and nothing else happens.
LEMMA QuietStep ==
    ASSUME FileInv, NEW c \in Conns, NEW p \in PCs, pc' = [pc EXCEPT ![c] = p],
           UNCHANGED <<disk, deployed, cache, req, meta, variant, file, head, label, encoded, sent,
                       memBuf, copy>>,
           <<pc[c], p>> \in {<<"lookup", "permit">>, <<"permit", "stat">>,
                             <<"resolve", "open">>, <<"stream", "done">>}
    PROVE  FileInv'
  <1>1. TypeOK'
    BY DEF FileInv, TypeOK
  <1>2. CacheOK'
    BY DEF FileInv, CacheOK
  <1>3. pc'[c] = p /\ \A d \in Conns \ {c} : Same(d)
    BY DEF FileInv, TypeOK, Same
  <1>4. ConnOK(c)
    BY DEF FileInv
  <1>5. FreshOK(c)' /\ MetaOK(c)' /\ StreamOK(c)'
    BY <1>3, <1>4 DEF ConnOK, FreshOK, MetaOK, StreamOK
  <1>6. HeadOK(c)' /\ CopyOK(c)'
    BY <1>4 DEF ConnOK, HeadOK, CopyOK
  <1> QED BY <1>1, <1>2, <1>3, <1>5, <1>6, ConnectionStep DEF ConnOK

\* The request of c is answered without a body.
LEMMA AnswerStep ==
    ASSUME FileInv, NEW c \in Conns, NEW s \in {204, 403, 404, 500}, Answer(c, NoBody(s)),
           pc[c] \in {"variant", "resolve", "open"},
           UNCHANGED <<disk, deployed, cache, req, meta, variant, file, label, encoded, sent,
                       memBuf, copy>>
    PROVE  FileInv'
  <1>1. pc' = [pc EXCEPT ![c] = "done"] /\ head' = [head EXCEPT ![c] = NoBody(s)]
    BY DEF Answer, Goto
  <1>2. NoBody(s) \in Heads /\ NoBody(s).status = s
    BY Blank
  <1>3. TypeOK'
    BY <1>1, <1>2 DEF FileInv, TypeOK, PCs
  <1>4. CacheOK'
    BY DEF FileInv, CacheOK
  <1>5. pc'[c] = "done" /\ head'[c] = NoBody(s) /\ \A d \in Conns \ {c} : Same(d)
    BY <1>1 DEF FileInv, TypeOK, Same
  <1>6. ConnOK(c)
    BY DEF FileInv
  <1>7. FreshOK(c)' /\ MetaOK(c)' /\ StreamOK(c)'
    BY <1>5, <1>6 DEF ConnOK, FreshOK, MetaOK, StreamOK
  <1>8. HeadOK(c)'
    BY <1>2, <1>5 DEF HeadOK
  <1>9. CopyOK(c)'
    BY <1>6 DEF ConnOK, CopyOK
  <1> QED BY <1>3, <1>4, <1>5, <1>7, <1>8, <1>9, ConnectionStep DEF ConnOK

\* The end of a request: c forgets it, and has the copy it had or the response.
LEMMA ForgetStep ==
    ASSUME FileInv, NEW c \in Conns, Forget(c), UNCHANGED <<disk, deployed, cache>>,
           \/ copy' = copy
           \/ /\ head[c].status = 200
              /\ copy' = [copy EXCEPT ![c] = [file |-> file[c], label |-> label[c]]]
    PROVE  FileInv'
  <1>1. /\ pc' = [pc EXCEPT ![c] = "idle"] /\ req' = [req EXCEPT ![c] = NoRequest]
        /\ meta' = [meta EXCEPT ![c] = None] /\ variant' = [variant EXCEPT ![c] = FALSE]
        /\ file' = [file EXCEPT ![c] = None] /\ head' = [head EXCEPT ![c] = NoHead]
        /\ label' = [label EXCEPT ![c] = Absent] /\ encoded' = [encoded EXCEPT ![c] = FALSE]
        /\ sent' = [sent EXCEPT ![c] = 0] /\ memBuf' = [memBuf EXCEPT ![c] = None]
    BY DEF Forget, Goto
  <1>2. ConnOK(c)
    BY DEF FileInv
  <1>3. 0 \in U64 /\ Absent \in Times
    BY ByteRangeAssumption DEF U64, Times
  <1>4. /\ copy' \in [Conns -> Copies \cup {None}]
        /\ \A d \in Conns \ {c} : copy'[d] = copy[d]
        /\ copy'[c] # None => Pair(copy'[c].file, copy'[c].label, disk, deployed)
    <2>0. copy \in [Conns -> Copies \cup {None}]
      BY DEF FileInv, TypeOK
    <2>1. CASE copy' = copy
      BY <2>0, <2>1, <1>2 DEF ConnOK, CopyOK
    <2>2. CASE /\ head[c].status = 200
               /\ copy' = [copy EXCEPT ![c] = [file |-> file[c], label |-> label[c]]]
      <3>1. /\ file[c] \in Files /\ label[c] \in Times
            /\ Pair(file[c], label[c], disk, deployed)
        BY <2>2, <1>2 DEF FileInv, TypeOK, ConnOK, HeadOK
      <3> DEFINE k == [file |-> file[c], label |-> label[c]]
      <3>2. k \in Copies /\ k.file = file[c] /\ k.label = label[c]
        BY <3>1 DEF Copies
      <3>3. copy' = [copy EXCEPT ![c] = k]
        BY <2>2
      <3> HIDE DEF k
      <3>4. copy'[c] = k /\ copy' \in [Conns -> Copies \cup {None}]
            /\ \A d \in Conns \ {c} : copy'[d] = copy[d]
        BY <2>0, <3>2, <3>3
      <3> QED BY <3>1, <3>2, <3>4
    <2> QED BY <2>1, <2>2
  <1>5. TypeOK'
    <2>1. TypeOK
      BY DEF FileInv
    <2>2. /\ pc' \in [Conns -> PCs] /\ req' \in [Conns -> Requests]
          /\ meta' \in [Conns -> Files \cup {None}] /\ file' \in [Conns -> Files \cup {None}]
      BY <1>1, <2>1, Blank DEF TypeOK, PCs
    <2>3. /\ variant' \in [Conns -> BOOLEAN] /\ encoded' \in [Conns -> BOOLEAN]
          /\ head' \in [Conns -> Heads] /\ label' \in [Conns -> Times]
      BY <1>1, <1>3, <2>1, Blank DEF TypeOK
    <2>4. sent' \in [Conns -> U64] /\ memBuf' \in [Conns -> U64 \cup {None}]
      BY <1>1, <1>3, <2>1 DEF TypeOK
    <2>5. ASSUME NEW d \in Conns
          PROVE  /\ pc'[d] \in {"resolve", "open", "stream"} => meta'[d] # None
                 /\ pc'[d] = "stream" => file'[d] # None
      BY <1>1, <2>1 DEF TypeOK
    <2> QED BY <1>4, <2>1, <2>2, <2>3, <2>4, <2>5 DEF TypeOK
  <1>6. CacheOK'
    BY DEF FileInv, CacheOK
  <1>7. /\ pc'[c] = "idle" /\ req'[c] = NoRequest /\ meta'[c] = None /\ ~variant'[c]
        /\ head'[c] = NoHead /\ sent'[c] = 0 /\ memBuf'[c] = None
        /\ \A d \in Conns \ {c} : Same(d)
    BY <1>1, <1>4 DEF FileInv, TypeOK, Same
  <1>8. FreshOK(c)' /\ MetaOK(c)' /\ StreamOK(c)'
    BY <1>7 DEF FreshOK, MetaOK, StreamOK, Known
  <1>9. HeadOK(c)'
    BY <1>7, Blank DEF HeadOK
  <1>10. CopyOK(c)'
    BY <1>4, <1>7, Blank DEF CopyOK, NotReplaced
  <1> QED BY <1>5, <1>6, <1>7, <1>8, <1>9, <1>10, ConnectionStep DEF ConnOK

LEMMA ReceiveStep == ASSUME FileInv, NEW c \in Conns, Receive(c) PROVE FileInv'
  <1>1. \/ copy' = copy
        \/ /\ head[c].status = 200
           /\ copy' = [copy EXCEPT ![c] = [file |-> file[c], label |-> label[c]]]
    BY DEF Receive
  <1> QED BY <1>1, ForgetStep DEF Receive

LEMMA LeaveStep == ASSUME FileInv, NEW c \in Conns, Leave(c) \/ ReadFails(c) PROVE FileInv'
  BY ForgetStep DEF Leave, ReadFails

\* A file that is on the disk is no newer than itself, and replaced no copy.
LEMMA OnDisk ==
    ASSUME FileInv, NEW c \in Conns, NEW n \in {"orig", "gz"}
    PROVE  /\ disk[n] \in Files \cup {None} /\ Known(disk[n], deployed)
           /\ disk[n] # None => disk[n].mtime \in Nat /\ disk[n].id \in Nat /\ disk[n].name = n
           /\ copy[c] # None => NotReplaced(copy[c].file, copy[c].label, disk[n])
  BY DEF FileInv, TypeOK, DiskOK, ConnOK, CopyOK, Pair, Files

LEMMA StatStep == ASSUME FileInv, NEW c \in Conns, Stat(c) PROVE FileInv'
  <1>1. /\ pc[c] = "stat" /\ meta' = [meta EXCEPT ![c] = disk.orig]
        /\ pc' = [pc EXCEPT ![c] = "variant"]
        /\ UNCHANGED <<disk, deployed, cache, req, variant, file, head, label, encoded, sent,
                       memBuf, copy>>
    BY DEF Stat, Goto
  <1>2. ConnOK(c)
    BY DEF FileInv
  <1>3. /\ disk.orig \in Files \cup {None} /\ Known(disk.orig, deployed)
        /\ disk.orig # None => /\ disk.orig.mtime \in Nat /\ disk.orig.id \in Nat
                               /\ disk.orig.name = "orig"
        /\ copy[c] # None => NotReplaced(copy[c].file, copy[c].label, disk.orig)
    <2>1. disk.orig = disk["orig"]
      OBVIOUS
    <2> QED BY <2>1, OnDisk
  <1>4. TypeOK'
    BY <1>1, <1>3 DEF FileInv, TypeOK, PCs
  <1>5. CacheOK'
    BY <1>1 DEF FileInv, CacheOK
  <1>6. pc'[c] = "variant" /\ meta'[c] = disk.orig /\ \A d \in Conns \ {c} : Same(d)
    BY <1>1 DEF FileInv, TypeOK, Same
  <1>7. FreshOK(c)' /\ MetaOK(c)' /\ StreamOK(c)'
    BY <1>1, <1>2, <1>3, <1>6 DEF ConnOK, FreshOK, MetaOK, StreamOK
  <1>8. HeadOK(c)'
    BY <1>1, <1>2, <1>6, Blank DEF ConnOK, FreshOK, HeadOK
  <1>9. CopyOK(c)'
    BY <1>1, <1>2, <1>3, <1>6 DEF ConnOK, CopyOK
  <1> QED BY <1>1, <1>4, <1>5, <1>6, <1>7, <1>8, <1>9, ConnectionStep DEF ConnOK

LEMMA StatVariantStep == ASSUME FileInv, NEW c \in Conns, StatVariant(c) PROVE FileInv'
  <1>1. CASE Answer(c, NoBody(404)) /\ UNCHANGED <<meta, variant>>
    BY <1>1, AnswerStep DEF StatVariant
  <1>2. CASE /\ Goto(c, "resolve") /\ ~(meta[c] = None /\ ~VariantFound(c))
             /\ meta' = IF meta[c] = None THEN [meta EXCEPT ![c] = disk.gz] ELSE meta
             /\ variant' = [variant EXCEPT ![c] = VariantFound(c)]
             /\ UNCHANGED head
    <2> DEFINE v == VariantFound(c)
               m == IF meta[c] = None THEN disk.gz ELSE meta[c]
    <2>0. /\ disk.gz \in Files \cup {None} /\ Known(disk.gz, deployed)
          /\ disk.gz # None => /\ disk.gz.mtime \in Nat /\ disk.gz.id \in Nat
                               /\ disk.gz.name = "gz"
          /\ copy[c] # None => NotReplaced(copy[c].file, copy[c].label, disk.gz)
      <3>1. disk.gz = disk["gz"]
        OBVIOUS
      <3> QED BY <3>1, OnDisk
    <2>1. v \in BOOLEAN /\ (v => disk.gz # None)
      BY DEF VariantFound
    <2>2. ConnOK(c) /\ meta[c] \in Files \cup {None}
      BY DEF FileInv, TypeOK
    <2>3. /\ m \in Files /\ m # None /\ Known(m, deployed)
          /\ copy[c] # None => NotReplaced(copy[c].file, copy[c].label, m)
      BY <1>2, <2>0, <2>1, <2>2 DEF ConnOK, FreshOK, CopyOK
    <2>4. ~v => m = meta[c]
      BY <1>2
    <2>5. /\ pc[c] = "variant" /\ pc' = [pc EXCEPT ![c] = "resolve"]
          /\ meta' = [meta EXCEPT ![c] = m] /\ variant' = [variant EXCEPT ![c] = v]
          /\ UNCHANGED <<disk, deployed, cache, req, file, head, label, encoded, sent, memBuf,
                         copy>>
      BY <1>2 DEF StatVariant, Goto, FileInv, TypeOK
    <2> HIDE DEF v, m
    <2>6. TypeOK'
      BY <2>1, <2>3, <2>5 DEF FileInv, TypeOK, PCs
    <2>7. CacheOK'
      BY <2>5 DEF FileInv, CacheOK
    <2>8. /\ pc'[c] = "resolve" /\ meta'[c] = m /\ variant'[c] = v
          /\ \A d \in Conns \ {c} : Same(d)
      BY <2>5 DEF FileInv, TypeOK, Same
    <2>9. FreshOK(c)' /\ StreamOK(c)'
      BY <2>2, <2>3, <2>4, <2>5, <2>8 DEF ConnOK, FreshOK, StreamOK
    <2>12. MetaOK(c)'
      <3>1. ~v => m.name = "orig"
        BY <2>2, <2>3, <2>4, <2>5 DEF ConnOK, FreshOK, MetaOK
      <3>2. ASSUME NEW n \in {"orig", "gz"}, disk[n] # None, m.name = n
            PROVE  m.mtime <= disk[n].mtime /\ m.id <= disk[n].id
        <4>1. CASE meta[c] = None
          BY <2>0, <2>3, <3>2, <4>1 DEF m
        <4>2. CASE meta[c] # None
          BY <2>2, <2>5, <3>2, <4>2 DEF m, ConnOK, MetaOK
        <4> QED BY <4>1, <4>2
      <3> QED BY <2>5, <2>8, <3>1, <3>2 DEF MetaOK
    <2>10. HeadOK(c)'
      BY <2>2, <2>5, <2>8, Blank DEF ConnOK, FreshOK, HeadOK
    <2>11. CopyOK(c)'
      BY <2>2, <2>3, <2>5, <2>8 DEF ConnOK, CopyOK
    <2> QED BY <2>5, <2>6, <2>7, <2>8, <2>9, <2>10, <2>11, <2>12, ConnectionStep DEF ConnOK
  <1> QED BY <1>1, <1>2 DEF StatVariant

LEMMA ResolveStep == ASSUME FileInv, NEW c \in Conns, Resolve(c) PROVE FileInv'
  <1>1. CASE \E s \in {204, 404} : Answer(c, NoBody(s))
    BY <1>1, AnswerStep DEF Resolve
  <1>2. CASE Goto(c, "open") /\ UNCHANGED head
    BY <1>2, QuietStep DEF Resolve, Goto, PCs
  <1> QED BY <1>1, <1>2 DEF Resolve

LEMMA HitStep == ASSUME FileInv, NEW c \in Conns, Hit(c) PROVE FileInv'
  <1> DEFINE h == ResponseHead(req[c].cond, cache.label, cache.len)
             k == IF req[c].method = "HEAD" THEN 0 ELSE h.slice.end - h.slice.start
  <1>0. ConnOK(c) /\ cache \in Entries /\ cache # None /\ req[c].cond \in Conditions
    BY DEF FileInv, TypeOK, Hit, Requests
  <1>1. cache.file \in Files /\ cache.label \in Times /\ cache.len \in U64
    BY <1>0 DEF Entries
  <1>2. h \in Heads /\ h.slice.start <= h.slice.end /\ h.slice.end <= cache.len
    BY <1>0, <1>1, HeadFacts
  <1>3. /\ pc[c] = "lookup" /\ pc' = [pc EXCEPT ![c] = "done"] /\ head' = [head EXCEPT ![c] = h]
        /\ sent' = [sent EXCEPT ![c] = k] /\ file' = [file EXCEPT ![c] = cache.file]
        /\ label' = [label EXCEPT ![c] = cache.label]
        /\ UNCHANGED <<disk, deployed, cache, req, meta, variant, encoded, memBuf, copy>>
    BY DEF Hit, Answer, Goto
  <1> HIDE DEF h
  <1>4. k \in U64
    BY <1>1, <1>2, ByteRangeAssumption DEF Heads, Slices, U64
  <1> HIDE DEF k
  <1>5. TypeOK'
    BY <1>1, <1>2, <1>3, <1>4 DEF FileInv, TypeOK, PCs
  <1>6. CacheOK'
    BY <1>3 DEF FileInv, CacheOK
  <1>7. /\ pc'[c] = "done" /\ head'[c] = h /\ file'[c] = cache.file /\ label'[c] = cache.label
        /\ \A d \in Conns \ {c} : Same(d)
    BY <1>3 DEF FileInv, TypeOK, Same
  <1>8. FreshOK(c)' /\ MetaOK(c)' /\ StreamOK(c)'
    BY <1>0, <1>3, <1>7 DEF ConnOK, FreshOK, MetaOK, StreamOK
  <1>9. HeadOK(c)'
    <2>1. meta'[c] = None
      BY <1>0, <1>3 DEF ConnOK, FreshOK
    <2> QED BY <1>0, <1>1, <1>3, <1>7, <2>1 DEF FileInv, CacheOK, HeadOK
  <1>10. CopyOK(c)'
    BY <1>0, <1>3 DEF ConnOK, CopyOK
  <1> QED BY <1>3, <1>5, <1>6, <1>7, <1>8, <1>9, <1>10, ConnectionStep DEF ConnOK

\* The file that is opened and the date in the metadata that was read before.
LEMMA OpenedPair ==
    ASSUME FileInv, NEW c \in Conns, pc[c] = "open",
           disk[IF variant[c] THEN "gz" ELSE "orig"] # None
    PROVE  LET f == disk[IF variant[c] THEN "gz" ELSE "orig"]
               m == meta[c]
           IN  /\ f \in Files /\ m \in Files
               /\ Modified(m) \in Times
               /\ Modified(m) # Absent => Modified(m) = m.mtime
               /\ m.len \in U64
               /\ Pair(f, Modified(m), disk, deployed)
               /\ Describes(m, f)
  <1> DEFINE v == IF variant[c] THEN "gz" ELSE "orig"
             f == disk[v]
             m == meta[c]
             l == Modified(m)
  <1>1. v \in {"orig", "gz"} /\ disk \in [{"orig", "gz"} -> Files \cup {None}]
    BY DEF FileInv, TypeOK
  <1>2. f \in Files /\ f.name = v
    BY <1>1 DEF FileInv, DiskOK
  <1>3. m \in Files /\ m # None
    BY DEF FileInv, TypeOK
  <1>4. ConnOK(c)
    BY DEF FileInv
  <1>5. m.id \in 1 .. deployed /\ m.mtime = Mtime[m.id] /\ m.mtime \in Nat /\ m.len \in U64
    BY <1>3, <1>4, FileAssumption DEF ConnOK, FreshOK, Known, Files, FileInv, TypeOK
  <1>6. l \in Times /\ (l # Absent => l = m.mtime)
    BY <1>5 DEF Modified, Times
  <1>7. Dated(l, deployed)
    BY <1>5, <1>6 DEF Dated
  <1>8. l # Absent /\ f.name = "orig" => l <= f.mtime
    <2> SUFFICES ASSUME l # Absent, f.name = "orig" PROVE l <= f.mtime
      OBVIOUS
    <2>1. ~variant[c] /\ f = disk.orig
      BY <1>2
    <2>2. meta[c].mtime <= disk["orig"].mtime
      BY <1>2, <1>3, <1>4, <2>1 DEF ConnOK, MetaOK
    <2> QED BY <1>6, <2>1, <2>2
  <1>9. ASSUME NEW n \in {"orig", "gz"} PROVE NotReplaced(f, l, disk[n])
    <2> SUFFICES ASSUME disk[n] # None, disk[n].name = f.name PROVE disk[n].id <= f.id
      BY DEF NotReplaced
    <2>1. disk[n] = f
      BY <1>2 DEF FileInv, DiskOK
    <2> QED BY <1>2, <2>1 DEF Files
  <1>10. Describes(m, f)
    BY <1>1, <1>2, <1>3, <1>4 DEF Describes, ConnOK, MetaOK
  <1> QED BY <1>2, <1>3, <1>5, <1>6, <1>7, <1>8, <1>9, <1>10 DEF Pair

LEMMA OpenStep == ASSUME FileInv, NEW c \in Conns, Open(c) PROVE FileInv'
  <1> DEFINE f == disk[IF variant[c] THEN "gz" ELSE "orig"]
             m == meta[c]
             l == Modified(m)
             h == ResponseHead(req[c].cond, l, m.len)
  <1>1. /\ f \in Files /\ m \in Files /\ l \in Times /\ (l # Absent => l = m.mtime)
        /\ m.len \in U64 /\ Pair(f, l, disk, deployed) /\ Describes(m, f)
    BY OpenedPair DEF Open
  <1>2. ConnOK(c) /\ req[c].cond \in Conditions /\ variant[c] \in BOOLEAN
    BY DEF FileInv, TypeOK, Requests
  <1>3. /\ h \in Heads /\ h.slice.start <= h.slice.end /\ h.slice.end <= m.len
        /\ h.status = 304 => /\ req[c].cond.modifiedSince # Absent /\ l # Absent
                             /\ l <= req[c].cond.modifiedSince
    BY <1>1, <1>2, HeadFacts
  <1>4. /\ pc[c] = "open" /\ f # None
        /\ head' = [head EXCEPT ![c] = h] /\ file' = [file EXCEPT ![c] = f]
        /\ label' = [label EXCEPT ![c] = l] /\ encoded' = [encoded EXCEPT ![c] = variant[c]]
        /\ UNCHANGED <<disk, deployed, cache, req, meta, variant, sent, copy>>
    BY DEF Open
  <1>5. \/ /\ h.status \in {200, 206} /\ pc' = [pc EXCEPT ![c] = "stream"]
           /\ memBuf' = [memBuf EXCEPT ![c] = 0] \/ memBuf' = memBuf
        \/ pc' = [pc EXCEPT ![c] = "done"] /\ memBuf' = memBuf
    BY DEF Open, Goto
  <1>6. sent[c] = 0 /\ memBuf[c] = None /\ m # None
    BY <1>2, <1>4 DEF ConnOK, FreshOK, FileInv, TypeOK
  <1> HIDE DEF h, l, m, f
  <1>7. PICK p \in {"stream", "done"}, b \in {0, None} :
            /\ pc' = [pc EXCEPT ![c] = p] /\ memBuf' = [memBuf EXCEPT ![c] = b]
            /\ p = "stream" => h.status \in {200, 206}
    BY <1>5, <1>6 DEF FileInv, TypeOK
  <1>8. 0 \in U64
    BY ByteRangeAssumption DEF U64
  <1>9. TypeOK'
    <2>1. TypeOK
      BY DEF FileInv
    <2>2. /\ pc' \in [Conns -> PCs] /\ file' \in [Conns -> Files \cup {None}]
          /\ encoded' \in [Conns -> BOOLEAN]
      BY <1>1, <1>2, <1>4, <1>7, <2>1 DEF TypeOK, PCs
    <2>3. /\ head' \in [Conns -> Heads] /\ label' \in [Conns -> Times]
          /\ memBuf' \in [Conns -> U64 \cup {None}]
      BY <1>1, <1>3, <1>4, <1>7, <1>8, <2>1 DEF TypeOK
    <2>4. ASSUME NEW d \in Conns
          PROVE  /\ pc'[d] \in {"resolve", "open", "stream"} => meta'[d] # None
                 /\ pc'[d] = "stream" => file'[d] # None
      BY <1>4, <1>6, <1>7, <2>1 DEF TypeOK, m
    <2> QED BY <1>4, <2>1, <2>2, <2>3, <2>4 DEF TypeOK
  <1>10. CacheOK'
    BY <1>4 DEF FileInv, CacheOK
  <1>11. /\ pc'[c] = p /\ memBuf'[c] = b /\ head'[c] = h /\ file'[c] = f /\ label'[c] = l
         /\ \A d \in Conns \ {c} : Same(d)
    BY <1>4, <1>7 DEF FileInv, TypeOK, Same
  <1>12. FreshOK(c)' /\ MetaOK(c)'
    BY <1>2, <1>4, <1>7, <1>11 DEF ConnOK, FreshOK, MetaOK
  <1>13. StreamOK(c)'
    <2> SUFFICES ASSUME p = "stream"
                 PROVE  /\ head'[c].status \in {200, 206}
                        /\ head'[c].slice.start <= head'[c].slice.end
                        /\ head'[c].slice.end <= meta'[c].len
                        /\ sent'[c] <= head'[c].slice.end - head'[c].slice.start
                        /\ memBuf'[c] # None => memBuf'[c] = sent'[c]
                        /\ label'[c] = Modified(meta'[c]) /\ Describes(meta'[c], file'[c])
      BY <1>11 DEF StreamOK
    <2>1. h.slice.start \in Nat /\ h.slice.end \in Nat
      BY <1>3, ByteRangeAssumption DEF Heads, Slices, U64
    <2>2. label'[c] = Modified(meta'[c]) /\ Describes(meta'[c], file'[c])
      BY <1>1, <1>4, <1>11 DEF m, l
    <2> QED BY <1>3, <1>4, <1>6, <1>7, <1>11, <2>1, <2>2 DEF m
  <1>14. HeadOK(c)'
    <2>1. head'[c].status \in {200, 206} =>
              file'[c] \in Files /\ Pair(file'[c], label'[c], disk', deployed')
      BY <1>1, <1>4, <1>11
    <2>2. h.status = 304 => copy[c] # None /\ copy[c].label # Absent /\ m.mtime <= copy[c].label
      BY <1>1, <1>2, <1>3 DEF ConnOK, CopyOK
    <2> QED BY <1>4, <1>11, <2>1, <2>2 DEF HeadOK, m
  <1>15. CopyOK(c)'
    BY <1>2, <1>4 DEF ConnOK, CopyOK
  <1> QED BY <1>4, <1>9, <1>10, <1>11, <1>12, <1>13, <1>14, <1>15, ConnectionStep DEF ConnOK

LEMMA OpenFailsStep == ASSUME FileInv, NEW c \in Conns, OpenFails(c) PROVE FileInv'
  <1>1. PICK s \in {403, 404, 500} : Answer(c, NoBody(s))
    BY DEF OpenFails
  <1> QED BY <1>1, AnswerStep DEF OpenFails

\* A read stays within the slice and the file; it completes the buffer only if
\* the slice starts at the first byte.
LEMMA ReadFacts ==
    ASSUME FileInv, NEW c \in Conns, pc[c] = "stream", NEW n \in 1 .. ReadSize(c)
    PROVE  /\ sent[c] + n \in U64
           /\ sent[c] + n <= head[c].slice.end - head[c].slice.start
           /\ sent[c] + n <= file[c].len
           /\ sent[c] + n = meta[c].len => head[c].slice.start = 0
  <1> DEFINE s == head[c].slice.start
             e == head[c].slice.end
             k == sent[c]
             len == file[c].len
             top == meta[c].len
  <1>1. head[c] \in Heads /\ file[c] \in Files /\ meta[c] \in Files /\ meta[c] # None
    BY DEF FileInv, TypeOK
  <1>2. s \in Nat /\ e \in Nat /\ len \in Nat /\ top \in Nat /\ top < Word
    <2>1. head[c].slice \in Slices
      BY <1>1 DEF Heads
    <2>2. s \in U64 /\ e \in U64
      BY <2>1 DEF Slices
    <2>3. len \in U64 /\ top \in U64
      BY <1>1 DEF Files
    <2> QED BY <2>2, <2>3, ByteRangeAssumption DEF U64
  <1>3. k \in Nat /\ Word \in Nat
    BY ByteRangeAssumption DEF FileInv, TypeOK, U64
  <1>4. ConnOK(c)
    BY DEF FileInv
  <1>5. s <= e /\ e <= top /\ k <= e - s
    BY <1>4 DEF ConnOK, StreamOK
  <1>6. ReadSize(c) = Least(Least(BlockSize, top),
                            LET end == Least(e, len) IN IF s + k < end THEN end - (s + k) ELSE 0)
    BY DEF ReadSize, Available
  <1>7. n \in Nat /\ n >= 1 /\ n <= ReadSize(c)
    BY <1>2, <1>3, <1>6, FileAssumption DEF Least
  <1> SUFFICES k + n \in U64 /\ k + n <= e - s /\ k + n <= len /\ (k + n = top => s = 0)
    OBVIOUS
  <1> HIDE DEF s, e, k, len, top
  <1>8. n <= e - (s + k) /\ n <= len - (s + k)
    BY <1>2, <1>3, <1>6, <1>7, FileAssumption DEF Least
  <1> QED BY <1>2, <1>3, <1>5, <1>7, <1>8 DEF U64

LEMMA PollStep == ASSUME FileInv, NEW c \in Conns, Poll(c) PROVE FileInv'
  <1>1. PICK n \in 1 .. ReadSize(c) :
          /\ sent' = [sent EXCEPT ![c] = @ + n]
          /\ IF memBuf[c] = None THEN UNCHANGED <<memBuf, cache>>
             ELSE IF CacheNow(c, n)
                  THEN memBuf' = [memBuf EXCEPT ![c] = None] /\ cache' = Entry(c, n)
                  ELSE memBuf' = [memBuf EXCEPT ![c] = @ + n] /\ UNCHANGED cache
    BY DEF Poll
  <1>2. pc[c] = "stream" /\ UNCHANGED <<disk, deployed, pc, req, meta, variant, file, head, label,
                                        encoded, copy>>
    BY DEF Poll
  <1> DEFINE k == sent[c] + n
  <1>3. /\ k \in U64 /\ k <= head[c].slice.end - head[c].slice.start /\ k <= file[c].len
        /\ k = meta[c].len => head[c].slice.start = 0
    BY <1>2, ReadFacts
  <1>4. /\ ConnOK(c) /\ file[c] \in Files /\ meta[c] \in Files /\ label[c] \in Times
        /\ head[c] \in Heads
    BY <1>2 DEF FileInv, TypeOK
  <1>5. /\ head[c].status \in {200, 206} /\ Pair(file[c], label[c], disk, deployed)
        /\ memBuf[c] # None => memBuf[c] = sent[c]
        /\ label[c] = Modified(meta[c]) /\ Describes(meta[c], file[c])
    BY <1>2, <1>4 DEF ConnOK, StreamOK, HeadOK
  <1>6. sent' = [sent EXCEPT ![c] = k]
    BY <1>1
  <1> HIDE DEF k
  <1>7. \/ memBuf[c] = None /\ UNCHANGED <<memBuf, cache>>
        \/ /\ memBuf' = [memBuf EXCEPT ![c] = None] /\ k = meta[c].len
           /\ cache' = [file |-> file[c], from |-> head[c].slice.start, len |-> k,
                        label |-> label[c], meta |-> meta[c]]
        \/ memBuf' = [memBuf EXCEPT ![c] = k] /\ cache' = cache
    BY <1>1, <1>5 DEF CacheNow, Entry, k
  <1>8. cache' \in Entries \cup {None} /\ CacheOK'
    <2>1. CASE cache' = cache
      BY <2>1, <1>2 DEF FileInv, TypeOK, CacheOK
    <2>2. CASE /\ k = meta[c].len
               /\ cache' = [file |-> file[c], from |-> head[c].slice.start, len |-> k,
                            label |-> label[c], meta |-> meta[c]]
      <3>1. head[c].slice.start = 0 /\ 0 \in U64
        BY <1>3, <2>2, ByteRangeAssumption DEF U64
      <3>2. cache' \in Entries
        BY <1>3, <1>4, <2>2, <3>1 DEF Entries
      <3>3. /\ cache'.file = file[c] /\ cache'.label = label[c] /\ cache'.from = 0
            /\ cache'.len = k /\ cache'.meta = meta[c]
        BY <2>2, <3>1
      <3>4. k = meta[c].len
        BY <2>2
      <3> HIDE <2>2
      <3> QED BY <1>2, <1>3, <1>5, <3>2, <3>3, <3>4 DEF CacheOK
    <2> QED BY <1>7, <2>1, <2>2
  <1>9. PICK b \in U64 \cup {None} : memBuf' = [memBuf EXCEPT ![c] = b] /\ (b # None => b = k)
    <2>1. memBuf \in [Conns -> U64 \cup {None}]
      BY DEF FileInv, TypeOK
    <2> QED BY <1>3, <1>7, <2>1
  <1>10. TypeOK'
    BY <1>2, <1>3, <1>6, <1>8, <1>9 DEF FileInv, TypeOK
  <1>11. sent'[c] = k /\ memBuf'[c] = b /\ \A d \in Conns \ {c} : Same(d)
    BY <1>2, <1>6, <1>9 DEF FileInv, TypeOK, Same
  <1>12. FreshOK(c)' /\ MetaOK(c)'
    BY <1>2, <1>4 DEF ConnOK, FreshOK, MetaOK
  <1>13. StreamOK(c)'
    BY <1>2, <1>3, <1>4, <1>9, <1>11 DEF ConnOK, StreamOK
  <1>14. HeadOK(c)' /\ CopyOK(c)'
    BY <1>2, <1>4 DEF ConnOK, HeadOK, CopyOK
  <1> QED BY <1>2, <1>8, <1>10, <1>11, <1>12, <1>13, <1>14, ConnectionStep DEF ConnOK

LEMMA ServeStep == ASSUME FileInv, NEW c \in Conns, Serve(c) PROVE FileInv'
  <1>1. CASE Miss(c) \/ Acquire(c)
    BY <1>1, QuietStep DEF Miss, Acquire, Goto, PCs
  <1> QED BY <1>1, HitStep, StatStep, StatVariantStep, ResolveStep, OpenStep, OpenFailsStep
             DEF Serve

LEMMA TransmitStep == ASSUME FileInv, NEW c \in Conns, Transmit(c) PROVE FileInv'
  <1>1. CASE EndOfStream(c)
    BY <1>1, QuietStep DEF EndOfStream, Goto, PCs
  <1> QED BY <1>1, PollStep DEF Transmit

LEMMA FileInductive == ASSUME FileInv, [Next]_vars PROVE FileInv'
  <1>1. CASE \E n \in Names : Remove(n) \/ \E len \in Lengths[n] : Deploy(n, len)
    BY <1>1, RemoveStep, DeployStep
  <1>2. ASSUME NEW c \in Conns,
               \E ask \in Asks[c] : Request(c, ask)
        PROVE  FileInv'
    BY <1>2, RequestStep
  <1>3. ASSUME NEW c \in Conns,
               Serve(c) \/ Transmit(c) \/ ReadFails(c) \/ Receive(c) \/ Leave(c)
        PROVE  FileInv'
    BY <1>3, ServeStep, TransmitStep, ReceiveStep, LeaveStep
  <1>4. CASE Evict
    BY <1>4, EvictStep
  <1>5. CASE UNCHANGED vars
    <2>1. UNCHANGED <<disk, deployed, cache, pc, req, meta, variant, file, head, label, encoded,
                      sent, memBuf, copy>>
      BY <1>5 DEF vars, request
    <2>2. TypeOK' /\ DiskOK' /\ CacheOK'
      BY <2>1 DEF FileInv, TypeOK, DiskOK, CacheOK
    <2>3. ASSUME NEW c \in Conns PROVE ConnOK(c)'
      BY <2>1 DEF FileInv, ConnOK, FreshOK, MetaOK, HeadOK, StreamOK, CopyOK
    <2> QED BY <2>2, <2>3 DEF FileInv
  <1> QED BY <1>1, <1>2, <1>3, <1>4, <1>5 DEF Next

LEMMA FileInvariant == Spec => []FileInv
  BY InitFile, FileInductive, PTL DEF Spec

-----------------------------------------------------------------------------
\* The state of the file server keeps its types: lengths and offsets stay
\* within a u64, and a stream has the file and the metadata it was opened with.
THEOREM FileTypes == Spec => []TypeOK
  <1>1. FileInv => TypeOK
    BY DEF FileInv
  <1> QED BY <1>1, FileInvariant, PTL

\* file_reply and the cache never send a body that is older than the
\* Last-Modified that goes with it, however deployments interleave.
THEOREM LabelsFresh == Spec => []FreshLabel
  <1>1. FileInv => FreshLabel
    BY DEF FileInv, ConnOK, HeadOK, Pair, FreshLabel
  <1> QED BY <1>1, FileInvariant, PTL

\* ConditionalHeaders::check never answers 304 from the disk to a client whose
\* copy is of a file that was deployed before the one the answer is about.
THEOREM NotModifiedIsFresh == Spec => []NotModifiedFresh
  <1>1. ASSUME FileInv, NEW c \in Conns, head[c].status = 304, meta[c] # None,
               copy[c].file.name = meta[c].name
        PROVE  copy[c].file.id >= meta[c].id
    <2>1. /\ copy[c] # None /\ copy[c].label # Absent /\ meta[c].mtime <= copy[c].label
          /\ NotReplaced(copy[c].file, copy[c].label, meta[c])
      BY <1>1 DEF FileInv, ConnOK, HeadOK, CopyOK
    <2>2. meta[c].id <= copy[c].file.id
      BY <1>1, <2>1 DEF NotReplaced
    <2>3. copy[c].file \in Files /\ meta[c] \in Files
      BY <1>1, <2>1 DEF FileInv, TypeOK, Copies
    <2> QED BY <2>2, <2>3 DEF Files
  <1>2. FileInv => NotModifiedFresh
    BY <1>1 DEF NotModifiedFresh
  <1> QED BY <1>2, FileInvariant, PTL

\* MemCacheFileStream puts nothing into the cache but the first bytes of the file
\* that was opened, as many as the metadata announced that was read before, with
\* the date of that metadata; and where the two are of one name, the file is the
\* one the metadata was read of or a later one.
THEOREM CacheIsAuthentic == Spec => []CacheAuthentic
  <1>1. FileInv => CacheAuthentic
    BY DEF FileInv, CacheOK, CacheAuthentic, Describes
  <1> QED BY <1>1, FileInvariant, PTL
=============================================================================
