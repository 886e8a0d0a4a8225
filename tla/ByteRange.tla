----------------------------- MODULE ByteRange -----------------------------
(***************************************************************************)
(* How a file becomes the head of a response: the Range header             *)
(* (bytes_range, src/response.rs), the conditional headers                 *)
(* (ConditionalHeaders::check) and the status response_body derives from   *)
(* both.  Pure operators; FileServing runs them.                           *)
(*                                                                         *)
(* Offsets and lengths are u64: 0 .. Word - 1.  The release profile has no *)
(* overflow checks, so b + 1 wraps.  Times are whole seconds, the          *)
(* precision of an HTTP date.                                              *)
(***************************************************************************)
EXTENDS Integers

CONSTANTS Word,    \* number of values of a u64
          Absent   \* no such header, or no Last-Modified

ASSUME ByteRangeAssumption == Word \in Nat \ {0} /\ Absent \notin Nat

U64 == 0 .. Word - 1

\* The first range of a Range header as headers::Range::iter yields it:
\* no header, "-", "a-b", "a-", "-b", or nothing that can be parsed.
RangeKinds == {"none", "all", "span", "from", "suffix", "malformed"}

RangeSpec(kind, a, b) == [kind |-> kind, a |-> a, b |-> b]

NoRange == RangeSpec("none", 0, 0)

BadRange == [ok |-> FALSE, start |-> 0, end |-> 0]

Slice(start, end) == [ok |-> TRUE, start |-> start, end |-> end]

\* Mutant: the end of "a-b" is taken as exclusive.
BoundsExclusive(r, maxLen) ==
    CASE r.kind = "span"   -> Slice(r.a, r.b)
      [] r.kind = "from"   -> Slice(r.a, maxLen)
      [] r.kind = "suffix" -> IF r.b > maxLen THEN Slice(0, maxLen)
                              ELSE Slice(maxLen - r.b, maxLen)
      [] OTHER             -> Slice(0, maxLen)

\* The two bounds, before they are compared with the length.
Bounds(r, maxLen) ==
    CASE r.kind = "span"   -> Slice(r.a, IF r.b = maxLen THEN r.b ELSE (r.b + 1) % Word)
      [] r.kind = "from"   -> Slice(r.a, maxLen)
      [] r.kind = "suffix" -> IF r.b > maxLen THEN Slice(0, maxLen)
                              ELSE Slice(maxLen - r.b, maxLen)
      [] OTHER             -> Slice(0, maxLen)

\* The header is not a usable range.
Unusable(r) == r.kind = "malformed" \/ (r.kind = "span" /\ r.a > r.b)

\* Mutant: a range that reaches beyond the end is refused.
BytesRangeStrict(r, maxLen) ==
    LET s == Bounds(r, maxLen) IN
    IF r.kind = "none" THEN Slice(0, maxLen)
    ELSE IF ~Unusable(r) /\ s.start < s.end /\ s.end <= maxLen THEN s ELSE BadRange

\* Within the file, or clipped to it; no Range header asks for the whole file.
BytesRange(r, maxLen) ==
    LET s == Bounds(r, maxLen) IN
    IF r.kind = "none" THEN Slice(0, maxLen)
    ELSE IF Unusable(r) \/ s.start >= s.end THEN BadRange
    ELSE IF s.end <= maxLen THEN s
    ELSE IF s.start <= maxLen THEN Slice(s.start, maxLen)
    ELSE BadRange

-----------------------------------------------------------------------------
\* The conditional headers of a request: If-Unmodified-Since,
\* If-Modified-Since, If-Range (an entity tag, which never matches, is the
\* date 0) and Range.
Plain == [unmodifiedSince |-> Absent, modifiedSince |-> Absent,
          ifRange |-> Absent, range |-> NoRange]

\* Is a file of this Last-Modified newer than the date of a header?  Without
\* Last-Modified it always is.
NewerThan(modified, date) == modified = Absent \/ modified > date

\* ConditionalHeaders::check: a status without a body, or 200 and the range.
Check(cond, modified) ==
    IF cond.unmodifiedSince # Absent /\ NewerThan(modified, cond.unmodifiedSince)
    THEN [status |-> 412, range |-> NoRange]
    ELSE IF cond.modifiedSince # Absent /\ ~NewerThan(modified, cond.modifiedSince)
    THEN [status |-> 304, range |-> NoRange]
    ELSE IF cond.ifRange # Absent /\ NewerThan(modified, cond.ifRange)
    THEN [status |-> 200, range |-> NoRange]
    ELSE [status |-> 200, range |-> cond.range]

\* The status of the response and the bytes start .. end - 1 of len it carries.
ResponseHead(cond, modified, len) ==
    LET checked == Check(cond, modified)
        slice   == BytesRange(checked.range, len)
    IN  IF checked.status # 200 THEN [status |-> checked.status, slice |-> Slice(0, 0)]
        ELSE IF ~slice.ok THEN [status |-> 416, slice |-> Slice(0, 0)]
        ELSE [status |-> IF slice.end - slice.start = len THEN 200 ELSE 206,
              slice  |-> slice]

-----------------------------------------------------------------------------
\* Reference definition: the offsets a range asks for in a file of a length.
Requested(r, len) ==
    {p \in 0 .. len - 1 :
        CASE r.kind = "span"      -> r.a <= p /\ p <= r.b
          [] r.kind = "from"      -> r.a <= p
          [] r.kind = "suffix"    -> p >= len - r.b
          [] r.kind = "malformed" -> FALSE
          [] OTHER                -> TRUE}
=============================================================================
