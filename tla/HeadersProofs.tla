--------------------------- MODULE HeadersProofs ---------------------------
(***************************************************************************)
(* Two headers are understood as they should be, whatever they say:        *)
(* bytes_range computes what a Range header asks for, for every width of   *)
(* the word and every length, and the content coding that is chosen is the *)
(* one an Accept-Encoding header likes best, for every list of offers.     *)
(***************************************************************************)
EXTENDS MCHeaders, FiniteSetTheorems, SequenceTheorems, TLAPS

\* The four kinds of headers with numbers in them, and those without.
LEMMA RangeForms ==
  ASSUME NEW r \in Ranges
  PROVE  /\ r.a \in U64 /\ r.b \in U64
         /\ r.kind \in RangeKinds
  BY ByteRangeAssumption DEF Ranges, RangeSpec, U64, RangeKinds

\* A slice bytes_range returns lies within the file and holds exactly the
\* offsets the header asks for.
LEMMA SliceExact ==
  ASSUME NEW r \in Ranges, NEW n \in U64, BytesRange(r, n).ok
  PROVE  LET s == BytesRange(r, n) IN
         /\ s.start \in 0 .. n /\ s.end \in 0 .. n /\ s.start <= s.end
         /\ s.start .. s.end - 1 = Requested(r, n)
<1>1. r.a \in Nat /\ r.b \in Nat /\ n \in Nat /\ Word \in Nat /\ r.b < Word /\ n < Word
  BY RangeForms, ByteRangeAssumption DEF U64
<1>2. r.kind \in RangeKinds
  BY RangeForms
<1> DEFINE s == BytesRange(r, n)
<1> SUFFICES /\ s.start \in 0 .. n /\ s.end \in 0 .. n /\ s.start <= s.end
             /\ s.start .. s.end - 1 = Requested(r, n)
  OBVIOUS
<1>3. CASE r.kind \in {"none", "all"}
  <2>1. s = Slice(0, n)
    BY <1>1, <1>3 DEF BytesRange, Bounds, Slice, BadRange, Unusable
  <2>2. Requested(r, n) = 0 .. n - 1
    BY <1>3 DEF Requested
  <2> QED
    BY <1>1, <2>1, <2>2 DEF Slice
<1>4. CASE r.kind = "malformed"
  BY <1>1, <1>4 DEF BytesRange, Bounds, Slice, BadRange, Unusable, Requested
<1>5. CASE r.kind = "from"
  BY <1>1, <1>5 DEF BytesRange, Bounds, Slice, BadRange, Unusable, Requested
<1>6. CASE r.kind = "suffix"
  BY <1>1, <1>6 DEF BytesRange, Bounds, Slice, BadRange, Unusable, Requested
<1>7. CASE r.kind = "span"
  <2>1. (r.b + 1) % Word = IF r.b = Word - 1 THEN 0 ELSE r.b + 1
    BY <1>1
  <2> QED
    BY <1>1, <1>7, <2>1 DEF BytesRange, Bounds, Slice, BadRange, Unusable, Requested
<1> QED
  BY <1>2, <1>3, <1>4, <1>5, <1>6, <1>7 DEF RangeKinds

\* A header that names a byte of the file is honoured, unless its last offset
\* is the largest u64, where b + 1 wraps.
LEMMA SatisfiableHonoured ==
  ASSUME NEW r \in Ranges, NEW n \in U64, r.b < Word - 1, Requested(r, n) # {}
  PROVE  BytesRange(r, n).ok
<1>1. r.a \in Nat /\ r.b \in Nat /\ n \in Nat /\ Word \in Nat /\ r.b < Word /\ n < Word
  BY RangeForms, ByteRangeAssumption DEF U64
<1>2. r.kind \in RangeKinds
  BY RangeForms
<1>3. PICK p \in Requested(r, n) : TRUE
  OBVIOUS
<1>4. p \in 0 .. n - 1
  BY <1>3 DEF Requested
<1>5. CASE r.kind \in {"none", "all"}
  BY <1>1, <1>4, <1>5 DEF BytesRange, Bounds, Slice, BadRange, Unusable
<1>6. CASE r.kind = "malformed"
  BY <1>3, <1>6 DEF Requested
<1>7. CASE r.kind = "from"
  <2>1. r.a <= p
    BY <1>3, <1>7 DEF Requested
  <2> QED
    BY <1>1, <1>4, <1>7, <2>1 DEF BytesRange, Bounds, Slice, BadRange, Unusable
<1>8. CASE r.kind = "suffix"
  <2>1. p >= n - r.b
    BY <1>3, <1>8 DEF Requested
  <2> QED
    BY <1>1, <1>4, <1>8, <2>1 DEF BytesRange, Bounds, Slice, BadRange, Unusable
<1>9. CASE r.kind = "span"
  <2>1. r.a <= p /\ p <= r.b
    BY <1>3, <1>9 DEF Requested
  <2>2. (r.b + 1) % Word = r.b + 1
    BY <1>1
  <2> QED
    BY <1>1, <1>4, <1>9, <2>1, <2>2 DEF BytesRange, Bounds, Slice, BadRange, Unusable
<1> QED
  BY <1>2, <1>5, <1>6, <1>7, <1>8, <1>9 DEF RangeKinds

\* The answer to a question about a range, once given, is that of bytes_range.
AnswerInv ==
    question.ask = "range" =>
        /\ question.range \in Ranges /\ question.len \in U64
        /\ answer \in {Absent, BytesRange(question.range, question.len)}

\* The whole state space is one call of a pure function.
LEMMA AnswerInvariant == Spec => []AnswerInv
<1>1. Init => AnswerInv
  BY HeadersAssumption, ByteRangeAssumption
     DEF Init, AnswerInv, RangeQuestions, EncodingQuestions, U64
<1>2. AnswerInv /\ [Next]_vars => AnswerInv'
  BY DEF AnswerInv, Next, AnswerRange, AnswerEncoding, vars
<1> QED
  BY <1>1, <1>2, PTL DEF Spec

\* bytes_range never returns anything but the bytes that were asked for.
THEOREM RangesExact == Spec => []RangeExact
<1>1. AnswerInv => RangeExact
  <2> SUFFICES ASSUME AnswerInv, answer # Absent, question.ask = "range", answer.ok
               PROVE  /\ 0 <= answer.start /\ answer.start <= answer.end
                      /\ answer.end <= question.len
                      /\ answer.start .. answer.end - 1
                           = Requested(question.range, question.len)
    BY DEF RangeExact, Answered
  <2>1. /\ answer = BytesRange(question.range, question.len)
        /\ question.range \in Ranges /\ question.len \in U64
    BY DEF AnswerInv
  <2> QED
    BY <2>1, SliceExact
<1> QED
  BY <1>1, AnswerInvariant, PTL

\* bytes_range refuses no satisfiable range short of the largest u64.
THEOREM RangesHonoured == Spec => []RangeHonoured
<1>1. AnswerInv => RangeHonoured
  <2> SUFFICES ASSUME AnswerInv, answer # Absent, question.ask = "range",
                      question.range.b < Word - 1,
                      Requested(question.range, question.len) # {}
               PROVE  answer.ok
    BY DEF RangeHonoured, Answered
  <2>1. /\ answer = BytesRange(question.range, question.len)
        /\ question.range \in Ranges /\ question.len \in U64
    BY DEF AnswerInv
  <2> QED
    BY <2>1, SatisfiableHonoured
<1> QED
  BY <1>1, AnswerInvariant, PTL

-----------------------------------------------------------------------------
\* A set of positions that is not empty has a least element.
LEMMA LeastPosition ==
    ASSUME NEW n \in Nat, NEW S \in SUBSET (1 .. n), S # {}
    PROVE  \E i \in S : \A j \in S : i <= j
<1>1. S \subseteq Nat
  OBVIOUS
<1>2. \E i \in S : \A j \in S : <<j, i>> \notin OpToRel(<, Nat)
  BY <1>1, NatLessThanWellFounded, WFMin
<1>3. \A i, j \in Nat : <<j, i>> \in OpToRel(<, Nat) <=> j < i
  BY DEF OpToRel
<1>4. PICK i \in S : \A j \in S : ~(j < i)
  BY <1>1, <1>2, <1>3
<1>5. \A j \in S : i <= j
  BY <1>1, <1>4
<1> QED
  BY <1>5

\* ... and a greatest one.
LEMMA GreatestPosition ==
    ASSUME NEW n \in Nat, NEW S \in SUBSET (1 .. n), S # {}
    PROVE  \E i \in S : \A j \in S : j <= i
<1> DEFINE T == {k \in 1 .. n : \A j \in S : j <= k}
<1>1. T \in SUBSET (1 .. n) /\ n \in T
  <2>1. PICK j0 \in S : TRUE
    OBVIOUS
  <2>2. n \in 1 .. n /\ \A j \in S : j <= n
    BY <2>1
  <2> QED
    BY <2>2
<1>2. PICK k \in T : \A l \in T : k <= l
  <2> HIDE DEF T
  <2> QED
    BY <1>1, LeastPosition
<1>3. k \in S
  <2> SUFFICES ASSUME k \notin S PROVE FALSE
    OBVIOUS
  <2>1. k \in 1 .. n /\ \A j \in S : j <= k /\ j # k /\ j \in 1 .. n
    OBVIOUS
  <2>2. \A j \in S : j <= k - 1
    BY <2>1
  <2>3. k - 1 \in 1 .. n
    <3>1. PICK j0 \in S : TRUE
      OBVIOUS
    <3>2. j0 <= k - 1 /\ j0 \in 1 .. n
      BY <2>1, <2>2
    <3> QED
      BY <2>1, <3>2
  <2>4. k - 1 \in T
    BY <2>2, <2>3
  <2> QED
    BY <1>2, <2>1, <2>4
<1> QED
  BY <1>2, <1>3

\* A strict total order of the positions 1 .. n, as the set of the predecessors
\* of each.
Orders(n, before) ==
    /\ before \in [1 .. n -> SUBSET (1 .. n)]
    /\ \A i \in 1 .. n : i \notin before[i]
    /\ \A i, j \in 1 .. n : i # j => i \in before[j] \/ j \in before[i]
    /\ \A i, j \in 1 .. n : i \in before[j] => before[i] \subseteq before[j]

\* The positions in that order: at place k the one with k - 1 predecessors.
Sorts(n, before, pos) ==
    /\ pos \in [1 .. n -> 1 .. n]
    /\ \A k \in 1 .. n : pos[k] = CHOOSE i \in 1 .. n : 1 + Cardinality(before[i]) = k
    /\ \A i \in 1 .. n : \E k \in 1 .. n : pos[k] = i
    /\ \A k, l \in 1 .. n : k < l => pos[k] \in before[pos[l]]

\* Counting predecessors sorts: the count grows along the order, so no two
\* positions share one, and an injection of 1 .. n into itself is onto.
LEMMA Sorting ==
    ASSUME NEW n \in Nat, NEW before, Orders(n, before)
    PROVE  \E pos : Sorts(n, before, pos)
<1> USE DEF Orders
<1> DEFINE D == 1 .. n
           rank == [i \in D |-> 1 + Cardinality(before[i])]
           pos == [k \in D |-> CHOOSE i \in D : 1 + Cardinality(before[i]) = k]
<1>1. IsFiniteSet(D) /\ Cardinality(D) = n
  BY FS_Interval
<1>2. ASSUME NEW i \in D
      PROVE  /\ IsFiniteSet(before[i]) /\ Cardinality(before[i]) \in Nat
             /\ Cardinality(before[i]) < n
  <2>1. before[i] \in SUBSET D /\ before[i] # D
    OBVIOUS
  <2>2. IsFiniteSet(before[i]) /\ Cardinality(before[i]) <= n /\ Cardinality(before[i]) # n
    BY ONLY <1>1, <2>1, FS_Subset
  <2>3. Cardinality(before[i]) \in Nat
    BY ONLY <2>2, FS_CardinalityType
  <2> QED
    BY ONLY <2>2, <2>3
<1>3. ASSUME NEW i \in D
      PROVE  rank[i] = 1 + Cardinality(before[i]) /\ rank[i] \in D
  <2> DEFINE c == Cardinality(before[i])
  <2>1. rank[i] = 1 + c
    OBVIOUS
  <2>2. c \in Nat /\ c < n
    BY <1>2
  <2> HIDE DEF c, rank
  <2>3. rank[i] \in D
    BY <2>1, <2>2
  <2> QED
    BY <2>1, <2>3 DEF c
<1>4. rank \in [D -> D]
  BY <1>3
<1> HIDE DEF rank
<1>5. ASSUME NEW i \in D, NEW j \in D, i \in before[j]
      PROVE  rank[i] < rank[j]
  <2>1. before[i] \in SUBSET before[j] /\ before[j] # before[i]
    BY <1>5
  <2>2. Cardinality(before[i]) <= Cardinality(before[j])
         /\ Cardinality(before[i]) # Cardinality(before[j])
    BY <1>2, <2>1, FS_Subset
  <2> QED
    BY <1>2, <1>3, <2>2
<1>6. ASSUME NEW i \in D, NEW j \in D, rank[i] = rank[j]
      PROVE  i = j
  <2>1. i \notin before[j] /\ j \notin before[i]
    BY <1>3, <1>5, <1>6
  <2> QED
    BY <2>1
<1>7. rank \in Injection(D, D)
  BY <1>4, <1>6 DEF Injection, IsInjective
<1>8. rank \in Surjection(D, D)
  BY ONLY <1>1, <1>7, FS_Injection
<1>9. \A k \in D : \E i \in D : rank[i] = k
  BY <1>8 DEF Surjection
<1>10. ASSUME NEW k \in D
       PROVE  /\ pos[k] = CHOOSE i \in D : 1 + Cardinality(before[i]) = k
              /\ pos[k] \in D /\ rank[pos[k]] = k
  <2>1. pos[k] = CHOOSE i \in D : 1 + Cardinality(before[i]) = k
    OBVIOUS
  <2>2. \E i \in D : 1 + Cardinality(before[i]) = k
    BY <1>3, <1>9
  <2> HIDE DEF D, pos
  <2>3. pos[k] \in D /\ 1 + Cardinality(before[pos[k]]) = k
    BY <2>1, <2>2
  <2> QED
    BY <1>3, <2>1, <2>3
<1>11. pos \in [D -> D]
  BY <1>10
<1> HIDE DEF pos
<1>12. \A i \in D : rank[i] \in D /\ pos[rank[i]] = i
  BY <1>3, <1>6, <1>10
<1>13. ASSUME NEW k \in D, NEW l \in D, k < l
       PROVE  pos[k] \in before[pos[l]]
  <2>1. pos[k] \in D /\ pos[l] \in D /\ rank[pos[k]] = k /\ rank[pos[l]] = l
    BY <1>10
  <2>2. k # l /\ ~(l < k)
    BY <1>13
  <2>3. pos[k] # pos[l]
    BY <2>1, <2>2
  <2>4. pos[l] \in before[pos[k]] => rank[pos[l]] < rank[pos[k]]
    BY <1>5, <2>1
  <2> QED
    BY <2>1, <2>2, <2>3, <2>4
<1> QED
  BY <1>10, <1>11, <1>12, <1>13 DEF Sorts

\* The recursion of FlattenSeq up to the m-th sequence.
Flattens(ss, m, f) ==
    f = [i \in 1 .. m |-> IF i = 1 THEN ss[i] ELSE f[i - 1] \o ss[i]]

\* It has a solution for every m: the least m without one could be extended
\* from its predecessor.
LEMMA FlattensExists ==
    ASSUME NEW ss, NEW n \in Nat
    PROVE  \A m \in 1 .. n : \E f : Flattens(ss, m, f)
<1> DEFINE Bad == {m \in 1 .. n : ~\E f : Flattens(ss, m, f)}
<1> SUFFICES ASSUME Bad # {} PROVE FALSE
  OBVIOUS
<1>1. PICK m \in Bad : \A k \in Bad : m <= k
  <2> HIDE DEF Bad
  <2>1. Bad \in SUBSET (1 .. n)
    BY DEF Bad
  <2> QED
    BY <2>1, LeastPosition
<1>2. m \in 1 .. n /\ ~\E f : Flattens(ss, m, f)
  OBVIOUS
<1>3. CASE m = 1
  <2>1. Flattens(ss, 1, [i \in 1 .. 1 |-> ss[i]])
    BY DEF Flattens
  <2> QED
    BY <1>2, <1>3, <2>1
<1>4. CASE m # 1
  <2>1. m - 1 \in 1 .. n /\ m - 1 \notin Bad
    <3>1. m \in 1 .. n /\ (m - 1 \in Bad => m <= m - 1)
      BY <1>1
    <3> HIDE DEF Bad
    <3> QED
      BY <1>4, <3>1
  <2>2. PICK f : Flattens(ss, m - 1, f)
    BY <2>1
  <2> DEFINE g == [i \in 1 .. m |-> IF i = m THEN f[m - 1] \o ss[m] ELSE f[i]]
  <2> HIDE DEF Bad
  <2>3. \A i \in 1 .. m - 1 : f[i] = IF i = 1 THEN ss[i] ELSE f[i - 1] \o ss[i]
    BY <2>2 DEF Flattens
  <2>4. \A i \in 1 .. m : g[i] = IF i = 1 THEN ss[i] ELSE g[i - 1] \o ss[i]
    BY <1>2, <1>4, <2>3
  <2>5. g = [i \in 1 .. m |-> g[i]]
    OBVIOUS
  <2> HIDE DEF g
  <2>6. Flattens(ss, m, g)
    BY <2>4, <2>5 DEF Flattens
  <2> QED
    BY <1>2, <2>6
<1> QED
  BY <1>3, <1>4

\* Flattening sequences over S gives a sequence over S.
LEMMA FlattenType ==
    ASSUME NEW S, NEW ss \in Seq(Seq(S))
    PROVE  FlattenSeq(ss) \in Seq(S)
<1> DEFINE n == Len(ss)
           flatten == CHOOSE f : Flattens(ss, n, f)
<1>1. n \in Nat /\ \A i \in 1 .. n : ss[i] \in Seq(S)
  BY LenProperties, ElementOfSeq
<1>2. CASE n = 0
  BY <1>2, EmptySeq DEF FlattenSeq
<1>3. CASE n # 0
  <2>1. FlattenSeq(ss) = flatten[n]
    BY <1>3 DEF FlattenSeq, Flattens
  <2> HIDE DEF n
  <2>2. n \in 1 .. n
    BY <1>1, <1>3
  <2>3. Flattens(ss, n, flatten)
    BY <1>1, <2>2, FlattensExists
  <2> HIDE DEF flatten
  <2>4. \A i \in 1 .. n : flatten[i] = IF i = 1 THEN ss[i] ELSE flatten[i - 1] \o ss[i]
    BY <2>3 DEF Flattens
  <2> DEFINE Bad == {i \in 1 .. n : flatten[i] \notin Seq(S)}
  <2>5. Bad = {}
    <3> SUFFICES ASSUME Bad # {} PROVE FALSE
      OBVIOUS
    <3>1. PICK m \in Bad : \A k \in Bad : m <= k
      <4>1. Bad \in SUBSET (1 .. n)
        OBVIOUS
      <4> HIDE DEF Bad
      <4> QED
        BY <1>1, <4>1, LeastPosition
    <3>2. m \in 1 .. n /\ m # 1
      BY <1>1, <2>4
    <3>3. m - 1 \in 1 .. n /\ m - 1 \notin Bad
      <4> HIDE DEF Bad
      <4> QED
        BY <1>1, <3>1, <3>2
    <3>4. flatten[m] \in Seq(S)
      <4>1. flatten[m - 1] \in Seq(S) /\ ss[m] \in Seq(S)
        BY <1>1, <3>2, <3>3
      <4>2. flatten[m] = flatten[m - 1] \o ss[m]
        BY <2>4, <3>2
      <4> QED
        BY <4>1, <4>2, ConcatProperties
    <3> QED
      BY <3>4
  <2> QED
    BY <2>1, <2>2, <2>5
<1> QED
  BY <1>2, <1>3

-----------------------------------------------------------------------------
\* An item of an Accept-Encoding header as the questions have them.
AnyOffer == [token : Tokens, qs : Weights \cup {<<>>}]

\* The quality of an offer is a number.
LEMMA QualityType ==
    ASSUME NEW o \in AnyOffer
    PROVE  Quality(o) \in Nat
<1> DEFINE numbers == {i \in DOMAIN o.qs : o.qs[i] # Unparsable}
           last == CHOOSE i \in numbers : \A j \in numbers : j <= i
<1>1. o.qs \in Seq(Int \cup {Unparsable})
  BY HeadersAssumption, EmptySeq DEF AnyOffer
<1>2. DOMAIN o.qs = 1 .. Len(o.qs) /\ Len(o.qs) \in Nat
  BY <1>1, LenProperties
<1>3. ASSUME numbers # {}
      PROVE  o.qs[last] \in Int
  <2>1. \E i \in numbers : \A j \in numbers : j <= i
    BY <1>2, <1>3, GreatestPosition
  <2>2. last \in numbers
    <3> HIDE DEF numbers
    <3> QED
      BY <2>1
  <2>3. last \in 1 .. Len(o.qs) /\ o.qs[last] # Unparsable
    BY <1>2, <2>2
  <2> HIDE DEF last
  <2> QED
    BY <1>1, <2>3, ElementOfSeq
<1>4. Quality(o) = IF numbers = {} THEN 1000 ELSE ToU16(o.qs[last])
  BY DEF Quality
<1> HIDE DEF numbers, last
<1> QED
  BY <1>3, <1>4, NegotiationAssumption DEF ToU16, MaxU16

\* Whatever the token is, it stands for some coding, and every coding has a
\* priority.
LEMMA CodingType ==
    ASSUME NEW token
    PROVE  CodingOf(token) \in Codings /\ Priority[CodingOf(token)] \in Nat
<1>1. CodingOf(token) \in Codings
  BY DEF CodingOf, Codings
<1> QED
  BY <1>1 DEF Codings, Priority

\* Before is a strict total order of the offers: no two tie.
LEMMA BeforeOrder ==
    ASSUME NEW os \in Seq(AnyOffer)
    PROVE  /\ \A i \in DOMAIN os : ~Before(os, i, i)
           /\ \A i, j \in DOMAIN os : i # j => Before(os, i, j) \/ Before(os, j, i)
           /\ \A i, j, k \in DOMAIN os :
                 Before(os, i, j) /\ Before(os, j, k) => Before(os, i, k)
<1>1. DOMAIN os = 1 .. Len(os) /\ Len(os) \in Nat
  BY LenProperties
<1>2. \A i \in DOMAIN os : /\ Quality(os[i]) \in Nat /\ i \in Nat
                           /\ Priority[CodingOf(os[i].token)] \in Nat
  BY <1>1, ElementOfSeq, QualityType, CodingType
<1> QED
  BY <1>2 DEF Before

\* sorted_encodings permutes the codings of the offers into the order of Before.
LEMMA EncodingsSorted ==
    ASSUME NEW lines, Offers(lines) \in Seq(AnyOffer)
    PROVE  \E pos \in [DOMAIN Offers(lines) -> DOMAIN Offers(lines)] :
              LET os == Offers(lines) IN
              /\ SortedEncodings(lines) = [k \in DOMAIN os |-> CodingOf(os[pos[k]].token)]
              /\ \A i \in DOMAIN os : \E k \in DOMAIN os : pos[k] = i
              /\ \A k, l \in DOMAIN os : k < l => Before(os, pos[k], pos[l])
<1> DEFINE os == Offers(lines)
           n == Len(os)
           D == 1 .. n
           before == [i \in D |-> {j \in D : Before(os, j, i)}]
           rank(i) == 1 + Cardinality({j \in DOMAIN os : Before(os, j, i)})
<1> SUFFICES \E p \in [DOMAIN os -> DOMAIN os] :
              /\ SortedEncodings(lines) = [k \in DOMAIN os |-> CodingOf(os[p[k]].token)]
              /\ \A i \in DOMAIN os : \E k \in DOMAIN os : p[k] = i
              /\ \A k, l \in DOMAIN os : k < l => Before(os, p[k], p[l])
  OBVIOUS
<1>1. os \in Seq(AnyOffer)
  OBVIOUS
<1>2. SortedEncodings(lines)
        = [k \in DOMAIN os |-> CodingOf(os[CHOOSE i \in DOMAIN os : rank(i) = k].token)]
  BY DEF SortedEncodings
<1> HIDE DEF os
<1>3. DOMAIN os = D /\ n \in Nat
  BY <1>1, LenProperties
<1>4. before \in [D -> SUBSET D] /\ \A i, j \in D : j \in before[i] <=> Before(os, j, i)
  OBVIOUS
<1>5. Orders(n, before)
  <2>1. /\ \A i \in D : i \notin before[i]
        /\ \A i, j \in D : i # j => i \in before[j] \/ j \in before[i]
        /\ \A i, j \in D : i \in before[j] => before[i] \subseteq before[j]
    BY <1>1, <1>3, BeforeOrder
  <2> HIDE DEF n, before
  <2> QED
    BY <1>4, <2>1 DEF Orders
<1>6. \A i \in D : rank(i) = 1 + Cardinality(before[i])
  <2>1. \A i \in D : before[i] = {j \in DOMAIN os : Before(os, j, i)}
    BY <1>3
  <2> HIDE DEF before
  <2> QED
    BY <2>1
<1> HIDE DEF n, before, rank
<1>7. PICK pos : Sorts(n, before, pos)
  BY <1>3, <1>5, Sorting
<1>8. /\ pos \in [D -> D]
      /\ \A k \in D : pos[k] = CHOOSE i \in D : 1 + Cardinality(before[i]) = k
      /\ \A i \in D : \E k \in D : pos[k] = i
      /\ \A k, l \in D : k < l => Before(os, pos[k], pos[l])
  BY <1>4, <1>7 DEF Sorts
<1>9. ASSUME NEW k \in D
      PROVE  (CHOOSE i \in D : rank(i) = k) = pos[k]
  <2>1. \A i : (i \in D /\ rank(i) = k) <=> (i \in D /\ 1 + Cardinality(before[i]) = k)
    BY <1>6
  <2>2. (CHOOSE i \in D : rank(i) = k) = (CHOOSE i \in D : 1 + Cardinality(before[i]) = k)
    BY <2>1
  <2> QED
    BY <1>8, <2>2
<1> HIDE DEF D
<1>10. SortedEncodings(lines) = [k \in D |-> CodingOf(os[CHOOSE i \in D : rank(i) = k].token)]
  BY <1>2, <1>3
<1>11. SortedEncodings(lines) = [k \in D |-> CodingOf(os[pos[k]].token)]
  BY <1>9, <1>10
<1> QED
  BY <1>3, <1>8, <1>11

\* c is the coding of the wanted offer that the order puts first.
BestOf(lines, Wanted, c) ==
    LET os     == Offers(lines)
        offers == {i \in DOMAIN os : CodingOf(os[i].token) \in Wanted}
        better(i, j) == \/ Quality(os[i]) > Quality(os[j])
                        \/ /\ Quality(os[i]) = Quality(os[j])
                           /\ Priority[CodingOf(os[i].token)] > Priority[CodingOf(os[j].token)]
    IN  IF offers = {} THEN c = NoCoding
        ELSE \E i \in offers : /\ c = CodingOf(os[i].token)
                               /\ \A j \in offers : ~better(j, i)

\* The first coding in sorted order that is wanted is the best one offered.
LEMMA FirstIsBest ==
    ASSUME NEW lines, Offers(lines) \in Seq(AnyOffer), NEW Wanted
    PROVE  BestOf(lines, Wanted, FirstOf(SortedEncodings(lines), Wanted))
<1> DEFINE os == Offers(lines)
           D == DOMAIN os
           sorted == SortedEncodings(lines)
           offers == {i \in D : CodingOf(os[i].token) \in Wanted}
           better(i, j) == \/ Quality(os[i]) > Quality(os[j])
                           \/ /\ Quality(os[i]) = Quality(os[j])
                              /\ Priority[CodingOf(os[i].token)] > Priority[CodingOf(os[j].token)]
           hits == {k \in D : sorted[k] \in Wanted}
           first == CHOOSE k \in hits : \A l \in hits : k <= l
           c == FirstOf(sorted, Wanted)
<1> SUFFICES IF offers = {} THEN c = NoCoding
             ELSE \E i \in offers : /\ c = CodingOf(os[i].token)
                                    /\ \A j \in offers : ~better(j, i)
  BY DEF BestOf
<1>0. os \in Seq(AnyOffer)
  OBVIOUS
<1>1. PICK pos \in [D -> D] :
            /\ sorted = [k \in D |-> CodingOf(os[pos[k]].token)]
            /\ \A i \in D : \E k \in D : pos[k] = i
            /\ \A k, l \in D : k < l => Before(os, pos[k], pos[l])
  BY EncodingsSorted
<1> HIDE DEF os, sorted
<1>2. D = 1 .. Len(os) /\ Len(os) \in Nat
  BY <1>0, LenProperties
<1>3. DOMAIN sorted = D /\ \A k \in D : pos[k] \in D /\ sorted[k] = CodingOf(os[pos[k]].token)
  BY <1>1
<1>4. c = IF hits = {} THEN NoCoding ELSE sorted[first]
  BY <1>3 DEF FirstOf
<1>5. \A i, j \in D : Before(os, i, j) => ~better(j, i)
  <2>1. \A i \in D : Quality(os[i]) \in Nat /\ Priority[CodingOf(os[i].token)] \in Nat
    BY <1>0, <1>2, ElementOfSeq, QualityType, CodingType
  <2> QED
    BY <2>1 DEF Before
<1>6. \A i \in D : ~better(i, i)
  <2>1. \A i \in D : Quality(os[i]) \in Nat /\ Priority[CodingOf(os[i].token)] \in Nat
    BY <1>0, <1>2, ElementOfSeq, QualityType, CodingType
  <2> QED
    BY <2>1
<1> HIDE DEF D, c, better
<1>7. CASE offers = {}
  <2>1. hits = {}
    BY <1>3, <1>7
  <2> QED
    BY <1>4, <1>7, <2>1
<1>8. CASE offers # {}
  <2>0. PICK i0 \in offers : TRUE
    BY <1>8
  <2>6. PICK k0 \in D : pos[k0] = i0
    BY <1>1, <2>0
  <2>1. hits # {}
    BY <1>3, <2>0, <2>6
  <2>2. \E k \in hits : \A l \in hits : k <= l
    BY <1>2, <2>1, LeastPosition
  <2>3. first \in hits /\ \A l \in hits : first <= l
    <3> HIDE DEF hits
    <3> QED
      BY <2>2
  <2>4. /\ c = CodingOf(os[pos[first]].token) /\ first \in D /\ pos[first] \in offers
    BY <1>3, <1>4, <2>1, <2>3
  <2> HIDE DEF first
  <2>5. ASSUME NEW j \in offers PROVE ~better(j, pos[first])
    <3>1. PICK k \in D : pos[k] = j
      BY <1>1
    <3>2. k \in hits
      BY <1>3, <3>1
    <3>3. k = first \/ first < k
      BY <1>2, <2>3, <2>4, <3>2
    <3> QED
      BY <1>1, <1>3, <1>5, <1>6, <2>4, <3>1, <3>3
  <2> QED
    BY <1>8, <2>4, <2>5
<1> QED
  BY <1>7, <1>8

-----------------------------------------------------------------------------
(* From the order of the code to the weights of the client.                *)

Compressions == {"deflate", "gzip", "br", "zstd"}

\* The quality of an offer is its weight as u16.
LEMMA QualityOfWeight ==
    ASSUME NEW o \in AnyOffer
    PROVE  Weight(o) \in Int /\ Quality(o) = ToU16(Weight(o))
<1> DEFINE numbers == {i \in DOMAIN o.qs : o.qs[i] # Unparsable}
           last == CHOOSE i \in numbers : \A j \in numbers : j <= i
           stated == {i \in DOMAIN o.qs :
                        /\ o.qs[i] # Unparsable
                        /\ \A j \in DOMAIN o.qs : i < j => o.qs[j] = Unparsable}
           one == CHOOSE i \in stated : TRUE
<1>1. o.qs \in Seq(Int \cup {Unparsable})
  BY HeadersAssumption, EmptySeq DEF AnyOffer
<1>2. DOMAIN o.qs = 1 .. Len(o.qs) /\ Len(o.qs) \in Nat
  BY <1>1, LenProperties
<1>3. Quality(o) = IF numbers = {} THEN 1000 ELSE ToU16(o.qs[last])
  BY DEF Quality
<1>4. Weight(o) = IF stated = {} THEN 1000 ELSE o.qs[one]
  BY DEF Weight
<1>5. CASE numbers = {}
  <2>1. stated = {}
    BY <1>5
  <2>2. ToU16(1000) = 1000
    BY NegotiationAssumption DEF ToU16, MaxU16
  <2> QED
    BY <1>3, <1>4, <1>5, <2>1, <2>2
<1>6. CASE numbers # {}
  <2>1. \E i \in numbers : \A j \in numbers : j <= i
    BY <1>2, <1>6, GreatestPosition
  <2>2. last \in numbers /\ \A j \in numbers : j <= last
    <3> HIDE DEF numbers
    <3> QED
      BY <2>1
  <2> HIDE DEF last
  <2>3. last \in 1 .. Len(o.qs) /\ o.qs[last] # Unparsable
    BY <1>2, <2>2
  <2>4. stated = {last}
    <3>1. last \in stated
      BY <1>2, <2>2, <2>3
    <3>2. ASSUME NEW i \in stated PROVE i = last
      <4>1. i \in numbers /\ i \in 1 .. Len(o.qs)
        BY <1>2
      <4>2. i <= last /\ ~(i < last)
        BY <1>2, <2>2, <2>3, <4>1
      <4> QED
        BY <1>2, <2>3, <4>1, <4>2
    <3> QED
      BY <3>1, <3>2
  <2>5. one = last
    <3> HIDE DEF stated
    <3> QED
      BY <2>4
  <2>6. o.qs[last] \in Int
    BY <1>1, <2>3, ElementOfSeq
  <2> QED
    BY <1>3, <1>4, <1>6, <2>4, <2>5, <2>6
<1> QED
  BY <1>5, <1>6

\* The conversion loses at most a thousandth, and never the difference between
\* a refusal and an offer.
LEMMA QualityTells ==
    ASSUME NEW v \in Int, NEW w \in Int, Outweighs(v, w) \/ (w <= 0 /\ ~(v <= 0))
    PROVE  ToU16(v) > ToU16(w)
<1> DEFINE cv == IF v \in Truncated THEN v - 1 ELSE v
           cw == IF w \in Truncated THEN w - 1 ELSE w
<1>1. /\ cv \in Int /\ cw \in Int /\ v - 1 <= cv /\ cv <= v /\ w - 1 <= cw /\ cw <= w
      /\ v > 0 => cv > 0
      /\ w <= 0 => cw <= 0
  BY NegotiationAssumption
<1>2. /\ ToU16(v) = IF cv < 0 THEN 0 ELSE IF cv > MaxU16 THEN MaxU16 ELSE cv
      /\ ToU16(w) = IF cw < 0 THEN 0 ELSE IF cw > MaxU16 THEN MaxU16 ELSE cw
  BY DEF ToU16
<1> HIDE DEF cv, cw
<1> QED
  BY <1>1, <1>2 DEF Outweighs, MaxU16

\* A token stands for a compression exactly if it is one of its spellings.
LEMMA CodingNamed ==
    ASSUME NEW token, NEW d \in Compressions
    PROVE  CodingOf(token) = d <=> token \in Spellings[d]
<1>1. \A c \in Codings : token \in Spellings[c] /\ token \in Spellings[d] => c = d
  BY DEF Codings, Spellings, Compressions
<1>2. d \in Codings /\ d # "identity"
  BY DEF Codings, Compressions
<1> QED
  BY <1>1, <1>2 DEF CodingOf

\* The priorities are the documented list.
LEMMA PriorityListed ==
    ASSUME NEW c \in Compressions, NEW d \in Compressions, ~(Priority[d] > Priority[c])
    PROVE  (CHOOSE k \in DOMAIN Listed : Listed[k] = c) <= (CHOOSE k \in DOMAIN Listed : Listed[k] = d)
<1>1. DOMAIN Listed = {1, 2, 3, 4}
  BY DEF Listed
<1>2. /\ Listed[1] = "zstd" /\ Listed[2] = "br" /\ Listed[3] = "gzip" /\ Listed[4] = "deflate"
  BY DEF Listed
<1> DEFINE rank(e) == CHOOSE k \in DOMAIN Listed : Listed[k] = e
<1>3. rank("zstd") = 1 /\ rank("br") = 2 /\ rank("gzip") = 3 /\ rank("deflate") = 4
  BY <1>1, <1>2
<1> HIDE DEF rank
<1>4. rank(c) <= rank(d)
  BY <1>3 DEF Compressions, Priority
<1> QED
  BY <1>4 DEF rank

\* The best offer in the order of the code honours the client's weights.
LEMMA FirstHonoured ==
    ASSUME NEW lines, Offers(lines) \in Seq(AnyOffer), NEW Wanted, Wanted \subseteq Compressions
    PROVE  Honoured(lines, Wanted, FirstOf(SortedEncodings(lines), Wanted))
<1> DEFINE os == Offers(lines)
           names(i, d) == d \in Wanted /\ os[i].token \in Spellings[d]
           asked  == {i \in DOMAIN os : \E d \in Wanted : names(i, d)}
           offers == {i \in DOMAIN os : CodingOf(os[i].token) \in Wanted}
           rank(d) == CHOOSE k \in DOMAIN Listed : Listed[k] = d
           better(i, j) == \/ Quality(os[i]) > Quality(os[j])
                           \/ /\ Quality(os[i]) = Quality(os[j])
                              /\ Priority[CodingOf(os[i].token)] > Priority[CodingOf(os[j].token)]
           c == FirstOf(SortedEncodings(lines), Wanted)
<1>0. os \in Seq(AnyOffer)
  OBVIOUS
<1>1. IF offers = {} THEN c = NoCoding
      ELSE \E i \in offers : /\ c = CodingOf(os[i].token)
                             /\ \A j \in offers : ~better(j, i)
  BY FirstIsBest DEF BestOf
<1> SUFFICES IF asked = {} THEN c = NoCoding
             ELSE \E i \in asked :
                    /\ names(i, c)
                    /\ \A j \in asked :
                          /\ ~Outweighs(Weight(os[j]), Weight(os[i]))
                          /\ Weight(os[i]) <= 0 => Weight(os[j]) <= 0
                          /\ Weight(os[i]) = Weight(os[j])
                               => \A d \in Wanted : names(j, d) => rank(c) <= rank(d)
  BY DEF Honoured
<1> HIDE DEF os, c
<1>2. \A i \in DOMAIN os, d \in Wanted : names(i, d) <=> CodingOf(os[i].token) = d
  BY CodingNamed
<1>3. asked = offers
  BY <1>2
<1>4. CASE offers = {}
  BY <1>1, <1>3, <1>4
<1>5. CASE offers # {}
  <2>1. PICK i \in offers : c = CodingOf(os[i].token) /\ \A j \in offers : ~better(j, i)
    BY <1>1, <1>5
  <2>2. names(i, c) /\ c \in Compressions
    BY <1>2, <2>1
  <2>3. ASSUME NEW j \in offers
        PROVE  /\ ~Outweighs(Weight(os[j]), Weight(os[i]))
               /\ Weight(os[i]) <= 0 => Weight(os[j]) <= 0
               /\ Weight(os[i]) = Weight(os[j])
                    => \A d \in Wanted : names(j, d) => rank(c) <= rank(d)
    <3>1. os[i] \in AnyOffer /\ os[j] \in AnyOffer
      BY <1>0, LenProperties, ElementOfSeq
    <3>2. /\ Weight(os[i]) \in Int /\ Quality(os[i]) = ToU16(Weight(os[i]))
          /\ Weight(os[j]) \in Int /\ Quality(os[j]) = ToU16(Weight(os[j]))
      BY <3>1, QualityOfWeight
    <3>3. ~(ToU16(Weight(os[j])) > ToU16(Weight(os[i])))
      BY <2>1, <3>2
    <3>4. ~Outweighs(Weight(os[j]), Weight(os[i])) /\ (Weight(os[i]) <= 0 => Weight(os[j]) <= 0)
      BY <3>2, <3>3, QualityTells
    <3>5. ASSUME Weight(os[i]) = Weight(os[j]), NEW d \in Wanted, names(j, d)
          PROVE  rank(c) <= rank(d)
      <4>1. d = CodingOf(os[j].token) /\ d \in Compressions
        BY <1>2, <3>5
      <4>2. ~(Priority[d] > Priority[c])
        BY <2>1, <3>2, <3>5, <4>1
      <4> QED
        BY <2>2, <4>1, <4>2, PriorityListed
    <3> QED
      BY <3>4, <3>5
  <2> QED
    BY <1>3, <1>5, <2>1, <2>2, <2>3
<1> QED
  BY <1>4, <1>5

\* The joined field lines of a header are a list of offers.
LEMMA HeaderOffers ==
    ASSUME NEW lines \in Headers
    PROVE  Offers(lines) \in Seq(AnyOffer)
<1>1. Offer \subseteq AnyOffer /\ Plainly \subseteq AnyOffer
  BY DEF Offer, Plainly, AnyOffer
<1>2. \A x, y \in AnyOffer : <<x>> \in Seq(AnyOffer) /\ <<x, y>> \in Seq(AnyOffer)
  OBVIOUS
<1>3. \A x, y \in Seq(AnyOffer) :
         <<x>> \in Seq(Seq(AnyOffer)) /\ <<x, y>> \in Seq(Seq(AnyOffer))
  OBVIOUS
<1>4. <<>> \in Seq(Seq(AnyOffer))
  OBVIOUS
<1>5. [1 .. MaxOffers -> Plainly] \subseteq Seq(AnyOffer)
  BY <1>1, HeadersAssumption
<1>6. lines \in Seq(Seq(AnyOffer))
  <2>1. CASE lines \in {<<>>} \cup {<<<<x>>>> : x \in Offer}
    BY <1>1, <1>2, <1>3, <1>4, <2>1
  <2>2. CASE \/ lines \in {<<<<x, y>>>> : x \in Offer, y \in Offer}
             \/ lines \in {<<<<x>>, <<y>>>> : x \in Offer, y \in Offer}
    <3>1. PICK x \in Offer, y \in Offer : lines = <<<<x, y>>>> \/ lines = <<<<x>>, <<y>>>>
      BY <2>2
    <3>2. x \in AnyOffer /\ y \in AnyOffer
      BY <1>1
    <3>3. <<x>> \in Seq(AnyOffer) /\ <<y>> \in Seq(AnyOffer) /\ <<x, y>> \in Seq(AnyOffer)
      BY <1>2, <3>2
    <3> QED
      BY <1>3, <3>1, <3>3
  <2>3. CASE lines \in {<<s>> : s \in [1 .. MaxOffers -> Plainly]}
    BY <1>3, <1>5, <2>3
  <2> QED
    BY <2>1, <2>2, <2>3 DEF Headers
<1> QED
  BY <1>6, FlattenType DEF Offers

\* The answer to a question about an encoding, once given, is the codings chosen.
CodingInv ==
    question.ask = "encoding" =>
        /\ question.lines \in Headers
        /\ answer # Absent =>
              /\ answer.preferred = GetPreferredEncoding(question.lines)
              /\ answer.variant = PrecompressedVariant(question.lines, question.sibling)

\* The codings are computed in one step from a question that never changes.
LEMMA CodingInvariant == Spec => []CodingInv
<1>1. Init => CodingInv
  BY DEF Init, CodingInv, RangeQuestions, EncodingQuestions
<1>2. CodingInv /\ [Next]_vars => CodingInv'
  BY DEF CodingInv, Next, AnswerRange, AnswerEncoding, vars
<1> QED
  BY <1>1, <1>2, PTL DEF Spec

\* get_preferred_encoding honours the exact weights of every header up to the
\* thousandth that f32 may cost, whichever weights it cuts short, and the
\* documented list among equals; a refused coding comes after every other.
THEOREM PreferredChosen == Spec => []CompressedAsPreferred
<1>1. Available \subseteq Compressions
  BY NegotiationAssumption DEF Compressions
<1>2. CodingInv => CompressedAsPreferred
  BY <1>1, HeaderOffers, FirstHonoured
     DEF CodingInv, CompressedAsPreferred, Answered, GetPreferredEncoding
<1> QED
  BY <1>2, CodingInvariant, PTL

\* precompressed_variant does the same among the codings that have a file on disk,
\* for every header and whatever has the names of the variants.
THEOREM VariantChosen == Spec => []VariantAsPreferred
<1>1. DOMAIN ExtensionOf = Compressions
  BY DEF ExtensionOf, Compressions
<1>2. CodingInv => VariantAsPreferred
  BY <1>1, HeaderOffers, FirstHonoured
     DEF CodingInv, VariantAsPreferred, Answered, PrecompressedVariant
<1> QED
  BY <1>2, CodingInvariant, PTL
=============================================================================
