---------------------------- MODULE Negotiation ----------------------------
(***************************************************************************)
(* Which content coding an Accept-Encoding header asks for: the quality    *)
(* values (src/headers_ext/quality_value.rs), the codings and their        *)
(* priorities (content_coding.rs), the coding a response is compressed     *)
(* with on the fly (get_preferred_encoding, src/compression.rs) and the    *)
(* pre-compressed file that is sent instead of the original                *)
(* (precompressed_variant, src/compression_static.rs).  Pure operators.    *)
(*                                                                         *)
(* An offer is one item between commas: a token and the values of its q    *)
(* parameters, in thousandths (anything finer cut off) or Unparsable.      *)
(***************************************************************************)
EXTENDS Integers, FiniteSets, SequencesExt

CONSTANTS Available,    \* the codings this build can compress with
          Unparsable,   \* a q parameter that is not a number
          Truncated,    \* the weights whose product with 1000 falls short in f32
          NoCoding      \* nothing chosen

ASSUME NegotiationAssumption ==
    /\ Available \subseteq {"deflate", "gzip", "br", "zstd"}
    /\ Unparsable \notin Int
    /\ Truncated \subseteq Nat \ {0, 1, 1000}
    /\ NoCoding \notin STRING

MaxU16 == 65535

Codings == {"identity", "compress", "deflate", "gzip", "br", "zstd"}

\* ContentCoding::from: the name of the constructor or of the coding, in this
\* case; whatever else, "*" included, is the identity.
Spellings == [identity |-> {"IDENTITY", "identity"}, compress |-> {"COMPRESS", "compress"},
              deflate  |-> {"DEFLATE", "deflate"},   gzip     |-> {"GZIP", "gzip"},
              br       |-> {"BROTLI", "br"},         zstd     |-> {"ZSTD", "zstd"}]

CodingOf(token) ==
    IF \E c \in Codings : token \in Spellings[c]
    THEN CHOOSE c \in Codings : token \in Spellings[c]
    ELSE "identity"

\* ContentCoding::priority
Priority == [identity |-> 1, compress |-> 2, deflate |-> 3, gzip |-> 4, br |-> 5, zstd |-> 6]

\* Mutant: the conversion keeps the low bits.
ToU16Wraps(q) == (IF q \in Truncated THEN q - 1 ELSE q) % (MaxU16 + 1)

\* (parsed * 1000_f32) as u16: the product may fall just short of the integer,
\* 0.502 * 1000 of 502, and the conversion cuts off the fraction and saturates.
ToU16(q) ==
    LET cut == IF q \in Truncated THEN q - 1 ELSE q
    IN  IF cut < 0 THEN 0 ELSE IF cut > MaxU16 THEN MaxU16 ELSE cut

\* QualityMeta::try_from: the last q that is a number, 1 without any.
Quality(offer) ==
    LET numbers == {i \in DOMAIN offer.qs : offer.qs[i] # Unparsable}
    IN  IF numbers = {} THEN 1000
        ELSE ToU16(offer.qs[CHOOSE i \in numbers : \A j \in numbers : j <= i])

\* QualityValue::try_from_values: the field lines of a header, joined.
Offers(lines) == FlattenSeq(lines)

\* Offer i comes before offer j in the stable sort of QualityValue::iter: by
\* quality, then by priority, the larger first.
Before(os, i, j) ==
    LET p(k) == Priority[CodingOf(os[k].token)] IN
    \/ Quality(os[i]) > Quality(os[j])
    \/ Quality(os[i]) = Quality(os[j]) /\ p(i) > p(j)
    \/ Quality(os[i]) = Quality(os[j]) /\ p(i) = p(j) /\ i < j

\* AcceptEncoding::sorted_encodings
SortedEncodings(lines) ==
    LET os      == Offers(lines)
        rank(i) == 1 + Cardinality({j \in DOMAIN os : Before(os, j, i)})
    IN  [k \in DOMAIN os |-> CodingOf(os[CHOOSE i \in DOMAIN os : rank(i) = k].token)]

\* The first of some codings that is wanted.
FirstOf(codings, Wanted) ==
    LET hits == {k \in DOMAIN codings : codings[k] \in Wanted}
    IN  IF hits = {} THEN NoCoding
        ELSE codings[CHOOSE k \in hits : \A l \in hits : k <= l]

\* get_preferred_encoding: the first of get_encodings, which are the codings of
\* the header that the build supports.
GetPreferredEncoding(lines) == FirstOf(SortedEncodings(lines), Available)

-----------------------------------------------------------------------------
\* The extension of the file that holds a coding; deflate shares that of gzip.
Extensions == {"gz", "br", "zst"}

ExtensionOf == [gzip |-> "gz", deflate |-> "gz", br |-> "br", zstd |-> "zst"]

\* Mutant: the search ends at the most preferred coding.
PrecompressedVariantOfFirst(lines, sibling) ==
    LET sorted    == SortedEncodings(lines)
        usable(c) == c \in DOMAIN ExtensionOf /\ sibling[ExtensionOf[c]] = "file"
    IN  IF sorted # <<>> /\ usable(sorted[1]) THEN sorted[1] ELSE NoCoding

\* precompressed_variant: the first coding with a file next to the original;
\* sibling[e] is what has the original's name followed by the extension e.
PrecompressedVariant(lines, sibling) ==
    FirstOf(SortedEncodings(lines),
            {c \in DOMAIN ExtensionOf : sibling[ExtensionOf[c]] = "file"})

-----------------------------------------------------------------------------
(* Reference definitions, apart from those above.                          *)

\* The weight an offer states, exactly: of several the last number counts.
Weight(offer) ==
    LET stated == {i \in DOMAIN offer.qs :
                      /\ offer.qs[i] # Unparsable
                      /\ \A j \in DOMAIN offer.qs : i < j => offer.qs[j] = Unparsable}
    IN  IF stated = {} THEN 1000 ELSE offer.qs[CHOOSE i \in stated : TRUE]

\* "the internal priority will be selected according to this list"
\* (docs/content/features/compression.md)
Listed == <<"zstd", "br", "gzip", "deflate">>

\* A larger weight by more than the thousandth that the rounding may cost, as
\* far as a u16 can tell.
Outweighs(v, w) == v > w + 1 /\ v > 0 /\ w < MaxU16

\* c is a coding the client asks for among Wanted: no wanted offer outweighs it,
\* it is first in the list of those with the same weight, and one refused with
\* q=0 only if all of them are.  There is none only if none was offered.
Honoured(lines, Wanted, c) ==
    LET os     == Offers(lines)
        names(i, d) == d \in Wanted /\ os[i].token \in Spellings[d]
        offers == {i \in DOMAIN os : \E d \in Wanted : names(i, d)}
        rank(d) == CHOOSE k \in DOMAIN Listed : Listed[k] = d
    IN  IF offers = {} THEN c = NoCoding
        ELSE \E i \in offers :
               /\ names(i, c)
               /\ \A j \in offers :
                     /\ ~Outweighs(Weight(os[j]), Weight(os[i]))
                     /\ Weight(os[i]) <= 0 => Weight(os[j]) <= 0
                     /\ Weight(os[i]) = Weight(os[j])
                          => \A d \in Wanted : names(j, d) => rank(c) <= rank(d)
=============================================================================
