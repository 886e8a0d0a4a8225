----------------------------- MODULE MCHeaders -----------------------------
(* Questions to the pure operators of ByteRange and Negotiation, answered:  *)
(* every range header over every file length of a small word, and every     *)
(* short Accept-Encoding header over every set of pre-compressed files.     *)
EXTENDS ByteRange, Negotiation

CONSTANTS MaxLen,      \* bound: longest file
          Tokens,      \* tokens of an Accept-Encoding header
          Weights,     \* lists of q parameters
          MaxOffers    \* bound: offers in a field line without q parameters

ASSUME HeadersAssumption ==
    /\ MaxLen \in U64 /\ MaxOffers \in Nat
    /\ Weights \subseteq Seq(Int \cup {Unparsable})

\* No weight, a refusal, three neighbours of which the second is rounded to the
\* first, one below zero and two beyond the width of u16, one that is overridden
\* and one that is not a number.
MCWeights == {<<>>, <<0>>, <<501>>, <<502>>, <<503>>, <<-1>>, <<70000>>, <<80000>>,
              <<501, 1000>>, <<502, Unparsable>>}

VARIABLES question, answer

vars == <<question, answer>>

Ranges == {RangeSpec(k, 0, 0) : k \in {"none", "all", "malformed"}}
            \cup {RangeSpec("span", a, b) : a \in U64, b \in U64}
            \cup {RangeSpec(k, a, a) : k \in {"from", "suffix"}, a \in U64}

RangeQuestions == [ask : {"range"}, range : Ranges, len : 0 .. MaxLen]

Offer == [token : Tokens, qs : Weights]
Plainly == [token : Tokens, qs : {<<>>}]

\* One line of two offers, two lines of one, or a longer line without weights.
Headers == {<<>>} \cup {<<<<x>>>> : x \in Offer}
             \cup {<<<<x, y>>>> : x \in Offer, y \in Offer}
             \cup {<<<<x>>, <<y>>>> : x \in Offer, y \in Offer}
             \cup {<<s>> : s \in [1 .. MaxOffers -> Plainly]}

EncodingQuestions ==
    [ask : {"encoding"}, lines : Headers, sibling : [Extensions -> {"none", "file", "dir"}]]

Init == question \in RangeQuestions \cup EncodingQuestions /\ answer = Absent

AnswerRange ==
    /\ answer = Absent /\ question.ask = "range"
    /\ answer' = BytesRange(question.range, question.len)
    /\ UNCHANGED question

AnswerEncoding ==
    /\ answer = Absent /\ question.ask = "encoding"
    /\ answer' = [preferred |-> GetPreferredEncoding(question.lines),
                  variant   |-> PrecompressedVariant(question.lines, question.sibling)]
    /\ UNCHANGED question

Next == AnswerRange \/ AnswerEncoding

Spec == Init /\ [][Next]_vars

-----------------------------------------------------------------------------
Answered(ask) == answer # Absent /\ question.ask = ask

\* What bytes_range returns lies within the file and is, byte for byte, what
\* the header asks for of it.
RangeExact ==
    Answered("range") /\ answer.ok =>
        /\ 0 <= answer.start /\ answer.start <= answer.end /\ answer.end <= question.len
        /\ answer.start .. answer.end - 1 = Requested(question.range, question.len)

\* A range with at least one byte of the file in it is not refused, as long
\* as its last offset is not the largest u64.
RangeHonoured ==
    Answered("range") /\ question.range.b < Word - 1
        /\ Requested(question.range, question.len) # {} => answer.ok

\* The coding a response is compressed with is supported and offered, no supported
\* offer states a weight more than a thousandth larger, of equal weights the first
\* in the documented list is taken, and a coding refused with q=0 is used only if
\* all supported ones are refused; however the offers are ordered and spread over
\* field lines, and with weights below 0, above the u16 or cut short in f32.  A
\* response is compressed whenever a supported coding was offered (even by q=0,
\* against the meaning of Accept-Encoding).
CompressedAsPreferred ==
    Answered("encoding") => Honoured(question.lines, Available, answer.preferred)

\* The same of the pre-compressed file that is sent, among those on disk: a
\* better liked coding that is not there does not hide it, nor does a directory
\* of that name.
VariantAsPreferred ==
    Answered("encoding") =>
        Honoured(question.lines,
                 {c \in DOMAIN ExtensionOf : question.sibling[ExtensionOf[c]] = "file"},
                 answer.variant)
=============================================================================
