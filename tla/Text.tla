--------------------------------- MODULE Text ---------------------------------
(***************************************************************************)
(* The string helpers of src/src/str/: searching, trimming, numbers and    *)
(* endpoints.  A text is a sequence of symbols: a delimiter, a digit, or a *)
(* word that no helper looks into.  An optional value is a sequence of     *)
(* length 0 or 1.                                                          *)
(***************************************************************************)
EXTENDS Integers, SequencesExt

CONSTANTS
    Addresses,  \* texts that make_address accepts
    Spellings,  \* a word |-> the words that are equal to it but for case
    WordBits,   \* 64, the bits of uint64_t
    PortBits    \* 16, the bits of uint16_t

Power(b, n) ==
    LET p[i \in 0 .. n] == IF i = 0 THEN 1 ELSE b * p[i - 1] IN p[n]

WordSize == Power(2, WordBits)      \* the modulus of uint64_t
MaxPort  == Power(2, PortBits) - 1  \* the maximum of uint16_t

(* A word has room for a numeral of as many digits as a port has bits.     *)
ASSUME TextAssumption ==
    /\ WordBits \in Nat \ {0} /\ PortBits \in Nat \ {0}
    /\ 9 * Power(10, PortBits - 1) + MaxPort < WordSize
    /\ \A word \in DOMAIN Spellings : Spellings[word] \cap {":", " ", "\n"} = {}

(* The offset of the first occurrence of token at or after from.           *)
NotFound == -1

Find(text, from, token) ==
    LET at == {i \in from .. Len(text) - Len(token) :
                   SubSeq(text, i + 1, i + Len(token)) = token}
    IN  IF at = {} THEN NotFound ELSE Min(at)

(* consume_until: what is before the token, and what is left after it.     *)
Has(text, token)    == Find(text, 0, token) # NotFound
Before(text, token) == SubSeq(text, 1, Find(text, 0, token))
After(text, token)  == SubSeq(text, Find(text, 0, token) + Len(token) + 1, Len(text))

(* boost::iequals of a text and a word.                                    *)
IEquals(text, word) == Len(text) = 1 /\ text[1] \in Spellings[word]

TrimPrefix(text) == SubSeq(text, SelectInSeq(text \o <<"">>, LAMBDA c : c # " "), Len(text))
TrimSuffix(text) == SubSeq(text, 1, SelectLastInSeq(text, LAMBDA c : c # " "))
Trim(text)       == TrimSuffix(TrimPrefix(text))

-----------------------------------------------------------------------------

Digits   == <<"0", "1", "2", "3", "4", "5", "6", "7", "8", "9">>
Digit(c) == SelectInSeq(Digits, LAMBDA d : d = c) - 1

(* The digits that a text begins with.                                     *)
Numeral(text) ==
    SubSeq(text, 1, SelectInSeq(text \o <<"">>, LAMBDA c : c \notin ToSet(Digits)) - 1)

(* Mutated ConsumeNumber: the limit is looked at when the loop is over, in *)
(* a result that has been cast to uint16_t.                                *)
ConsumeAndCast(text, limit) ==
    LET value == FoldLeft(LAMBDA r, c : (10 * r + Digit(c)) % (MaxPort + 1), 0, Numeral(text))
    IN  IF Numeral(text) = <<>> \/ value > limit THEN <<>> ELSE <<value>>

(* consume_number: the digits are added from the last to the first, in     *)
(* uint64_t, and the limit is looked at after each.                        *)
ConsumeNumber(text, limit) ==
    LET n == Len(Numeral(text))
        m[i \in 0 .. n] == IF i = 0 THEN 1 ELSE (m[i - 1] * 10) % WordSize
        r[i \in 0 .. n] ==
            IF i = 0 THEN 0 ELSE (r[i - 1] + m[i - 1] * Digit(text[n - i + 1])) % WordSize
    IN  IF n = 0 \/ \E i \in 1 .. n : r[i] > limit THEN <<>> ELSE <<r[n]>>

ParseAddress(text) == IF text \in Addresses THEN <<text>> ELSE <<>>

(* Mutated ConsumeEndpoint: an address alone is the endpoint at port 1.    *)
EndpointOrDefault(text) ==
    IF ParseAddress(text) # <<>> THEN <<<<text, 1>>>>
    ELSE LET colon   == SelectLastInSeq(text, LAMBDA c : c = ":")
             address == ParseAddress(SubSeq(text, 1, colon - 1))
             port    == ConsumeNumber(SubSeq(text, colon + 1, Len(text)), MaxPort)
         IN  IF address = <<>> \/ port = <<>> THEN <<>> ELSE <<<<address[1], port[1]>>>>

(* consume_endpoint: what follows the digits of the port is ignored.       *)
ConsumeEndpoint(text) ==
    LET colon   == SelectLastInSeq(text, LAMBDA c : c = ":")
        address == ParseAddress(SubSeq(text, 1, colon - 1))
        port    == ConsumeNumber(SubSeq(text, colon + 1, Len(text)), MaxPort)
    IN  IF colon = 0 \/ address = <<>> \/ port = <<>> THEN <<>>
        ELSE <<<<address[1], port[1]>>>>
=============================================================================
