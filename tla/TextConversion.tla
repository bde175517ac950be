--------------------------- MODULE TextConversion ---------------------------
(***************************************************************************)
(* chars.cpp and decimal_scan.hpp: reading decimal text into a fixed-point *)
(* value and writing one.  Reading scans the whole text first, counts the  *)
(* digits that remain at the type's scale, and then goes over the mantissa *)
(* digit by digit, by one of two paths: where the digits are sure to fit a *)
(* word nothing is checked on the way, elsewhere every digit is.           *)
(* A character below DigitBase is a digit; see ExactText for the others.   *)
(***************************************************************************)
EXTENDS Integers, SequencesExt

CONSTANTS
  WordBits,                \* bits of std::uint64_t
  DigitBase, Texts, MaxText, Types, Capacities,   \* see ExactText
  IntegerTexts, IntegerTypes,
  Slack,                   \* exponents saturate this far beyond the text: 256
  FastDigits,              \* digits that always fit a word: 19
  DigitTable,              \* digits of a type by its bits: 39 for 128, 78 for 256
  Chunk                    \* digits integer_digits writes at a time: 19 or 18

ASSUME WordAssumption ==
  /\ WordBits \in Nat \ {0} /\ DigitBase \in Nat /\ DigitBase >= 4 /\ DigitBase % 2 = 0
  /\ FastDigits \in Nat /\ DigitBase ^ FastDigits <= 2 ^ WordBits
ASSUME TextsAssumption == \A t \in Texts : t \in Seq(Nat)
ASSUME TypesAssumption == \A t \in Types : t.bits \in Nat \ {0} /\ t.decimals \in Nat
ASSUME TableAssumption ==  \* no type has more digits than its entry
  \A t \in Types : 2 ^ (t.bits - 1) < DigitBase ^ DigitTable[t.bits]
ASSUME TextPowersAssumption == \* what defines a power, for the exponents used
  /\ DigitBase ^ 0 = 1
  /\ \A k \in 0 .. FastDigits - 1 : DigitBase ^ (k + 1) = DigitBase * DigitBase ^ k
  /\ 2 ^ 0 = 1 /\ \A k \in 0 .. WordBits - 1 : 2 ^ (k + 1) = 2 * 2 ^ k
  /\ \A t \in Types : \A k \in 0 .. t.bits - 1 : 2 ^ (k + 1) = 2 * 2 ^ k

VARIABLES
  textRequest, textAnswer, \* the call and its result
  textStage,               \* "idle", "begin", "digits", "pad", "round", "answered"
  scan,                    \* DecimalScan
  keep,                    \* digits of the result, before rounding
  pos, index,              \* character and significant digit the loop is at
  accumulator,             \* the value read so far
  first, discarded, tail_nonzero   \* first_discarded, discarded_nonzero, tail_nonzero

loop == <<pos, index, accumulator, first, discarded, tail_nonzero>>
textVars == <<textRequest, textAnswer, textStage, scan, keep, loop>>

ET == INSTANCE ExactText WITH
  Radix <- DigitBase, request <- textRequest, answer <- textAnswer
RT == INSTANCE Rounding WITH M <- 2 ^ 30

bits == textRequest.type.bits
decimals == textRequest.type.decimals
text == textRequest.text
Character(c) == c \in ET!Digit

\* An ill-formed text leaves ok FALSE; the other fields are then void.
NoScan ==
  [ok |-> FALSE, negative |-> FALSE, significant |-> 0, fractional |-> 0,
   exponent |-> 0, mantissa |-> <<>>, plain |-> FALSE]

TextInit ==
  /\ textRequest = ET!NoRequest /\ textAnswer = ET!NoAnswer
  /\ textStage = "idle" /\ scan = NoScan /\ keep = 0
  /\ pos = 0 /\ index = 0 /\ accumulator = 0
  /\ first = 0 /\ discarded = FALSE /\ tail_nonzero = FALSE

CallText ==
  /\ textStage = "idle"
  /\ \/ textRequest' \in ET!Parses
     \/ \E type \in Types : textRequest' \in ET!Formats(type)
  /\ textStage' = "begin"
  /\ UNCHANGED <<textAnswer, scan, keep, loop>>

LoopFrom(p) ==
  /\ pos' = p /\ index' = 0 /\ accumulator' = 0
  /\ first' = 0 /\ discarded' = FALSE /\ tail_nonzero' = FALSE

Replied(error, v, t) ==
  /\ textStage' = "answered"
  /\ textAnswer' = ET!Answer(error, v, t)

Refused(error) ==
  /\ Replied(error, 0, <<>>)
  /\ UNCHANGED <<textRequest, scan, keep, loop>>

-----------------------------------------------------------------------------
(* scan_decimal.                                                           *)

Body == IF text[1] \in {ET!Minus, ET!Plus} THEN Tail(text) ELSE text

\* The mantissa loop breaks at the exponent; whatever else it cannot take is
\* an error, a second point among it.
MantissaEnd(u) ==
  IF ET!Exp \in Range(u) THEN SelectInSeq(u, LAMBDA c : c = ET!Exp) - 1 ELSE Len(u)
WellFormed(m) ==
  /\ \A i \in DOMAIN m : Character(m[i]) \/ m[i] = ET!Dot
  /\ \A i, j \in DOMAIN m : m[i] = ET!Dot /\ m[j] = ET!Dot => i = j
  /\ \E i \in DOMAIN m : Character(m[i])

Digits(m) == SelectSeq(m, Character)
Significant(m) ==
  LET d == Digits(m)
      leading == SelectInSeq(d, LAMBDA c : c # 0)
  IN IF leading = 0 THEN 0 ELSE Len(d) - leading + 1
Fractional(m) ==
  IF ET!Dot \in Range(m) THEN Len(m) - SelectInSeq(m, LAMBDA c : c = ET!Dot) ELSE 0

Saturated(cap, x, digit) ==
  IF x > (cap - digit) \div DigitBase THEN cap ELSE x * DigitBase + digit

Scanned ==
  LET u == Body
      end == MantissaEnd(u)
      m == SubSeq(u, 1, end)
      written == SubSeq(u, end + 2, Len(u))
      signed == written # <<>> /\ written[1] \in {ET!Minus, ET!Plus}
      x == IF signed THEN Tail(written) ELSE written
      size == FoldLeft(LAMBDA v, c : Saturated(Len(u) + Slack, v, c), 0, x)
  IN [ok |-> /\ WellFormed(m)
             /\ end < Len(u) => x # <<>> /\ \A i \in DOMAIN x : Character(x[i]),
      negative |-> text[1] = ET!Minus,
      significant |-> Significant(m),
      fractional |-> Fractional(m),
      exponent |-> IF signed /\ written[1] = ET!Minus THEN -size ELSE size,
      mantissa |-> m,
      plain |-> end = Len(u)]

-----------------------------------------------------------------------------
(* parse_fixed_kernel.                                                     *)

Parsing == textStage = "begin" /\ textRequest.op = "parse"

RejectEmpty == Parsing /\ text = <<>> /\ Refused("empty")

RejectInvalid ==
  /\ Parsing /\ text # <<>>
  /\ Len(text) > MaxText \/ Body = <<>> \/ ~Scanned.ok
  /\ Refused("invalid")

Readable ==
  /\ Parsing /\ text # <<>> /\ Len(text) <= MaxText /\ Body # <<>>
  /\ Scanned.ok

ReadZero ==
  /\ Readable /\ Scanned.significant = 0
  /\ Replied("none", 0, <<>>)
  /\ UNCHANGED <<textRequest, scan, keep, loop>>

TypeLimit(negative) == 2 ^ (bits - 1) - 1 + RT!Indicator(negative)

\* max_digits_for_bits: an entry beyond the digits of the largest magnitude, as
\* 256 bits have it, leaves the overflow to the loop.
MaxDigits == DigitTable[bits]

Keep(s) == s.significant + decimals + s.exponent - s.fractional

RejectLong ==
  /\ Readable /\ Scanned.significant # 0
  /\ Keep(Scanned) > MaxDigits
  /\ Refused("overflow")

Start ==
  /\ Readable /\ Scanned.significant # 0
  /\ Keep(Scanned) <= MaxDigits
  /\ scan' = Scanned /\ keep' = Keep(Scanned)
  /\ textStage' = "digits"
  /\ LoopFrom(1)
  /\ UNCHANGED <<textRequest, textAnswer>>

\* Mutant: a digit more than surely fits the word.
FastLonger == bits <= 2 * WordBits /\ scan.plain /\ keep \in 0 .. FastDigits + 1

Fast == bits <= 2 * WordBits /\ scan.plain /\ keep \in 0 .. FastDigits

Cutoff == TypeLimit(scan.negative) \div DigitBase
LastDigit == TypeLimit(scan.negative) % DigitBase
Current == scan.mantissa[pos]
AtDigit == textStage = "digits" /\ pos <= Len(scan.mantissa)
Skipped == Current = ET!Dot \/ (index = 0 /\ Current = 0)

SkipCharacter ==
  /\ AtDigit /\ Skipped
  /\ pos' = pos + 1
  /\ UNCHANGED <<textRequest, textAnswer, textStage, scan, keep,
                 index, accumulator, first, discarded, tail_nonzero>>

NoRoom ==
  ~Fast /\ (accumulator > Cutoff \/ (accumulator = Cutoff /\ Current > LastDigit))

TakeDigit ==
  /\ AtDigit /\ ~Skipped /\ index < keep /\ ~NoRoom
  /\ accumulator' = accumulator * DigitBase + Current
  /\ pos' = pos + 1 /\ index' = index + 1
  /\ UNCHANGED <<textRequest, textAnswer, textStage, scan, keep,
                 first, discarded, tail_nonzero>>

DigitOverflows ==
  /\ AtDigit /\ ~Skipped /\ index < keep /\ NoRoom
  /\ Refused("overflow")

\* Mutant: the digits behind the first dropped one are forgotten.
DropDigitOnce ==
  /\ AtDigit /\ ~Skipped /\ index >= keep
  /\ discarded' = (discarded \/ Current # 0)
  /\ first' = IF index = keep THEN Current ELSE first
  /\ tail_nonzero' = tail_nonzero
  /\ pos' = pos + 1 /\ index' = index + 1
  /\ UNCHANGED <<textRequest, textAnswer, textStage, scan, keep, accumulator>>

DropDigit ==
  /\ AtDigit /\ ~Skipped /\ index >= keep
  /\ discarded' = (discarded \/ Current # 0)
  /\ first' = IF index = keep THEN Current ELSE first
  /\ tail_nonzero' = (tail_nonzero \/ (index # keep /\ Current # 0))
  /\ pos' = pos + 1 /\ index' = index + 1
  /\ UNCHANGED <<textRequest, textAnswer, textStage, scan, keep, accumulator>>

MantissaRead ==
  /\ textStage = "digits" /\ pos > Len(scan.mantissa)
  /\ textStage' = IF index < keep THEN "pad" ELSE "round"
  /\ UNCHANGED <<textRequest, textAnswer, scan, keep, loop>>

\* Zeros up to the scale: one multiplication on the fast path.
PadFast ==
  /\ textStage = "pad" /\ Fast
  /\ accumulator' = accumulator * DigitBase ^ (keep - index)
  /\ textStage' = "round"
  /\ UNCHANGED <<textRequest, textAnswer, scan, keep, pos, index,
                 first, discarded, tail_nonzero>>

Pad ==
  /\ textStage = "pad" /\ ~Fast /\ accumulator <= Cutoff
  /\ accumulator' = accumulator * DigitBase
  /\ index' = index + 1
  /\ textStage' = IF index + 1 < keep THEN "pad" ELSE "round"
  /\ UNCHANGED <<textRequest, textAnswer, scan, keep, pos,
                 first, discarded, tail_nonzero>>

PadOverflows ==
  /\ textStage = "pad" /\ ~Fast /\ accumulator > Cutoff
  /\ Refused("overflow")

\* The dropped digits as a remainder over DigitBase: nothing, less than a half, a
\* half or more.
Remainder ==
  LET half == DigitBase \div 2
  IN IF ~discarded THEN 0
     ELSE IF keep < 0 \/ first < half THEN 1
     ELSE IF first > half \/ tail_nonzero THEN half + 1
     ELSE half

Round ==
  /\ textStage = "round"
  /\ LET r == RT!RoundMagnitude(accumulator, Remainder, DigitBase, scan.negative,
                               textRequest.rounding, TypeLimit(scan.negative))
     IN Replied(IF r.error = "inexact" THEN "too_precise" ELSE r.error,
                IF scan.negative THEN -r.value ELSE r.value, <<>>)
  /\ UNCHANGED <<textRequest, scan, keep, loop>>

-----------------------------------------------------------------------------
(* format_fixed_kernel and integer_digits.                                 *)

Formatting == textStage = "begin" /\ textRequest.op = "format"
shown == ET!Shown(textRequest)
reduce == decimals - shown
Unbounded == 2 ^ 30        \* the limit is the largest word, which none exceeds
Narrowed ==
  RT!RoundMagnitude(RT!Magnitude(textRequest.raw) \div DigitBase ^ reduce,
                   RT!Magnitude(textRequest.raw) % DigitBase ^ reduce, DigitBase ^ reduce,
                   textRequest.raw < 0, textRequest.rounding, Unbounded)

\* std::to_chars of a word.
WordDigits(m) ==
  LET count == CHOOSE k \in 1 .. 30 :
                 m < DigitBase ^ k /\ (k = 1 \/ m >= DigitBase ^ (k - 1))
  IN [i \in 1 .. count |-> (m \div DigitBase ^ (count - i)) % DigitBase]
Zeros(k) == [i \in 1 .. k |-> 0]
Padded(d) == Zeros(Chunk - Len(d)) \o d

\* Chunks are appended from the right; all but the leading one are padded.
Chunks[m \in Nat] ==
  IF m < DigitBase ^ Chunk THEN WordDigits(m)
  ELSE Chunks[m \div DigitBase ^ Chunk] \o Padded(WordDigits(m % DigitBase ^ Chunk))

IntegerDigits(m) == IF m < 2 ^ WordBits THEN WordDigits(m) ELSE Chunks[m]

Layout(digits) ==
  LET whole == Len(digits) - shown
      point == IF shown > 0 THEN <<ET!Dot>> ELSE <<>>
  IN IF whole > 0
       THEN SubSeq(digits, 1, whole) \o point \o SubSeq(digits, whole + 1, Len(digits))
       ELSE <<0>> \o (IF shown > 0 THEN point \o Zeros(-whole) \o digits ELSE <<>>)

\* The trailing zeros go, and then the point if it is the last.
Trimmed(t) ==
  LET last == CHOOSE k \in 1 .. Len(t) :
                t[k] # 0 /\ \A i \in k + 1 .. Len(t) : t[i] = 0
  IN SubSeq(t, 1, IF t[last] = ET!Dot THEN last - 1 ELSE last)

Written(m) ==
  LET t == Layout(IntegerDigits(m))
  IN (IF textRequest.raw < 0 /\ m # 0 THEN <<ET!Minus>> ELSE <<>>)
       \o (IF textRequest.options.trim /\ shown # 0 THEN Trimmed(t) ELSE t)

RejectPrecision ==
  /\ Formatting /\ shown > decimals
  /\ Refused("invalid_precision")

RejectInexact ==
  /\ Formatting /\ shown <= decimals /\ Narrowed.error # "none"
  /\ Refused("inexact")

Write ==
  /\ Formatting /\ shown <= decimals /\ Narrowed.error = "none"
  /\ LET t == Written(Narrowed.value)
     IN IF textRequest.options.capacity < Len(t)
          THEN Replied("buffer_too_small", 0, <<>>) ELSE Replied("none", 0, t)
  /\ UNCHANGED <<textRequest, scan, keep, loop>>

\* The caller takes the answer.
ReturnText ==
  /\ textStage = "answered"
  /\ textStage' = "idle" /\ textRequest' = ET!NoRequest /\ textAnswer' = ET!NoAnswer
  /\ scan' = NoScan /\ keep' = 0
  /\ LoopFrom(0)

TextNext ==
  \/ CallText \/ ReturnText
  \/ RejectEmpty \/ RejectInvalid \/ ReadZero \/ RejectLong \/ Start
  \/ SkipCharacter \/ TakeDigit \/ DigitOverflows \/ DropDigit \/ MantissaRead
  \/ PadFast \/ Pad \/ PadOverflows \/ Round
  \/ RejectPrecision \/ RejectInexact \/ Write

FixedTextSpec == TextInit /\ [][TextNext]_textVars

-----------------------------------------------------------------------------
(* Properties *)

\* The accumulator never wraps: on the fast path, which checks nothing, it
\* fits one word because so few digits are kept, and on the other path it
\* never passes the type's limit, from which a larger result could not recover.
AccumulatorFits ==
  textStage \in {"digits", "pad", "round"} =>
    accumulator < 2 ^ WordBits \/ (~Fast /\ accumulator <= TypeLimit(scan.negative))

\* Text is read as its grammar says, rounded once, whatever its length and
\* exponent, with overflow before too_precise; text is written as the shortest
\* that denotes the rounded value, with no sign for zero.
ImplementsExactText == ET!Spec
=============================================================================
