--------------------------- MODULE FloatConversion ---------------------------
(***************************************************************************)
(* from_float.hpp, to_float.hpp and the kernel of floating.cpp: between    *)
(* binary floats and decimal fixed point.  A power of ten is a power of    *)
(* five, which is multiplied by or divided by in integers, and one of two, *)
(* which only shifts.  Types of up to two words take the fast paths;       *)
(* from_float of wider ones divides in the widest integers.  A float's     *)
(* place in memory is left out.                                            *)
(***************************************************************************)
EXTENDS Integers

CONSTANTS
  WordWidth,               \* bits of std::uint64_t
  Ingress, Egress,         \* the pairs <<format, type>> of from_float and to_float
  Huge, Tiny,              \* powers of two past every range: 300, 1024
  Deepest                  \* formats that reach lower give no subnormals: 128

VARIABLES
  floatBuild,              \* "asm" or "portable"
  floatRequest, floatAnswer,   \* the call and its result
  floatStage,              \* where the call is
  floatNegative,
  numerator, power,        \* significand and power of two; numerator and exponent
  floatQuotient,
  inexact, above_half, at_half     \* what the quotient leaves

floatState ==
  <<floatNegative, numerator, power, floatQuotient, inexact, above_half, at_half>>
floatVars == <<floatBuild, floatRequest, floatAnswer, floatStage, floatState>>

EF == INSTANCE ExactFloat WITH request <- floatRequest, answer <- floatAnswer
RF == INSTANCE Rounding WITH M <- 2 ^ 30

floatType == floatRequest.type
format == floatRequest.format
precision == format.precision
fraction == precision - 1
bias == format.max_exponent - 1
Five == 5 ^ floatType.decimals
\* std::bit_width; nothing here is wider than four words.
bit_width(x) ==
  CHOOSE k \in 0 .. 4 * WordWidth : x < 2 ^ k /\ (k = 0 \/ x >= 2 ^ (k - 1))
ScaleBits == IF floatType.decimals = 0 THEN 0 ELSE bit_width(Five)

\* What the types and formats of the code have in common: a product fits four
\* words, 5^D is known modulo two of them, which hold a quotient too, a float has
\* room for every source of to_float and for its scale, and a power past Huge or
\* Tiny decides alone.
ASSUME FloatAssumption ==
  /\ \A p \in Ingress :
       IF p[2].bits <= 2 * WordWidth
         THEN 5 ^ p[2].decimals * 2 ^ p[1].precision < 2 ^ (4 * WordWidth)
         ELSE /\ 2 ^ (p[2].bits - 1) < 2 ^ (Huge + p[1].precision)
              /\ 2 ^ p[1].precision * 10 ^ p[2].decimals < 2 ^ (Tiny - 1)
  /\ \A p \in Egress : /\ p[2].bits <= 2 * WordWidth
                       /\ p[2].bits <= p[1].max_exponent
                       /\ 2 * 5 ^ p[2].decimals < 2 ^ (2 * WordWidth)
                       /\ 10 ^ p[2].decimals < 2 ^ p[1].max_exponent
                       /\ p[1].precision + 2 <= 2 * WordWidth

\* Each of them counts its bits and digits.
ASSUME FormatsAssumption ==
  /\ WordWidth \in Nat /\ WordWidth >= 4
  /\ \A p \in Ingress \union Egress :
       /\ p[1].precision \in Nat \ {0} /\ p[1].max_exponent \in Nat \ {0}
       /\ p[2].bits \in Nat \ {0} /\ p[2].decimals \in Nat

FloatInit ==
  /\ floatBuild \in {"asm", "portable"}
  /\ floatRequest = EF!NoRequest /\ floatAnswer = EF!NoAnswer /\ floatStage = "idle"
  /\ floatNegative = FALSE /\ numerator = 0 /\ power = 0 /\ floatQuotient = 0
  /\ inexact = FALSE /\ above_half = FALSE /\ at_half = FALSE

CallFloat ==
  /\ floatStage = "idle"
  /\ \/ \E pair \in Ingress : \E float \in EF!Patterns(pair[1]), mode \in RF!Modes :
          floatRequest' = EF!FromFloat(float, pair[1], pair[2], mode)
     \/ \E pair \in Egress : \E raw \in EF!X(pair[2].bits)!Raws :
          floatRequest' = EF!ToFloat(raw, pair[2], pair[1])
  /\ floatStage' = "begin"
  /\ UNCHANGED <<floatBuild, floatAnswer, floatState>>

Reply(a) ==
  /\ floatStage' = "answered" /\ floatAnswer' = a
  /\ UNCHANGED <<floatBuild, floatRequest, floatState>>
Fail(error) == Reply(EF!Answer(error, 0, EF!NoFloat))
Fixed(raw) == EF!Answer("none", raw, EF!NoFloat)

ReturnFloat ==
  /\ floatStage = "answered"
  /\ floatStage' = "idle" /\ floatRequest' = EF!NoRequest /\ floatAnswer' = EF!NoAnswer
  /\ floatNegative' = FALSE /\ numerator' = 0 /\ power' = 0 /\ floatQuotient' = 0
  /\ inexact' = FALSE /\ above_half' = FALSE /\ at_half' = FALSE
  /\ UNCHANGED floatBuild

Shifted(q, remains, above, half) ==
  /\ floatQuotient' = q /\ inexact' = remains /\ above_half' = above /\ at_half' = half
  /\ floatStage' = "round"
  /\ UNCHANGED <<floatBuild, floatRequest, floatAnswer, floatNegative, numerator, power>>

-----------------------------------------------------------------------------
(* from_float: decode_float.                                               *)

From(where) == floatStage = where /\ floatRequest.op = "from_float"

field == floatRequest.float.field
Significand ==
  IF format.explicit \/ field = 0 THEN floatRequest.float.fraction
  ELSE floatRequest.float.fraction + 2 ^ fraction
Invalid ==
  \/ field = 2 * format.max_exponent - 1
  \/ format.explicit /\ field # 0 /\ floatRequest.float.fraction < 2 ^ fraction

\* The kernel asks isnan and isinf: an x87 unnormal, unequal to itself, is taken
\* for the former.
RejectNoNumber == From("begin") /\ Invalid /\ Fail("invalid_value")
FromZero == From("begin") /\ ~Invalid /\ Significand = 0 /\ Reply(Fixed(0))

Decode ==
  /\ From("begin") /\ ~Invalid /\ Significand # 0
  /\ numerator' = Significand
  /\ power' = (IF field = 0 THEN 1 ELSE field) - bias - fraction
  /\ floatNegative' = floatRequest.float.negative
  /\ floatStage' = "scale"
  /\ UNCHANGED <<floatBuild, floatRequest, floatAnswer, floatQuotient,
                 inexact, above_half, at_half>>

-----------------------------------------------------------------------------
(* from_float_fast.                                                        *)

FastType == floatType.bits <= 2 * WordWidth
FromFast == From("scale") /\ FastType

ScaledBits == precision + ScaleBits

\* Mutant: the product's width, without the destination's.
WidthOfProduct ==
  IF ScaledBits <= WordWidth THEN WordWidth
  ELSE IF ScaledBits <= 2 * WordWidth THEN 2 * WordWidth ELSE 4 * WordWidth

Width ==
  IF floatType.bits <= WordWidth /\ ScaledBits <= WordWidth THEN WordWidth
  ELSE IF ScaledBits <= 2 * WordWidth THEN 2 * WordWidth ELSE 4 * WordWidth

product == (numerator * Five) % 2 ^ Width
scaled == power + floatType.decimals        \* the power of two that is left
floatLimit == 2 ^ (floatType.bits - 1) - RF!Indicator(~floatNegative)

PastLimit == scaled >= Width \/ product > floatLimit \div 2 ^ scaled
ShiftOverflows == FromFast /\ scaled >= 0 /\ PastLimit /\ Fail("overflow")
ShiftLeft ==
  /\ FromFast /\ scaled >= 0 /\ ~PastLimit
  /\ Shifted(product * 2 ^ scaled, FALSE, FALSE, FALSE)

ShiftRight ==
  /\ FromFast /\ scaled < 0 /\ -scaled < Width
  /\ LET unit == 2 ^ (-scaled)
         r == product % unit
     IN Shifted(product \div unit, r # 0, r > unit \div 2, r = unit \div 2)

\* Mutant: nothing shifted out by the whole width reaches a half.
ShiftOutBelowHalf ==
  /\ FromFast /\ scaled < 0 /\ -scaled >= Width
  /\ Shifted(0, TRUE, FALSE, FALSE)

\* By the whole width the product may still pass a half, beyond it cannot.
ShiftOut ==
  /\ FromFast /\ scaled < 0 /\ -scaled >= Width
  /\ LET half == 2 ^ (Width - 1)
     IN Shifted(0, TRUE, -scaled = Width /\ product > half,
                -scaled = Width /\ product = half)

Increments ==
  CASE floatRequest.rounding = "floor" -> floatNegative
    [] floatRequest.rounding = "ceil" -> ~floatNegative
    [] floatRequest.rounding = "nearest_even" ->
         above_half \/ (at_half /\ floatQuotient % 2 = 1)
    [] floatRequest.rounding = "nearest_away" -> above_half \/ at_half
    [] OTHER -> FALSE

RoundFixed ==
  /\ From("round")
  /\ IF floatQuotient > floatLimit THEN Fail("overflow")
     ELSE IF inexact /\ floatRequest.rounding = "exact" THEN Fail("inexact")
     ELSE IF inexact /\ Increments /\ floatQuotient = floatLimit THEN Fail("overflow")
     ELSE LET rounded == floatQuotient + RF!Indicator(inexact /\ Increments)
          IN Reply(Fixed(EF!Signed(rounded, floatNegative)))

-----------------------------------------------------------------------------
(* from_float_kernel: the same quotient, of integers wide enough for both. *)

\* std::frexp leaves a significand with its top bit set.
Normalised == precision - bit_width(numerator)
KernelPower == power - Normalised

KernelOverflows ==
  /\ From("scale") /\ ~FastType /\ KernelPower > Huge
  /\ Fail("overflow")

KernelConvert ==
  /\ From("scale") /\ ~FastType /\ KernelPower <= Huge
  /\ LET num == numerator * 2 ^ Normalised * 10 ^ floatType.decimals
         beyond == KernelPower <= -Tiny
         ratio == IF beyond THEN <<1, 4>>
                  ELSE IF KernelPower < 0 THEN <<num, 2 ^ (-KernelPower)>>
                  ELSE <<num * 2 ^ KernelPower, 1>>
         q == ratio[1] \div ratio[2]
         rounded == RF!RoundMagnitude(q, ratio[1] % ratio[2], ratio[2], floatNegative,
                                     floatRequest.rounding, floatLimit)
     IN IF rounded.error # "none" THEN Fail(rounded.error)
        ELSE Reply(Fixed(EF!Signed(rounded.value, floatNegative)))

-----------------------------------------------------------------------------
(* to_float_fast.                                                          *)

To(where) == floatStage = where /\ floatRequest.op = "to_float"

magnitude == IF floatRequest.raw < 0 THEN -floatRequest.raw ELSE floatRequest.raw
DivisorBits == bit_width(Five)
K == precision + 1 + DivisorBits
Lost == bit_width(magnitude) - K        \* bits below the numerator, if positive

ToZero == To("begin") /\ magnitude = 0 /\ Reply(EF!Answer("none", 0, EF!NoFloat))

\* The numerator has K bits, whatever the magnitude's.
Normalise ==
  /\ To("begin") /\ magnitude # 0
  /\ numerator' = IF Lost <= 0 THEN magnitude * 2 ^ (-Lost) ELSE magnitude \div 2 ^ Lost
  /\ inexact' = (Lost > 0 /\ magnitude % 2 ^ Lost # 0)
  /\ power' = bit_width(magnitude) - DivisorBits - floatType.decimals - 1
  /\ floatNegative' = (floatRequest.raw < 0)
  /\ floatStage' = "divide"
  /\ UNCHANGED <<floatBuild, floatRequest, floatAnswer, floatQuotient, above_half, at_half>>

Quotient(q, remains) ==
  /\ floatQuotient' = q /\ inexact' = (inexact \/ remains)
  /\ floatStage' = "round"
  /\ UNCHANGED <<floatBuild, floatRequest, floatAnswer, floatNegative, numerator, power,
                 above_half, at_half>>

OneWord == K <= WordWidth \/ floatType.decimals = 0
ByInstruction ==
  /\ floatBuild = "asm" /\ Five < 2 ^ WordWidth
  /\ K <= 2 * WordWidth /\ precision + 2 <= WordWidth
ByReciprocal == ~OneWord /\ ~ByInstruction

\* The compiler's division, and divq.
DivideFive ==
  /\ To("divide") /\ ~ByReciprocal
  /\ Quotient(numerator \div Five, numerator % Five # 0)

Reciprocal == 2 ^ K \div Five
WordAt(x, k) == (x \div 2 ^ (k * WordWidth)) % 2 ^ WordWidth

\* Mutant: the low half's product carries nothing into the high half's.
HalvesUncarried(x, y) == (x \div 2 ^ (2 * WordWidth)) * y

\* Binary128: the product at two words a time, above the lowest two.
Halves(x, y) ==
  LET B == 2 ^ (2 * WordWidth)
  IN (x \div B) * y + ((x % B) * y) \div B

\* Two or three limbs by one, the carries passed upwards.
Two(x, y) == WordAt(x, 1) * y + (WordAt(x, 0) * y) \div 2 ^ WordWidth
Three(x, y) ==
  LET B == 2 ^ WordWidth
  IN WordAt(x, 2) * y + (WordAt(x, 1) * y + (WordAt(x, 0) * y) \div B) \div B

Estimate ==
  LET W == WordWidth
      low == Reciprocal % 2 ^ W
  IN CASE precision + 2 <= W /\ K <= 2 * W ->
            Two(numerator, low) \div 2 ^ (K - W)
       [] precision + 2 <= W /\ K > 2 * W ->
            (Three(numerator, low) \div 2 ^ (K - 2 * W)) % 2 ^ W
       [] precision + 2 > W /\ K + precision + 2 <= 4 * W ->
            (((numerator * Reciprocal) % 2 ^ (4 * W)) \div 2 ^ K) % 2 ^ (2 * W)
       [] OTHER ->
            (Halves(numerator, Reciprocal) \div 2 ^ (K - 2 * W)) % 2 ^ (2 * W)

\* The remainder is known by its low two words.
RemainderOf(estimate) ==
  ((numerator % 2 ^ (2 * WordWidth)) - (estimate * Five)) % 2 ^ (2 * WordWidth)

DivideEstimate ==
  /\ To("divide") /\ ByReciprocal
  /\ LET r == RemainderOf(Estimate)
     IN Quotient(Estimate + RF!Indicator(r >= Five), r # 0 /\ r # Five)

Extra == RF!Indicator(floatQuotient >= 2 ^ (precision + 1))
min_exponent == 2 - format.max_exponent       \* that of float.h less one

\* Mutant: a subnormal is rounded at a normal's place.
DeepNone(exponent) == 0

\* How far below the least normal exponent; only one format can be there.
Deep(exponent) ==
  IF min_exponent > -Deepest /\ exponent < min_exponent THEN min_exponent - exponent ELSE 0

\* What the quotient is rounded in.
RoundWidth == IF precision + 2 <= WordWidth THEN WordWidth ELSE 2 * WordWidth

RoundFloat ==
  /\ To("round")
  /\ LET exponent == power + Extra
         discard == 1 + Extra + Deep(exponent)
         half == 2 ^ (discard - 1)
         q == floatQuotient \div 2 ^ discard
         tail == floatQuotient % 2 ^ discard
         up == tail > half \/ (tail = half /\ (inexact \/ q % 2 = 1))
         carried == q + RF!Indicator(up) = 2 ^ precision
         rounded == IF carried THEN 2 ^ fraction ELSE q + RF!Indicator(up)
         place == exponent + Deep(exponent) + RF!Indicator(carried)
     IN \* encode_float
        Reply(EF!Answer("none", 0,
          EF!Float(floatNegative, IF rounded >= 2 ^ fraction THEN place + bias ELSE 0,
                  IF format.explicit THEN rounded ELSE rounded % 2 ^ fraction)))

-----------------------------------------------------------------------------

FloatNext ==
  \/ CallFloat \/ ReturnFloat
  \/ RejectNoNumber \/ FromZero \/ Decode
  \/ ShiftOverflows \/ ShiftLeft \/ ShiftRight \/ ShiftOut \/ RoundFixed
  \/ KernelOverflows \/ KernelConvert
  \/ ToZero \/ Normalise \/ DivideFive \/ DivideEstimate \/ RoundFloat

FloatSpec == FloatInit /\ [][FloatNext]_floatVars

-----------------------------------------------------------------------------
(* Properties *)

\* The product by the truncated reciprocal is the quotient or one less, in
\* every width it is taken in, so the one correction of to_float_quotient is
\* enough and the two low words show it; where divq divides instead, the high
\* word is below the divisor, or it would trap.
OneCorrectionIsEnough ==
  To("divide") =>
    /\ ByReciprocal => numerator \div Five - Estimate \in {0, 1}
    /\ ~OneWord /\ ByInstruction => numerator \div 2 ^ WordWidth < Five

\* No product and no shift of the fast paths leaves its width, which is chosen
\* from the type and the format alone, before any value is seen; and there are
\* always a guard bit to discard and no more bits than the quotient has.
WidthsSuffice ==
  /\ FromFast => numerator * Five < 2 ^ Width /\ floatLimit < 2 ^ Width
  /\ From("round") => floatQuotient < 2 ^ Width
  /\ To("divide") => bit_width(numerator) = K /\ K <= 4 * WordWidth
  /\ To("round") => /\ bit_width(floatQuotient) - precision \in {1, 2}
                    /\ 1 + Extra + Deep(power + Extra) < RoundWidth

\* from_float is the float's number rounded once; to_float is the nearest float.
ImplementsExactFloat == EF!Spec
=============================================================================
