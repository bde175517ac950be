--------------------------- MODULE MixedArithmetic ---------------------------
(***************************************************************************)
(* mixed.hpp, detail/mixed_native.hpp and mixed.cpp: arithmetic across     *)
(* fixed-point types of different widths and scales.  A call takes the     *)
(* first of these that applies:                                            *)
(*   native    the types alone prove that two limbs hold every step;       *)
(*   same      equal scales: only a sum and a range test;                  *)
(*   attempt   two limbs are tried on the actual values, and the attempt   *)
(*             declines when a step does not fit;                          *)
(*   kernel    the general path, in the smallest tier of limbs that an     *)
(*             estimate says is wide enough.                               *)
(* A limb is 64 bits in the code, the radix 10, and so 38 and 19 are the   *)
(* most decimals whose power fits a signed pair of limbs or one limb.      *)
(***************************************************************************)
EXTENDS Integers, FiniteSetsExt

CONSTANTS
  Limb,                    \* bits of a limb
  Base, Operands, Targets, \* the radix, values and destination types: see ExactMixed
  Divisors,                \* the operands a mul_div divides by
  DigitBits, CubeBits,     \* Base fits DigitBits, its cube CubeBits: 4 and 10
  CompareLimbs             \* of a comparison in a constant expression: 9

ASSUME LimbAssumption == Limb \in Nat \ {0}
ASSUME DivisorsAssumption == Divisors \subseteq Operands
ASSUME RadixAssumption ==
  /\ Base \in Nat /\ Base >= 2 /\ DigitBits \in Nat /\ CubeBits \in Nat
  /\ Base <= 2 ^ DigitBits /\ Base ^ 3 <= 2 ^ CubeBits

ASSUME CompareAssumption ==
  CompareLimbs \in Nat /\ CompareLimbs >= 2 /\ Base <= 2 ^ Limb

VARIABLES
  mixedRequest, mixedAnswer,   \* the call and its result
  mixedBuild,              \* "gcc", "clang" or "portable"
  mixedStage,              \* "idle", "dispatch", "kernel" or "answered"
  terms,                   \* history: the signed values two limbs had to hold
  tier,                    \* limbs of the kernel's arithmetic
  wides                    \* history: the magnitudes a tier had to hold

mixedVars == <<mixedRequest, mixedAnswer, mixedBuild, mixedStage, terms, tier, wides>>

EM == INSTANCE ExactMixed WITH
  Radix <- Base, Dests <- Targets, request <- mixedRequest, answer <- mixedAnswer
RM == INSTANCE Rounding WITH M <- 2 ^ 30

Pair == 2 * Limb           \* bits of __int128
Quad == 4 * Limb           \* bits of wide::int256
InBits(v, bits) == v \in -(2 ^ (bits - 1)) .. 2 ^ (bits - 1) - 1
InPair(v) == InBits(v, Pair)
Power(k) == EM!Power(k)
MaxOf(x, y) == IF x < y THEN y ELSE x

\* A raw integer is one of its type, and a type has room for its scale:
\* max_decimals_for_bits.
ASSUME RawAssumption ==
  /\ \A x \in Operands : InBits(x.raw, x.bits)
  /\ \A x \in Operands \union Targets :
       /\ x.bits \in 1 .. Quad /\ x.decimals \in Nat
       /\ Base ^ x.decimals <= 2 ^ (x.bits - 1)

\* The most decimals whose power is below a bound.
Decimals(bound) == Max({k \in 0 .. Pair : Base ^ k < bound})
PairDecimals == Decimals(2 ^ (Pair - 1))
LimbDecimals == Decimals(2 ^ Limb)

op == mixedRequest.op
a_raw == mixedRequest.a.raw
b_raw == mixedRequest.b.raw
c_raw == mixedRequest.c.raw
Da == mixedRequest.a.decimals
Db == mixedRequest.b.decimals
Dd == mixedRequest.dest.decimals
Ba == mixedRequest.a.bits
Bb == mixedRequest.b.bits
Bd == mixedRequest.dest.bits
mixedRounding == mixedRequest.rounding

sum_scale == MaxOf(Da, Db)
common_scale == IF Da < Db THEN Da ELSE Db

\* The power of the radix that brings the operation to the destination scale.
Gap ==
  CASE op = "cast" -> Dd - Da
    [] op \in {"add", "sub"} -> Dd - sum_scale
    [] op = "mul" -> Dd - Da - Db
    [] op = "div" -> Dd + Db - Da
    [] op = "mul_div" -> Dd + mixedRequest.c.decimals - Da - Db
    [] op = "compare" -> 0

MixedInit ==
  /\ mixedBuild \in {"gcc", "clang", "portable"}
  /\ mixedStage = "idle"
  /\ mixedRequest = EM!NoRequest /\ mixedAnswer = EM!NoAnswer
  /\ terms = {} /\ tier = 0 /\ wides = {}

\* Operators of one type are same-type arithmetic: only a comparison of two
\* types is mixed.
CallMixed ==
  /\ mixedStage = "idle"
  /\ \E o \in EM!Ops, x \in Operands :
     \E y \in IF o = "cast" THEN {EM!NoOperand} ELSE Operands,
        z \in IF o = "mul_div" THEN Divisors ELSE {EM!NoOperand},
        d \in IF o = "compare" THEN {EM!NoDest} ELSE Targets,
        mode \in IF o = "compare" THEN {"exact"} ELSE RM!Modes :
       /\ o = "compare" => x.bits # y.bits \/ x.decimals # y.decimals
       /\ mixedRequest' = EM!Request(o, x, y, z, d, mode)
  /\ mixedStage' = "dispatch"
  /\ UNCHANGED <<mixedAnswer, mixedBuild, terms, tier, wides>>

Answered(r) ==
  /\ mixedStage' = "answered"
  /\ mixedAnswer' = r
  /\ UNCHANGED <<mixedRequest, mixedBuild>>

-----------------------------------------------------------------------------
(* Does the type of every operand prove that a pair of limbs is enough?    *)

PowBitsLoose(k) == DigitBits * k

AlignmentFits ==
  /\ Ba <= Limb /\ Bb <= Limb
  /\ Ba + PowBitsLoose(Db - common_scale) <= Pair - 2
  /\ Bb + PowBitsLoose(Da - common_scale) <= Pair - 2

ProductBits == Ba + Bb - 1

CastFits ==
  /\ Ba <= Limb /\ Bd <= Pair
  /\ Gap >= 0 => Ba + PowBitsLoose(Gap) <= Pair - 2

AddFits ==
  /\ AlignmentFits /\ Bd <= Pair
  /\ Gap >= 0 => MaxOf(Ba, Bb) + PowBitsLoose(sum_scale - common_scale) + 1
                   + PowBitsLoose(Gap) <= Pair - 2

MulFits ==
  /\ Ba <= Limb /\ Bb <= Limb /\ Bd <= Pair
  /\ Gap >= 0 => ProductBits + PowBitsLoose(Gap) <= Pair - 1

DivFits ==
  /\ Ba <= Limb /\ Bb <= Limb /\ Bd <= Pair
  /\ IF Gap >= 0 THEN Ba + PowBitsLoose(Gap) <= Pair - 2
                 ELSE Bb + PowBitsLoose(-Gap) <= Pair - 2

MulDivFits ==
  /\ Ba <= Limb /\ Bb <= Limb /\ mixedRequest.c.bits <= Limb /\ Bd <= Pair
  /\ IF Gap >= 0
       THEN ProductBits + PowBitsLoose(Gap) <= Pair - 1
       ELSE /\ ProductBits <= Pair - 1
            /\ mixedRequest.c.bits + PowBitsLoose(-Gap) <= Pair - 2

Fits ==
  CASE op = "cast" -> CastFits
    [] op \in {"add", "sub"} -> AddFits
    [] op = "mul" -> MulFits
    [] op = "div" -> DivFits
    [] op = "mul_div" -> MulDivFits
    [] op = "compare" -> AlignmentFits

Attempted ==
  \/ op = "cast" /\ Bd <= Pair
  \/ op \in {"add", "sub"} /\ Ba <= Pair /\ Bb <= Pair
  \/ op = "mul" /\ Ba <= Pair /\ Bb <= Pair /\ Bd <= Pair

Path ==
  IF mixedBuild = "portable" THEN "kernel"
  ELSE IF Fits THEN "native"
  ELSE IF op \in {"add", "sub"} /\ Da = Db /\ Da = Dd THEN "same"
  ELSE IF Attempted THEN "attempt"
  ELSE "kernel"

Takes(path) == mixedStage = "dispatch" /\ Path = path

-----------------------------------------------------------------------------
(* Arithmetic in a pair of limbs.                                          *)

\* A destination wider than a pair has the pair's range here.
LimitOf(bits, negative) ==
  2 ^ ((IF bits < Pair THEN bits ELSE Pair) - 1) - 1 + RM!Indicator(negative)

CheckRange(v) ==
  IF v < -LimitOf(Bd, TRUE) \/ v > LimitOf(Bd, FALSE)
    THEN RM!Failure("overflow") ELSE RM!Value(v)

WithSign(r, negative) ==
  IF r.error = "none" /\ negative THEN RM!Value(-r.value) ELSE r

\* The doubled remainder is a pair of limbs too.
RoundsUp(q, r, d, negative) ==
  LET twice == (2 * r) % 2 ^ Pair
  IN \/ mixedRounding = "floor" /\ negative
     \/ mixedRounding = "ceil" /\ ~negative
     \/ mixedRounding = "nearest_even" /\ (twice > d \/ (twice = d /\ q % 2 = 1))
     \/ mixedRounding = "nearest_away" /\ twice >= d

\* Mutant: exactness is asked before the range.
DivideRoundedExactFirst(v, d) ==
  LET negative == v < 0
      q == RM!Magnitude(v) \div d
      r == RM!Magnitude(v) % d
      limit == LimitOf(Bd, negative)
  IN IF r # 0 /\ mixedRounding = "exact" THEN RM!Failure("inexact")
     ELSE IF q > limit \/ (r # 0 /\ RoundsUp(q, r, d, negative) /\ q = limit)
       THEN RM!Failure("overflow")
     ELSE WithSign(RM!Value(q + RM!Indicator(r # 0 /\ RoundsUp(q, r, d, negative))), negative)

DivideRounded(v, d) ==
  LET negative == v < 0
      q == RM!Magnitude(v) \div d
      r == RM!Magnitude(v) % d
      limit == LimitOf(Bd, negative)
      up == r # 0 /\ RoundsUp(q, r, d, negative)
  IN IF q > limit THEN RM!Failure("overflow")
     ELSE IF r # 0 /\ mixedRounding = "exact" THEN RM!Failure("inexact")
     ELSE IF up /\ q = limit THEN RM!Failure("overflow")
     ELSE WithSign(RM!Value(q + RM!Indicator(up)), negative)

\* Aligned to the finer scale; the operation before it is rescaled.
Lhs == a_raw * Power(sum_scale - Da)
Rhs == b_raw * Power(sum_scale - Db)
Combined ==
  CASE op \in {"cast", "div"} -> a_raw
    [] op = "add" -> Lhs + Rhs
    [] op \in {"sub", "compare"} -> Lhs - Rhs
    [] op \in {"mul", "mul_div"} -> a_raw * b_raw
Divisor == CASE op = "div" -> b_raw [] op = "mul_div" -> c_raw [] OTHER -> 1

Numerator == Combined * Power(Gap)
Denominator == Divisor * Power(-Gap)
Turn == IF Denominator < 0 THEN -1 ELSE 1

DivideByZero ==
  /\ mixedStage = "dispatch" /\ op \in {"div", "mul_div"} /\ Divisor = 0
  /\ Answered(RM!Failure("division_by_zero"))
  /\ UNCHANGED <<terms, tier, wides>>

\* The comparison subtracts nothing: it compares the aligned sides.
NativeCompare ==
  /\ Takes("native") /\ op = "compare"
  /\ terms' = {Lhs, Rhs}
  /\ Answered(RM!Value(EM!Sign(Lhs - Rhs)))
  /\ UNCHANGED <<tier, wides>>

Native ==
  /\ Takes("native") /\ op # "compare" /\ Divisor # 0
  /\ terms' = {Combined, Numerator, Denominator, Turn * Numerator, Turn * Denominator}
                \union (IF op \in {"add", "sub"} THEN {Lhs, Rhs} ELSE {})
  /\ Answered(IF op \notin {"div", "mul_div"} /\ Gap >= 0
               THEN CheckRange(Numerator)
               ELSE DivideRounded(Turn * Numerator, Turn * Denominator))
  /\ UNCHANGED <<tier, wides>>

\* Equal scales: two limbs if both sides and the sum fit, or else four that
\* wrap, with the sign telling an overflow.
Wrapped(v) == ((v + 2 ^ (Quad - 1)) % 2 ^ Quad) - 2 ^ (Quad - 1)

SignOverflow ==
  /\ (a_raw < 0) # (Wrapped(Combined) < 0)
  /\ IF op = "sub" THEN (a_raw < 0) # (b_raw < 0) ELSE (a_raw < 0) = (b_raw < 0)

SameScale ==
  /\ Takes("same")
  /\ Answered(IF InPair(a_raw) /\ InPair(b_raw) /\ InPair(Combined) THEN CheckRange(Combined)
             ELSE IF SignOverflow THEN RM!Failure("overflow")
             ELSE IF Bd = Quad THEN RM!Value(Wrapped(Combined))
             ELSE CheckRange(Wrapped(Combined)))
  /\ UNCHANGED <<terms, tier, wides>>

-----------------------------------------------------------------------------
(* Attempts.  Declining says nothing about the result.                     *)

\* Mutant: the lower bound is forgotten.
ScalableFromAbove(v, k) == v <= (2 ^ (Pair - 1) - 1) \div Power(k)

\* v * Power(k) fits a pair; C++ division truncates towards zero.
Scalable(v, k) ==
  /\ v <= (2 ^ (Pair - 1) - 1) \div Power(k)
  /\ -v <= 2 ^ (Pair - 1) \div Power(k)

\* try_rescale declines on a power, or a product, that a pair cannot hold.
Rescalable(v) ==
  IF Gap >= 0 THEN Gap <= PairDecimals /\ Scalable(v, Gap)
              ELSE -Gap <= PairDecimals
Rescaled(v) ==
  IF Gap >= 0 THEN CheckRange(v * Power(Gap)) ELSE DivideRounded(v, Power(-Gap))

\* Decline: on to the kernel.
Decline ==
  /\ mixedStage' = "kernel"
  /\ UNCHANGED <<mixedRequest, mixedAnswer, mixedBuild, terms, tier, wides>>

Rescale(v) ==
  IF Rescalable(v)
    THEN /\ Answered(Rescaled(v))
         /\ terms' = {v, v * Power(Gap), Power(-Gap)}
         /\ UNCHANGED <<tier, wides>>
    ELSE Decline

\* Without a change of scale a value too wide cannot become smaller.
AttemptCast ==
  /\ Takes("attempt") /\ op = "cast"
  /\ IF InPair(a_raw) THEN Rescale(a_raw)
     ELSE IF Gap = 0 THEN /\ Answered(RM!Failure("overflow"))
                          /\ UNCHANGED <<terms, tier, wides>>
     ELSE Decline

AttemptAddSub ==
  /\ Takes("attempt") /\ op \in {"add", "sub"}
  /\ IF /\ Scalable(a_raw, sum_scale - Da) /\ Scalable(b_raw, sum_scale - Db)
        /\ InPair(Combined)
       THEN Rescale(Combined) ELSE Decline

\* try_product of the clang build: by limbs, giving up as early as it can.
Upper(m) == m \div 2 ^ Limb
Low(m) == m % 2 ^ Limb

ProductFitsByLimbs ==
  LET l == RM!Magnitude(a_raw)
      r == RM!Magnitude(b_raw)
      cross == Upper(l) * Low(r) + Upper(r) * Low(l)
      upper == cross + Upper(Low(l) * Low(r))
  IN /\ Upper(l) = 0 \/ Upper(r) = 0
     /\ Upper(cross) = 0
     /\ Upper(upper) = 0
     /\ upper * 2 ^ Limb + Low(Low(l) * Low(r)) <= LimitOf(Pair, (a_raw < 0) # (b_raw < 0))

ProductFits == IF mixedBuild = "clang" THEN ProductFitsByLimbs ELSE InPair(a_raw * b_raw)

\* exact_quotient_i64: d = 2^shift * odd divides a wide value exactly, with a
\* quotient of one limb, iff the inverse of odd recovers it from the low limb.
\* The code doubles the inverse's good bits with each of its Newton steps, until
\* they fill the limb; the one number that they end with is the inverse.
TwosIn(d) == Max({s \in 0 .. Limb : d % 2 ^ s = 0})
InverseOf(odd) == CHOOSE i \in 0 .. 2 ^ Limb - 1 : (odd * i) % 2 ^ Limb = 1
Candidate(v, d) ==
  LET shift == TwosIn(d)
      word == Low(Low(v \div 2 ^ shift) * InverseOf(d \div 2 ^ shift))
  IN IF word >= 2 ^ (Limb - 1) THEN word - 2 ^ Limb ELSE word

ExactQuotient(v, d) == Candidate(v, d) * d = v

\* An exact product of a wide and a narrow value may divide the wide one first.
WideFirst(x, y) ==
  /\ mixedRounding = "exact" /\ Gap < 0 /\ -Gap <= LimbDecimals
  /\ x.bits = Pair /\ y.bits <= Limb
  /\ ExactQuotient(x.raw, Power(-Gap))

Shortened(x, y) ==
  LET q == Candidate(x.raw, Power(-Gap))
  IN /\ Answered(CheckRange(q * y.raw))
     /\ terms' = {q * Power(-Gap), q * y.raw}
     /\ UNCHANGED <<tier, wides>>

AttemptMul ==
  /\ Takes("attempt") /\ op = "mul"
  /\ IF WideFirst(mixedRequest.a, mixedRequest.b)
       THEN Shortened(mixedRequest.a, mixedRequest.b)
     ELSE IF WideFirst(mixedRequest.b, mixedRequest.a)
       THEN Shortened(mixedRequest.b, mixedRequest.a)
     ELSE IF ProductFits THEN Rescale(Combined)
     ELSE Decline

-----------------------------------------------------------------------------
(* The kernels of mixed.cpp: an upper bound on the bits picks the tier.    *)

BitWidth(m) == Min({k \in 0 .. Quad : m < 2 ^ k})
MagBits(v) == BitWidth(RM!Magnitude(v))

\* Mutant: the power is taken for its logarithm rounded down.
PowBitsShort(e) == (e * CubeBits) \div 3

PowBits(e) == (e * CubeBits) \div 3 + 1

\* The last tier has room for the product of two operands, or of a quotient's
\* operands, at any scale: 2 * 256 + 507 <= 1024.
ASSUME TierAssumption ==
  \A x, y \in Operands \union Targets :
    2 * Quad + PowBits(x.decimals + y.decimals) <= 16 * Limb

TierFor(bits) ==
  IF bits <= 2 * Limb THEN 2
  ELSE IF bits <= 4 * Limb THEN 4
  ELSE IF bits <= 8 * Limb THEN 8
  ELSE 16

Up == IF Gap > 0 THEN Gap ELSE 0
Down == IF Gap < 0 THEN -Gap ELSE 0
AlignedBits ==
  MaxOf(MagBits(a_raw) + PowBits(Db - common_scale),
        MagBits(b_raw) + PowBits(Da - common_scale))

NumeratorBits ==
  CASE op \in {"cast", "div"} -> MagBits(a_raw) + PowBits(Up)
    [] op \in {"add", "sub"} -> AlignedBits + 1 + PowBits(Up)
    [] op \in {"mul", "mul_div"} -> MagBits(a_raw) + MagBits(b_raw) + PowBits(Up)
DenominatorBits ==
  IF op \in {"div", "mul_div"} THEN MagBits(Divisor) + PowBits(Down) ELSE PowBits(Down)

Kernel == mixedStage = "kernel" \/ Takes("kernel")

\* Values of different signs are not aligned at all.
KernelCompare ==
  /\ Kernel /\ op = "compare"
  /\ IF (a_raw < 0) # (b_raw < 0)
       THEN /\ Answered(RM!Value(IF a_raw < 0 THEN -1 ELSE 1))
            /\ UNCHANGED <<terms, tier, wides>>
       ELSE LET l == RM!Magnitude(a_raw) * Power(Db - common_scale)
                r == RM!Magnitude(b_raw) * Power(Da - common_scale)
            IN /\ tier' = TierFor(AlignedBits)
               /\ wides' = {l, r, Power(Db - common_scale), Power(Da - common_scale)}
               /\ Answered(RM!Value(IF a_raw < 0 THEN EM!Sign(r - l) ELSE EM!Sign(l - r)))
               /\ UNCHANGED terms

(* In a constant expression: limbs twice as long here, so that half of one  *)
(* holds the radix, as half of 64 bits holds ten.                           *)

L == 2 ^ Pair
RawLimbs == 2              \* of a quad: 4 in the code
RawPlaces == 0 .. RawLimbs - 1
Places == 0 .. CompareLimbs - 1

\* A quad's limbs negated one by one, the carry running on through zeros.
Inverted(v, k) == L - 1 - ((v \div L ^ k) % L)
NegatedCarry(v, k) == IF \A i \in 0 .. k - 1 : Inverted(v, i) = L - 1 THEN 1 ELSE 0
to_compare_magnitude(v) ==
  [k \in Places |->
     IF k \notin RawPlaces THEN 0
     ELSE IF v < 0 THEN (Inverted(v, k) + NegatedCarry(v, k)) % L
     ELSE (v \div L ^ k) % L]

\* By halves of a limb, each within a limb with the carry it takes.
multiply_by_ten(m) ==
  LET H == 2 ^ Limb
      LowHalf(k, carry) == (m[k] % H) * Base + carry
      HighHalf(k, carry) == (m[k] \div H) * Base + LowHalf(k, carry) \div H
      Carry[k \in Places] ==
        IF k = 0 THEN 0 ELSE HighHalf(k - 1, Carry[k - 1]) \div H
  IN [k \in Places |->
        ((HighHalf(k, Carry[k]) * H) % L) + (LowHalf(k, Carry[k]) % H)]

Lifted(m, decimals) ==
  LET lifted[k \in 0 .. decimals] ==
        IF k = 0 THEN m ELSE multiply_by_ten(lifted[k - 1])
  IN lifted[decimals]

\* Mutant: the limb that only a lifted value reaches is not looked at.
compare_raw_limbs(m, n) ==
  LET differing == {k \in RawPlaces : m[k] # n[k]}
  IN IF differing = {} THEN 0 ELSE EM!Sign(m[Max(differing)] - n[Max(differing)])

\* From the most significant limb down.
compare_magnitudes(m, n) ==
  LET differing == {k \in Places : m[k] # n[k]}
  IN IF differing = {} THEN 0 ELSE EM!Sign(m[Max(differing)] - n[Max(differing)])

constexpr_mixed_compare ==
  LET l == Lifted(to_compare_magnitude(a_raw), Db - common_scale)
      r == Lifted(to_compare_magnitude(b_raw), Da - common_scale)
  IN IF (a_raw < 0) # (b_raw < 0) THEN IF a_raw < 0 THEN -1 ELSE 1
     ELSE IF a_raw = 0 /\ b_raw = 0 THEN 0
     ELSE IF a_raw < 0 THEN -compare_magnitudes(l, r)
     ELSE compare_magnitudes(l, r)

\* The kernel cannot run there.
ConstantCompare ==
  /\ Takes("kernel") /\ op = "compare"
  /\ Answered(RM!Value(constexpr_mixed_compare))
  /\ UNCHANGED <<terms, tier, wides>>

LimitMagnitude(negative) == 2 ^ (Bd - 1) - 1 + RM!Indicator(negative)

\* A difference that vanishes keeps the sign of a.
Negative ==
  CASE op = "cast" -> a_raw < 0
    [] op \in {"add", "sub"} -> Combined < 0 \/ (Combined = 0 /\ a_raw < 0)
    [] op \in {"mul", "div"} -> (a_raw < 0) # (b_raw < 0)
    [] op = "mul_div" -> ((a_raw < 0) # (b_raw < 0)) # (c_raw < 0)

Evaluate ==
  /\ Kernel /\ op # "compare" /\ Divisor # 0
  /\ LET num == RM!Magnitude(Numerator)
         den == RM!Magnitude(Denominator)
     IN /\ tier' = TierFor(MaxOf(MaxOf(NumeratorBits, DenominatorBits), Bd))
        /\ wides' = {num, den, RM!Magnitude(Combined), Power(Up), LimitMagnitude(Negative)}
                      \union (IF op \in {"add", "sub"}
                                THEN {RM!Magnitude(Lhs), RM!Magnitude(Rhs)} ELSE {})
        /\ Answered(WithSign(RM!RoundMagnitude(num \div den, num % den, den, Negative,
                                             mixedRounding, LimitMagnitude(Negative)),
                            Negative))
        /\ UNCHANGED terms

\* The caller takes the answer.
ReturnMixed ==
  /\ mixedStage = "answered"
  /\ mixedStage' = "idle"
  /\ mixedRequest' = EM!NoRequest /\ mixedAnswer' = EM!NoAnswer
  /\ terms' = {} /\ tier' = 0 /\ wides' = {}
  /\ UNCHANGED mixedBuild

MixedWork ==
  \/ DivideByZero \/ NativeCompare \/ Native \/ SameScale
  \/ AttemptCast \/ AttemptAddSub \/ AttemptMul
  \/ KernelCompare \/ ConstantCompare \/ Evaluate

MixedNext == CallMixed \/ MixedWork \/ ReturnMixed

\* The call runs to its end without suspending.
MixedSpec == MixedInit /\ [][MixedNext]_mixedVars /\ WF_mixedVars(MixedWork)

-----------------------------------------------------------------------------
(* Properties *)

\* Signed overflow of __int128 is undefined: whatever the types or the checks
\* of an attempt let through, every value computed in a pair of limbs fits it.
PairNeverOverflows == \A v \in terms : InPair(v)

\* The estimate that picks a tier is an over-estimate: no operand, power,
\* product or limit is wider than the tier ("anything narrower is a wrong
\* answer", mixed.cpp).  TLC's integers end at the tier of eight limbs.
TierHolds ==
  tier * Limb < 31 => \A m \in wides : m < 2 ^ (tier * Limb)

\* Every call is answered, on every build and by whichever path, with the
\* exact value rounded once or the error of precedence.
ImplementsExactMixed == EM!Spec
=============================================================================
