---------------------------- MODULE BatchMultiply ----------------------------
(***************************************************************************)
(* batch_multiply.hpp and the vector arithmetic of batch_simd.hpp: the     *)
(* product of a row by a factor that is prepared once for all rows, by one *)
(* that is not, and of a lane of a vector tile.  Each way must answer what *)
(* the mixed-width multiplication does.                                    *)
(***************************************************************************)
EXTENDS Integers

CONSTANTS
  Word,                    \* bits of std::uint64_t, even: a lane has half words
  Radix,                   \* twice an odd number: 10
  MaxGap,                  \* Radix^MaxGap fits a word: 19
  SignedGap,               \* the gap with a signed vector path: 10
  Rows, Factors,           \* operands: [raw, bits, decimals]
  Dests                    \* destination types: [bits, decimals]

M == 2 ^ Word
H == 2 ^ (Word \div 2)

ASSUME BatchAssumption ==
  /\ Word \in Nat \ {0} /\ Word % 2 = 0 /\ Radix \in Nat /\ Radix % 4 = 2
  /\ MaxGap \in Nat /\ Radix ^ MaxGap < M
ASSUME SignedAssumption ==     \* the constants 1410065408 and 2 of the code
  Radix ^ SignedGap \div H = 2 /\ Radix ^ SignedGap % H < H \div 2

ASSUME OperandsAssumption ==   \* a raw integer is one of its type
  \A x \in Rows \union Factors :
    /\ x.bits \in Nat \ {0} /\ x.decimals \in Nat
    /\ x.raw \in -(2 ^ (x.bits - 1)) .. 2 ^ (x.bits - 1) - 1
ASSUME PowersAssumption ==     \* what defines a power, for the exponents used
  /\ Radix ^ 0 = 1 /\ \A k \in 0 .. MaxGap - 1 : Radix ^ (k + 1) = Radix * Radix ^ k
  /\ 2 ^ 0 = 1 /\ \A k \in 0 .. 2 * Word - 1 : 2 ^ (k + 1) = 2 * 2 ^ k

VARIABLES
  build,                   \* "asm" or "portable"
  plan,                    \* broadcast_multiplier, or NoPlan
  request, answer,         \* a row's product and its result
  stage,                   \* where it is
  a, b, negative, divisor, \* the arguments of multiply_split
  q, r                     \* quotient and remainder so far

split == <<a, b, negative, divisor>>
vars == <<build, plan, request, answer, stage, split, q, r>>

X == INSTANCE ExactMixed WITH Operands <- Rows \union Factors
E == INSTANCE ExactRounding WITH Bits <- request.dest.bits

NoPlan == [factor |-> X!NoOperand, dest |-> X!NoDest, rounding |-> "exact",
           reduced |-> 0, divisor |-> 1]

Magnitude(x) == IF x < 0 THEN -x ELSE x
Indicator(p) == IF p THEN 1 ELSE 0

Init ==
  /\ build \in {"asm", "portable"}
  /\ plan = NoPlan
  /\ request = X!NoRequest /\ answer = X!NoAnswer /\ stage = "idle"
  /\ a = 0 /\ b = 0 /\ negative = FALSE /\ divisor = 1 /\ q = 0 /\ r = 0

-----------------------------------------------------------------------------
(* The prepared factor.                                                    *)

\* gcd(u, v) of the code is gcd[v][u].
gcd[v \in Nat] == [u \in Nat |-> IF v = 0 THEN u ELSE gcd[u % v][v]]

\* Factor and denominator, freed of what they share.
Prepare ==
  /\ stage = "idle" /\ plan = NoPlan
  /\ \E factor \in Factors, dest \in Dests, rounding \in X!XR(1)!RoundingModes :
       LET prepared == /\ factor.bits <= 2 * Word /\ dest.bits <= 2 * Word
                       /\ factor.decimals <= MaxGap
           denominator == Radix ^ factor.decimals
           common == gcd[denominator][Magnitude(factor.raw) % denominator]
       IN plan' = [factor |-> factor, dest |-> dest, rounding |-> rounding,
                   reduced |-> IF prepared THEN Magnitude(factor.raw) \div common ELSE 0,
                   divisor |-> IF prepared THEN denominator \div common ELSE 1]
  /\ UNCHANGED <<build, request, answer, stage, split, q, r>>

Release ==
  /\ stage = "idle" /\ plan # NoPlan
  /\ plan' = NoPlan
  /\ UNCHANGED <<build, request, answer, stage, split, q, r>>

Begin(row, factor, dest, rounding, next) ==
  /\ request' = X!Request("mul", row, factor, X!NoOperand, dest, rounding)
  /\ stage' = next
  /\ UNCHANGED <<build, plan, answer, split, q, r>>

CallBinary ==
  /\ stage = "idle" /\ plan = NoPlan
  /\ \E row \in Rows, factor \in Factors, dest \in Dests, rounding \in X!XR(1)!RoundingModes :
       Begin(row, factor, dest, rounding, "exact")

\* simd_dispatch: available, can_run.
HasLanes(row) ==
  LET gap == row.decimals + plan.factor.decimals - plan.dest.decimals
  IN /\ build = "asm" /\ plan.rounding = "exact"
     /\ row.bits = 2 * Word /\ plan.dest.bits = 2 * Word
     /\ plan.factor.bits <= Word /\ gap \in 1 .. MaxGap

\* A row is a lane of a tile, or one of the rows around it.
CallRow ==
  /\ stage = "idle" /\ plan # NoPlan
  /\ \E row \in Rows :
       \/ Begin(row, plan.factor, plan.dest, plan.rounding, "exact")
       \/ HasLanes(row) /\ Begin(row, plan.factor, plan.dest, plan.rounding, "lane")

Return ==
  /\ stage = "answered"
  /\ stage' = "idle" /\ request' = X!NoRequest /\ answer' = X!NoAnswer
  /\ a' = 0 /\ b' = 0 /\ negative' = FALSE /\ divisor' = 1 /\ q' = 0 /\ r' = 0
  /\ UNCHANGED <<build, plan>>

Respond(result) ==
  /\ stage' = "answered" /\ answer' = result
  /\ UNCHANGED <<build, plan, request, split, q, r>>
Checked(x) == IF x \in E!Raws THEN E!Result(x) ELSE E!Error("overflow")

input == request.a
factor == request.b
gap == input.decimals + factor.decimals - request.dest.decimals
denominator == Radix ^ gap

-----------------------------------------------------------------------------
(* evaluate: one lane.  A value is two words, a coefficient half of one.   *)

Wide(x) == [low |-> x % M, high |-> (x \div M) % M]

ApplySign(w, minus) ==
  IF minus THEN [low |-> (M - w.low) % M, high |-> (M - 1 - w.high + Indicator(w.low = 0)) % M]
           ELSE w
SignedValue(w) == IF w.high >= M \div 2 THEN w.low + M * (w.high - M) ELSE w.low + M * w.high
SignedHalf(x) == IF x >= H \div 2 THEN x - H ELSE x

\* inverse_odd: each step doubles the bits that are right.
WordInverse ==
  LET odd == (denominator \div 2 ^ gap) % H
      step[k \in 0 .. 5] ==
        IF k = 0 THEN 1 ELSE (step[k - 1] * ((2 - odd * step[k - 1]) % H)) % H
  IN step[5]

Coefficient(low) == (((low \div 2 ^ gap) % H) * WordInverse) % H

multiply32x64(x, y) ==
  LET low == x * (y % H)
      high == x * (y \div H)
      sum == (low + high * H) % M
  IN [low |-> sum, high |-> (high \div H) + Indicator(low > sum)]

\* Both signed partial products fit a word; their two signs and the carry make
\* the high one.
SignedReconstruction(c) ==
  LET low_product == (SignedHalf(c) * (denominator % H)) % M
      sum == (low_product + c * 2 * H) % M
      minus == low_product >= M \div 2
  IN [low |-> sum, high |-> (Indicator(low_product > sum) - 2 * Indicator(minus)) % M]

UsesSigned == gap = SignedGap /\ factor.raw \in -(H \div 2) .. H \div 2 - 1

\* Mutant: the certificate is the low word's.
AcceptedLow(w, rebuilt) == w.low = rebuilt.low

Accepted(w, rebuilt) == w = rebuilt

EvaluateLane ==
  /\ stage = "lane"
  /\ LET raw == Wide(input.raw)
         minus == raw.high >= M \div 2
         magnitude == ApplySign(raw, minus)
         c == Coefficient(IF UsesSigned THEN raw.low ELSE magnitude.low)
         rebuilt == IF UsesSigned THEN SignedReconstruction(c) ELSE multiply32x64(c, denominator)
         m == Magnitude(factor.raw)
         product == IF m < H THEN [low |-> c * m, high |-> 0] ELSE multiply32x64(c, m)
     IN IF ~Accepted(IF UsesSigned THEN raw ELSE magnitude, rebuilt)
          THEN stage' = "exact" /\ UNCHANGED <<build, plan, request, answer, split, q, r>>
        ELSE Respond(E!Result(
               IF UsesSigned THEN SignedHalf(c) * factor.raw
               ELSE SignedValue(ApplySign(product, minus # (factor.raw < 0)))))

-----------------------------------------------------------------------------
(* try_exact_product, for either operand, and the paths after it.          *)

Certifiable(wide, other) ==
  /\ wide.bits > Word /\ wide.bits <= 2 * Word /\ other.bits <= Word
  /\ request.dest.bits <= 2 * Word /\ gap \in 1 .. MaxGap
  /\ request.rounding = "exact"
  \* exact_quotient_i64: a quotient of one signed word, and no remainder.
  /\ wide.raw % denominator = 0
  /\ wide.raw \div denominator \in -(M \div 2) .. M \div 2 - 1

Broadcast == plan # NoPlan
UsesPlan ==
  /\ Broadcast
  /\ input.bits <= 2 * Word /\ factor.bits <= 2 * Word /\ request.dest.bits <= 2 * Word
  /\ input.decimals = request.dest.decimals /\ factor.decimals <= MaxGap
  /\ plan.reduced < M

\* A prepared factor is tried on one side; multiply_to, where a plan that does
\* not apply ends up too, tries both.
Certified ==
  \/ Certifiable(input, factor)
  \/ ~UsesPlan /\ Certifiable(factor, input)

ExactProduct ==
  /\ stage = "exact" /\ Certified
  /\ Respond(Checked((input.raw * factor.raw) \div denominator))

EnterSplit(wide, limb, d) ==
  /\ stage' = "split"
  /\ a' = wide /\ b' = limb /\ divisor' = d
  /\ negative' = ((input.raw < 0) # (factor.raw < 0))
  /\ UNCHANGED <<build, plan, request, answer, q, r>>

SplitByPlan ==
  /\ stage = "exact" /\ ~Certified /\ UsesPlan
  /\ EnterSplit(Magnitude(input.raw), plan.reduced, plan.divisor)

\* multiply_to: the operand of one limb is multiplied by.
Splits ==
  /\ input.bits <= 2 * Word /\ factor.bits <= 2 * Word /\ request.dest.bits <= 2 * Word
  /\ gap \in 0 .. MaxGap
SplitByScale ==
  /\ stage = "exact" /\ ~Certified /\ ~UsesPlan /\ Splits
  /\ \/ /\ Magnitude(factor.raw) < M
        /\ EnterSplit(Magnitude(input.raw), Magnitude(factor.raw), denominator)
     \/ /\ Magnitude(factor.raw) >= M /\ Magnitude(input.raw) < M
        /\ EnterSplit(Magnitude(factor.raw), Magnitude(input.raw), denominator)

\* mul_to, for the rest.
FallBack ==
  /\ stage = "exact" /\ ~Certified /\ ~UsesPlan
  /\ Splits => Magnitude(factor.raw) >= M /\ Magnitude(input.raw) >= M
  /\ Respond(X!RightAnswer(request))

-----------------------------------------------------------------------------
(* prepared_divisor.                                                       *)

reciprocal == M \div divisor

\* Mutant: the quotient is taken as the reciprocal gives it.
DivideLimbUncorrected(value) ==
  LET quotient == (value * reciprocal) \div M
  IN <<quotient, value - quotient * divisor>>

\* The reciprocal is truncated: one correction.
DivideLimb(value) ==
  LET quotient == (value * reciprocal) \div M
      remainder == value - quotient * divisor
      correction == Indicator(remainder >= divisor)
  IN <<quotient + correction, remainder - correction * divisor>>

\* divq, after the high limb is brought below the divisor; or the compiler's.
High(value) == IF value \div M >= divisor THEN DivideLimb(value \div M) ELSE <<0, value \div M>>
Prepared(value) ==
  IF divisor = 1 THEN <<value, 0>>
  ELSE IF value < M THEN DivideLimb(value)
  ELSE IF build = "asm"
    THEN LET x == High(value)[2] * M + (value % M)
         IN <<High(value)[1] * M + x \div divisor, x % divisor>>
  ELSE <<value \div divisor, value % divisor>>

\* constant_divisor leaves the division to the compiler.
Divide(value) ==
  IF UsesPlan THEN Prepared(value) ELSE <<value \div divisor, value % divisor>>

-----------------------------------------------------------------------------
(* multiply_split and finish.                                              *)

limit == 2 ^ (request.dest.bits - 1) - 1 + Indicator(negative)

Divided(pair, next) ==
  /\ q' = pair[1] /\ r' = pair[2] /\ stage' = next
  /\ UNCHANGED <<build, plan, request, answer, split>>

Together == request.rounding # "exact" /\ a < M
SplitProduct == stage = "split" /\ Together /\ Divided(Divide(a * b), "finish")
SplitDivide == stage = "split" /\ ~Together /\ Divided(Divide(a), "scale")

ScaleOverflows ==
  /\ stage = "scale"
  /\ q * b >= M * M \/ q * b > limit
  /\ Respond(E!Error("overflow"))

tail == Divide(r * b)

ScaleTail ==
  /\ stage = "scale" /\ q * b < M * M /\ q * b <= limit
  /\ IF r = 0 THEN Divided(<<q * b, 0>>, "finish")
     ELSE IF tail[1] > limit - q * b THEN Respond(E!Error("overflow"))
     ELSE Divided(<<q * b + tail[1], tail[2]>>, "finish")

Increment ==
  CASE request.rounding = "floor" -> negative
    [] request.rounding = "ceil" -> ~negative
    [] request.rounding = "nearest_even" -> r * 2 > divisor \/ (r * 2 = divisor /\ q % 2 = 1)
    [] request.rounding = "nearest_away" -> r * 2 >= divisor
    [] OTHER -> FALSE

Finish ==
  /\ stage = "finish"
  /\ LET up == r # 0 /\ Increment
         m == q + Indicator(up)
     IN Respond(
          IF q > limit THEN E!Error("overflow")
          ELSE IF r # 0 /\ request.rounding = "exact" THEN E!Error("inexact")
          ELSE IF up /\ q = limit THEN E!Error("overflow")
          ELSE E!Result(IF negative THEN -m ELSE m))

-----------------------------------------------------------------------------

Work ==
  \/ EvaluateLane \/ ExactProduct \/ SplitByPlan \/ SplitByScale \/ FallBack
  \/ SplitProduct \/ SplitDivide \/ ScaleOverflows \/ ScaleTail \/ Finish

Next == Prepare \/ Release \/ CallBinary \/ CallRow \/ Work \/ Return

\* A product is computed without suspending.
Spec == Init /\ [][Next]_vars /\ WF_vars(Work)

-----------------------------------------------------------------------------
(* Properties *)

\* Whatever multiply_split divides, the prepared divisor divides exactly, by a
\* truncated reciprocal and one correction, a limb at a time; and the machine's
\* division never meets a high limb that does not fit, which would trap.
PreparedDivisionExact ==
  UsesPlan =>
    \A x \in (IF stage = "split" THEN {IF Together THEN a * b ELSE a}
              ELSE IF stage = "scale" THEN {r * b} ELSE {}) :
      /\ Prepared(x) = <<x \div divisor, x % divisor>>
      /\ divisor > 1 /\ x >= M => High(x)[2] < divisor

\* Prepared, certified or split, a product is the exact one, rounded once, or
\* the error it deserves; a certified lane is one the scalar way would give.
ImplementsExactMultiply == X!Spec
=============================================================================
