--------------------------- MODULE DoubleArithmetic ---------------------------
(***************************************************************************)
(* The same-type operations of arithmetic.hpp for the types wider than the *)
(* machine word, and their kernels in arithmetic.cpp and native.hpp.  A    *)
(* 128-bit type is two words; it takes one of three paths, by the build:   *)
(*   asm       operands that fit one word are multiplied and divided by    *)
(*             the machine's own instructions, inline;                     *)
(*   native    the compiler's double word, narrowed to the machine         *)
(*             division wherever a test proves that the quotient fits;     *)
(*   portable  two limbs only, always by magnitudes.                       *)
(* A 256-bit type takes a fourth path on every build:                      *)
(*   quad      four limbs, by magnitudes, one- or multi-limb division.     *)
(* On the path "consteval" ConstexprArithmetic takes over.                 *)
(* The long divisions themselves are modelled in DivideNarrow,             *)
(* PortableDivide128 and KnuthDivision, and appear here by their results.  *)
(***************************************************************************)
EXTENDS MachineWord, FiniteSets

CONSTANTS
  Paths,                   \* the paths to follow
  Types,                   \* the types: <<Radix, D>> for D digits
  Lefts, Rights,           \* the operands a program passes
  Factors                  \* the operands it passes to mul_div

Bits == 2 * Word

ASSUME WordAssumption == Word \in Nat /\ Word >= 2 /\ Word % 2 = 0
ASSUME PathsAssumption == Paths \subseteq {"asm", "native", "portable", "quad", "consteval"}
ASSUME TypesAssumption ==
  \A t \in Types :
    /\ t[1] \in Nat /\ t[1] >= 2 /\ t[1] % 2 = 0
    /\ t[2] \in Nat /\ t[1] ^ t[2] < 2 ^ (Bits - 1)
ASSUME OperandsAssumption ==
  Lefts \union Rights \union Factors \subseteq -(2 ^ (Bits - 1)) .. 2 ^ (Bits - 1) - 1

ASSUME PowersAssumption ==     \* what defines a power, for the exponents used
  /\ 2 ^ 0 = 1 /\ \A k \in 0 .. Bits - 1 : 2 ^ (k + 1) = 2 * 2 ^ k
  /\ \A t \in Types :
       t[1] ^ 0 = 1 /\ \A k \in 0 .. t[2] - 1 : t[1] ^ (k + 1) = t[1] * t[1] ^ k

VARIABLES
  path, Radix, D,          \* the build and the type, chosen once
  request, answer,         \* the call and its result
  stage,                   \* where the call is
  numerator, divisor,      \* what a kernel divides: signed, or magnitudes
  negative                 \* the sign to put back on a quotient of magnitudes

chosen == <<path, Radix, D>>
kernel == <<numerator, divisor, negative>>
vars == <<chosen, request, answer, stage, kernel>>

E == INSTANCE ExactArithmetic
R == INSTANCE Rounding WITH M <- 2 ^ Bits          \* of double words
W == INSTANCE Rounding WITH M <- 2 ^ Word          \* of words

MM == 2 ^ Bits
i128_max == 2 ^ (Bits - 1) - 1
i128_min == -(2 ^ (Bits - 1))
InRange(v) == v \in i128_min .. i128_max
fits64(v) == InWord(v)

\* Two's complement: what a pattern of `bits` bits means.
Wrap(v, bits) ==
  LET u == v % 2 ^ bits IN IF u >= 2 ^ (bits - 1) THEN u - 2 ^ bits ELSE u

scale == Radix ^ D
ScaleFitsIdiv == scale <= INT_MAX  \* D <= max_scaled_decimals_64
ScaleFitsWord == scale < M         \* D <= max_scaled_decimals_128
rounding == request.rounding
CommonRounding == rounding \in {"toward_zero", "nearest_even"}
Machine == path \in {"asm", "native"}
LimbSums == path \in {"portable", "quad"}
Compiled == path # "consteval"
Divided == request.op \in {"mul", "div", "mul_div"}
Ops == E!Ops \ {"midpoint"}        \* midpoint is one template: FixedArithmetic

Init ==
  /\ path \in Paths
  /\ \E t \in Types : Radix = t[1] /\ D = t[2]
  /\ stage = "idle"
  /\ request = E!NoRequest /\ answer = E!NoAnswer
  /\ numerator = 0 /\ divisor = 0 /\ negative = FALSE

\* The arguments an operation does not take are 0.
Call ==
  /\ stage = "idle"
  /\ \E op \in Ops :
     \E a \in IF op = "mul_div" THEN Factors ELSE Lefts,
        b \in CASE op = "mul_div" -> Factors
                [] op \in {"negate", "abs", "quantize"} -> {0}
                [] OTHER -> Rights,
        c \in IF op = "mul_div" THEN Factors ELSE {0},
        decimals \in IF op = "quantize" THEN 0 .. D + 1 ELSE {D},
        mode \in IF op \in {"mul", "div", "mul_div", "quantize"} THEN R!Modes
                                                               ELSE {"exact"} :
       request' = E!Request(op, a, b, c, decimals, mode)
  /\ stage' = "dispatch"
  /\ UNCHANGED <<chosen, answer, kernel>>

Reply(r) ==
  /\ stage' = "answered"
  /\ answer' = r
  /\ UNCHANGED <<chosen, request, kernel>>

Ranged(v) == IF InRange(v) THEN R!Value(v) ELSE R!Failure("overflow")

Enter(next, n, d, sign) ==
  /\ stage' = next
  /\ numerator' = n /\ divisor' = d /\ negative' = sign
  /\ UNCHANGED <<chosen, request, answer>>

-----------------------------------------------------------------------------
(* Sums: the compiler's overflow flag, or the signs of a wrapped result.   *)

OverflowBySigns(a, b, res) ==
  (a < 0) = (b < 0) /\ (a < 0) # (res < 0)

Added(a, b) ==
  IF ~LimbSums THEN Ranged(a + b)
  ELSE LET res == Wrap(a + b, Bits)
       IN IF OverflowBySigns(a, b, res) THEN R!Failure("overflow") ELSE R!Value(res)

Subtracted(a, b) ==
  IF ~LimbSums THEN Ranged(a - b)
  ELSE LET res == Wrap(a - b, Bits)
       IN IF (a < 0) # (b < 0) /\ (a < 0) # (res < 0)
            THEN R!Failure("overflow") ELSE R!Value(res)

Negated(a) == IF a = i128_min THEN R!Failure("overflow") ELSE Subtracted(0, a)

Add == stage = "dispatch" /\ request.op = "add" /\ Reply(Added(request.a, request.b))
Sub == stage = "dispatch" /\ request.op = "sub" /\ Reply(Subtracted(request.a, request.b))
Negate == stage = "dispatch" /\ request.op = "negate" /\ Reply(Negated(request.a))
Abs ==
  /\ stage = "dispatch" /\ request.op = "abs"
  /\ Reply(IF request.a < 0 THEN Negated(request.a) ELSE R!Value(request.a))

-----------------------------------------------------------------------------
(* Products and quotients of magnitudes.                                   *)

\* Mutant: the carry of the middle column is lost.
Multiply128NoCarry(u, v) ==
  LET p00 == (u % M) * (v % M)    p01 == (u % M) * (v \div M)
      p10 == (u \div M) * (v % M) p11 == (u \div M) * (v \div M)
      middle == ((p00 \div M) + (p01 % M) + (p10 % M)) % M
  IN [lo |-> ((middle * M) % MM) + (p00 % M),
      hi |-> (p11 + (p01 \div M) + (p10 \div M)) % MM]

\* multiply128 of native.hpp: four partial products, the middle column carrying
\* upwards.  The portable one passes carries differently, to the same two words.
Multiply128(u, v) ==
  LET p00 == (u % M) * (v % M)    p01 == (u % M) * (v \div M)
      p10 == (u \div M) * (v % M) p11 == (u \div M) * (v \div M)
      middle == (p00 \div M) + (p01 % M) + (p10 % M)
  IN [lo |-> ((middle * M) % MM) + (p00 % M),
      hi |-> (p11 + (p01 \div M) + (p10 \div M) + (middle \div M)) % MM]

FullProduct(u, v) == LET p == Multiply128(u, v) IN p.hi * MM + p.lo

\* divide128by64: the high word first, its remainder leads the low one.
DivideByWord(n, d) ==
  LET rest == ((n \div M) % d) * M + (n % M)
  IN [q |-> ((n \div M) \div d) * M + (rest \div d), r |-> rest % d]

\* divide128 by two limbs.  The portable one leaves an estimate of M - 1 as it
\* is, see PortableDivide128; its difference wraps.
DivideByPair(n, d) ==
  LET s == CHOOSE k \in 0 .. Word - 1 : M <= 2 * (d \div M) * 2 ^ k /\ (d \div M) * 2 ^ k < M
      estimate == ((n * 2 ^ s) \div M) \div ((d * 2 ^ s) \div M)
      q == IF path = "portable" /\ estimate = M - 1 THEN M - 1 ELSE n \div d
  IN [q |-> q, r |-> (n - d * q) % MM]

Divide128(n, d, need_remainder) ==
  IF d < M THEN DivideByWord(n, d)
  ELSE IF n < d THEN [q |-> 0, r |-> n]
  ELSE [DivideByPair(n, d) EXCEPT !.r = IF need_remainder THEN @ ELSE 0]

Limit(sign) == i128_max + R!Indicator(sign)

Signed(r, sign) == IF r.error = "none" /\ sign THEN R!Value(Wrap(-r.value, Bits)) ELSE r

\* nat::finish: round the magnitude and put the sign back.
Finished(quotient, d, sign) ==
  Signed(R!RoundMagnitude(quotient.q, quotient.r, d, sign, rounding, Limit(sign)), sign)

\* Nothing in the high half takes the short division, otherwise divide_narrow
\* refuses what does not fit.
WideAnswer ==
  IF numerator \div MM = 0
    THEN Finished(Divide128(numerator, divisor, rounding # "toward_zero"), divisor, negative)
  ELSE IF numerator \div MM >= divisor THEN R!Failure("overflow")
  ELSE Finished([q |-> numerator \div divisor, r |-> numerator % divisor], divisor, negative)

\* finish_wide of the native backend; the kernels of the portable one.
FinishWide == stage = "wide" /\ Machine /\ Reply(WideAnswer)
FinishPortable == stage = "wide" /\ path = "portable" /\ Reply(WideAnswer)

\* The 256-bit kernels: divide_wide, then no upper limb may be left.
FinishQuad ==
  /\ stage = "quad"
  /\ Reply(IF numerator \div divisor >= MM THEN R!Failure("overflow")
           ELSE Finished([q |-> numerator \div divisor, r |-> numerator % divisor],
                         divisor, negative))

RemainderOp ==
  /\ stage = "dispatch" /\ Compiled /\ request.op = "remainder"
  /\ LET r == Divide128(Absolute(request.a), Absolute(request.b), TRUE).r
     IN Reply(IF request.b = 0 THEN R!Failure("division_by_zero")
              ELSE IF request.b = -1 THEN R!Value(0)
              ELSE R!Value(IF request.a < 0 THEN Wrap(-r, Bits) ELSE Wrap(r, Bits)))

grid == Radix ^ (D - request.decimals)

\* quantize128_kernel and quantize256_kernel: the rescaled magnitude is
\* checked for a high half, then against the limit.
Quantize ==
  /\ stage = "dispatch" /\ Compiled /\ request.op = "quantize" /\ request.decimals < D
  /\ LET sign == request.a < 0
         divided == Divide128(Absolute(request.a), grid, rounding # "toward_zero")
         rounded == R!RoundMagnitude(divided.q, divided.r, grid, sign, rounding, Limit(sign))
         product == Multiply128(rounded.value, grid)
     IN Reply(IF rounded.error # "none" THEN rounded
              ELSE IF product.hi # 0 \/ product.lo > Limit(sign) THEN R!Failure("overflow")
              ELSE Signed(R!Value(product.lo), sign))

QuantizeSame ==
  /\ stage = "dispatch" /\ Compiled /\ request.op = "quantize" /\ request.decimals = D
  /\ Reply(R!Value(request.a))

InvalidPrecision ==
  /\ stage = "dispatch" /\ Compiled /\ request.op = "quantize" /\ request.decimals > D
  /\ Reply(R!Failure("invalid_precision"))

-----------------------------------------------------------------------------
(* mul, div and mul_div: which path a division takes.                      *)

Denominator ==
  CASE request.op = "mul" -> scale
    [] request.op = "div" -> request.b
    [] request.op = "mul_div" -> request.c

RejectZeroDivisor ==
  /\ stage = "dispatch" /\ Compiled /\ Divided /\ Denominator = 0
  /\ Reply(R!Failure("division_by_zero"))

Ready(op) == stage = "dispatch" /\ Compiled /\ request.op = op /\ Denominator # 0

\* Both factors fit a word, so their product fits two.
NarrowFactors == CommonRounding /\ fits64(request.a) /\ fits64(request.b)
Product == request.a * request.b

InlineMul == path = "asm" /\ NarrowFactors /\ ScaleFitsIdiv
InlineMulDiv ==
  path = "asm" /\ NarrowFactors /\ fits64(request.c) /\ QuotientFits(Product, request.c)

\* |a * scale| fits, tested without forming it.
DivBound ==
  LET bound == i128_max \div scale IN (request.a + bound) % MM <= 2 * bound

NarrowMul == Machine /\ NarrowFactors /\ ScaleFitsWord
NarrowDiv == Machine /\ CommonRounding /\ ScaleFitsWord /\ DivBound
NarrowMulDiv == Machine /\ NarrowFactors

Mul ==
  /\ Ready("mul")
  /\ IF InlineMul
       THEN Enter(IF MultiplyFits(Product, scale) THEN "inline" ELSE "slab", Product, scale, FALSE)
     ELSE IF NarrowMul THEN Enter("product", Product, scale, FALSE)
     ELSE Enter(IF path = "quad" THEN "quad" ELSE "wide",
                FullProduct(Absolute(request.a), Absolute(request.b)), scale,
                (request.a < 0) # (request.b < 0))

\* Truncation goes straight to the compiler's division.
Div ==
  /\ Ready("div")
  /\ IF NarrowDiv
       THEN Enter(IF rounding = "toward_zero" THEN "machine" ELSE "native",
                  request.a * scale, request.b, FALSE)
       ELSE Enter(IF path = "quad" THEN "quad" ELSE "wide",
                  FullProduct(Absolute(request.a), scale), Absolute(request.b),
                  (request.a < 0) # (request.b < 0))

MulDiv ==
  /\ Ready("mul_div")
  /\ IF InlineMulDiv THEN Enter("inline", Product, request.c, FALSE)
     ELSE IF NarrowMulDiv THEN Enter("native", Product, request.c, FALSE)
     ELSE Enter(IF path = "quad" THEN "quad" ELSE "wide",
                FullProduct(Absolute(request.a), Absolute(request.b)), Absolute(request.c),
                (request.a < 0) # ((request.b < 0) # (request.c < 0)))

-----------------------------------------------------------------------------
(* One machine division of two words by one.                               *)

quot == Quotient(numerator, divisor)
rem == Remainder(numerator, divisor)
OppositeSigns == (numerator < 0) # (divisor < 0)

\* mul: the adjustment is added in a word.
InlineMultiply ==
  /\ stage = "inline" /\ request.op = "mul"
  /\ LET adj == IF rounding = "nearest_even" /\ rem # 0
                  THEN W!NearestScaledAdj(quot, rem, divisor) ELSE 0
     IN Reply(R!Value(Wrap(quot + adj, Word)))

\* Mutant: the high limb is the sign extension of the rounded low one.
RoundWideQuotientLow(q, adj) == Wrap(q + adj, Word)

\* round_wide_quotient: the low limb is added in a word and the high limb comes
\* from the signs before the addition.
RoundWideQuotient(q, adj) ==
  Wrap(((q + adj) % M) + M * (IF q < 0 \/ adj < 0 THEN M - 1 ELSE 0), Bits)

\* mul_div: rounded into two words.
InlineMulDivide ==
  /\ stage = "inline" /\ request.op = "mul_div"
  /\ LET adj == IF rounding = "nearest_even" /\ rem # 0
                  THEN W!NearestAdj(quot, rem, divisor, OppositeSigns) ELSE 0
     IN Reply(R!Value(RoundWideQuotient(quot, adj)))

\* mul outside the test: two unsigned divisions of the magnitude.
InlineSlab ==
  /\ stage = "slab"
  /\ LET quotient == DivideByWord(Absolute(numerator), divisor)
         up == /\ rounding = "nearest_even" /\ quotient.r # 0
               /\ W!NearestEvenInc(quotient.q % M, quotient.r, divisor)
         magnitude == (quotient.q + R!Indicator(up)) % MM
     IN Reply(R!Value(Wrap(IF numerator < 0 THEN -magnitude ELSE magnitude, Bits)))

\* divide_product_by_scale_n.  A scale of the top bit alone or more is tested,
\* and would be divided by, as a negative word.
DivideProduct ==
  /\ stage = "product"
  /\ Enter(IF QuotientFits(numerator, Wrap(scale, Word)) THEN "native" ELSE "scale",
           numerator, divisor, FALSE)

\* divide_scale_general_n.
DivideScale ==
  /\ stage = "scale"
  /\ LET quotient == Divide128(Absolute(numerator), divisor, TRUE)
         up == rounding = "nearest_even" /\ R!NearestEvenIncrement(quotient.q, quotient.r, divisor)
         magnitude == (quotient.q + R!Indicator(up)) % MM
     IN Reply(R!Value(Wrap(IF numerator < 0 THEN -magnitude ELSE magnitude, Bits)))

\* Mutant: the divisor's own width is not asked for.
DivideNativeWide ==
  /\ stage = "native"
  /\ Enter(IF QuotientFits(numerator, divisor) THEN "idiv" ELSE "machine",
           numerator, divisor, FALSE)

\* divide_native_n: one machine division, or the compiler's own.
DivideNative ==
  /\ stage = "native"
  /\ Enter(IF fits64(divisor) /\ QuotientFits(numerator, divisor) THEN "idiv" ELSE "machine",
           numerator, divisor, FALSE)

\* The quotient is widened before the adjustment.
DivideWord ==
  /\ stage = "idiv"
  /\ LET adj == IF rounding = "toward_zero" \/ rem = 0 THEN 0
                ELSE W!NearestAdjustment(quot, rem, divisor, OppositeSigns)
     IN Reply(R!Value(Wrap(quot + adj, Bits)))

\* divide_native_general_n, or the truncating division of div.
DivideMachine ==
  /\ stage = "machine"
  /\ LET up == /\ rounding # "toward_zero" /\ rem # 0
               /\ R!NearestEvenIncrement(quot % MM, Absolute(rem), Absolute(divisor))
     IN Reply(R!Value(Wrap(quot + (IF ~up THEN 0 ELSE IF OppositeSigns THEN -1 ELSE 1), Bits)))

\* The caller takes the answer.
Return ==
  /\ stage = "answered"
  /\ stage' = "idle"
  /\ request' = E!NoRequest /\ answer' = E!NoAnswer
  /\ numerator' = 0 /\ divisor' = 0 /\ negative' = FALSE
  /\ UNCHANGED chosen

Work ==
  \/ Add \/ Sub \/ Negate \/ Abs \/ RemainderOp
  \/ Quantize \/ QuantizeSame \/ InvalidPrecision
  \/ RejectZeroDivisor \/ Mul \/ Div \/ MulDiv
  \/ InlineMultiply \/ InlineMulDivide \/ InlineSlab
  \/ DivideProduct \/ DivideScale \/ DivideNative \/ DivideWord \/ DivideMachine
  \/ FinishWide \/ FinishPortable \/ FinishQuad

Next == Call \/ Work \/ Return

\* The call runs to its end without suspending.
Spec == Init /\ [][Next]_vars /\ WF_vars(Work)

-----------------------------------------------------------------------------
(* Properties *)

\* No division traps: the machine divides two words by one only when the
\* quotient fits a word, and the compiler's double-word division never meets
\* a numerator that overflowed or min / -1 (arithmetic.cpp: "signed_min / -1
\* cannot arise below").
NoDivideTrap ==
  /\ stage \in {"inline", "idiv"} => fits64(divisor) /\ divisor # 0 /\ InWord(quot)
  /\ stage = "machine" => InRange(numerator) /\ divisor # 0 /\ InRange(quot)

\* error.hpp: "no operation returns a wrong answer in place of an error".
\* On the portable path a division does.
AnswerExact == stage = "answered" => answer = E!RightAnswer(request)

\* The portable path deviates in a division by two limbs whose estimate it
\* does not lower, and never in a product or on a grid by a scale of one word.
Misdivided(n, d) == d >= M /\ n < MM /\ DivideByPair(n, d).q # n \div d
Deviates ==
  /\ stage = "answered" /\ path = "portable"
  /\ request.op \in {"mul", "quantize"} => ~ScaleFitsWord
  /\ CASE request.op = "remainder" -> Misdivided(Absolute(request.a), Absolute(request.b))
       [] request.op = "quantize" -> request.decimals < D /\ Misdivided(Absolute(request.a), grid)
       [] OTHER -> Divided /\ Misdivided(numerator, divisor)

\* Every call is answered, with what ExactArithmetic says, on any path and but
\* for that deviation.
Exact == INSTANCE ExactArithmetic WITH
  answer <- IF Deviates THEN E!RightAnswer(request) ELSE answer
ImplementsExactArithmetic == Exact!Spec
=============================================================================
