--------------------------- MODULE FixedArithmetic ---------------------------
(***************************************************************************)
(* The same-type operations of arithmetic.hpp for types of at most one     *)
(* machine word, and the 64-bit kernels of arithmetic.cpp they call.  A    *)
(* type as wide as the word has inline divisions guarded by a range test   *)
(* in the assembly build; a narrower one computes in the word and checks   *)
(* its own range afterwards (narrow_checked).  The machine division traps  *)
(* when its quotient does not fit, so each guard has to be exact.          *)
(***************************************************************************)
EXTENDS Integers

CONSTANT Types             \* the types: <<Word, Bits, Radix, D>>, see below

ASSUME TypesAssumption ==
  \A t \in Types :
    /\ t[1] \in Nat /\ t[1] >= 2
    /\ t[2] \in Nat /\ t[2] >= 2 /\ (t[2] = t[1] \/ 2 * t[2] <= t[1])
    /\ t[3] \in Nat /\ t[3] >= 2 /\ t[3] % 2 = 0
    /\ t[4] \in Nat /\ t[3] ^ t[4] < 2 ^ (t[2] - 1)

\* What the proofs need to know of powers: the equations that define them.
ASSUME PowersAssumption ==
  \A t \in Types :
    /\ 2 ^ 0 = 1 /\ \A k \in 0 .. t[1] - 1 : 2 ^ (k + 1) = 2 * 2 ^ k
    /\ t[3] ^ 0 = 1 /\ \A k \in 0 .. t[4] - 1 : t[3] ^ (k + 1) = t[3] * t[3] ^ k

VARIABLES
  Word,                    \* bits of the machine word
  Bits,                    \* bits of the type: Word, or at most half of it
  Radix, D,                \* the type carries D digits in radix Radix (10)
  request, answer,         \* the call and its result
  build,                   \* "asm" or "portable": which build runs
  stage,                   \* where the call is
  x, kmode,                \* the value quantize() works on; the mode in force
  numerator, divisor,      \* what the kernel divides
  result,                  \* what the kernel returned
  retried                  \* did narrow_checked rerun the kernel?

type == <<Word, Bits, Radix, D>>   \* chosen once
kernel == <<numerator, divisor, result>>
vars == <<type, request, answer, build, stage, x, kmode, kernel, retried>>

INSTANCE MachineWord
R == INSTANCE Rounding WITH M <- 2 ^ Word
E == INSTANCE ExactArithmetic

raw_min == -(2 ^ (Bits - 1))       \* of the type
raw_max == 2 ^ (Bits - 1) - 1
InRange(v) == v \in raw_min .. raw_max

scale == Radix ^ D
Divided == request.op \in {"mul", "div", "mul_div"}
CommonRounding == kmode \in {"toward_zero", "nearest_even"}

Init ==
  /\ \E t \in Types : Word = t[1] /\ Bits = t[2] /\ Radix = t[3] /\ D = t[4]
  /\ build \in {"asm", "portable"}
  /\ stage = "idle"
  /\ request = E!NoRequest /\ answer = E!NoAnswer
  /\ x = 0 /\ kmode = "exact"
  /\ numerator = 0 /\ divisor = 0 /\ result = E!NoAnswer
  /\ retried = FALSE

\* The arguments an operation does not take are 0.
Takes(op, argument) ==
  CASE argument = "b" -> op \notin {"negate", "abs", "quantize"}
    [] argument = "c" -> op = "mul_div"
    [] argument = "decimals" -> op \in {"quantize", "midpoint"}
    [] argument = "rounding" -> op \in {"mul", "div", "mul_div", "quantize", "midpoint"}

Call ==
  /\ stage = "idle"
  /\ \E op \in E!Ops, a \in E!Raws :
     \E b \in IF Takes(op, "b") THEN E!Raws ELSE {0},
        c \in IF Takes(op, "c") THEN E!Raws ELSE {0},
        decimals \in IF Takes(op, "decimals") THEN 0 .. D + 1 ELSE {D},
        rounding \in IF Takes(op, "rounding") THEN R!Modes ELSE {"exact"} :
       request' = E!Request(op, a, b, c, decimals, rounding)
  /\ stage' = "dispatch"
  /\ x' = request'.a /\ kmode' = request'.rounding
  /\ UNCHANGED <<type, answer, build, kernel, retried>>

Reply(r) ==
  /\ stage' = "answered"
  /\ answer' = r
  /\ UNCHANGED <<type, request, build, x, kmode, kernel, retried>>

Ranged(v) == IF InRange(v) THEN R!Value(v) ELSE R!Failure("overflow")

-----------------------------------------------------------------------------
(* Operations that never reach a kernel.                                   *)

Wrapped(v) == ((v - raw_min) % 2 ^ Bits) + raw_min
OppositeSigns(u, v) == (u < 0) # (v < 0)

\* add_overflow and sub_overflow: the compiler's flag or, where it has none, the
\* signs of the operands and of the wrapped result.
AddOverflows(a, b) ==
  IF build = "asm" THEN ~InRange(a + b)
  ELSE OppositeSigns(a, Wrapped(a + b)) /\ OppositeSigns(b, Wrapped(a + b))

SubOverflows(a, b) ==
  IF build = "asm" THEN ~InRange(a - b)
  ELSE OppositeSigns(a, b) /\ OppositeSigns(a, Wrapped(a - b))

Sum(a, b) ==
  IF AddOverflows(a, b) THEN R!Failure("overflow") ELSE R!Value(Wrapped(a + b))
Difference(a, b) ==
  IF SubOverflows(a, b) THEN R!Failure("overflow") ELSE R!Value(Wrapped(a - b))

Add ==
  /\ stage = "dispatch" /\ request.op = "add"
  /\ Reply(Sum(request.a, request.b))

Sub ==
  /\ stage = "dispatch" /\ request.op = "sub"
  /\ Reply(Difference(request.a, request.b))

\* Only min() cannot be negated; the rest goes through sub.
Negated(a) == IF a = raw_min THEN R!Failure("overflow") ELSE Difference(0, a)

Negate ==
  /\ stage = "dispatch" /\ request.op = "negate"
  /\ Reply(Negated(request.a))

Abs ==
  /\ stage = "dispatch" /\ request.op = "abs"
  /\ Reply(IF request.a < 0 THEN Negated(request.a) ELSE R!Value(request.a))

\* A divisor of -1 is answered before the division, which would trap at min().
RemainderOf(a, b) == IF b = -1 THEN 0 ELSE Remainder(a, b)

RemainderOp ==
  /\ stage = "dispatch" /\ request.op = "remainder"
  /\ Reply(IF request.b = 0 THEN R!Failure("division_by_zero")
           ELSE R!Value(RemainderOf(request.a, request.b)))

\* a & b and a ^ b of two's complement patterns, as signed values.
Bit(v, k) == (v \div 2 ^ k) % 2
Signed(p) == IF p >= 2 ^ (Bits - 1) THEN p - 2 ^ Bits ELSE p
Pattern(bit) ==
  LET below[k \in Nat] == IF k = 0 THEN 0 ELSE below[k - 1] + 2 ^ (k - 1) * bit[k - 1]
  IN below[Bits]
BitAnd(a, b) == Signed(Pattern([k \in 0 .. Bits - 1 |-> Bit(a, k) * Bit(b, k)]))
BitXor(a, b) == Signed(Pattern([k \in 0 .. Bits - 1 |-> (Bit(a, k) + Bit(b, k)) % 2]))

\* The common bits plus half of the differing ones: floor((a + b) / 2).
Lower(a, b) == BitAnd(a, b) + BitXor(a, b) \div 2
Odd(a, b) == BitXor(a, b) % 2 = 1

MidpointIncrement(lower, rounding) ==
  \/ rounding = "toward_zero" /\ lower < 0
  \/ rounding = "ceil"
  \/ rounding = "nearest_even" /\ lower % 2 = 1
  \/ rounding = "nearest_away" /\ lower >= 0

Midpoint ==
  /\ stage = "dispatch" /\ request.op = "midpoint" /\ request.decimals = D
  /\ LET lower == Lower(request.a, request.b)
         odd == Odd(request.a, request.b)
     IN Reply(IF odd /\ kmode = "exact" THEN R!Failure("inexact")
              ELSE R!Value(lower + R!Indicator(odd /\ MidpointIncrement(lower, kmode))))

InvalidPrecision ==
  /\ stage = "dispatch" /\ request.op \in {"midpoint", "quantize"}
  /\ request.decimals > D
  /\ Reply(R!Failure("invalid_precision"))

-----------------------------------------------------------------------------
(* quantize, and the midpoint on a coarser grid that ends in it.           *)

grid == Radix ^ (D - request.decimals)

QuantizeSame ==
  /\ stage = "dispatch" /\ request.op = "quantize" /\ request.decimals = D
  /\ Reply(R!Value(x))

Quantize ==
  /\ stage = "dispatch" /\ request.op = "quantize" /\ request.decimals < D
  /\ stage' = "quantize"
  /\ UNCHANGED <<type, request, answer, build, x, kmode, kernel, retried>>

\* The half unit lost by `lower` decides: it moves the value off a bound, or
\* off a tie of the coarse grid, before quantize() rounds.
MidpointOnGrid ==
  /\ stage = "dispatch" /\ request.op = "midpoint" /\ request.decimals < D
  /\ LET lower == Lower(request.a, request.b)
         odd == Odd(request.a, request.b)
         up == kmode = "ceil" \/ (kmode = "toward_zero" /\ lower < 0)
         tie == /\ kmode \in {"nearest_even", "nearest_away"}
                /\ RemainderOf(lower, grid) \in {grid \div 2, -(grid \div 2)}
     IN IF odd /\ kmode = "exact"
          THEN Reply(R!Failure("inexact"))
          ELSE /\ x' = IF odd /\ up THEN lower + 1 ELSE lower
               /\ kmode' = IF odd /\ tie THEN "ceil" ELSE kmode
               /\ stage' = "quantize"
               /\ UNCHANGED <<type, request, answer, build, kernel, retried>>

\* A kernel returns: to narrow_checked if the type is narrower than the word.
Deliver(r) ==
  IF Bits = Word
    THEN Reply(r)
    ELSE /\ stage' = "narrow" /\ result' = r
         /\ UNCHANGED <<type, request, answer, build, x, kmode, numerator, divisor, retried>>

\* A magnitude with its sign put back.
WithSign(r, negative) ==
  IF r.error = "none" /\ negative THEN R!Value(-r.value) ELSE r

Limit(negative) == INT_MAX + R!Indicator(negative)

\* mul_overflow: the flag, or by a division before the product is trusted.
MulOverflows(u, v) ==
  IF build = "asm" THEN u * v >= M ELSE u # 0 /\ v > (M - 1) \div u

\* quantize64_kernel.
QuantizeKernel ==
  /\ stage = "quantize"
  /\ LET negative == x < 0
         mag == R!Magnitude(x)
         rounded == R!RoundMagnitude(mag \div grid, mag % grid, grid, negative,
                                     kmode, Limit(negative))
     IN Deliver(IF rounded.error # "none" THEN rounded
                ELSE IF \/ MulOverflows(rounded.value, grid)
                        \/ (rounded.value * grid) % M > Limit(negative)
                       THEN R!Failure("overflow")
                ELSE WithSign(R!Value((rounded.value * grid) % M), negative))

-----------------------------------------------------------------------------
(* mul, div and mul_div: one double-word numerator, one division.          *)

Numerator ==
  IF request.op = "div" THEN request.a * scale ELSE request.a * request.b
Denominator ==
  CASE request.op = "mul" -> scale
    [] request.op = "div" -> request.b
    [] request.op = "mul_div" -> request.c

RejectZeroDivisor ==
  /\ stage = "dispatch" /\ Divided /\ Denominator = 0
  /\ Reply(R!Failure("division_by_zero"))

InlineFits ==
  IF request.op = "mul" THEN MultiplyFits(Numerator, scale)
                        ELSE QuotientFits(Numerator, Denominator)

\* The assembly build tries the machine division first, otherwise the kernel.
Dispatch ==
  /\ stage = "dispatch" /\ Divided /\ Denominator # 0
  /\ numerator' = Numerator /\ divisor' = Denominator
  /\ stage' = IF Bits = Word /\ build = "asm" /\ CommonRounding /\ InlineFits
                THEN "inline" ELSE "kernel"
  /\ UNCHANGED <<type, request, answer, build, x, kmode, result, retried>>

AdjustedInline ==
  LET q == Quotient(numerator, divisor)
      r == Remainder(numerator, divisor)
  IN IF kmode # "nearest_even" \/ r = 0 THEN q
     ELSE IF request.op = "mul" THEN q + R!NearestScaledAdj(q, r, divisor)
     ELSE q + R!NearestAdj(q, r, divisor, (numerator < 0) # (divisor < 0))

\* The multiplication adds its adjustment unchecked.
InlineMultiply ==
  /\ stage = "inline" /\ request.op = "mul"
  /\ Reply(R!Value(AdjustedInline))

InlineDivide ==
  /\ stage = "inline" /\ request.op # "mul"
  /\ Reply(IF InWord(AdjustedInline) THEN R!Value(AdjustedInline)
           ELSE R!Failure("overflow"))

\* quotient64_signed: the machine division if it fits, the general path if
\* not, or if the rounding overflows.
Kernel ==
  /\ stage = "kernel"
  /\ stage' = IF CommonRounding /\ QuotientFits(numerator, divisor)
                THEN "signed" ELSE "general"
  /\ UNCHANGED <<type, request, answer, build, x, kmode, kernel, retried>>

AdjustedKernel ==
  LET q == Quotient(numerator, divisor)
      r == Remainder(numerator, divisor)
  IN IF kmode # "nearest_even" \/ r = 0 THEN q
     ELSE q + R!NearestAdjustment(q, r, divisor, (numerator < 0) # (divisor < 0))

DivideSigned ==
  /\ stage = "signed" /\ InWord(AdjustedKernel)
  /\ Deliver(R!Value(AdjustedKernel))

\* Mutant: the kernel is called again, and takes the machine division again.
RoundingOverflowsAgain ==
  /\ stage = "signed" /\ ~InWord(AdjustedKernel)
  /\ stage' = "kernel"
  /\ UNCHANGED <<type, request, answer, build, x, kmode, kernel, retried>>

RoundingOverflows ==
  /\ stage = "signed" /\ ~InWord(AdjustedKernel)
  /\ stage' = "general"
  /\ UNCHANGED <<type, request, answer, build, x, kmode, kernel, retried>>

\* quotient64_general: by magnitudes, refusing what the division cannot hold.
DivideGeneral ==
  /\ stage = "general"
  /\ LET negative == (numerator < 0) # (divisor < 0)
         unum == R!Magnitude(numerator)
         udiv == R!Magnitude(divisor)
     IN Deliver(IF unum \div M >= udiv THEN R!Failure("overflow")
                ELSE WithSign(R!RoundMagnitude(unum \div udiv, unum % udiv, udiv,
                                               negative, kmode, Limit(negative)),
                              negative))

-----------------------------------------------------------------------------
(* narrow_checked: the type's own range, after the kernel's.               *)

KernelStage == IF Divided THEN "kernel" ELSE "quantize"

\* An inexact result may hide an overflow: rerun the kernel truncating.
NarrowRetry ==
  /\ stage = "narrow" /\ ~retried /\ result.error = "inexact"
  /\ stage' = KernelStage /\ kmode' = "toward_zero" /\ retried' = TRUE
  /\ UNCHANGED <<type, request, answer, build, x, kernel>>

\* Mutant: only the kernel's range counts.
NarrowUnranged ==
  /\ stage = "narrow" /\ ~retried /\ result.error # "inexact"
  /\ Reply(result)

Narrow ==
  /\ stage = "narrow" /\ ~retried /\ result.error # "inexact"
  /\ Reply(IF result.error = "none" THEN Ranged(result.value) ELSE result)

NarrowRetried ==
  /\ stage = "narrow" /\ retried
  /\ Reply(IF result.error = "none" /\ ~InRange(result.value)
             THEN R!Failure("overflow") ELSE R!Failure("inexact"))

-----------------------------------------------------------------------------
(* unchecked.hpp: the caller vouches for an answer and none is refused.    *)
(* What is not here goes through the checked operation.                    *)

Vouched == E!RightAnswer(request).error = "none"

UncheckedSum ==
  /\ stage = "dispatch" /\ Vouched
  /\ \/ request.op = "add" /\ Reply(R!Value(Wrapped(request.a + request.b)))
     \/ request.op = "sub" /\ Reply(R!Value(Wrapped(request.a - request.b)))
     \/ request.op = "negate" /\ Reply(R!Value(-request.a))
     \/ request.op = "abs" /\ Reply(R!Value(Absolute(request.a)))

\* has_unchecked_product: a narrow type's product fits the word, a word's has
\* the machine division.
UncheckedProduct ==
  /\ stage = "dispatch" /\ Divided /\ (Bits < Word \/ build = "asm")
  /\ Vouched
  /\ numerator' = Numerator /\ divisor' = Denominator
  /\ stage' = "unchecked"
  /\ UNCHANGED <<type, request, answer, build, x, kmode, result, retried>>

\* Mutant: the sign of the quotient is taken for that of the result.
UncheckedRoundBySign(q, r, negative) ==
  LET mag == Absolute(r)
      rest == Absolute(divisor) - mag
      away == \/ kmode = "floor" /\ q < 0
              \/ kmode = "ceil" /\ q >= 0
              \/ kmode = "nearest_even" /\ (mag > rest \/ (mag = rest /\ q % 2 = 1))
              \/ kmode = "nearest_away" /\ mag >= rest
  IN IF r = 0 \/ ~away THEN q ELSE IF negative THEN q - 1 ELSE q + 1

\* unchecked_round64, whose sign cannot be the quotient's, which may be zero.
UncheckedRound(q, r, negative) ==
  LET mag == Absolute(r)
      rest == Absolute(divisor) - mag
      away == \/ kmode = "floor" /\ negative
              \/ kmode = "ceil" /\ ~negative
              \/ kmode = "nearest_even" /\ (mag > rest \/ (mag = rest /\ q % 2 = 1))
              \/ kmode = "nearest_away" /\ mag >= rest
  IN IF r = 0 \/ ~away THEN q ELSE IF negative THEN q - 1 ELSE q + 1

\* The signs of both factors, of which div's second is the scale, and the divisor.
UncheckedNegative ==
  OppositeSigns(request.a, IF request.op = "div" THEN scale ELSE request.b)
    # (divisor < 0)

UncheckedDivide ==
  /\ stage = "unchecked"
  /\ Reply(R!Value(Wrapped(UncheckedRound(Quotient(numerator, divisor),
                                         Remainder(numerator, divisor),
                                         UncheckedNegative))))

\* The caller takes the answer.
Return ==
  /\ stage = "answered"
  /\ stage' = "idle"
  /\ request' = E!NoRequest /\ answer' = E!NoAnswer
  /\ x' = 0 /\ kmode' = "exact"
  /\ numerator' = 0 /\ divisor' = 0 /\ result' = E!NoAnswer
  /\ retried' = FALSE
  /\ UNCHANGED <<type, build>>

Work ==
  \/ Add \/ Sub \/ Negate \/ Abs \/ RemainderOp \/ Midpoint \/ InvalidPrecision
  \/ QuantizeSame \/ Quantize \/ MidpointOnGrid \/ QuantizeKernel
  \/ RejectZeroDivisor \/ Dispatch \/ InlineMultiply \/ InlineDivide
  \/ Kernel \/ DivideSigned \/ RoundingOverflows \/ DivideGeneral
  \/ NarrowRetry \/ Narrow \/ NarrowRetried
  \/ UncheckedSum \/ UncheckedProduct \/ UncheckedDivide

Next == Call \/ Work \/ Return

\* The call runs to its end without suspending.
Spec == Init /\ [][Next]_vars /\ WF_vars(Work)

-----------------------------------------------------------------------------
(* Properties *)

\* A signed machine division is only reached with a quotient that fits the
\* word: anything else, and min / -1 above all, would trap; an unchecked one
\* although its caller vouches for the rounded result only.
NoDivideTrap ==
  stage \in {"inline", "signed", "unchecked"} =>
    divisor # 0 /\ InWord(Quotient(numerator, divisor))

\* The inline multiplication adds its rounding unchecked, so its range test
\* must have left room for it (arithmetic.hpp, "Any rounding fits").
RoundingHeadroom ==
  stage = "inline" /\ request.op = "mul" => InWord(AdjustedInline)

\* Every answer is what ExactArithmetic says, on either build, and checked or,
\* where there is nothing to refuse, unchecked.
ImplementsExactArithmetic == E!Init /\ [][E!Next]_(E!vars)

\* No call goes round the kernel and its retries forever: it is answered.
AnswersEveryCall == WF_(E!vars)(E!Respond)
=============================================================================
