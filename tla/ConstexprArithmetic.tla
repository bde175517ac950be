------------------------- MODULE ConstexprArithmetic -------------------------
(***************************************************************************)
(* The second implementation of the arithmetic contract, which a constant  *)
(* expression evaluates (detail/constexpr_arith.hpp): schoolbook           *)
(* arithmetic on limbs, long division bit by bit.  `if consteval` chooses  *)
(* it in mul, div, mul_div, quantize and remainder; sums are shared.       *)
(***************************************************************************)
EXTENDS DoubleArithmetic, TLC

CONSTANT LimbCount         \* 8 in the code: two of the widest type

ASSUME LimbCountAssumption == LimbCount \in Nat /\ LimbCount >= 4

Limbs == 0 .. LimbCount - 1

\* f itself, evaluated at every index once: a chain of limbs computed from limbs
\* stays linear in its length.
Computed(f) == f @@ <<>>

from_u64(v) == Computed([i \in Limbs |-> IF i = 0 THEN v ELSE 0])
Zero == from_u64(0)

\* compare(a, b) < 0.
Below(a, b) ==
  \E i \in Limbs : a[i] < b[i] /\ \A j \in i + 1 .. LimbCount - 1 : a[j] = b[j]

bit_width(a) ==
  LET bits == {i * Word + k : i \in Limbs, k \in 0 .. Word - 1}
      set == {n \in bits : (a[n \div Word] \div 2 ^ (n % Word)) % 2 = 1}
  IN IF set = {} THEN 0 ELSE (CHOOSE n \in set : \A m \in set : m <= n) + 1

test_bit(a, bit) == (a[bit \div Word] \div 2 ^ (bit % Word)) % 2

shift_left_one(a) ==
  Computed([i \in Limbs |->
    ((2 * a[i]) % M) + (IF i = 0 THEN 0 ELSE a[i - 1] \div 2 ^ (Word - 1))])

\* The carry into limb i: the limbs' sum wrapped, or the carry's did.
add(a, b) ==
  LET carry[i \in 0 .. LimbCount] ==
        IF i = 0 THEN 0
        ELSE LET sum == (a[i - 1] + b[i - 1]) % M
             IN R!Indicator(sum < a[i - 1] \/ (sum + carry[i - 1]) % M < sum)
  IN Computed([i \in Limbs |-> (a[i] + b[i] + carry[i]) % M])

subtract(a, b) ==
  LET borrow[i \in 0 .. LimbCount] ==
        IF i = 0 THEN 0
        ELSE R!Indicator(\/ a[i - 1] < b[i - 1]
                         \/ (a[i - 1] - b[i - 1]) % M < borrow[i - 1])
  IN Computed([i \in Limbs |-> (a[i] - b[i] - borrow[i]) % M])

\* A product of words from products of half words.
mul64(a, b) ==
  LET H == 2 ^ (Word \div 2)
      p00 == (a % H) * (b % H)       p01 == (a % H) * (b \div H)
      p10 == (a \div H) * (b % H)    p11 == (a \div H) * (b \div H)
      middle == (p00 \div H) + (p01 % H) + (p10 % H)
  IN [low |-> ((middle * H) % M) + (p00 % H),
      high |-> p11 + (p01 \div H) + (p10 \div H) + (middle \div H)]

\* One row of the schoolbook product, limb i of a times b, on top of out.
MultiplyRow(out, a, b, i) ==
  LET row[j \in 0 .. LimbCount - i] ==
        IF j = 0 THEN [out |-> out, carry |-> 0]
        ELSE LET before == row[j - 1]
                 product == mul64(a[i], b[j - 1])
                 acc == (before.out[i + j - 1] + product.low) % M
                 sum == (acc + before.carry) % M
             IN [out |-> [before.out EXCEPT ![i + j - 1] = sum],
                 carry |-> product.high + R!Indicator(acc < product.low)
                                        + R!Indicator(sum < before.carry)]
  IN row[LimbCount - i].out

multiply(a, b) ==
  LET out[i \in 0 .. LimbCount] ==
        IF i = 0 THEN Zero
        ELSE IF a[i - 1] = 0 THEN out[i - 1]
        ELSE MultiplyRow(out[i - 1], a, b, i - 1)
  IN out[LimbCount]

\* Binary long division over the numerator's bits, highest first.
divmod(n, d) ==
  LET width == bit_width(n)
      step[i \in 0 .. width] ==
        IF i = 0 THEN [quotient |-> Zero, remainder |-> Zero]
        ELSE LET before == step[i - 1]
                 bit == width - i
                 shifted == [shift_left_one(before.remainder)
                               EXCEPT ![0] = @ + test_bit(n, bit)]
             IN IF Below(shifted, d) THEN [before EXCEPT !.remainder = shifted]
                ELSE [quotient |-> [before.quotient
                                      EXCEPT ![bit \div Word] = @ + 2 ^ (bit % Word)],
                      remainder |-> subtract(shifted, d)]
  IN step[width]

magnitude_limit(sign) ==
  LET top == Computed([i \in Limbs |-> IF i = (Bits - 1) \div Word
                                         THEN 2 ^ ((Bits - 1) % Word) ELSE 0])
  IN IF sign THEN top ELSE subtract(top, from_u64(1))

round_magnitude(split, d, sign) ==
  LET twice == shift_left_one(split.remainder)
      increment ==
        \/ rounding = "floor" /\ sign
        \/ rounding = "ceil" /\ ~sign
        \/ /\ rounding = "nearest_even"
           /\ Below(d, twice) \/ (twice = d /\ split.quotient[0] % 2 = 1)
        \/ rounding = "nearest_away" /\ ~Below(twice, d)
  IN IF Below(magnitude_limit(sign), split.quotient) THEN R!Failure("overflow")
     ELSE IF split.remainder = Zero THEN R!Value(split.quotient)
     ELSE IF rounding = "exact" THEN R!Failure("inexact")
     ELSE IF ~increment THEN R!Value(split.quotient)
     ELSE IF split.quotient = magnitude_limit(sign) THEN R!Failure("overflow")
     ELSE R!Value(add(split.quotient, from_u64(1)))

\* The magnitude, never negated as a signed value; limbs above the type cleared.
to_limbs(v) ==
  LET pattern == [i \in Limbs |-> CASE i = 0 -> v % M [] i = 1 -> (v \div M) % M [] OTHER -> 0]
      negated == subtract(Zero, pattern)
  IN Computed([i \in Limbs |-> IF v >= 0 THEN pattern[i] ELSE IF i < 2 THEN negated[i] ELSE 0])

from_limbs(magnitude, sign) ==
  LET value == IF sign THEN subtract(Zero, magnitude) ELSE magnitude
  IN Wrap(value[0] + M * value[1], Bits)

Typed(r, sign) ==
  IF r.error = "none" THEN R!Value(from_limbs(r.value, sign)) ELSE r

pow10(exponent) ==
  LET power[i \in Nat] ==
        IF i = 0 THEN from_u64(1) ELSE multiply(power[i - 1], from_u64(Radix))
  IN power[exponent]

-----------------------------------------------------------------------------

Evaluates(op) == stage = "dispatch" /\ path = "consteval" /\ request.op = op

Quotiented(n, d, sign) == Typed(round_magnitude(divmod(n, d), d, sign), sign)

ConstexprMul ==
  /\ Evaluates("mul")
  /\ Reply(Quotiented(multiply(to_limbs(request.a), to_limbs(request.b)), pow10(D),
                      (request.a < 0) # (request.b < 0)))

ConstexprDiv ==
  /\ Evaluates("div")
  /\ Reply(IF request.b = 0 THEN R!Failure("division_by_zero")
           ELSE Quotiented(multiply(to_limbs(request.a), pow10(D)), to_limbs(request.b),
                           (request.a < 0) # (request.b < 0)))

ConstexprMulDiv ==
  /\ Evaluates("mul_div")
  /\ Reply(IF request.c = 0 THEN R!Failure("division_by_zero")
           ELSE Quotiented(multiply(to_limbs(request.a), to_limbs(request.b)),
                           to_limbs(request.c),
                           (request.a < 0) # ((request.b < 0) # (request.c < 0))))

\* Rescaling can overflow on its own.
ConstexprQuantize ==
  /\ Evaluates("quantize")
  /\ LET sign == request.a < 0
         step == pow10(D - request.decimals)
         rounded == round_magnitude(divmod(to_limbs(request.a), step), step, sign)
         rescaled == multiply(rounded.value, step)
     IN Reply(IF request.decimals > D THEN R!Failure("invalid_precision")
              ELSE IF request.decimals = D THEN R!Value(request.a)
              ELSE IF rounded.error # "none" THEN rounded
              ELSE IF Below(magnitude_limit(sign), rescaled) THEN R!Failure("overflow")
              ELSE Typed(R!Value(rescaled), sign))

ConstexprRemainder ==
  /\ Evaluates("remainder")
  /\ Reply(IF request.b = 0 THEN R!Failure("division_by_zero")
           ELSE R!Value(from_limbs(divmod(to_limbs(request.a), to_limbs(request.b)).remainder,
                                   request.a < 0)))

ConstexprWork ==
  \/ ConstexprMul \/ ConstexprDiv \/ ConstexprMulDiv
  \/ ConstexprQuantize \/ ConstexprRemainder

\* Every operation, in programs and in constant expressions.
ArithmeticNext == Next \/ ConstexprWork

\* The compiler ends an evaluation.  (That some step does so in every such state
\* is not assumed: a state without one would be a deadlock.)
Finishing == stage = "dispatch" /\ path = "consteval" /\ stage' = "answered"

ArithmeticSpec ==
  Init /\ [][ArithmeticNext]_vars /\ WF_vars(Work) /\ WF_stage(Finishing)
=============================================================================
