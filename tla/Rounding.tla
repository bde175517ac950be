------------------------------ MODULE Rounding ------------------------------
(***************************************************************************)
(* How a truncated quotient becomes the rounded one: the rounding modes of *)
(* rounding.hpp, round_magnitude() of src/detail.hpp, and the shortcuts    *)
(* that arithmetic.hpp and arithmetic.cpp take for nearest_even.  The      *)
(* shortcuts avoid a branch on data, which is why there are so many ways   *)
(* to say the same thing, and why they have to agree.                      *)
(*                                                                         *)
(* Magnitudes are unsigned words: they wrap modulo M.                      *)
(***************************************************************************)
EXTENDS Integers

CONSTANT M                 \* words wrap here: 2^64 in the code

Modes == {"toward_zero", "floor", "ceil", "nearest_even", "nearest_away", "exact"}

\* std::expected<T, ArithmeticError>
Value(x) == [error |-> "none", value |-> x]
Failure(e) == [error |-> e, value |-> 0]

Magnitude(x) == IF x < 0 THEN -x ELSE x
Indicator(P) == IF P THEN 1 ELSE 0

-----------------------------------------------------------------------------
(* The increment of a magnitude q with remainder r over d.  `tie` is 1 when *)
(* an exact half must go up, which only an even divisor can have.          *)

Tie(q, d) == Indicator(q % 2 = 1 /\ d % 2 = 0)

NearestEvenIncrement(q, r, d) == r > (d \div 2 - Tie(q, d)) % M

Increment(q, r, d, negative, rounding) ==
  \/ rounding = "floor" /\ negative
  \/ rounding = "ceil" /\ ~negative
  \/ rounding = "nearest_even" /\ NearestEvenIncrement(q, r, d)
  \/ rounding = "nearest_away" /\ r >= (d - r) % M

\* round_magnitude: the range check precedes the exactness check, and rounding
\* up must not step over the limit.
RoundMagnitude(q, r, d, negative, rounding, limit) ==
  IF q > limit THEN Failure("overflow")
  ELSE IF r = 0 THEN Value(q)
  ELSE IF rounding = "exact" THEN Failure("inexact")
  ELSE IF ~Increment(q, r, d, negative, rounding) THEN Value(q)
  ELSE IF q = limit THEN Failure("overflow")
  ELSE Value(q + 1)

-----------------------------------------------------------------------------
(* The signed shortcuts for nearest_even after a machine division.         *)

\* nearest_even_inc: twice the remainder plus the quotient's parity.
NearestEvenInc(q, r, d) == (2 * r + (q % 2)) % M > d

\* nearest_adj: -1, 0 or 1, in the direction the sign says.
NearestAdj(q, rem, div, neg) ==
  IF NearestEvenInc(q, Magnitude(rem), Magnitude(div))
    THEN IF neg THEN -1 ELSE 1
    ELSE 0

\* nearest_adjustment: the same with the other increment.
NearestAdjustment(q, rem, div, negative) ==
  IF NearestEvenIncrement(q % M, Magnitude(rem), Magnitude(div))
    THEN IF negative THEN -1 ELSE 1
    ELSE 0

\* Mutant: an exact half always moves.
NearestScaledAdjAway(q, rem, scale) ==
  LET threshold == scale \div 2
  IN Indicator(rem >= threshold) - Indicator(rem <= -threshold)

\* nearest_scaled_adj: for a positive scale, without asking for the sign.
NearestScaledAdj(q, rem, scale) ==
  LET threshold == scale \div 2 - Tie(q, scale)
  IN Indicator(rem > threshold) - Indicator(rem < -threshold)
=============================================================================
