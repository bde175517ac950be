----------------------------- MODULE MachineWord -----------------------------
(***************************************************************************)
(* The machine's signed words and its division of two words by one, which  *)
(* traps when the quotient does not fit, with the range tests that guard   *)
(* it in arithmetic.hpp and arithmetic.cpp.                                *)
(***************************************************************************)
EXTENDS Integers

CONSTANT Word              \* bits of the machine word: 64 in the code

M == 2 ^ Word
INT_MIN == -(2 ^ (Word - 1))
INT_MAX == 2 ^ (Word - 1) - 1
InWord(v) == v \in INT_MIN .. INT_MAX
Unsigned(v) == v % M
HighWord(n) == n \div M

Absolute(v) == IF v < 0 THEN -v ELSE v

\* IDIV: the quotient truncates and the remainder has the numerator's sign.
Quotient(n, d) ==
  LET m == Absolute(n) \div Absolute(d)
  IN IF (n < 0) # (d < 0) THEN -m ELSE m
Remainder(n, d) == n - d * Quotient(n, d)

\* Mutant: the headroom is added instead of reserved.
MultiplyFitsBeyond(n, scale) ==
  (Unsigned(HighWord(n)) + scale \div 2) % M < scale + 1

\* A multiplication reserves headroom for the rounding in its range test.
MultiplyFits(n, scale) ==
  (Unsigned(HighWord(n)) + scale \div 2) % M < scale - 1

\* Mutant: the corner where only a positive divisor fits is let through.
QuotientFitsEitherSign(n, d) ==
  LET half == Absolute(d) \div 2
  IN (Unsigned(HighWord(n)) + half) % M < 2 * half

\* quotient_fits_signed64, also written out inline in div and mul_div.
QuotientFits(n, d) ==
  LET half == Absolute(d) \div 2
      shifted == (Unsigned(HighWord(n)) + half) % M
  IN shifted < 2 * half /\ ~(d < 0 /\ shifted = 0)
=============================================================================
