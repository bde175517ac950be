---------------------------- MODULE ExactRounding ----------------------------
(***************************************************************************)
(* The mathematics of a rounded result: an exact rational number, placed   *)
(* on the grid of representable values by a rounding mode, or the error    *)
(* that error.hpp's order of precedence names.  Nothing here follows the   *)
(* library's algorithms.                                                   *)
(***************************************************************************)
EXTENDS Integers

CONSTANT Bits              \* the width of a representable value

Raws == -(2 ^ (Bits - 1)) .. 2 ^ (Bits - 1) - 1
RoundingModes ==
  {"toward_zero", "floor", "ceil", "nearest_even", "nearest_away", "exact"}

Result(x) == [error |-> "none", value |-> x]
Error(e) == [error |-> e, value |-> 0]

-----------------------------------------------------------------------------
(* Rounding n / d to an integer, for any integers with d # 0.              *)

Floor(n, d) == IF d > 0 THEN n \div d ELSE (-n) \div (-d)
Ceiling(n, d) == -Floor(-n, d)
Truncate(n, d) == IF Floor(n, d) >= 0 THEN Floor(n, d) ELSE Ceiling(n, d)
Distance(x, n, d) ==
  LET e == n - x * d IN IF e < 0 THEN -e ELSE e

\* The integers nearest to n / d: two of them at a tie.
NearestTo(n, d) ==
  LET near == {Floor(n, d), Ceiling(n, d)}
  IN {x \in near : \A y \in near : Distance(x, n, d) <= Distance(y, n, d)}

Rounded(n, d, rounding) ==
  CASE rounding = "floor" -> Floor(n, d)
    [] rounding = "ceil" -> Ceiling(n, d)
    [] rounding \in {"toward_zero", "exact"} -> Truncate(n, d)
    [] rounding = "nearest_even" ->
         CHOOSE x \in NearestTo(n, d) :
           NearestTo(n, d) = {x} \/ x % 2 = 0
    [] rounding = "nearest_away" ->
         CHOOSE x \in NearestTo(n, d) :
           \A y \in NearestTo(n, d) : Distance(y, 0, 1) <= Distance(x, 0, 1)

\* n / d on the grid of the multiples of g, with the errors in their order.
OnGrid(n, d, g, rounding) ==
  IF d = 0 THEN Error("division_by_zero")
  ELSE IF g * Truncate(n, d * g) \notin Raws THEN Error("overflow")
  ELSE IF rounding = "exact" /\ n # d * g * Truncate(n, d * g) THEN Error("inexact")
  ELSE IF g * Rounded(n, d * g, rounding) \notin Raws THEN Error("overflow")
  ELSE Result(g * Rounded(n, d * g, rounding))
=============================================================================
