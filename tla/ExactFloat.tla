------------------------------ MODULE ExactFloat ------------------------------
(***************************************************************************)
(* What the conversions of floating.hpp promise, by the numbers alone.  A  *)
(* float is a sign, an exponent field and a fraction; it stands for        *)
(*   significand * 2^power                                                 *)
(* or for no number.  It is rounded once onto the grid of a fixed-point    *)
(* type; a fixed-point number becomes the float nearest to it, at a tie    *)
(* the one of an even significand.  Formats are [precision, max_exponent,  *)
(* explicit], as float.h counts them; types are [bits, decimals].          *)
(***************************************************************************)
EXTENDS Integers

VARIABLES request, answer

vars == <<request, answer>>

X(Bits) == INSTANCE ExactRounding

Float(negative, field, fraction) ==
  [negative |-> negative, field |-> field, fraction |-> fraction]
NoFloat == Float(FALSE, 0, 0)

Top(f) == 2 * f.max_exponent - 1        \* the field of infinity
FractionBits(f) == IF f.explicit THEN f.precision ELSE f.precision - 1
Patterns(f) ==
  [negative : BOOLEAN, field : 0 .. Top(f), fraction : 0 .. 2 ^ FractionBits(f) - 1]

-----------------------------------------------------------------------------
(* The number a pattern stands for.                                        *)

Hidden(f) == 2 ^ (f.precision - 1)
IsNumber(p, f) ==
  p.field # Top(f) /\ (f.explicit /\ p.field > 0 => p.fraction >= Hidden(f))
Significand(p, f) ==
  p.fraction + (IF f.explicit \/ p.field = 0 THEN 0 ELSE Hidden(f))
Power(p, f) ==
  (IF p.field = 0 THEN 1 ELSE p.field) - (f.max_exponent - 1) - (f.precision - 1)

Pow2(k) == IF k > 0 THEN 2 ^ k ELSE 1
Signed(n, negative) == IF negative THEN -n ELSE n

-----------------------------------------------------------------------------

FromFloat(p, f, type, rounding) ==
  [op |-> "from_float", format |-> f, type |-> type, float |-> p, raw |-> 0,
   rounding |-> rounding]
ToFloat(raw, type, f) ==
  [op |-> "to_float", format |-> f, type |-> type, float |-> NoFloat, raw |-> raw,
   rounding |-> "nearest_even"]
NoRequest ==
  [op |-> "none", format |-> [precision |-> 0, max_exponent |-> 0, explicit |-> FALSE],
   type |-> [bits |-> 0, decimals |-> 0], float |-> NoFloat, raw |-> 0,
   rounding |-> "exact"]

Answer(error, raw, float) == [error |-> error, raw |-> raw, float |-> float]
NoAnswer == Answer("none yet", 0, NoFloat)

RightFixed(r) ==
  LET f == r.format
      power == Power(r.float, f)
      x == X(r.type.bits)!OnGrid(
             Signed(Significand(r.float, f) * 10 ^ r.type.decimals * Pow2(power), r.float.negative),
             Pow2(-power), 1, r.rounding)
  IN IF ~IsNumber(r.float, f) THEN Answer("invalid_value", 0, NoFloat)
     ELSE Answer(x.error, x.value, NoFloat)

\* The numbers of a format in order, as rungs of a ladder: neighbours in value
\* are neighbours in pattern.
Rung(k, f) ==
  LET field == k \div Hidden(f)
      explicit == IF f.explicit /\ field > 0 THEN Hidden(f) ELSE 0
  IN Float(FALSE, field, (k % Hidden(f)) + explicit)

\* Twice the distance to a tie is the same for both rungs.
Nearest(k, r) ==
  LET f == r.format
      m == IF r.raw < 0 THEN -r.raw ELSE r.raw
      scale == Pow2(-Power(Rung(IF k = 0 THEN 0 ELSE k - 1, f), f))
      at(l) ==
        LET p == Rung(l, f)
            power == Power(p, f)
            s == Significand(p, f) * 10 ^ r.type.decimals
        IN IF power > 0 THEN s * scale * 2 ^ power ELSE s * (scale \div Pow2(-power))
      far(l) ==
        LET e == at(l) - m * scale IN IF e < 0 THEN -e ELSE e
  IN /\ far(k) <= far(k + 1) /\ (far(k) = far(k + 1) => k % 2 = 0)
     /\ k > 0 => far(k) <= far(k - 1) /\ (far(k) = far(k - 1) => k % 2 = 0)

RightFloat(r, a) ==
  /\ a = Answer("none", 0, a.float)
  /\ a.float.negative = (r.raw < 0)
  /\ \E k \in 0 .. Top(r.format) * Hidden(r.format) - 1 :
       /\ [a.float EXCEPT !.negative = FALSE] = Rung(k, r.format)
       /\ Nearest(k, r)

Right(r, a) == IF r.op = "from_float" THEN a = RightFixed(r) ELSE RightFloat(r, a)

-----------------------------------------------------------------------------

Init == request = NoRequest /\ answer = NoAnswer

Call == request = NoRequest /\ request' # NoRequest /\ UNCHANGED answer

Respond ==
  /\ request # NoRequest /\ answer = NoAnswer
  /\ answer' # NoAnswer /\ Right(request, answer')
  /\ UNCHANGED request

\* The caller takes the answer.
Return ==
  /\ answer # NoAnswer
  /\ request' = NoRequest /\ answer' = NoAnswer

Spec == Init /\ [][Call \/ Respond \/ Return]_vars
=============================================================================
