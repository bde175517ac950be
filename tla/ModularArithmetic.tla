-------------------------- MODULE ModularArithmetic --------------------------
(***************************************************************************)
(* What the wide integers promise, by the mathematics alone: a pattern of  *)
(* Bits bits is an integer modulo 2^Bits, read as unsigned or as two's     *)
(* complement; the checked divisions of bigint.hpp are exact or report an  *)
(* error.  Nothing here has limbs.                                         *)
(***************************************************************************)
EXTENDS Integers

VARIABLES
  Limb, Bits,                \* the width of a limb and of the type; fixed
  request, answer

vars == <<Limb, Bits, request, answer>>

Request(op, a, b, c, rounding) ==
  [op |-> op, a |-> a, b |-> b, c |-> c, rounding |-> rounding]
NoRequest == Request("none", 0, 0, 0, "exact")

Value(x) == [error |-> "none", value |-> x]
Failure(e) == [error |-> e, value |-> <<>>]
NoAnswer == Failure("none yet")

Pattern(x, bits) == x % 2 ^ bits
Signed(x, bits) == IF x < 2 ^ (bits - 1) THEN x ELSE x - 2 ^ bits
Magnitude(x, bits) == LET s == Signed(x, bits) IN IF s < 0 THEN -s ELSE s

Half == Bits \div 2
H == INSTANCE ExactRounding WITH Bits <- Half

Truth(p) == IF p THEN 1 ELSE 0
BitWidth(x) == CHOOSE k \in 0 .. Bits : x < 2 ^ k /\ \A l \in 0 .. k - 1 : x >= 2 ^ l

Bit(x, k) == (x \div 2 ^ k) % 2
Bitwise(a, b, ones) ==
  LET at(k) == IF Bit(a, k) + Bit(b, k) \in ones THEN 2 ^ k ELSE 0
      below[k \in Nat] == IF k = 0 THEN 0 ELSE below[k - 1] + at(k - 1)
  IN below[Bits]

\* A result rounded into half the width.
Rounded(n, d, rounding) ==
  LET r == H!OnGrid(n, d, 1, rounding)
  IN IF r.error = "none" THEN Value(<<Pattern(r.value, Half)>>) ELSE Failure(r.error)

\* Wrapping operations; a signed one reads its patterns as two's complement.
Wrapping(r) ==
  LET a == r.a  b == r.b
      sa == Signed(a, Bits)
      quotient == H!Truncate(sa, Signed(b, Limb))
  IN CASE r.op = "add" -> <<Pattern(a + b, Bits)>>
       [] r.op = "sub" -> <<Pattern(a - b, Bits)>>
       [] r.op = "mul" -> <<Pattern(a * b, Bits)>>
       [] r.op = "mul_full" -> <<a * b>>
       [] r.op = "imul" -> <<Pattern(Signed(a, Limb) * Signed(b, Limb), 2 * Limb)>>
       [] r.op = "and" -> <<Bitwise(a, b, {2})>>
       [] r.op = "or" -> <<Bitwise(a, b, {1, 2})>>
       [] r.op = "xor" -> <<Bitwise(a, b, {1})>>
       [] r.op = "less" -> <<Truth(a < b)>>
       [] r.op = "signed_less" -> <<Truth(sa < Signed(b, Bits))>>
       [] r.op = "negate" -> <<Pattern(-a, Bits)>>
       [] r.op = "magnitude" -> <<Magnitude(a, Bits)>>
       [] r.op = "bit_width" -> <<BitWidth(a)>>
       [] r.op = "shl" -> <<Pattern(a * 2 ^ b, Bits)>>
       [] r.op = "shr" -> <<a \div 2 ^ b>>
       [] r.op = "sar" -> <<Pattern(sa \div 2 ^ b, Bits)>>
       [] r.op = "extend" -> <<Pattern(Signed(a, b * Limb), Bits)>>
       [] r.op = "div" -> <<IF b = 0 THEN 0 ELSE a \div b>>
       [] r.op = "mod" -> <<IF b = 0 THEN 0 ELSE a % b>>
       [] r.op = "div_unsigned_word" -> <<Pattern(H!Truncate(sa, b), Bits)>>
       [] r.op = "div_signed_word" -> <<Pattern(quotient, Bits)>>
       [] r.op = "div_signed64" ->
            <<Pattern(quotient, Limb), Pattern(sa - quotient * Signed(b, Limb), Limb)>>

\* The checked divisions of wide integers by integers of half their width.
RightAnswer(r) ==
  LET sa == Signed(r.a, Bits)  sb == Signed(r.b, Half)  sc == Signed(r.c, Half)
      quotient == H!Truncate(sa, sb)
  IN CASE r.op = "divmod" ->
            IF r.b = 0 THEN Failure("division_by_zero")
            ELSE Value(<<r.a \div r.b, r.a % r.b>>)
       [] r.op = "signed_divmod" ->
            IF r.b = 0 THEN Failure("division_by_zero")
            ELSE IF quotient >= 2 ^ (Bits - 1) THEN Failure("overflow")
            ELSE Value(<<Pattern(quotient, Bits), Pattern(sa - quotient * sb, Half)>>)
       [] r.op = "divide_to_half" -> Rounded(sa, sb, r.rounding)
       [] r.op = "mul_div" -> Rounded(Signed(r.a, Half) * sb, sc, r.rounding)
       [] OTHER -> Value(Wrapping(r))

-----------------------------------------------------------------------------

Init ==
  /\ Limb \in Nat /\ Bits \in Nat
  /\ request = NoRequest /\ answer = NoAnswer

Call ==
  /\ request = NoRequest
  /\ request' # NoRequest
  /\ UNCHANGED <<Limb, Bits, answer>>

Respond ==
  /\ request # NoRequest /\ answer = NoAnswer
  /\ answer' = RightAnswer(request)
  /\ UNCHANGED <<Limb, Bits, request>>

\* The caller takes the answer.
Return ==
  /\ answer # NoAnswer
  /\ request' = NoRequest /\ answer' = NoAnswer
  /\ UNCHANGED <<Limb, Bits>>

Next == Call \/ Respond \/ Return

Spec == Init /\ [][Next]_vars /\ WF_vars(Respond)
=============================================================================
