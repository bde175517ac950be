------------------------------ MODULE ExactText ------------------------------
(***************************************************************************)
(* What text conversion promises.  Text is a decimal number by a grammar   *)
(* or it is invalid; the number it denotes is rounded once onto the grid   *)
(* of the type.  Written text denotes exactly the value rounded to the     *)
(* decimals asked for, and is as short as those decimals allow.  Nothing   *)
(* here follows the library's scanner.                                     *)
(***************************************************************************)
EXTENDS Integers, SequencesExt

CONSTANTS
  Radix,                   \* 10
  Texts, MaxText,          \* texts to read, and the longest that is accepted
  Types,                   \* [bits, decimals]
  Capacities,              \* sizes of the caller's buffer
  IntegerTexts,            \* texts to read as wide integers
  IntegerTypes             \* the types of those: [bits, decimals |-> 0]

VARIABLES request, answer

vars == <<request, answer>>

XR(Bits) == INSTANCE ExactRounding

\* Characters: the digits are themselves.
Digit == 0 .. Radix - 1
Dot == Radix
Minus == Radix + 1
Plus == Radix + 2
Exp == Radix + 3

NoType == [bits |-> 0, decimals |-> 0]
NoOptions ==
  [digits |-> 0, explicit |-> FALSE, trim |-> FALSE, capacity |-> 0]
Options(type) ==
  [digits : 0 .. type.decimals + 1, explicit : BOOLEAN, trim : BOOLEAN,
   capacity : Capacities]

Request(op, text, raw, type, rounding, options) ==
  [op |-> op, text |-> text, raw |-> raw, type |-> type,
   rounding |-> rounding, options |-> options]
Parses ==
  [op : {"parse"}, text : Texts, raw : {0}, type : Types,
   rounding : XR(1)!RoundingModes, options : {NoOptions}]
Formats(type) ==
  [op : {"format"}, text : {<<>>}, raw : XR(type.bits)!Raws, type : {type},
   rounding : XR(1)!RoundingModes, options : Options(type)]
IntegerParses ==
  [op : {"parse_signed", "parse_unsigned"}, text : IntegerTexts, raw : {0},
   type : IntegerTypes, rounding : {"exact"}, options : {NoOptions}]
IntegerFormats(type) ==
  [op : {"format_integer"}, text : {<<>>},
   raw : -(2 ^ (type.bits - 1)) .. 2 ^ type.bits - 1, type : {type},
   rounding : {"exact"}, options : {[NoOptions EXCEPT !.capacity = c] : c \in Capacities}]
NoRequest == Request("none", <<>>, 0, NoType, "exact", NoOptions)

Answer(error, value, text) == [error |-> error, value |-> value, text |-> text]
NoAnswer == Answer("none yet", 0, <<>>)

-----------------------------------------------------------------------------
(* The grammar: [sign] mantissa [e [sign] digits], the mantissa of digits  *)
(* with at most one point among, before or after them.                     *)

IsDigits(s) == \A i \in DOMAIN s : s[i] \in Digit
Signed(t) == t # <<>> /\ t[1] \in {Minus, Plus}
Unsigned(t) == IF Signed(t) THEN Tail(t) ELSE t
Negative(t) == t # <<>> /\ t[1] = Minus
Number(digits) == FoldLeft(LAMBDA v, c : v * Radix + c, 0, digits)

\* Whole digits end at p, the mantissa at e.
Mantissa(u, p, e) ==
  /\ IsDigits(SubSeq(u, 1, p))
  /\ p < e => u[p + 1] = Dot /\ IsDigits(SubSeq(u, p + 2, e))
  /\ p > 0 \/ e > 1
ExponentText(u, e) == Unsigned(SubSeq(u, e + 2, Len(u)))
Exponent(u, e) ==
  e < Len(u) => /\ u[e + 1] = Exp
                /\ ExponentText(u, e) # <<>> /\ IsDigits(ExponentText(u, e))
Readings(u) ==
  {r \in (0 .. Len(u)) \X (0 .. Len(u)) :
     r[1] <= r[2] /\ Exponent(u, r[2]) /\ Mantissa(u, r[1], r[2])}

\* The number a text denotes: significand * Radix ^ exponent.
Denoted(t) ==
  LET u == Unsigned(t)
      r == CHOOSE r \in Readings(u) : TRUE
      fraction == SubSeq(u, r[1] + 2, r[2])
      sign == IF Negative(SubSeq(u, r[2] + 2, Len(u))) THEN -1 ELSE 1
  IN [significand |-> Number(SubSeq(u, 1, r[1]) \o fraction),
      exponent |-> sign * Number(ExponentText(u, r[2])) - Len(fraction),
      whole |-> r[1], plain |-> r[2] = Len(u)]

-----------------------------------------------------------------------------

Power(k) == IF k > 0 THEN Radix ^ k ELSE 1

\* A number that is not zero is out of every range from some exponent on, and
\* below another one it is less than a half, however many digits it has.
Clamped(k, low, high) == IF k < low THEN low ELSE IF k > high THEN high ELSE k

RightParse(r) ==
  LET d == Denoted(r.text)
      k == Clamped(r.type.decimals + d.exponent, -(Len(r.text) + 1), r.type.bits)
      n == IF Negative(r.text) THEN -d.significand ELSE d.significand
      x == XR(r.type.bits)!OnGrid(n * Power(k), Power(-k), 1, r.rounding)
  IN IF r.text = <<>> THEN Answer("empty", 0, <<>>)
     ELSE IF Len(r.text) > MaxText \/ Readings(Unsigned(r.text)) = {}
       THEN Answer("invalid", 0, <<>>)
     ELSE IF d.significand = 0 THEN Answer("none", 0, <<>>)
     ELSE Answer(IF x.error = "inexact" THEN "too_precise" ELSE x.error, x.value, <<>>)

Shown(r) ==
  IF r.options.digits = 0 /\ ~r.options.explicit
    THEN r.type.decimals ELSE r.options.digits

\* The value at the decimals shown; writing has no range to leave.
Placed(r) ==
  XR(30)!OnGrid(r.raw, Radix ^ (r.type.decimals - Shown(r)), 1, r.rounding)

\* The length of v / Radix ^ shown: a sign, the whole digits or one zero, and
\* the decimals behind a point, without trailing zeros if they are trimmed.
Width(v, shown, trim) ==
  LET m == IF v < 0 THEN -v ELSE v
      whole == CHOOSE k \in 1 .. 30 :
                 m < Radix ^ (k + shown) /\ (k = 1 \/ m >= Radix ^ (k - 1 + shown))
      kept == CHOOSE k \in 0 .. shown :
                /\ ~trim => k = shown
                /\ trim => /\ m % Radix ^ (shown - k) = 0
                           /\ k > 0 => m % Radix ^ (shown - k + 1) # 0
  IN (IF v < 0 THEN 1 ELSE 0) + whole + (IF kept > 0 THEN kept + 1 ELSE 0)

\* t is plain text, with a digit before any point and no empty sign, that
\* denotes v / Radix ^ shown.
Denotes(t, v, shown) ==
  LET d == Denoted(t)
      m == IF v < 0 THEN -v ELSE v
  IN /\ Readings(Unsigned(t)) # {}
     /\ d.plain /\ d.whole > 0
     /\ Signed(t) = (v < 0) /\ Negative(t) = (v < 0)
     /\ d.significand * Power(shown) = m * Power(-d.exponent)

RightFormat(r, a) ==
  LET v == Placed(r).value
      width == Width(v, Shown(r), r.options.trim)
  IN IF Shown(r) > r.type.decimals THEN a = Answer("invalid_precision", 0, <<>>)
     ELSE IF Placed(r).error # "none" THEN a = Answer("inexact", 0, <<>>)
     ELSE IF width > r.options.capacity THEN a = Answer("buffer_too_small", 0, <<>>)
     ELSE /\ a = Answer("none", 0, a.text)
          /\ Len(a.text) = width /\ Denotes(a.text, v, Shown(r))

\* An integer is digits after a sign, which an unsigned one has only as a plus.
\* Of an ill-formed text whose leading digits alone are out of range either
\* error may be reported: nothing says which of them comes first.
RightInteger(r, a) ==
  LET signed == r.op = "parse_signed"
      t == IF signed \/ ~Negative(r.text) THEN Unsigned(r.text) ELSE r.text
      limit == IF ~signed THEN 2 ^ r.type.bits - 1
               ELSE IF Negative(r.text) THEN 2 ^ (r.type.bits - 1)
               ELSE 2 ^ (r.type.bits - 1) - 1
      out(k) == IsDigits(SubSeq(t, 1, k)) /\ Number(SubSeq(t, 1, k)) > limit
  IN IF r.text = <<>> THEN a = Answer("empty", 0, <<>>)
     ELSE IF t # <<>> /\ IsDigits(t)
       THEN a = IF out(Len(t)) THEN Answer("overflow", 0, <<>>)
                ELSE Answer("none", IF Negative(r.text) THEN -Number(t) ELSE Number(t), <<>>)
     ELSE \/ a = Answer("invalid", 0, <<>>)
          \/ a = Answer("overflow", 0, <<>>) /\ \E k \in DOMAIN t : out(k)

Right(r, a) ==
  CASE r.op = "parse" -> a = RightParse(r)
    [] r.op \in {"parse_signed", "parse_unsigned"} -> RightInteger(r, a)
    [] OTHER -> RightFormat(r, a)

-----------------------------------------------------------------------------

Init == request = NoRequest /\ answer = NoAnswer

Call ==
  /\ request = NoRequest
  /\ \/ request' \in Parses
     \/ \E type \in Types : request' \in Formats(type)
     \/ request' \in IntegerParses
     \/ \E type \in IntegerTypes : request' \in IntegerFormats(type)
  /\ UNCHANGED answer

Respond ==
  /\ request # NoRequest /\ answer = NoAnswer
  /\ answer' # NoAnswer /\ Right(request, answer')
  /\ UNCHANGED request

\* The caller takes the answer.
Return ==
  /\ answer # NoAnswer
  /\ request' = NoRequest /\ answer' = NoAnswer

Next == Call \/ Respond \/ Return

Spec == Init /\ [][Next]_vars
=============================================================================
