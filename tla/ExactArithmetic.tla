--------------------------- MODULE ExactArithmetic ---------------------------
(***************************************************************************)
(* What fixed-point arithmetic promises, by the mathematics alone: each    *)
(* operation has an exact rational result, which is placed on the grid of  *)
(* representable values by the rounding mode, and an error is reported in  *)
(* the order error.hpp lists.  Nothing here follows the library's          *)
(* algorithms; FixedArithmetic is shown to implement it.                   *)
(*                                                                         *)
(* A value is its raw integer; it stands for raw / Scale.                  *)
(***************************************************************************)
EXTENDS Integers

VARIABLES
  Bits, Radix, D,          \* the type: Bits wide, D digits after the point, in Radix
  request, answer

type == <<Bits, Radix, D>> \* chosen once
vars == <<type, request, answer>>

INSTANCE ExactRounding

Scale == Radix ^ D

Request(op, a, b, c, decimals, rounding) ==
  [op |-> op, a |-> a, b |-> b, c |-> c, decimals |-> decimals, rounding |-> rounding]

Ops == {"add", "sub", "negate", "abs", "remainder",
        "mul", "div", "mul_div", "quantize", "midpoint"}

\* The calls a program can make; an operation ignores what it does not take.
Requests ==
  [op : Ops, a : Raws, b : Raws, c : Raws, decimals : 0 .. D + 1,
   rounding : RoundingModes]

NoAnswer == Error("none yet")

Grid(decimals) == Radix ^ (D - decimals)

RightAnswer(r) ==
  CASE r.op = "add" -> OnGrid(r.a + r.b, 1, 1, "exact")
    [] r.op = "sub" -> OnGrid(r.a - r.b, 1, 1, "exact")
    [] r.op = "negate" -> OnGrid(-r.a, 1, 1, "exact")
    [] r.op = "abs" -> OnGrid(Distance(r.a, 0, 1), 1, 1, "exact")
    [] r.op = "remainder" ->
         IF r.b = 0 THEN Error("division_by_zero")
         ELSE Result(r.a - r.b * Truncate(r.a, r.b))
    [] r.op = "mul" -> OnGrid(r.a * r.b, Scale, 1, r.rounding)
    [] r.op = "div" -> OnGrid(r.a * Scale, r.b, 1, r.rounding)
    [] r.op = "mul_div" -> OnGrid(r.a * r.b, r.c, 1, r.rounding)
    [] r.op = "quantize" ->
         IF r.decimals > D THEN Error("invalid_precision")
         ELSE OnGrid(r.a, 1, Grid(r.decimals), r.rounding)
    [] r.op = "midpoint" ->
         IF r.decimals > D THEN Error("invalid_precision")
         ELSE OnGrid(r.a + r.b, 2, Grid(r.decimals), r.rounding)

-----------------------------------------------------------------------------

NoRequest == Request("none", 0, 0, 0, 0, "exact")

Init ==
  /\ Bits \in Nat /\ Radix \in Nat /\ D \in Nat
  /\ request = NoRequest /\ answer = NoAnswer

Call ==
  /\ request = NoRequest
  /\ request' \in Requests
  /\ UNCHANGED <<type, answer>>

Respond ==
  /\ request # NoRequest /\ answer = NoAnswer
  /\ answer' = RightAnswer(request)
  /\ UNCHANGED <<type, request>>

\* The caller takes the answer.
Return ==
  /\ answer # NoAnswer
  /\ request' = NoRequest /\ answer' = NoAnswer
  /\ UNCHANGED type

Next == Call \/ Respond \/ Return

Spec == Init /\ [][Next]_vars /\ WF_vars(Respond)
=============================================================================
