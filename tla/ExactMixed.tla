----------------------------- MODULE ExactMixed -----------------------------
(***************************************************************************)
(* What mixed-width arithmetic promises: operands of different widths and  *)
(* scales are rational numbers; an operation evaluates the exact rational  *)
(* and rounds it once into the destination type, or reports the error that *)
(* error.hpp gives precedence to.  A comparison is exact.  Nothing here    *)
(* follows the library's algorithms.                                       *)
(***************************************************************************)
EXTENDS Integers

CONSTANTS
  Radix,
  Operands,                \* values: [raw, bits, decimals]
  Dests                    \* destination types: [bits, decimals]

VARIABLES request, answer

vars == <<request, answer>>

XR(Bits) == INSTANCE ExactRounding

Ops == {"cast", "add", "sub", "mul", "div", "mul_div", "compare"}
NoOperand == [raw |-> 0, bits |-> 0, decimals |-> 0]
NoDest == [bits |-> 0, decimals |-> 0]

Request(op, a, b, c, dest, rounding) ==
  [op |-> op, a |-> a, b |-> b, c |-> c, dest |-> dest, rounding |-> rounding]

Requests ==
  [op : Ops, a : Operands, b : Operands \union {NoOperand},
   c : Operands \union {NoOperand}, dest : Dests \union {NoDest},
   rounding : XR(1)!RoundingModes]

NoRequest == Request("none", NoOperand, NoOperand, NoOperand, NoDest, "exact")
NoAnswer == XR(1)!Error("none yet")

-----------------------------------------------------------------------------

Power(k) == IF k > 0 THEN Radix ^ k ELSE 1

\* The rational n / d, times Radix ^ k, in the destination's type.
Placed(r, n, d, k) ==
  XR(r.dest.bits)!OnGrid(n * Power(k), d * Power(-k), 1, r.rounding)

\* a plus s times b, at the finer of their scales.
Summed(r, s) ==
  LET da == r.a.decimals  db == r.b.decimals
      finer == IF da < db THEN db ELSE da
  IN Placed(r, r.a.raw * Power(db - da) + s * r.b.raw * Power(da - db), 1,
            r.dest.decimals - finer)

Sign(x) == IF x < 0 THEN -1 ELSE IF x = 0 THEN 0 ELSE 1

RightAnswer(r) ==
  LET da == r.a.decimals  db == r.b.decimals  dd == r.dest.decimals
  IN CASE r.op = "cast" -> Placed(r, r.a.raw, 1, dd - da)
       [] r.op = "add" -> Summed(r, 1)
       [] r.op = "sub" -> Summed(r, -1)
       [] r.op = "mul" -> Placed(r, r.a.raw * r.b.raw, 1, dd - da - db)
       [] r.op = "div" -> Placed(r, r.a.raw, r.b.raw, dd + db - da)
       [] r.op = "mul_div" ->
            Placed(r, r.a.raw * r.b.raw, r.c.raw, dd + r.c.decimals - da - db)
       [] r.op = "compare" ->
            XR(1)!Result(Sign(r.a.raw * Power(db - da) - r.b.raw * Power(da - db)))

-----------------------------------------------------------------------------

Init == request = NoRequest /\ answer = NoAnswer

Call ==
  /\ request = NoRequest
  /\ request' \in Requests
  /\ UNCHANGED answer

Respond ==
  /\ request # NoRequest /\ answer = NoAnswer
  /\ answer' = RightAnswer(request)
  /\ UNCHANGED request

\* The caller takes the answer.
Return ==
  /\ answer # NoAnswer
  /\ request' = NoRequest /\ answer' = NoAnswer

Next == Call \/ Respond \/ Return

Spec == Init /\ [][Next]_vars /\ WF_vars(Respond)
=============================================================================
