------------------------- MODULE MCMixedArithmetic -------------------------
(* Operand and destination types for TLC: a limb of 4 bits, radix 6.       *)
EXTENDS MixedArithmetic

Of(bits, decimals, raws) ==
  {[raw |-> r, bits |-> bits, decimals |-> decimals] : r \in raws}

\* A narrow type, a limb, pairs and quads with and without decimals: both
\* bounds, a tie, a multiple of the scale, and the values beside zero.
MCOperands ==
  UNION {Of(3, 0, {-4, 3}),
         Of(4, 1, {-8, 0, 3}),
         Of(8, 0, {-128, 95, 127}),
         Of(8, 1, {-126, -18, 9}),
         Of(16, 0, {-2048}),
         Of(16, 2, {-32768, -127, 4620, 32767})}

MCDivisors == UNION {Of(4, 1, {-8, 0}), Of(8, 1, {9})}

MCDests ==
  {[bits |-> 3, decimals |-> 0], [bits |-> 4, decimals |-> 1],
   [bits |-> 8, decimals |-> 1], [bits |-> 16, decimals |-> 2]}
=============================================================================
