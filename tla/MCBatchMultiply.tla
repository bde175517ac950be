--------------------------- MODULE MCBatchMultiply ---------------------------
(* Words of 8 bits and radix 6, for which 36 = 2 * 16 + 4 is the denominator *)
(* with a signed vector path.                                                *)
EXTENDS BatchMultiply

Both(S) == S \union {-x : x \in S}
Operand(raws, bits, decimals) ==
  {[raw |-> x, bits |-> bits, decimals |-> decimals] : x \in raws}

\* Coefficients around a signed and an unsigned half word and beyond a limb.
WideRaws ==
  Both({0, 1, 3, 18, 36, 127, 216, 255, 256, 257, 288, 540, 576, 612,
        4572, 4608, 4644, 32766, 32767}) \union {-32768}
ShortRaws == Both({0, 3, 36, 107, 127}) \union {-128}
FactorRaws == Both({0, 1, 3, 6, 7, 8, 15, 16, 36, 127}) \union {-128}

const_Rows == Operand(WideRaws, 16, 1) \union Operand(ShortRaws, 8, 1)
const_Factors ==
  Operand(FactorRaws, 8, 1) \union Operand(FactorRaws, 8, 2)
    \union Operand({0, 5, -216, 259, 768, 32767}, 16, 2) \union Operand({-7, 12}, 8, 3)
const_Dests == {[bits |-> 16, decimals |-> 1], [bits |-> 8, decimals |-> 1],
                [bits |-> 16, decimals |-> 0]}
=============================================================================
