---------------------------- MODULE MCWideInteger ----------------------------
EXTENDS BigInteger, TLC

\* Every pattern of two short limbs; otherwise the limbs' bounds in each place.
Corners(w, n, limbs) ==
  {MapThenSumSet(LAMBDA k : f[k] * (2 ^ w) ^ k, 0 .. n - 1) : f \in [0 .. n - 1 -> limbs]}
const_Samples ==
  (<<2, 2>> :> 0 .. 15) @@ (<<4, 2>> :> Corners(4, 2, {0, 1, 7, 8, 9, 14, 15}))
    @@ (<<2, 4>> :> Corners(2, 4, {0, 1, 3}) \union {128, 130, 2, 40})
const_Shapes == DOMAIN const_Samples
=============================================================================
