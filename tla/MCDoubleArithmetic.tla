-------------------------- MODULE MCDoubleArithmetic --------------------------
EXTENDS ConstexprArithmetic

\* The bounds of a word and of two, the scales and their neighbours.
const_Rights ==
  {0, 1, -1, 2, -3, 5, 6, -6, 7, 8, -8, -9, 12, 15, 16, 17, -17, 36, 64, 127, -128}
const_Lefts == const_Rights \union {3, 18, -21, -32, 40, 42, -42, 63, -127}
const_Factors == {0, 1, -1, 2, 3, -3, 5, 7, -8, 15, -16, 127, -128}

\* Scales that fit a signed word, an unsigned word, only two words; and 1.
const_Types == {<<2, 0>>, <<6, 1>>, <<12, 1>>, <<6, 2>>}
=============================================================================
