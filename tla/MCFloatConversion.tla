-------------------------- MODULE MCFloatConversion --------------------------
(* Words of 6 bits; floats like binary32, binary64, x87 and binary128.       *)
EXTENDS FloatConversion

Format(digits, max_exponent, explicit) ==
  [precision |-> digits, max_exponent |-> max_exponent, explicit |-> explicit]
Single == Format(3, 8, FALSE)
Double == Format(4, 16, FALSE)
Extended == Format(5, 16, TRUE)
Quadruple == Format(6, 16, FALSE)

Decimal(bits, decimals) == [bits |-> bits, decimals |-> decimals]

const_Ingress ==
  {Single} \X {Decimal(6, 0), Decimal(6, 1), Decimal(8, 1), Decimal(8, 2),
                 Decimal(14, 0), Decimal(14, 1)}
    \union {Double} \X {Decimal(6, 0), Decimal(6, 2), Decimal(12, 3), Decimal(14, 1)}
    \union {Extended} \X {Decimal(6, 1)}
    \union {Quadruple} \X {Decimal(12, 4)}

const_Egress ==
  {Single} \X {Decimal(6, 0), Decimal(6, 1), Decimal(8, 2)}
    \union {Double, Extended, Quadruple} \X
             {Decimal(8, 0), Decimal(8, 1), Decimal(6, 2), Decimal(12, 3), Decimal(12, 4)}
=============================================================================
