----------------------------- MODULE WideInteger -----------------------------
(***************************************************************************)
(* The portable wide integers: wide.hpp's uint128 .. int256, limbs.hpp's   *)
(* uint_limbs and the portable kernels of detail.hpp.  They have the same  *)
(* loops over limbs and bits, which run here one step at a time; a type of *)
(* two limbs writes the loop out.  Wherever an operation calls another,    *)
(* the callee appears by its result, which its own steps are checked for.  *)
(*                                                                         *)
(* A value is its pattern, 0 .. 2^Bits - 1; Part takes its limbs.          *)
(***************************************************************************)
EXTENDS Integers, FiniteSetsExt

CONSTANTS
  Shapes,                  \* the types: <<bits of a limb, limbs>>
  Samples                  \* their operands: a set of patterns for each type

ASSUME ShapesAssumption ==
  \A s \in Shapes : /\ s \in Nat \X Nat
                    /\ s[1] >= 2 /\ s[1] % 2 = 0 /\ s[2] >= 2 /\ s[2] % 2 = 0
ASSUME SamplesAssumption ==
  \A s \in Shapes : Samples[s] \subseteq 0 .. 2 ^ (s[1] * s[2]) - 1

\* What the proofs need to know of powers: the equations that define them.
ASSUME PowersAssumption ==
  \A s \in Shapes :
    LET m == 2 ^ s[1]
    IN /\ 2 ^ 0 = 1 /\ \A k \in 0 .. s[1] * s[2] : 2 ^ (k + 1) = 2 * 2 ^ k
       /\ m ^ 0 = 1 /\ \A k \in 0 .. 2 * s[2] - 1 : m ^ (k + 1) = m * m ^ k

VARIABLES
  W, N,                    \* a type of N limbs of W bits, chosen once
  request, answer,         \* the call and its result
  stage,                   \* where the call is
  x, y, negative,          \* what a loop works on, and the sign to put back
  i, j, carry,             \* the loop's counters, and its carry or borrow
  res, rem                 \* what it has computed so far

type == <<W, N>>
loop == <<x, y, negative, i, j, carry, res, rem>>
vars == <<type, request, answer, stage, loop>>

A == INSTANCE ModularArithmetic WITH Limb <- W, Bits <- N * W

M == 2 ^ W
Bits == N * W
All == 2 ^ Bits
Part(v, k) == (v \div M ^ k) % M
Indicator(p) == IF p THEN 1 ELSE 0
Sum(f) ==
  LET below[k \in Nat] == IF k = 0 THEN 0 ELSE below[k - 1] + f[k - 1] * M ^ (k - 1)
  IN below[N]
Negative(v) == Part(v, N - 1) >= M \div 2
NegativeWord(v) == v >= M \div 2

Init ==
  /\ \E s \in Shapes : W = s[1] /\ N = s[2]
  /\ request = A!NoRequest /\ answer = A!NoAnswer /\ stage = "idle"
  /\ x = 0 /\ y = 0 /\ negative = FALSE
  /\ i = 0 /\ j = 0 /\ carry = 0 /\ res = 0 /\ rem = 0

Unary == {"negate", "magnitude", "bit_width"}
Shifts == {"shl", "shr", "sar"}
Binary == {"add", "sub", "mul", "mul_full", "less", "signed_less", "div", "mod",
           "and", "or", "xor"}
ByWord == {"div_unsigned_word", "div_signed_word"}   \* int128 over an integer

Begin(op, a, b, c, rounding) ==
  /\ request' = A!Request(op, a, b, c, rounding)
  /\ stage' = "dispatch"
  /\ UNCHANGED <<type, answer, loop>>

Call ==
  /\ stage = "idle"
  /\ \E a \in Samples[type] :
       \/ \E op \in Binary, b \in Samples[type] : Begin(op, a, b, 0, "exact")
       \/ \E op \in Unary : Begin(op, a, 0, 0, "exact")
       \/ \E op \in Shifts, b \in 0 .. Bits + 1 : Begin(op, a, b, 0, "exact")
       \/ \E b \in {1, N \div 2} : Begin("extend", a % M ^ b, b, 0, "exact")
       \/ \E b \in 0 .. M - 1 : Begin("imul", a % M, b, 0, "exact")
       \/ N = 2 /\ \E op \in ByWord, b \in 1 .. M - 1 : Begin(op, a, b, 0, "exact")
       \/ /\ N = 2       \* only called when the quotient fits a word
          /\ \E b \in 1 .. M - 1 :
               LET q == A!H!Truncate(A!Signed(a, Bits), A!Signed(b, W))
               IN q \in -(M \div 2) .. M \div 2 - 1 /\ Begin("div_signed64", a, b, 0, "exact")

Op(op) == stage = "dispatch" /\ request.op = op

Return ==
  /\ stage = "answered"
  /\ stage' = "idle"
  /\ request' = A!NoRequest /\ answer' = A!NoAnswer
  /\ x' = 0 /\ y' = 0 /\ negative' = FALSE
  /\ i' = 0 /\ j' = 0 /\ carry' = 0 /\ res' = 0 /\ rem' = 0
  /\ UNCHANGED type

Respond(a) ==
  /\ stage' = "answered" /\ answer' = a
  /\ UNCHANGED <<type, request, loop>>
Reply(value) == Respond(A!Value(value))

Enter(next, left, right, from) ==
  /\ stage' = next
  /\ x' = left /\ y' = right /\ i' = from
  /\ UNCHANGED <<type, request, answer, negative, j, carry, res, rem>>

-----------------------------------------------------------------------------
(* Sums and differences, and what is written with them.                    *)

Add == Op("add") /\ Enter("sum", request.a, request.b, 0)
Sub == Op("sub") /\ Enter("difference", request.a, request.b, 0)

\* Two's complement: ~v + 1.
Negate == Op("negate") /\ Enter("sum", All - 1 - request.a, 1, 0)
Magnitude ==
  /\ Op("magnitude")
  /\ IF Negative(request.a) THEN Enter("sum", All - 1 - request.a, 1, 0)
                            ELSE Reply(<<request.a>>)

SumLimb ==
  /\ stage = "sum" /\ i < N
  /\ LET a == Part(x, i)
         s == (a + Part(y, i) + carry) % M
     IN carry' = Indicator(s < a \/ (carry # 0 /\ s = a)) /\ res' = res + s * M ^ i
  /\ i' = i + 1
  /\ UNCHANGED <<type, request, answer, stage, x, y, negative, j, rem>>

DifferenceLimb ==
  /\ stage = "difference" /\ i < N
  /\ LET a == Part(x, i)
         b == (Part(y, i) + carry) % M
     IN carry' = Indicator(b < Part(y, i) \/ a < b) /\ res' = res + ((a - b) % M) * M ^ i
  /\ i' = i + 1
  /\ UNCHANGED <<type, request, answer, stage, x, y, negative, j, rem>>

Summed == stage \in {"sum", "difference"} /\ i = N /\ Reply(<<res>>)

-----------------------------------------------------------------------------
(* Comparison, conversion, width.                                          *)

Below(a, b) ==
  \E k \in 0 .. N - 1 :
    Part(a, k) < Part(b, k) /\ \A l \in k + 1 .. N - 1 : Part(a, l) = Part(b, l)

\* The top limbs compare as signed, the others as unsigned.
SignedBelow(a, b) ==
  IF Negative(a) = Negative(b) THEN Below(a, b) ELSE Negative(a)

Less ==
  \/ Op("less") /\ Reply(<<Indicator(Below(request.a, request.b))>>)
  \/ Op("signed_less") /\ Reply(<<Indicator(SignedBelow(request.a, request.b))>>)

\* A limb is a word of the machine, whose bit operators are taken as they are.
Bitwise ==
  \E op \in {"and", "or", "xor"} :
    /\ Op(op)
    /\ LET limb(u, v) == A!Bitwise(u, v, CASE op = "and" -> {2}
                                          [] op = "or" -> {1, 2} [] op = "xor" -> {1})
       IN Reply(<<Sum([k \in 0 .. N - 1 |-> limb(Part(request.a, k), Part(request.b, k))])>>)

\* A narrower signed integer: its limbs, then its sign.
Extend ==
  /\ Op("extend")
  /\ LET sign == IF Part(request.a, request.b - 1) >= M \div 2 THEN M - 1 ELSE 0
     IN Reply(<<Sum([k \in 0 .. N - 1 |-> IF k < request.b THEN Part(request.a, k) ELSE sign])>>)

countl_zero64(v) == CHOOSE z \in 0 .. W : v < 2 ^ (W - z) /\ (z = W \/ v >= 2 ^ (W - z - 1))

BitWidth ==
  /\ Op("bit_width")
  /\ LET active == {k \in 0 .. N - 1 : Part(request.a, k) # 0}
     IN Reply(<<IF active = {} THEN 0
                ELSE (Max(active) + 1) * W - countl_zero64(Part(request.a, Max(active)))>>)

-----------------------------------------------------------------------------
(* Shifts: by whole limbs, and by bits that two limbs share.               *)

LimbShift == request.b \div W
BitShift == request.b % W
Fill == IF request.op = "sar" /\ Negative(request.a) THEN M - 1 ELSE 0

ShiftLeft ==
  /\ Op("shl")
  /\ LET limb(k) == IF k < 0 THEN 0 ELSE Part(request.a, k)
     IN Reply(<<IF request.b >= Bits THEN 0
                ELSE Sum([k \in 0 .. N - 1 |->
                       ((limb(k - LimbShift) * 2 ^ BitShift) % M)
                         + (IF BitShift = 0 THEN 0
                            ELSE limb(k - LimbShift - 1) \div 2 ^ (W - BitShift))])>>)

\* The arithmetic shift takes the sign where the logical one takes zeros.
ShiftRight ==
  /\ Op("shr") \/ Op("sar")
  /\ LET limb(k) == IF k < N THEN Part(request.a, k) ELSE Fill
     IN Reply(<<IF request.b >= Bits THEN Sum([k \in 0 .. N - 1 |-> Fill])
                ELSE Sum([k \in 0 .. N - 1 |->
                       (limb(k + LimbShift) \div 2 ^ BitShift)
                         + (IF BitShift = 0 THEN 0
                            ELSE (limb(k + LimbShift + 1) * 2 ^ (W - BitShift)) % M)])>>)

-----------------------------------------------------------------------------
(* Products, from half words.                                              *)

\* Mutant: the middle word is not masked before the second product is added.
WordUnmasked(u, v) ==
  LET h == 2 ^ (W \div 2)
      w0 == (u % h) * (v % h)
      t == (u \div h) * (v % h) + w0 \div h
      w1 == t + (u % h) * (v \div h)
      w2 == t \div h + w1 \div h
  IN [hi |-> (u \div h) * (v \div h) + w2, lo |-> (w1 % h) * h + (w0 % h)]

\* Four partial products.
mul64x64(u, v) ==
  LET h == 2 ^ (W \div 2)
      w0 == (u % h) * (v % h)
      t == (u \div h) * (v % h) + w0 \div h
      w1 == (t % h) + (u % h) * (v \div h)
      w2 == t \div h + w1 \div h
  IN [hi |-> (u \div h) * (v \div h) + w2, lo |-> (w1 % h) * h + (w0 % h)]

\* The loop of uint256 and uint_limbs, and what uint128 writes out.
Mul ==
  /\ Op("mul")
  /\ \/ Enter("row", request.a, request.b, 0)
     \/ /\ N = 2
        /\ LET a == request.a  b == request.b
               low == mul64x64(Part(a, 0), Part(b, 0))
           IN Reply(<<low.lo + M * ((low.hi + Part(a, 0) * Part(b, 1)
                                            + Part(a, 1) * Part(b, 0)) % M)>>)
MulFull == Op("mul_full") /\ Enter("row", request.a, request.b, 0)

\* mul_full keeps every limb, operator* those of the type.
Width == IF request.op = "mul_full" THEN 2 * N ELSE N
Put(limb, at) == res + (limb - Part(res, at)) * M ^ at

ProductLimb ==
  /\ stage = "row" /\ i < N /\ j < N /\ i + j < Width
  /\ LET product == mul64x64(Part(x, i), Part(y, j))
         s1 == (Part(res, i + j) + product.lo) % M
         s2 == (s1 + carry) % M
     IN /\ res' = Put(s2, i + j)
        /\ carry' = (product.hi + Indicator(s1 < product.lo) + Indicator(s2 < s1)) % M
  /\ j' = j + 1
  /\ UNCHANGED <<type, request, answer, stage, x, y, negative, i, rem>>

\* mul_full: what a row carries out goes upwards.
Propagate ==
  /\ stage = "row" /\ j >= N /\ carry # 0 /\ i + j < Width
  /\ LET sum == (Part(res, i + j) + carry) % M
     IN res' = Put(sum, i + j) /\ carry' = Indicator(sum < carry)
  /\ j' = j + 1
  /\ UNCHANGED <<type, request, answer, stage, x, y, negative, i, rem>>

RowEnded == i + j >= Width \/ (j >= N /\ carry = 0)
NextRow ==
  /\ stage = "row" /\ i < N /\ RowEnded
  /\ i' = i + 1 /\ j' = 0 /\ carry' = 0
  /\ UNCHANGED <<type, request, answer, stage, x, y, negative, res, rem>>

Multiplied == stage = "row" /\ i = N /\ Reply(<<res>>)

\* imul64x64: the product of magnitudes, negated limb by limb.
SignedWordProduct ==
  /\ Op("imul")
  /\ LET a == request.a  b == request.b
         p == mul64x64(A!Magnitude(a, W), A!Magnitude(b, W))
         lo == (M - p.lo) % M
         hi == (M - 1 - p.hi + Indicator(lo = 0)) % M
     IN Reply(<<IF NegativeWord(a) = NegativeWord(b) THEN p.lo + M * p.hi ELSE lo + M * hi>>)

-----------------------------------------------------------------------------
(* Division bit by bit.                                                    *)

\* operator/ and operator% : an answer for a zero divisor, no exception.
Divide ==
  /\ Op("div") \/ Op("mod")
  /\ IF request.b = 0 THEN Reply(<<0>>)
     ELSE IF Below(request.a, request.b)
       THEN Reply(<<IF request.op = "div" THEN 0 ELSE request.a>>)
     ELSE Enter("bits", request.a, request.b, Bits)

Bit(v, k) == (v \div 2 ^ k) % 2

\* Mutant: the remainder is compared before the next bit is taken in.
DivideBitLate ==
  /\ stage = "bits" /\ i > 0
  /\ LET shifted == (2 * rem) % All
     IN IF shifted < y THEN rem' = shifted + Bit(x, i - 1) /\ res' = res
        ELSE rem' = shifted - y + Bit(x, i - 1) /\ res' = res + 2 ^ (i - 1)
  /\ i' = i - 1
  /\ UNCHANGED <<type, request, answer, stage, x, y, negative, j, carry>>

\* The shift has no room for a bit out of the top.
DivideBit ==
  /\ stage = "bits" /\ i > 0
  /\ LET shifted == ((2 * rem) % All) + Bit(x, i - 1)
     IN IF Below(shifted, y) THEN rem' = shifted /\ res' = res
        ELSE rem' = shifted - y /\ res' = res + 2 ^ (i - 1)
  /\ i' = i - 1
  /\ UNCHANGED <<type, request, answer, stage, x, y, negative, j, carry>>

Divided ==
  /\ stage = "bits" /\ i = 0
  /\ Reply(<<IF request.op = "div" THEN res ELSE rem>>)

\* Two limbs by one: the divisor may have its top bit set, so that the bit
\* shifted out of the remainder counts.
EnterWords(low, divisor, sign, quotient, remainder) ==
  /\ stage' = "words"
  /\ x' = low /\ y' = divisor /\ negative' = sign
  /\ i' = W /\ res' = quotient /\ rem' = remainder
  /\ UNCHANGED <<type, request, answer, j, carry>>

SignedDivisor == request.op # "div_unsigned_word" /\ NegativeWord(request.b)
DivisorMagnitude == IF SignedDivisor THEN (M - request.b) % M ELSE request.b

\* int128 over an integer: the high limb at once, the low one by bits.
DivideByWord ==
  /\ \E op \in ByWord : Op(op)
  /\ LET a == A!Magnitude(request.a, Bits)
     IN EnterWords(Part(a, 0), DivisorMagnitude, Negative(request.a) # SignedDivisor,
                   M * (Part(a, 1) \div DivisorMagnitude), Part(a, 1) % DivisorMagnitude)

\* div_signed64 over div128by64, the numerator negated limb by limb.
DivideSigned64 ==
  /\ Op("div_signed64")
  /\ LET sign == Negative(request.a)
         lo == IF sign THEN (M - Part(request.a, 0)) % M ELSE Part(request.a, 0)
         hi == IF sign THEN (M - 1 - Part(request.a, 1) + Indicator(lo = 0)) % M
                       ELSE Part(request.a, 1)
     IN EnterWords(lo, DivisorMagnitude, sign # SignedDivisor, 0, hi)

WordBit ==
  /\ stage = "words" /\ i > 0
  /\ LET shifted == ((2 * rem) % M) + Bit(x, i - 1)
     IN IF Bit(rem, W - 1) = 1 \/ shifted >= y
          THEN rem' = (shifted - y) % M /\ res' = res + 2 ^ (i - 1)
          ELSE rem' = shifted /\ res' = res
  /\ i' = i - 1
  /\ UNCHANGED <<type, request, answer, stage, x, y, negative, j, carry>>

Signed(v, sign, bits) == (IF sign THEN -v ELSE v) % 2 ^ bits

WordsDivided ==
  /\ stage = "words" /\ i = 0
  /\ Reply(IF request.op = "div_signed64"
             THEN <<Signed(res, negative, W), Signed(rem, Negative(request.a), W)>>
             ELSE <<Signed(res, negative, Bits)>>)

-----------------------------------------------------------------------------

Work ==
  \/ Add \/ Sub \/ Negate \/ Magnitude \/ SumLimb \/ DifferenceLimb \/ Summed
  \/ Less \/ Bitwise \/ Extend \/ BitWidth \/ ShiftLeft \/ ShiftRight
  \/ Mul \/ MulFull \/ ProductLimb \/ Propagate \/ NextRow \/ Multiplied
  \/ SignedWordProduct
  \/ Divide \/ DivideBit \/ Divided
  \/ DivideByWord \/ DivideSigned64 \/ WordBit \/ WordsDivided

Next == Call \/ Work \/ Return

\* The call runs to its end without suspending.
Spec == Init /\ [][Next]_vars /\ WF_vars(Work)

-----------------------------------------------------------------------------
(* Properties *)

\* Both bit loops: the quotient's bits so far, the remainder and the bits still
\* to come are the dividend, so no bit was shifted out unnoticed, also where the
\* divisor has its top bit set.
BitsConserved ==
  stage \in {"bits", "words"} =>
    LET dividend == IF stage = "bits" THEN x ELSE A!Magnitude(request.a, Bits)
    IN dividend \div 2 ^ i = (res \div 2 ^ i) * y + rem /\ rem < y

\* A carry of the product loops is a high word and two more wraps; it still is
\* one word, and the top limb of a full product carries nothing out.
CarryFits ==
  /\ stage = "row" /\ i < N /\ j < N /\ i + j < Width =>
       LET product == mul64x64(Part(x, i), Part(y, j))
       IN (Part(res, i + j) + product.lo + carry) \div M + product.hi < M
  /\ stage = "row" /\ request.op = "mul_full" /\ i + j = Width => carry = 0

\* Every operation is answered with the integer it stands for, modulo the type.
ImplementsModularArithmetic == A!Spec
=============================================================================
