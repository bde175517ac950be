-------------------------- MODULE DivideDigitProof --------------------------
(***************************************************************************)
(* Proofs about DivideDigit for every radix B: one quotient digit is exact *)
(* without an add-back stage, the estimate is lowered at most twice, and   *)
(* the wrapped subtraction yields the remainder.                           *)
(***************************************************************************)
EXTENDS DivideDigit, IntegerLemmas

\* What the arithmetic of the loop preserves: quotient * v1 + rhat, with the
\* limb that rhat lost, is the remainder the call was given.
Lost == IF carry THEN B ELSE 0

Loaded == pc # "idle" => Callable(given, next, v1, v0)
Unlowered == pc \in {"idle", "estimate"} => corrections = 0
Kept == pc \in {"estimate", "correct"} => remainder = given
Balanced ==
  pc \in {"correct", "done"} =>
    /\ quotient * v1 + rhat + Lost = given
    /\ corrections * v1 <= rhat + Lost

IInv ==
  /\ TypeOK /\ Loaded /\ Unlowered /\ Kept /\ Balanced
  /\ EstimateNeverBelow /\ AtMostTwoCorrections /\ DigitExact

-----------------------------------------------------------------------------
(* Arithmetic of the steps, free of the state machine *)

\* A remainder below the divisor times the radix is below every multiple of
\* the divisor whose leading part already exceeds it.
LEMMA DividendBelow ==
  ASSUME NEW r \in Nat, NEW n \in Digits, NEW d1 \in Digits, NEW d0 \in Digits,
         NEW k \in Nat, r < k * d1
  PROVE  r * B + n < k * (d1 * B + d0)
<1> USE RadixAssumption DEF Digits
<1> DEFINE m == k * d1
<1>1. m \in Nat /\ r + 1 <= m
  OBVIOUS
<1>2. k * (d1 * B + d0) = m * B + k * d0
  OBVIOUS
<1>3. k * d0 \in Nat
  OBVIOUS
<1> HIDE DEF m
<1>4. r * B + B <= m * B
  <2>1. CASE r + 1 = m
    BY <2>1, <1>1
  <2>2. CASE r + 1 < m
    BY <2>2, <1>1, MultipleOrder
  <2> QED
    BY <2>1, <2>2, <1>1
<1> DEFINE t == k * d0
<1> DEFINE e == k * (d1 * B + d0)
<1>5. e = m * B + t /\ t \in Nat
  BY <1>2, <1>3
<1> HIDE DEF t, e
<1>6. r * B + n < e
  <2> DEFINE mb == m * B
  <2> DEFINE rb == r * B
  <2>1. mb \in Int /\ rb \in Int /\ rb + B <= mb /\ e = mb + t
    BY <1>4, <1>5, <1>1
  <2> HIDE DEF mb, rb
  <2>2. rb + n < e
    BY <2>1, <1>5
  <2> QED
    BY <2>2 DEF rb
<1> QED
  BY <1>6 DEF e

\* The estimate with equal leading limbs is the largest digit, and rhat is
\* exact up to the limb its carry stands for.
LEMMA SaturatedEstimate ==
  ASSUME NEW r \in Nat, NEW n \in Digits, NEW d1 \in Digits, NEW d0 \in Digits,
         Callable(r, n, d1, d0), High(r) = d1,
         NEW s \in Int, s = (Low(r) + d1) % B
  PROVE  /\ s \in Digits
         /\ (B - 1) * d1 + s + (IF s < Low(r) THEN B ELSE 0) = r
         /\ r * B + n < ((B - 1) + 1) * (d1 * B + d0)
<1> USE RadixAssumption DEF Digits, Callable, High, Low
<1> DEFINE l == r % B
<1>1. l \in Nat /\ l < B /\ r = d1 * B + l
  BY DivMod
<1>2. s = (l + d1) % B
  OBVIOUS
<1> HIDE DEF l
<1>3. CASE l + d1 < B
  <2>1. s = l + d1
    BY <1>1, <1>2, <1>3
  <2>2. ~(s < l)
    BY <2>1, <1>1
  <2>3. (B - 1) * d1 + s = r
    BY <2>1, <1>1
  <2> QED
    BY <2>1, <2>2, <2>3, <1>1, <1>3 DEF l
<1>4. CASE l + d1 >= B
  <2>1. s = l + d1 - B
    BY <1>1, <1>2, <1>4
  <2>2. s < l
    BY <2>1, <1>1
  <2>3. (B - 1) * d1 + s + B = r
    BY <2>1, <1>1
  <2> QED
    BY <2>1, <2>2, <2>3, <1>1, <1>4 DEF l
<1> QED
  BY <1>3, <1>4, <1>1

\* Below equal leading limbs, dividing by the leading limb of the divisor
\* gives a digit that is not too small.
LEMMA DividedEstimate ==
  ASSUME NEW r \in Nat, NEW n \in Digits, NEW d1 \in Digits, NEW d0 \in Digits,
         Callable(r, n, d1, d0), High(r) # d1
  PROVE  /\ r \div d1 \in Digits /\ r % d1 \in Digits
         /\ (r \div d1) * d1 + (r % d1) = r
         /\ r * B + n < (r \div d1 + 1) * (d1 * B + d0)
<1> USE RadixAssumption DEF Digits
<1> DEFINE h == r \div B
<1> DEFINE l == r % B
<1> DEFINE q == r \div d1
<1> DEFINE s == r % d1
<1>1. d1 > 0 /\ r < d1 * B + d0 /\ h # d1
  BY DEF Callable, High
<1>2. h \in Int /\ l \in Nat /\ l < B /\ r = h * B + l
  BY DivMod
<1>3. q \in Int /\ s \in Nat /\ s < d1 /\ r = q * d1 + s
  BY <1>1, DivMod
<1> HIDE DEF h, l, q, s
<1>4. h < d1
  <2> SUFFICES ASSUME d1 < h PROVE FALSE
    BY <1>1, <1>2
  <2>1. d1 * B + B <= h * B
    BY <1>2, MultipleOrder
  <2> QED
    BY <2>1, <1>1, <1>2
<1>5. r < d1 * B
  <2>1. h * B + B <= d1 * B
    BY <1>2, <1>4, MultipleOrder
  <2> QED
    BY <2>1, <1>2
<1>6. q < B
  <2> SUFFICES ASSUME B <= q PROVE FALSE
    BY <1>3
  <2>1. B * d1 <= q * d1
    BY <1>1, <1>3, MultipleOrder
  <2> QED
    BY <2>1, <1>3, <1>5
<1>7. q >= 0
  <2> SUFFICES ASSUME q < 0 PROVE FALSE
    BY <1>3
  <2>1. q * d1 + d1 <= 0 * d1
    BY <1>1, <1>3, MultipleOrder
  <2> QED
    BY <2>1, <1>3
<1>8. r < (q + 1) * d1
  BY <1>3
<1>9. r * B + n < (q + 1) * (d1 * B + d0)
  <2>1. q + 1 \in Nat
    BY <1>3, <1>7
  <2> QED
    BY <2>1, <1>8, DividendBelow
<1> QED
  BY <1>3, <1>6, <1>7, <1>9 DEF q, s

\* Lowering a digit whose low product exceeds rhat:next keeps it from falling
\* below the true one.
LEMMA LoweredEstimate ==
  ASSUME NEW g \in Nat, NEW n \in Digits, NEW d1 \in Digits, NEW d0 \in Digits,
         NEW q \in Digits, NEW s \in Digits,
         q * d1 + s = g, q * d0 > s * B + n
  PROVE  /\ q - 1 \in Digits
         /\ g * B + n < ((q - 1) + 1) * (d1 * B + d0)
<1> USE RadixAssumption DEF Digits
<1> DEFINE p0 == q * d0
<1> DEFINE p1 == q * d1
<1> DEFINE sb == s * B
<1>1. sb \in Nat /\ p0 \in Nat /\ p1 \in Nat /\ p0 > sb + n /\ p1 + s = g
  OBVIOUS
<1>2. q # 0
  BY <1>1
<1>3. ((q - 1) + 1) * (d1 * B + d0) = p1 * B + p0
  OBVIOUS
<1>4. g * B = p1 * B + sb
  BY <1>1
<1> DEFINE pb == p1 * B
<1> DEFINE gb == g * B
<1>5. gb = pb + sb /\ pb \in Nat /\ gb \in Nat
  BY <1>4, <1>1
<1>6. gb + n < pb + p0
  <2> HIDE DEF gb, pb, p0, sb
  <2> QED
    BY <1>1, <1>5
<1> QED
  BY <1>2, <1>3, <1>6

\* The arithmetic of the final subtraction: the true difference lies between
\* zero and B^2, so reducing it modulo B^2 loses nothing; and a lost limb of
\* rhat shows as a borrow.
LEMMA FinalSubtraction ==
  ASSUME NEW g \in Nat, NEW n \in Digits, NEW d1 \in Digits, NEW d0 \in Digits,
         NEW q \in Digits, NEW s \in Digits, NEW c \in {0, B},
         q * d1 + s + c = g,
         c = 0 => q * d0 <= s * B + n,
         g * B + n < (q + 1) * (d1 * B + d0)
  PROVE  LET x == (s * B + n - q * d0) % (B * B)
         IN  /\ x \in 0 .. B * B - 1
             /\ g * B + n = q * (d1 * B + d0) + x
             /\ x < d1 * B + d0
<1> USE RadixAssumption DEF Digits
<1> DEFINE p0 == q * d0
<1> DEFINE v == d1 * B + d0
<1> DEFINE qv == q * v
<1> DEFINE x == g * B + n - qv
<1> DEFINE cb == c * B
<1> DEFINE y == s * B + n - p0
<1> DEFINE bb == B * B
<1>1. /\ p0 \in Nat /\ v \in Nat /\ qv \in Nat /\ x \in Int /\ y \in Int
      /\ bb \in Nat /\ cb \in {0, bb}
  OBVIOUS
<1>2. x = y + cb
  <2>1. qv = (q * d1) * B + p0
    OBVIOUS
  <2>2. g * B = (q * d1) * B + s * B + cb
    OBVIOUS
  <2> QED
    BY <2>1, <2>2
<1>3. x < v
  <2>1. (q + 1) * v = qv + v
    OBVIOUS
  <2> QED
    BY <2>1
<1>4. p0 <= (B - 1) * (B - 1)
  <2>1. q * d0 <= q * (B - 1)
    OBVIOUS
  <2>2. q * (B - 1) <= (B - 1) * (B - 1)
    OBVIOUS
  <2> QED
    BY <2>1, <2>2
<1>5. v < bb
  <2>1. d1 * B <= (B - 1) * B
    OBVIOUS
  <2> QED
    BY <2>1
<1>6. x >= 0
  <2>1. CASE c = 0
    BY <2>1, <1>1, <1>2
  <2>2. CASE c = B
    <3>1. (B - 1) * (B - 1) < bb
      OBVIOUS
    <3>2. p0 < bb /\ s * B \in Nat
      BY <3>1, <1>4, <1>1
    <3> QED
      BY <2>2, <3>2, <1>2, <1>1
  <2> QED
    BY <2>1, <2>2
<1>7. y % bb = x
  <2>1. x < bb /\ bb > 0
    BY <1>3, <1>5, <1>1, <1>6
  <2>2. y = 0 * bb + x \/ y = (0 - 1) * bb + x
    BY <1>1, <1>2
  <2> HIDE DEF x, y, bb
  <2> QED
    BY <2>1, <2>2, <1>1, <1>6, DivUnique
<1>8. x < bb
  BY <1>3, <1>5, <1>1
<1>9. g * B + n = qv + x
  BY <1>1
<1> QED
  BY <1>3, <1>6, <1>7, <1>8, <1>9, <1>1

-----------------------------------------------------------------------------
(* The invariant is inductive: one theorem per action *)

LEMMA ZeroInRange == 0 \in 0 .. B * B - 1 /\ 0 \in Digits
  BY RadixAssumption DEF Digits

LEMMA InitIInv == Init => IInv
<1>1. Init => TypeOK
  <2> SUFFICES ASSUME Init PROVE TypeOK
    OBVIOUS
  <2>1. carry \in BOOLEAN
    BY DEF Init
  <2>2. pc = "idle" /\ corrections \in Nat
    BY DEF Init
  <2> QED
    BY ZeroInRange, <2>1, <2>2 DEF Init, TypeOK
<1>2. Init => Loaded /\ Unlowered /\ Kept /\ Balanced
        /\ EstimateNeverBelow /\ AtMostTwoCorrections /\ DigitExact
  BY DEF Init, Loaded, Unlowered, Kept, Balanced, EstimateNeverBelow,
         AtMostTwoCorrections, DigitExact
<1> QED
  BY <1>1, <1>2 DEF IInv

LEMMA CallIInv ==
  ASSUME IInv, AnyCall PROVE IInv'
<1> USE RadixAssumption DEF Digits
<1>1. PICK r \in 0 .. B * B - 1, n \in Digits, d1 \in Digits, d0 \in Digits :
        Call(r, n, d1, d0)
  BY DEF AnyCall
<1>2. TypeOK'
  BY <1>1 DEF IInv, TypeOK, Call
<1>3. Loaded'
  BY <1>1 DEF Loaded, Call, Callable
<1>4. Unlowered' /\ Kept' /\ Balanced' /\ EstimateNeverBelow'
      /\ AtMostTwoCorrections' /\ DigitExact'
  BY <1>1 DEF IInv, Unlowered, Kept, Balanced, EstimateNeverBelow,
              AtMostTwoCorrections, DigitExact, Call
<1> QED
  BY <1>2, <1>3, <1>4 DEF IInv

LEMMA SaturatedIInv ==
  ASSUME IInv, EstimateSaturated PROVE IInv'
<1> USE RadixAssumption DEF Digits
<1>1. /\ pc = "estimate" /\ pc' = "correct" /\ remainder = given
      /\ corrections = 0 /\ corrections' = 0
      /\ Callable(given, next, v1, v0) /\ High(given) = v1
      /\ quotient' = B - 1
      /\ rhat' = (Low(given) + v1) % B
      /\ carry' = (rhat' < Low(given))
      /\ given' = given /\ next' = next /\ v1' = v1 /\ v0' = v0
      /\ remainder' = remainder
  BY DEF IInv, Loaded, Unlowered, Kept, EstimateSaturated, call
<1>2. given \in Nat /\ next \in Digits /\ v1 \in Digits /\ v0 \in Digits
  BY DEF IInv, TypeOK
<1>3. Low(given) \in Int /\ (Low(given) + v1) % B \in Int
  BY <1>2, DivMod DEF Low
<1>4. /\ rhat' \in Digits
      /\ (B - 1) * v1 + rhat' + (IF rhat' < Low(given) THEN B ELSE 0) = given
      /\ given * B + next < ((B - 1) + 1) * (v1 * B + v0)
  BY <1>1, <1>2, <1>3, SaturatedEstimate
<1>5. TypeOK'
  BY <1>1, <1>4 DEF IInv, TypeOK
<1>6. Loaded'
  BY <1>1 DEF Loaded
<1>7. Unlowered' /\ Kept' /\ AtMostTwoCorrections' /\ DigitExact'
  BY <1>1 DEF Unlowered, Kept, AtMostTwoCorrections, DigitExact
<1>8. Balanced'
  <2>1. Lost' = IF rhat' < Low(given) THEN B ELSE 0
    BY <1>1 DEF Lost
  <2>2. corrections' * v1 = 0
    BY <1>1, <1>2
  <2>3. Lost' >= 0
    BY <2>1
  <2> QED
    BY <2>1, <2>2, <2>3, <1>1, <1>4 DEF Balanced
<1>9. EstimateNeverBelow'
  BY <1>1, <1>4 DEF EstimateNeverBelow, Dividend, Divisor
<1> QED
  BY <1>5, <1>6, <1>7, <1>8, <1>9 DEF IInv

LEMMA DividedIInv ==
  ASSUME IInv, EstimateDivided PROVE IInv'
<1> USE RadixAssumption DEF Digits
<1>1. /\ pc = "estimate" /\ pc' = "correct" /\ remainder = given
      /\ corrections = 0 /\ corrections' = 0
      /\ Callable(given, next, v1, v0) /\ High(given) # v1
      /\ quotient' = given \div v1 /\ rhat' = given % v1 /\ carry' = FALSE
      /\ given' = given /\ next' = next /\ v1' = v1 /\ v0' = v0
      /\ remainder' = remainder
  BY DEF IInv, Loaded, Unlowered, Kept, EstimateDivided, call
<1>2. given \in Nat /\ next \in Digits /\ v1 \in Digits /\ v0 \in Digits
  BY DEF IInv, TypeOK
<1>3. /\ quotient' \in Digits /\ rhat' \in Digits
      /\ quotient' * v1 + rhat' = given
      /\ given * B + next < (quotient' + 1) * (v1 * B + v0)
  BY <1>1, <1>2, DividedEstimate
<1>4. TypeOK'
  BY <1>1, <1>3 DEF IInv, TypeOK
<1>5. Loaded'
  BY <1>1 DEF Loaded
<1>6. Unlowered' /\ Kept' /\ AtMostTwoCorrections' /\ DigitExact'
  BY <1>1 DEF Unlowered, Kept, AtMostTwoCorrections, DigitExact
<1>7. Balanced'
  BY <1>1, <1>2, <1>3 DEF Balanced, Lost
<1>8. EstimateNeverBelow'
  BY <1>1, <1>3 DEF EstimateNeverBelow, Dividend, Divisor
<1> QED
  BY <1>4, <1>5, <1>6, <1>7, <1>8 DEF IInv

LEMMA CorrectIInv ==
  ASSUME IInv, Correct PROVE IInv'
<1> USE RadixAssumption DEF Digits
<1>1. /\ pc = "correct" /\ pc' = "correct" /\ carry = FALSE
      /\ Callable(given, next, v1, v0)
      /\ quotient * v1 + rhat = given /\ corrections * v1 <= rhat
      /\ quotient * v0 > rhat * B + next
      /\ quotient' = quotient - 1 /\ rhat' = (rhat + v1) % B
      /\ carry' = (rhat' < rhat) /\ corrections' = corrections + 1
      /\ given' = given /\ next' = next /\ v1' = v1 /\ v0' = v0
      /\ remainder' = remainder /\ remainder = given
  BY DEF IInv, TypeOK, Loaded, Kept, Balanced, Lost, Correct, TooLarge, call
<1>2. /\ given \in Nat /\ next \in Digits /\ v1 \in Digits /\ v0 \in Digits
      /\ quotient \in Digits /\ rhat \in Digits /\ corrections \in Nat
  BY DEF IInv, TypeOK
<1>3. /\ quotient - 1 \in Digits
      /\ given * B + next < ((quotient - 1) + 1) * (v1 * B + v0)
  BY <1>1, <1>2, LoweredEstimate
<1>4. rhat' \in Digits /\ rhat' + (IF rhat' < rhat THEN B ELSE 0) = rhat + v1
  BY <1>1, <1>2
<1>5. TypeOK'
  BY <1>1, <1>2, <1>3, <1>4 DEF IInv, TypeOK
<1>6. Loaded'
  BY <1>1 DEF Loaded
<1>7. Unlowered' /\ Kept' /\ DigitExact'
  BY <1>1 DEF Unlowered, Kept, DigitExact
<1>8. Balanced'
  <2>1. (quotient - 1) * v1 = quotient * v1 - v1
        /\ (corrections + 1) * v1 = corrections * v1 + v1
    BY <1>2
  <2>2. Lost' = IF rhat' < rhat THEN B ELSE 0
    BY <1>1 DEF Lost
  <2>3. rhat' + Lost' = rhat + v1
    BY <2>2, <1>4
  <2>4. Lost' \in Int
    BY <2>2
  <2> DEFINE qv == quotient * v1
  <2> DEFINE cv == corrections * v1
  <2>5. /\ quotient' * v1' = qv - v1 /\ corrections' * v1' = cv + v1
        /\ qv \in Int /\ cv \in Int /\ qv + rhat = given /\ cv <= rhat
    BY <2>1, <1>1, <1>2
  <2> HIDE DEF qv, cv
  <2> QED
    BY <2>3, <2>4, <2>5, <1>1, <1>2, <1>4 DEF Balanced
<1>9. AtMostTwoCorrections'
  \* A third correction would need corrections * v1 >= 2 * v1 >= B > rhat.
  <2>1. 2 * v1 >= B
    BY <1>1 DEF Callable
  <2>2. corrections < 2
    <3> SUFFICES ASSUME corrections >= 2 PROVE FALSE
      BY <1>2
    <3>1. corrections * v1 >= 2 * v1
      BY <1>2
    <3> QED
      BY <3>1, <2>1, <1>1, <1>2
  <2> QED
    BY <2>2, <1>1, <1>2 DEF AtMostTwoCorrections
<1>10. EstimateNeverBelow'
  BY <1>1, <1>3 DEF EstimateNeverBelow, Dividend, Divisor
<1> QED
  BY <1>5, <1>6, <1>7, <1>8, <1>9, <1>10 DEF IInv

LEMMA FinishIInv ==
  ASSUME IInv, Finish PROVE IInv'
<1> USE RadixAssumption DEF Digits
<1> DEFINE x == (rhat * B + next - quotient * v0) % (B * B)
<1>1. /\ pc = "correct" /\ pc' = "done" /\ remainder' = x
      /\ Callable(given, next, v1, v0)
      /\ quotient * v1 + rhat + Lost = given
      /\ carry \/ quotient * v0 <= rhat * B + next
      /\ quotient' = quotient /\ rhat' = rhat /\ carry' = carry
      /\ corrections' = corrections
      /\ given' = given /\ next' = next /\ v1' = v1 /\ v0' = v0
  BY DEF IInv, TypeOK, Loaded, Balanced, Finish, TooLarge, call
<1>2. /\ given \in Nat /\ next \in Digits /\ v1 \in Digits /\ v0 \in Digits
      /\ quotient \in Digits /\ rhat \in Digits /\ carry \in BOOLEAN
      /\ given * B + next < (quotient + 1) * (v1 * B + v0)
  BY <1>1 DEF IInv, TypeOK, EstimateNeverBelow, Dividend, Divisor
<1>3. Lost \in {0, B} /\ (Lost = 0 => quotient * v0 <= rhat * B + next)
  BY <1>1, <1>2 DEF Lost
<1>4. /\ x \in 0 .. B * B - 1
      /\ given * B + next = quotient * (v1 * B + v0) + x
      /\ x < v1 * B + v0
  BY <1>1, <1>2, <1>3, FinalSubtraction
<1> HIDE DEF x
<1>5. TypeOK'
  BY <1>1, <1>4 DEF IInv, TypeOK
<1>6. Loaded' /\ Unlowered' /\ Kept' /\ AtMostTwoCorrections'
  BY <1>1 DEF IInv, Loaded, Unlowered, Kept, AtMostTwoCorrections
<1>7. Balanced' /\ EstimateNeverBelow'
  BY <1>1 DEF IInv, Balanced, Lost, EstimateNeverBelow, Dividend, Divisor
<1>8. DigitExact'
  BY <1>1, <1>4 DEF DigitExact, Dividend, Divisor
<1> QED
  BY <1>5, <1>6, <1>7, <1>8 DEF IInv

LEMMA ReturnIInv ==
  ASSUME IInv, Return PROVE IInv'
<1>1. Return => TypeOK'
  BY ZeroInRange DEF Return, TypeOK
<1>2. Return => Loaded' /\ Unlowered' /\ Kept' /\ Balanced'
        /\ EstimateNeverBelow' /\ AtMostTwoCorrections' /\ DigitExact'
  BY DEF Return, Loaded, Unlowered, Kept, Balanced, EstimateNeverBelow,
         AtMostTwoCorrections, DigitExact
<1> QED
  BY <1>1, <1>2 DEF IInv

LEMMA StutterIInv ==
  ASSUME IInv, UNCHANGED vars PROVE IInv'
  BY DEF vars, IInv, TypeOK, Loaded, Callable, Unlowered, Kept, Balanced, Lost,
         EstimateNeverBelow, AtMostTwoCorrections, DigitExact, Dividend, Divisor

LEMMA NextIInv == IInv /\ [Next]_vars => IInv'
  BY CallIInv, SaturatedIInv, DividedIInv, CorrectIInv, FinishIInv,
     ReturnIInv, StutterIInv DEF Next, Step

\* The inductive invariant holds in every reachable state.
THEOREM InductiveInvariant == Spec => []IInv
  BY InitIInv, NextIInv, PTL DEF Spec

-----------------------------------------------------------------------------
(* What a reader should know of *)

\* Type correctness: in particular the corrected digit never drops below zero
\* and rhat stays one limb.
THEOREM TypeCorrect == Spec => []TypeOK
<1>1. IInv => TypeOK
  BY DEF IInv
<1> QED
  BY InductiveInvariant, <1>1, PTL

\* divide_digit returns floor(dividend / divisor) and the exact remainder.
THEOREM DigitCorrect == Spec => []DigitExact
<1>1. IInv => DigitExact
  BY DEF IInv
<1> QED
  BY InductiveInvariant, <1>1, PTL

\* The correction loop of divide_digit runs at most twice.
THEOREM CorrectionBound == Spec => []AtMostTwoCorrections
<1>1. IInv => AtMostTwoCorrections
  BY DEF IInv
<1> QED
  BY InductiveInvariant, <1>1, PTL

\* The estimate of divide_digit is never below the digit, at no turn of its loop.
THEOREM NeverBelow == Spec => []EstimateNeverBelow
<1>1. IInv => EstimateNeverBelow
  BY DEF IInv
<1> QED
  BY InductiveInvariant, <1>1, PTL

\* Once rhat has lost a limb the product exceeds what is left of it, so the
\* closing subtraction borrows the limb back: rhat:next is short of the product
\* by a whole radix squared less the remainder, and that is below the divisor.
LEMMA LostLimbBorrows ==
  ASSUME NEW g \in Nat, NEW n \in Digits, NEW d1 \in Digits, NEW d0 \in Digits,
         NEW q \in Digits, NEW s \in Digits,
         q * d1 + s + B = g,
         g * B + n < (q + 1) * (d1 * B + d0)
  PROVE  q * d0 > s * B + n
<1> USE RadixAssumption DEF Digits
<1> DEFINE p0 == q * d0
<1> DEFINE v == d1 * B + d0
<1> DEFINE qv == q * v
<1> DEFINE bb == B * B
<1> DEFINE sb == s * B
<1> DEFINE gb == g * B
<1>1. p0 \in Int /\ v \in Int /\ qv \in Int /\ bb \in Int /\ sb \in Int /\ gb \in Int
  OBVIOUS
<1>2. gb + n < qv + v
  OBVIOUS
<1>3. qv = (q * d1) * B + p0
  OBVIOUS
<1>4. gb = (q * d1) * B + sb + bb
  OBVIOUS
<1>5. v < bb
  <2>1. d1 * B <= (B - 1) * B
    OBVIOUS
  <2> QED
    BY <2>1
<1> DEFINE qb == (q * d1) * B
<1>6. qb \in Int
  OBVIOUS
<1> HIDE DEF p0, v, qv, bb, sb, gb, qb
<1>7. p0 > sb + n
  BY <1>1, <1>2, <1>3, <1>4, <1>5, <1>6 DEF qb
<1> QED
  BY <1>7 DEF p0, sb

\* A carry is paid back by the borrow of the wrapped subtraction.
THEOREM CarryPaidBack == Spec => []CarryCancelsBorrow
<1>1. IInv => CarryCancelsBorrow
  <2> SUFFICES ASSUME IInv, pc = "correct", carry
               PROVE  quotient * v0 > rhat * B + next
    BY DEF CarryCancelsBorrow
  <2>1. quotient * v1 + rhat + B = given
    BY DEF IInv, Balanced, Lost
  <2>2. given * B + next < (quotient + 1) * (v1 * B + v0)
    BY DEF IInv, EstimateNeverBelow, Dividend, Divisor
  <2>3. /\ given \in Nat /\ next \in Digits /\ v1 \in Digits /\ v0 \in Digits
        /\ quotient \in Digits /\ rhat \in Digits
    BY DEF IInv, TypeOK
  <2> QED
    BY <2>1, <2>2, <2>3, LostLimbBorrows
<1> QED
  BY InductiveInvariant, <1>1, PTL
=============================================================================
