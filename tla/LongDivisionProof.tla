------------------------- MODULE LongDivisionProof -------------------------
(***************************************************************************)
(* Proofs about the long divisions of LongDivision for every size of a    *)
(* limb: divide_narrow calls divide_digit legally, loses nothing between   *)
(* its digits and answers exactly; the portable divide128 is wrong only as *)
(* WrongOnlyWhenSaturated says; divmod, for any number of limbs, conserves *)
(* the numerator through every digit, its estimate is at most one too      *)
(* large, one add-back repairs that, and its answers are exact.            *)
(***************************************************************************)
EXTENDS LongDivision, IntegerLemmas

\* One quotient digit, in the radix of divide_narrow's limbs.
DP == INSTANCE DivideDigitProof WITH B <- N!B
\* The arithmetic of an estimate, in the radix of the portable division.
DQ == INSTANCE DivideDigitProof WITH B <- P!B

-----------------------------------------------------------------------------
(* Arithmetic of a normalised division; v = den * p is the divisor's shift *)

\* The shifted divisor keeps two limbs, and its leading bit is set.
LEMMA DivisorNormalised ==
  ASSUME NEW b, NEW p, LimbAndShift(b, p), NEW d \in Nat, b <= d, d < b * b,
         b <= 2 * (d \div b) * p, (d \div b) * p < b
  PROVE  /\ d * p \in Nat /\ d * p > 0 /\ d * p < b * b
         /\ (d * p) \div b \in 0 .. b - 1 /\ (d * p) % b \in 0 .. b - 1
         /\ 2 * ((d * p) \div b) >= b
         /\ d * p = ((d * p) \div b) * b + ((d * p) % b)
<1> DEFINE x == d \div b
           y == d % b
           v == d * p
           xp == x * p
<1>1. PICK c \in Nat : c > 1 /\ b = p * c
  BY DEF LimbAndShift
<1>2. b \in Nat /\ b > 1 /\ p \in Nat /\ p > 0
  BY DEF LimbAndShift
<1>3. x \in Int /\ y \in Int /\ d = x * b + y /\ 0 <= y /\ y < b
  BY <1>2, DivMod
<1>4. 0 <= x
  BY <1>2, FloorAtLeast, 0 * b = 0
<1>5. b <= 2 * x * p /\ x * p < b
  OBVIOUS
<1> HIDE DEF x, y
<1>6. xp \in Int /\ b <= 2 * xp /\ xp < b /\ v \in Nat /\ v > 0 /\ v = xp * b + y * p
  BY <1>2, <1>3, <1>5, PositiveProduct
<1>7. x < c
  <2>1. x * p < c * p
    BY <1>1, <1>2, <1>5
  <2> QED
    BY <2>1, <1>1, <1>2, <1>3, CancelFactor
<1>8. v < b * b
  <2>1. x * p + p <= c * p
    BY <1>7, <1>1, <1>2, <1>3, MultipleOrder
  <2>2. xp + p <= b
    BY <2>1, <1>1, <1>2
  <2>3. y * p < b * p /\ y * p \in Int /\ b * p \in Int
    BY <1>2, <1>3
  <2>4. (xp + p) * b <= b * b /\ (xp + p) * b = xp * b + b * p
    BY <2>2, <1>2, <1>6
  <2> HIDE DEF xp, v
  <2> QED
    BY <2>3, <2>4, <1>2, <1>6
<1>9. y * p >= 0 /\ y * p \in Int
  BY <1>2, <1>3
<1>10. xp <= v \div b
  <2>1. xp * b <= v
    BY <1>6, <1>9, <1>2
  <2> HIDE DEF xp, v
  <2> QED
    BY <2>1, <1>2, <1>6, FloorAtLeast
<1> HIDE DEF xp, v
<1>11. v \div b \in Int /\ 0 <= v \div b /\ v \div b < b
  BY <1>2, <1>6, <1>8, QuotientBelow
<1>12. v % b \in Int /\ 0 <= v % b /\ v % b < b /\ v = (v \div b) * b + (v % b)
  <2>1. v \in Int /\ b \in Int /\ b > 0
    BY <1>2, <1>6
  <2> DEFINE e == v \div b
             r == v % b
  <2>2. e \in Int /\ r \in Int /\ v = e * b + r /\ 0 <= r /\ r < b
    BY <2>1, DivMod
  <2> QED
    BY <2>2
<1>13. 2 * (v \div b) >= b
  BY <1>10, <1>11, <1>6, <1>2
<1> QED
  BY <1>2, <1>6, <1>8, <1>11, <1>12, <1>13 DEF v

\* Shifted, a numerator whose high half is below the divisor splits into a
\* remainder below the shifted divisor and a low half.
LEMMA NumeratorNormalised ==
  ASSUME NEW m \in Nat, m > 0, NEW p \in Nat, p > 0, NEW d \in Nat, NEW n \in Nat,
         n \div m < d, d * p < m
  PROVE  LET lo == ((n % m) * p) % m
             top == (((n \div m) * p) % m) + ((n % m) * p) \div m
         IN  /\ lo \in 0 .. m - 1
             /\ top \in Nat /\ top < d * p
             /\ n * p = top * m + lo
<1> DEFINE h == n \div m
           l == n % m
           lp == l * p
           hp == h * p
           c == lp \div m
           lo == lp % m
<1>1. h \in Int /\ l \in Int /\ n = h * m + l /\ 0 <= l /\ l < m
  BY DivMod
<1>2. h >= 0 /\ h < d
  BY FloorAtLeast, 0 * m = 0
<1> HIDE DEF h, l
<1>3. lp \in Int /\ 0 <= lp /\ lp < p * m /\ hp \in Int /\ 0 <= hp
  BY <1>1, <1>2
<1>4. hp + p <= d * p /\ d * p \in Int
  BY <1>1, <1>2, MultipleOrder
<1>5. n * p = hp * m + lp
  BY <1>1
<1> HIDE DEF lp, hp
<1>6. c \in Int /\ 0 <= c /\ c < p
  BY <1>3, QuotientBelow
<1>7. lo \in Int /\ 0 <= lo /\ lo < m /\ lp = c * m + lo
  BY <1>3, DivMod
<1> HIDE DEF c, lo
<1>8. hp % m = hp
  <2>1. hp < m /\ hp = 0 * m + hp
    BY <1>3, <1>4
  <2> QED
    BY <2>1, <1>3, DivUnique
<1>9. n * p = (hp + c) * m + lo
  BY <1>3, <1>5, <1>6, <1>7
<1>10. hp + c \in Nat /\ hp + c < d * p
  BY <1>3, <1>4, <1>6
<1> QED
  BY <1>7, <1>8, <1>9, <1>10 DEF lo, c, lp, hp, h, l

\* When the three leading limbs are below the divisor the first digit is zero:
\* the next limb joins the remainder at once.
LEMMA FirstDigitZero ==
  ASSUME NEW b \in Nat, b > 1, NEW v \in Nat, v < b * b, NEW p \in Nat, p > 0,
         NEW d \in Nat, v = d * p, NEW n \in Nat, n \div b < d,
         NEW top \in Nat, NEW lo \in 0 .. b * b - 1, n * p = top * (b * b) + lo
  PROVE  LET r == (top * b + lo \div b) % (b * b)
         IN  /\ r \in Nat /\ r < v
             /\ n * p = r * b + (lo % b)
<1> DEFINE bb == b * b
           h == lo \div b
           l == lo % b
           r == top * b + h
           e == n * p
           k == n \div b
<1>1. h \in Int /\ l \in Int /\ lo = h * b + l /\ 0 <= l /\ l < b
  BY DivMod
<1>2. 0 <= h
  BY FloorAtLeast, 0 * b = 0
<1>3. e \in Nat /\ bb \in Nat /\ top * b \in Nat
  OBVIOUS
<1> HIDE DEF h, l
<1>4. e = r * b + l /\ r \in Nat
  BY <1>1, <1>2
<1>5. e < v * b
  <2> DEFINE y == n % b
  <2>1. k \in Int /\ y \in Int /\ n = k * b + y /\ y < b
    BY DivMod
  <2>0. k < d
    OBVIOUS
  <2> HIDE DEF k, y
  <2>2. n < (k + 1) * b
    BY <2>1
  <2>3. (k + 1) * b <= d * b
    BY <2>1, <2>0
  <2>4. n < d * b /\ d * b \in Int
    BY <2>1, <2>2, <2>3
  <2>5. n * p < (d * b) * p
    BY <2>4
  <2>6. (d * b) * p = v * b
    OBVIOUS
  <2> QED
    BY <2>5, <2>6
<1> HIDE DEF e, r, bb
<1>6. r < v
  <2>1. r * b < v * b
    BY <1>1, <1>4, <1>5
  <2> QED
    BY <2>1, <1>4, CancelFactor
<1>7. r % bb = r
  <2>1. r = 0 * bb + r /\ bb > 0 /\ r < bb
    BY <1>3, <1>4, <1>6 DEF bb
  <2> QED
    BY <2>1, <1>3, <1>4, DivUnique
<1> QED
  BY <1>4, <1>6, <1>7 DEF e, r, bb, h, l

\* The first digit and its remainder replace the numerator's leading limbs.
LEMMA FirstDigitTaken ==
  ASSUME NEW b \in Nat, b > 1, NEW v \in Nat, NEW e \in Int, NEW top \in Nat,
         NEW lo \in 0 .. b * b - 1, e = top * (b * b) + lo,
         NEW q1 \in Nat, NEW r \in Nat, top * b + lo \div b = q1 * v + r
  PROVE  e = q1 * b * v + r * b + (lo % b)
<1> DEFINE h == lo \div b
           l == lo % b
<1>1. h \in Int /\ l \in Int /\ lo = h * b + l
  BY DivMod
<1>2. top * b + h = q1 * v + r
  OBVIOUS
<1> HIDE DEF h, l
<1>3. e = (top * b + h) * b + l
  BY <1>1
<1>4. e = (q1 * v + r) * b + l
  BY <1>2, <1>3
<1> QED
  BY <1>1, <1>4 DEF l

\* Both digits taken, the quotient and the remainder shifted back are exact.
LEMMA DigitsTaken ==
  ASSUME NEW b \in Nat, NEW p \in Nat, p > 0, NEW d \in Nat, d > 0, NEW n \in Nat,
         NEW q1 \in Nat, NEW q0 \in Nat, NEW r \in Nat, r < d * p,
         NEW s \in Nat, NEW l \in Nat,
         n * p = q1 * b * (d * p) + s * b + l, s * b + l = q0 * (d * p) + r
  PROVE  n \div d = q1 * b + q0 /\ n % d = r \div p
<1> DEFINE k == q1 * b + q0
           t == n - k * d
<1>1. k \in Nat /\ t \in Int /\ n = k * d + t
  OBVIOUS
<1>2. q1 * b * (d * p) + q0 * (d * p) = k * (d * p)
  OBVIOUS
<1>3. n * p = k * (d * p) + r
  <2> DEFINE x == q1 * b * (d * p)
             y == q0 * (d * p)
             z == s * b
  <2>1. x \in Int /\ y \in Int /\ z \in Int /\ n * p = x + z + l /\ z + l = y + r
    OBVIOUS
  <2> HIDE DEF x, y, z, k
  <2>2. n * p = x + y + r
    BY <2>1
  <2> QED
    BY <2>2, <1>2 DEF x, y
<1>4. k * (d * p) = (k * d) * p
  BY <1>1
<1>5. r = t * p
  BY <1>1, <1>3, <1>4
<1> HIDE DEF k, t
<1>6. 0 <= t
  <2> SUFFICES ASSUME t < 0 PROVE FALSE
    BY <1>1
  <2>1. t * p + p <= 0 * p
    BY <1>1, MultipleOrder
  <2> QED
    BY <2>1, <1>1, <1>5
<1>7. t < d
  BY <1>1, <1>5, CancelFactor
<1>8. n \div d = k /\ n % d = t
  BY <1>1, <1>6, <1>7, DivUnique
<1>9. r \div p = t
  <2>1. r = t * p + 0
    BY <1>1, <1>5
  <2> QED
    BY <2>1, <1>1, DivUnique
<1> QED
  BY <1>8, <1>9 DEF k

\* The quotient of four limbs by two fits two limbs iff the high half is below
\* the divisor.
LEMMA HighHalfDecides ==
  ASSUME NEW m \in Nat, m > 0, NEW n \in Nat, NEW d \in Nat, d > 0
  PROVE  (n \div d < m) <=> (n \div m < d)
<1> DEFINE h == n \div m
           l == n % m
<1>1. h \in Int /\ l \in Int /\ n = h * m + l /\ 0 <= l /\ l < m
  BY DivMod
<1> HIDE DEF h, l
<1>2. h * m \in Int /\ d * m \in Int /\ d * m = m * d
  BY <1>1
<1>3. ASSUME h < d PROVE n \div d < m
  <2>1. h * m + m <= d * m
    BY <1>1, <1>3, MultipleOrder
  <2>2. n < m * d
    BY <2>1, <1>1, <1>2
  <2> QED
    BY <2>2, QuotientBelow
<1>4. ASSUME ~(h < d) PROVE ~(n \div d < m)
  <2>1. d * m <= h * m
    BY <1>1, <1>4
  <2>2. m * d <= n
    BY <2>1, <1>1, <1>2
  <2>3. m <= n \div d
    BY <2>2, FloorAtLeast
  <2>4. n \div d \in Int
    BY DivMod
  <2> QED
    BY <2>3, <2>4
<1> QED
  BY <1>3, <1>4 DEF h

\* Dividing limb by limb, the remainder of the first leading the second.
LEMMA LimbByLimb ==
  ASSUME NEW b \in Nat, b > 0, NEW n \in Nat, NEW d \in Nat, d > 0,
         NEW t \in Int, NEW l \in Int, n = t * b + l, 0 <= l, l < b,
         NEW rest \in Int, rest = (t % d) * b + l
  PROVE  n \div d = (t \div d) * b + rest \div d /\ n % d = rest % d
<1> DEFINE q1 == t \div d
           r1 == t % d
           q0 == rest \div d
           r0 == rest % d
<1>1. q1 \in Int /\ r1 \in Int /\ t = q1 * d + r1
  BY DivMod
<1>2. q0 \in Int /\ r0 \in Int /\ rest = q0 * d + r0 /\ 0 <= r0 /\ r0 < d
  BY DivMod
<1>3. rest = r1 * b + l
  OBVIOUS
<1> HIDE DEF q1, r1, q0, r0
<1>4. n = (q1 * d + r1) * b + l
  BY <1>1
<1>5. n = (q1 * d) * b + rest
  BY <1>1, <1>3, <1>4
<1>6. n = (q1 * b + q0) * d + r0 /\ q1 * b + q0 \in Int
  BY <1>1, <1>2, <1>5
<1>7. n \div d = q1 * b + q0 /\ n % d = r0
  BY <1>2, <1>6, DivUnique
<1> QED
  BY <1>7 DEF q1, q0, r0

\* The limbs of a half belong to the whole.
LEMMA HalfAppended ==
  ASSUME NEW b \in Nat, b > 0, NEW n \in Nat
  PROVE  LET h == n \div (b * b)
             l == n % (b * b)
         IN  h * b + (l \div b) = n \div b /\ l % b = n % b
<1> DEFINE bb == b * b
           h == n \div bb
           l == n % bb
           t == l \div b
           z == l % b
<1>0. bb \in Nat /\ bb > 0
  BY PositiveProduct
<1>1. h \in Int /\ l \in Int /\ n = h * bb + l
  <2> HIDE DEF bb
  <2> QED
    BY <1>0, DivMod
<1> HIDE DEF h, l
<1>2. t \in Int /\ z \in Int /\ l = t * b + z /\ 0 <= z /\ z < b
  BY <1>1, DivMod
<1> HIDE DEF t, z
<1> DEFINE k == h * b + t
<1>3. n = k * b + z /\ k \in Int
  BY <1>1, <1>2
<1> HIDE DEF k
<1>4. n \div b = k /\ n % b = z
  BY <1>2, <1>3, DivUnique
<1> QED
  BY <1>4 DEF k, h, l, t, z

-----------------------------------------------------------------------------
(* divide_narrow: the inductive invariant                                  *)

Shifted == den * 2 ^ shift        \* the normalised divisor

NTyped ==
  /\ stage \in {"idle", "divide", "high", "low", "answered"}
  /\ num \in 0 .. N!Wide * N!Wide - 1 /\ den \in 0 .. N!Wide - 1
  /\ qhigh \in N!D!Digits
  /\ stage \in {"idle", "divide", "high"} => qhigh = 0

\* Between calls the digit machine rests.
NResting == stage \notin {"high", "low"} => pc = "idle"

\* The divisor is normalised, its shift can be undone, the remainder is below.
NNormalised ==
  stage \in {"high", "low"} =>
    /\ N!Hi < den /\ den >= N!B
    /\ shift \in 0 .. W - 1
    /\ Shifted < N!Wide /\ 2 * (Shifted \div N!B) >= N!B
    /\ rem \in Nat /\ rem < Shifted /\ low \in 0 .. N!Wide - 1

\* Nothing of the shifted numerator is lost.
NConserved ==
  /\ stage = "high" => num * 2 ^ shift = rem * N!Wide + low
  /\ stage = "low" => num * 2 ^ shift = qhigh * N!B * Shifted + rem * N!B + (low % N!B)

\* The digit machine works on this call's remainder, limb and divisor.
NDigitCalled ==
  pc # "idle" =>
    /\ given = rem /\ next = N!NextLimb
    /\ v1 = Shifted \div N!B /\ v0 = Shifted % N!B

NAnswered ==
  /\ stage = "idle" => answer = N!WD!NoCall
  /\ stage \in {"divide", "high", "low"} => answer = N!WD!Pending
  /\ stage = "answered" => answer = N!WD!RightAnswer(num, den)

NarrowInv ==
  /\ NTyped /\ NResting /\ NNormalised /\ NConserved /\ NDigitCalled /\ NAnswered
  /\ DP!IInv

LEMMA NarrowLimb ==
  /\ N!B \in Nat /\ N!B > 1 /\ N!Wide = N!B * N!B /\ N!Wide \in Nat /\ N!Wide > 0
  /\ \A s \in 0 .. W - 1 : LimbAndShift(N!B, 2 ^ s)
  /\ \A x \in 1 .. N!B - 1 : ShiftsUp(N!B, W, x, N!CountlZero(x))
<1>1. W \in Nat /\ W > 0 /\ PowerLaws(2, W)
  BY WidthAssumption, PowersAssumption DEF PowerLaws
<1>2. \A s \in 0 .. W - 1 : LimbAndShift(N!B, 2 ^ s)
  BY <1>1, LimbPowers DEF N!B
<1>3. N!B \in Nat /\ N!B > 1
  <2>1. 0 \in 0 .. W - 1
    BY <1>1
  <2> QED
    BY <2>1, <1>2 DEF LimbAndShift
<1>4. ASSUME NEW x \in 1 .. N!B - 1 PROVE ShiftsUp(N!B, W, x, N!CountlZero(x))
  <2>1. \E s \in 0 .. W - 1 : N!B <= 2 * x * 2 ^ s /\ x * 2 ^ s < N!B
    BY <1>1, ShiftFound DEF ShiftsUp, N!B
  <2> QED
    BY <2>1 DEF ShiftsUp, N!CountlZero
<1>5. N!Wide = N!B * N!B
  BY DEF N!Wide
<1> QED
  BY <1>2, <1>3, <1>4, <1>5, PositiveProduct

LEMMA DigitRadix == DP!RadixAssumption
  BY NarrowLimb DEF DP!RadixAssumption

\* divide_digit's steps are those DivideDigitProof speaks of.
LEMMA StepOfDigit == N!D!Step => DP!Step
  BY DEF N!D!Step, DP!Step, N!D!EstimateSaturated, DP!EstimateSaturated,
         N!D!EstimateDivided, DP!EstimateDivided, N!D!Correct, DP!Correct,
         N!D!Finish, DP!Finish, N!D!High, DP!High, N!D!Low, DP!Low,
         N!D!TooLarge, DP!TooLarge, N!D!call, DP!call

LEMMA DigitStepIInv ==
  ASSUME DP!IInv, N!D!Step PROVE DP!IInv'
BY DigitRadix, StepOfDigit, DP!SaturatedIInv, DP!DividedIInv, DP!CorrectIInv,
   DP!FinishIInv DEF DP!Step

LEMMA DigitReturnIInv ==
  ASSUME DP!IInv, N!D!Return PROVE DP!IInv'
BY DigitRadix, DP!ReturnIInv DEF DP!Return, N!D!Return

LEMMA DigitRestsIInv ==
  ASSUME DP!IInv, UNCHANGED N!digitVars PROVE DP!IInv'
<1>1. UNCHANGED DP!vars
  BY DEF N!digitVars, DP!vars
<1> QED
  BY <1>1, DigitRadix, DP!StutterIInv

LEMMA DigitCallIInv ==
  ASSUME DP!IInv, NEW r \in 0 .. N!B * N!B - 1, NEW n \in N!D!Digits,
         NEW d1 \in N!D!Digits, NEW d0 \in N!D!Digits, N!D!Call(r, n, d1, d0)
  PROVE  DP!IInv'
<1>1. DP!Call(r, n, d1, d0) /\ pc = "idle"
  BY DEF N!D!Call, DP!Call, N!D!Callable, DP!Callable, N!D!Digits, DP!Digits
<1>2. DP!AnyCall
  BY <1>1 DEF DP!AnyCall, DP!Digits, N!D!Digits
<1> QED
  BY <1>2, DigitRadix, DP!CallIInv

\* A finished digit is exact.
LEMMA DigitDone ==
  ASSUME DP!IInv, pc = "done"
  PROVE  /\ quotient \in N!D!Digits /\ remainder \in Nat
         /\ given * N!B + next = quotient * (v1 * N!B + v0) + remainder
         /\ remainder < v1 * N!B + v0
<1>1. N!B * N!B \in Nat
  BY NarrowLimb
<1> QED
  BY <1>1 DEF DP!IInv, DP!TypeOK, DP!DigitExact, DP!Dividend, DP!Divisor, DP!Digits, N!D!Digits

-----------------------------------------------------------------------------
(* divide_narrow: one lemma per action                                     *)

\* The exact quotient that fits two limbs is the right answer.
LEMMA NarrowRight ==
  ASSUME NTyped, den # 0, N!Hi < den
  PROVE  N!WD!RightAnswer(num, den) = N!WD!Answer("quotient", num \div den, num % den)
<1>1. num \in Nat /\ den \in Nat /\ den > 0 /\ N!Wide \in Nat /\ N!Wide > 0
  BY NarrowLimb DEF NTyped
<1>2. num \div den < N!Wide
  BY <1>1, HighHalfDecides DEF N!Hi
<1>3. num \div den \in Int
  BY <1>1, DivMod
<1> QED
  BY <1>1, <1>2, <1>3 DEF N!WD!RightAnswer

LEMMA NarrowInit == ASSUME N!Init PROVE NarrowInv
<1>1. DP!IInv
  <2>1. DP!Init
    BY DEF N!Init, N!D!Init, DP!Init
  <2> QED
    BY <2>1, DigitRadix, DP!InitIInv
<1>2. 0 \in 0 .. N!Wide - 1 /\ 0 \in 0 .. N!Wide * N!Wide - 1 /\ 0 \in N!D!Digits
  BY NarrowLimb, PositiveProduct DEF N!D!Digits
<1>3. NTyped /\ NResting /\ NNormalised /\ NConserved /\ NDigitCalled /\ NAnswered
  BY <1>2 DEF N!Init, N!D!Init, NTyped, NResting, NNormalised, NConserved, NDigitCalled,
              NAnswered
<1> QED
  BY <1>1, <1>3 DEF NarrowInv

\* Steps that leave the digit machine at rest and do not enter the digits.
LEMMA NarrowCall == ASSUME NarrowInv, N!Call PROVE NarrowInv'
<1>1. DP!IInv'
  BY DigitRestsIInv DEF NarrowInv, N!Call
<1>2. NTyped' /\ NAnswered'
  BY DEF NarrowInv, NTyped, NAnswered, N!Call
<1>3. NResting' /\ NNormalised' /\ NConserved' /\ NDigitCalled'
  BY DEF NarrowInv, NResting, NNormalised, NConserved, NDigitCalled, N!Call, N!digitVars
<1> QED
  BY <1>1, <1>2, <1>3 DEF NarrowInv

LEMMA NarrowReply ==
  ASSUME NarrowInv, stage = "divide", N!Reply(N!WD!RightAnswer(num, den)) PROVE NarrowInv'
<1>1. DP!IInv'
  BY DigitRestsIInv DEF NarrowInv, N!Reply
<1>2. NTyped'
  BY DEF NarrowInv, NTyped, N!Reply
<1>3. NResting' /\ NNormalised' /\ NConserved' /\ NDigitCalled'
  BY DEF NarrowInv, NResting, NNormalised, NConserved, NDigitCalled, N!Reply, N!digitVars
<1>4. NAnswered'
  BY DEF NAnswered, N!Reply, N!WD!RightAnswer
<1> QED
  BY <1>1, <1>2, <1>3, <1>4 DEF NarrowInv

LEMMA NarrowRejectZero == ASSUME NarrowInv, N!RejectZero PROVE NarrowInv'
<1>1. N!WD!RightAnswer(num, den) = N!WD!Answer("division_by_zero", 0, 0)
  BY DEF N!RejectZero, N!WD!RightAnswer
<1> QED
  BY <1>1, NarrowReply DEF N!RejectZero

LEMMA NarrowRejectWide == ASSUME NarrowInv, N!RejectWide PROVE NarrowInv'
<1>1. num \in Nat /\ den \in Nat /\ den > 0 /\ N!Wide \in Nat /\ N!Wide > 0 /\ N!Hi >= den
  BY NarrowLimb DEF NarrowInv, NTyped, N!RejectWide
<1>2. N!Hi \in Int /\ num \div den \in Int
  BY <1>1, DivMod DEF N!Hi
<1>3. num \div den >= N!Wide
  BY <1>1, <1>2, HighHalfDecides DEF N!Hi
<1>4. N!WD!RightAnswer(num, den) = N!WD!Answer("overflow", 0, 0)
  BY <1>1, <1>3 DEF N!WD!RightAnswer
<1> QED
  BY <1>4, NarrowReply DEF N!RejectWide

LEMMA NarrowDivideLow == ASSUME NarrowInv, N!DivideLow PROVE NarrowInv'
<1>1. num \in Nat /\ den \in Nat /\ den # 0 /\ N!Wide \in Nat /\ N!Wide > 0
      /\ N!Hi = 0 /\ N!Hi < den
  BY NarrowLimb DEF NarrowInv, NTyped, N!DivideLow
<1>2. num = N!Hi * N!Wide + N!Lo /\ N!Lo \in Int
  BY <1>1, DivMod DEF N!Hi, N!Lo
<1>3. N!Lo = num
  BY <1>1, <1>2
<1>4. N!WD!RightAnswer(num, den) = N!WD!Answer("quotient", num \div den, num % den)
  BY <1>1, NarrowRight DEF NarrowInv
<1> QED
  BY <1>3, <1>4, NarrowReply DEF N!DivideLow

LEMMA NarrowDivideByLimb == ASSUME NarrowInv, N!DivideByLimb PROVE NarrowInv'
<1>1. num \in Nat /\ den \in Nat /\ den # 0 /\ den > 0 /\ N!B \in Nat /\ N!B > 0
      /\ N!Hi < den /\ N!Wide = N!B * N!B
  <2>1. num \in Nat /\ den \in Nat /\ N!Wide \in Nat /\ N!Wide > 0
    BY NarrowLimb DEF NarrowInv, NTyped
  <2>2. N!Hi >= 0
    BY <2>1, FloorAtLeast, 0 * N!Wide = 0 DEF N!Hi
  <2>3. N!Hi \in Int
    BY <2>1, DivMod DEF N!Hi
  <2> QED
    BY <2>1, <2>2, <2>3, NarrowLimb DEF N!DivideByLimb
<1> DEFINE t == num \div N!B
           l == num % N!B
           rest == (t % den) * N!B + l
<1>2. N!Hi * N!B + (N!Lo \div N!B) = t /\ N!Lo % N!B = l
  BY <1>1, HalfAppended DEF N!Hi, N!Lo
<1>3. t \in Int /\ l \in Int /\ num = t * N!B + l /\ 0 <= l /\ l < N!B
  BY <1>1, DivMod
<1>4. t % den \in Int /\ rest \in Int
  BY <1>1, <1>3, DivMod
<1>5. num \div den = (t \div den) * N!B + (rest \div den) /\ num % den = rest % den
  <2> HIDE DEF t, l
  <2> QED
    BY <1>1, <1>3, <1>4, LimbByLimb
<1>6. N!WD!RightAnswer(num, den) = N!WD!Answer("quotient", num \div den, num % den)
  BY <1>1, NarrowRight DEF NarrowInv
<1>7. N!Reply(N!WD!Answer("quotient", (t \div den) * N!B + (rest \div den), rest % den))
      /\ stage = "divide"
  <2> HIDE DEF t, l
  <2> QED
    BY <1>2 DEF N!DivideByLimb
<1> QED
  BY <1>5, <1>6, <1>7, NarrowReply

\* Normalising: the shift sets the divisor's top bit, and the numerator's
\* leading limbs become a remainder below it.
LEMMA NarrowNormalise == ASSUME NarrowInv, N!Normalise PROVE NarrowInv'
<1> DEFINE b == N!B
           m == N!Wide
           p == 2 ^ shift'
           x == den \div b
           lo == (N!Lo * p) % m
           top == ((N!Hi * p) % m) + (N!Lo * p) \div m
           v == den * p
<1>1. /\ b \in Nat /\ b > 1 /\ b > 0 /\ m = b * b /\ m \in Nat /\ m > 0
      /\ num \in Nat /\ den \in Nat /\ den < b * b /\ b <= den
      /\ num \div m < den
  BY NarrowLimb DEF NarrowInv, NTyped, N!Normalise, N!Hi
<1>2. /\ shift' = N!CountlZero(x) /\ low' = lo
      /\ rem' = IF N!FitsOneLimb THEN (top * b + low' \div b) % m ELSE top
      /\ stage' = IF N!FitsOneLimb THEN "low" ELSE "high"
      /\ stage = "divide"
      /\ num' = num /\ den' = den /\ qhigh' = qhigh /\ answer' = answer
      /\ UNCHANGED N!digitVars
  BY DEF N!Normalise
<1>3. x \in 1 .. b - 1
  <2>1. x \in Int /\ x < b
    BY <1>1, QuotientBelow
  <2> DEFINE one == 1
  <2>2. one * b <= den /\ one \in Int
    BY <1>1
  <2> HIDE DEF one, b
  <2>3. one <= x
    BY <1>1, <2>2, FloorAtLeast
  <2> QED
    BY <2>1, <2>3, <1>1 DEF one
<1>4. ShiftsUp(b, W, x, shift')
  BY <1>2, <1>3, NarrowLimb
<1>5. shift' \in 0 .. W - 1 /\ b <= 2 * x * p /\ x * p < b
  BY <1>4 DEF ShiftsUp
<1>6. LimbAndShift(b, p) /\ p \in Nat /\ p > 0
  BY <1>5, NarrowLimb DEF LimbAndShift
<1>7. v \in Nat /\ v > 0 /\ v < b * b /\ 2 * (v \div b) >= b
  <2> HIDE DEF p, b
  <2> QED
    BY <1>1, <1>5, <1>6, DivisorNormalised DEF x
<1>8. lo \in 0 .. m - 1 /\ top \in Nat /\ top < v /\ num * p = top * m + lo
  <2> HIDE DEF p, b, m
  <2>1. den * p < m
    BY <1>1, <1>7
  <2> QED
    BY <2>1, <1>1, <1>6, NumeratorNormalised DEF N!Hi, N!Lo, m
<1> HIDE DEF lo, top
<1>9. DP!IInv'
  BY <1>2, DigitRestsIInv DEF NarrowInv
<1>10. pc = "idle" /\ pc' = "idle" /\ qhigh = 0 /\ answer = N!WD!Pending
  BY <1>2 DEF NarrowInv, NResting, NTyped, NAnswered, N!digitVars
<1>11. NTyped' /\ NResting' /\ NDigitCalled' /\ NAnswered'
  BY <1>2, <1>10 DEF NarrowInv, NTyped, NResting, NDigitCalled, NAnswered
<1>12. CASE ~N!FitsOneLimb
  <2>1. rem' = top /\ stage' = "high"
    BY <1>2, <1>12
  <2>2. NNormalised'
    BY <2>1, <1>1, <1>2, <1>5, <1>7, <1>8 DEF NNormalised, Shifted, N!Hi
  <2>3. NConserved'
    BY <2>1, <1>2, <1>8 DEF NConserved
  <2> QED
    BY <2>2, <2>3, <1>9, <1>11 DEF NarrowInv
<1>13. CASE N!FitsOneLimb
  <2>1. rem' = (top * b + (lo \div b)) % m /\ stage' = "low"
    BY <1>2, <1>13
  <2>2. num \div b < den
    BY <1>13 DEF N!FitsOneLimb
  <2>3. rem' \in Nat /\ rem' < v /\ num * p = rem' * b + (lo % b)
    <3>1. lo \in 0 .. b * b - 1 /\ num * p = top * (b * b) + lo
      BY <1>1, <1>8
    <3>2. rem' = (top * b + (lo \div b)) % (b * b)
      BY <2>1, <1>1
    <3> HIDE DEF p, b, m, v
    <3> QED
      BY <3>1, <3>2, <2>2, <1>1, <1>6, <1>7, <1>8, FirstDigitZero DEF v
  <2>4. NNormalised'
    BY <2>1, <2>3, <1>1, <1>2, <1>5, <1>7, <1>8 DEF NNormalised, Shifted, N!Hi
  <2>5. NConserved'
    <3>1. qhigh' * b * v = 0
      BY <1>2, <1>10, <1>1, <1>7
    <3>2. num * p = 0 + rem' * b + (lo % b)
      <4> DEFINE y == rem' * b
                 l == lo % b
      <4>1. y \in Int
        BY <2>3, <1>1
      <4>2. num * p = y + l
        BY <2>3
      <4> HIDE DEF y, l
      <4> QED
        BY <4>1, <4>2, 0 + y = y DEF y, l
    <3> QED
      BY <3>1, <3>2, <2>1, <1>2 DEF NConserved, Shifted
  <2> QED
    BY <2>4, <2>5, <1>9, <1>11 DEF NarrowInv
<1> QED
  BY <1>12, <1>13

\* What divide_digit requires of its caller holds when it is called.
LEMMA DigitLegal ==
  ASSUME NarrowInv, stage \in {"high", "low"}
  PROVE  /\ N!D!Callable(rem, N!NextLimb, Shifted \div N!B, Shifted % N!B)
         /\ rem \in 0 .. N!B * N!B - 1
         /\ Shifted \in Nat /\ Shifted = (Shifted \div N!B) * N!B + (Shifted % N!B)
<1> DEFINE b == N!B
           v == Shifted
           d1 == v \div b
           d0 == v % b
           h == low \div b
           l == low % b
<1>1. /\ b \in Nat /\ b > 1 /\ b > 0 /\ v < b * b /\ 2 * d1 >= b
      /\ rem \in Nat /\ rem < v /\ low \in 0 .. b * b - 1 /\ shift \in 0 .. W - 1
      /\ den \in Nat
  BY NarrowLimb DEF NarrowInv, NNormalised, NTyped
<1>2. v \in Nat
  <2>1. 2 ^ shift \in Nat
    BY <1>1, NarrowLimb DEF LimbAndShift
  <2> QED
    BY <2>1, <1>1 DEF Shifted
<1> HIDE DEF v
<1>3. d1 \in Int /\ d0 \in Int /\ v = d1 * b + d0 /\ 0 <= d0 /\ d0 < b
  BY <1>1, <1>2, DivMod
<1>4. 0 <= d1 /\ d1 < b
  BY <1>1, <1>2, QuotientBelow
<1>5. h \in Int /\ l \in Int /\ 0 <= l /\ l < b
  BY <1>1, DivMod
<1>6. 0 <= h /\ h < b
  BY <1>1, QuotientBelow
<1>7. N!NextLimb \in 0 .. b - 1
  BY <1>1, <1>5, <1>6 DEF N!NextLimb
<1> HIDE DEF d1, d0, b
<1>8. rem \in 0 .. b * b - 1
  BY <1>1, <1>2
<1>9. N!D!Callable(rem, N!NextLimb, d1, d0)
  BY <1>1, <1>2, <1>3, <1>4, <1>7 DEF N!D!Callable, N!D!Digits, b
<1> QED
  BY <1>2, <1>3, <1>8, <1>9 DEF d1, d0, b, v

LEMMA NarrowDigitCall == ASSUME NarrowInv, N!DigitCall PROVE NarrowInv'
<1>1. /\ stage \in {"high", "low"}
      /\ N!D!Call(rem, N!NextLimb, Shifted \div N!B, Shifted % N!B)
      /\ UNCHANGED <<stage, num, den, shift, rem, low, qhigh, answer>>
  BY DEF N!DigitCall, Shifted
<1>2. N!D!Callable(rem, N!NextLimb, Shifted \div N!B, Shifted % N!B)
      /\ rem \in 0 .. N!B * N!B - 1
  BY <1>1, DigitLegal
<1>3. DP!IInv'
  <2>1. N!NextLimb \in N!D!Digits /\ Shifted \div N!B \in N!D!Digits
        /\ Shifted % N!B \in N!D!Digits
    BY <1>2 DEF N!D!Callable
  <2> QED
    BY <2>1, <1>1, <1>2, DigitCallIInv DEF NarrowInv
<1>4. NTyped' /\ NResting' /\ NNormalised' /\ NConserved' /\ NAnswered'
  BY <1>1 DEF NarrowInv, NTyped, NResting, NNormalised, NConserved, NAnswered, Shifted, N!Hi
<1>5. NDigitCalled'
  BY <1>1 DEF N!D!Call, NDigitCalled, N!NextLimb, Shifted
<1> QED
  BY <1>3, <1>4, <1>5 DEF NarrowInv

LEMMA NarrowDigitStep == ASSUME NarrowInv, N!DigitStep PROVE NarrowInv'
<1>1. N!D!Step /\ UNCHANGED <<stage, num, den, shift, rem, low, qhigh, answer>>
  BY DEF N!DigitStep
<1>2. DP!IInv'
  BY <1>1, DigitStepIInv DEF NarrowInv
<1>3. pc # "idle" /\ UNCHANGED <<given, next, v1, v0>>
  BY <1>1 DEF N!D!Step, N!D!EstimateSaturated, N!D!EstimateDivided, N!D!Correct, N!D!Finish,
              N!D!call
<1>4. NTyped' /\ NResting' /\ NNormalised' /\ NConserved' /\ NAnswered'
  BY <1>1, <1>3 DEF NarrowInv, NTyped, NResting, NNormalised, NConserved, NAnswered, Shifted,
                    N!Hi
<1>5. NDigitCalled'
  BY <1>1, <1>3 DEF NarrowInv, NDigitCalled, N!NextLimb, Shifted
<1> QED
  BY <1>2, <1>4, <1>5 DEF NarrowInv

\* What a finished digit says of this call's remainder and divisor.
LEMMA DigitOfCall ==
  ASSUME NarrowInv, stage \in {"high", "low"}, pc = "done"
  PROVE  /\ quotient \in N!D!Digits /\ quotient \in Nat /\ remainder \in Nat
         /\ rem * N!B + N!NextLimb = quotient * Shifted + remainder
         /\ remainder < Shifted /\ Shifted \in Nat
<1>1. given = rem /\ next = N!NextLimb /\ v1 = Shifted \div N!B /\ v0 = Shifted % N!B
  BY DEF NarrowInv, NDigitCalled
<1>2. v1 * N!B + v0 = Shifted /\ Shifted \in Nat
  BY <1>1, DigitLegal
<1>3. /\ quotient \in N!D!Digits /\ remainder \in Nat
      /\ given * N!B + next = quotient * (v1 * N!B + v0) + remainder
      /\ remainder < v1 * N!B + v0
  BY DigitDone DEF NarrowInv
<1>4. quotient \in Nat
  BY <1>3, NarrowLimb DEF N!D!Digits
<1> QED
  BY <1>1, <1>2, <1>3, <1>4

LEMMA NarrowHighDigit == ASSUME NarrowInv, N!HighDigit PROVE NarrowInv'
<1>1. /\ stage = "high" /\ stage' = "low" /\ pc = "done" /\ N!D!Return
      /\ rem' = remainder /\ qhigh' = quotient
      /\ UNCHANGED <<num, den, shift, low, answer>>
  BY DEF N!HighDigit
<1>2. /\ quotient \in N!D!Digits /\ quotient \in Nat /\ remainder \in Nat
      /\ rem * N!B + (low \div N!B) = quotient * Shifted + remainder
      /\ remainder < Shifted /\ Shifted \in Nat
  BY <1>1, DigitOfCall DEF N!NextLimb
<1>3. /\ num * 2 ^ shift = rem * (N!B * N!B) + low /\ rem \in Nat
      /\ low \in 0 .. N!B * N!B - 1 /\ N!B \in Nat /\ N!B > 1
      /\ num * 2 ^ shift \in Int
  <2>1. shift \in 0 .. W - 1 /\ num \in Nat
    BY <1>1, NarrowLimb DEF NarrowInv, NNormalised, NTyped
  <2>2. 2 ^ shift \in Nat
    BY <2>1, NarrowLimb DEF LimbAndShift
  <2> QED
    BY <2>1, <2>2, <1>1, NarrowLimb DEF NarrowInv, NConserved, NNormalised
<1>4. num * 2 ^ shift = quotient * N!B * Shifted + remainder * N!B + (low % N!B)
  <2> DEFINE e == num * 2 ^ shift
  <2>1. e \in Int /\ e = rem * (N!B * N!B) + low
    BY <1>3
  <2> HIDE DEF e
  <2>2. e = quotient * N!B * Shifted + remainder * N!B + (low % N!B)
    BY <2>1, <1>2, <1>3, FirstDigitTaken
  <2> QED
    BY <2>2 DEF e
<1>5. DP!IInv' /\ pc' = "idle"
  BY <1>1, DigitReturnIInv DEF NarrowInv, N!D!Return
<1>6. NTyped' /\ NResting' /\ NDigitCalled' /\ NAnswered'
  BY <1>1, <1>2, <1>5 DEF NarrowInv, NTyped, NResting, NDigitCalled, NAnswered
<1>7. NNormalised'
  BY <1>1, <1>2 DEF NarrowInv, NNormalised, Shifted, N!Hi
<1>8. NConserved'
  BY <1>1, <1>4 DEF NConserved, Shifted
<1> QED
  BY <1>5, <1>6, <1>7, <1>8 DEF NarrowInv

LEMMA NarrowLowDigit == ASSUME NarrowInv, N!LowDigit PROVE NarrowInv'
<1>1. /\ stage = "low" /\ stage' = "answered" /\ pc = "done" /\ N!D!Return
      /\ answer' = N!WD!Answer("quotient", qhigh * N!B + quotient, remainder \div 2 ^ shift)
      /\ UNCHANGED <<num, den, shift, rem, low, qhigh>>
  BY DEF N!LowDigit
<1> DEFINE p == 2 ^ shift
           l == low % N!B
<1>2. /\ quotient \in Nat /\ remainder \in Nat
      /\ rem * N!B + l = quotient * (den * p) + remainder
      /\ remainder < den * p
  BY <1>1, DigitOfCall DEF N!NextLimb, Shifted
<1>3. /\ N!B \in Nat /\ N!B > 0 /\ p \in Nat /\ p > 0 /\ den \in Nat /\ den > 0 /\ num \in Nat
      /\ qhigh \in Nat /\ rem \in Nat /\ l \in Nat /\ N!Hi < den
  <2>1. shift \in 0 .. W - 1 /\ num \in Nat /\ den \in Nat /\ rem \in Nat /\ N!Hi < den
        /\ den >= N!B /\ low \in Int /\ N!B \in Nat /\ N!B > 1 /\ qhigh \in Nat
    BY <1>1, NarrowLimb DEF NarrowInv, NNormalised, NTyped, N!D!Digits
  <2>2. p \in Nat /\ p > 0
    BY <2>1, NarrowLimb DEF LimbAndShift
  <2>3. l \in Nat
    BY <2>1, DivMod
  <2> QED
    BY <2>1, <2>2, <2>3
<1>4. num * p = qhigh * N!B * (den * p) + rem * N!B + l
  BY <1>1 DEF NarrowInv, NConserved, Shifted
<1> HIDE DEF p, l
<1>5. num \div den = qhigh * N!B + quotient /\ num % den = remainder \div p
  BY <1>2, <1>3, <1>4, DigitsTaken
<1>6. N!WD!RightAnswer(num, den) = N!WD!Answer("quotient", num \div den, num % den)
  BY <1>3, NarrowRight DEF NarrowInv
<1>7. answer' = N!WD!RightAnswer(num, den)
  BY <1>1, <1>5, <1>6 DEF p
<1>8. DP!IInv' /\ pc' = "idle"
  BY <1>1, DigitReturnIInv DEF NarrowInv, N!D!Return
<1>9. NTyped' /\ NResting' /\ NNormalised' /\ NConserved' /\ NDigitCalled'
  BY <1>1, <1>8 DEF NarrowInv, NTyped, NResting, NNormalised, NConserved, NDigitCalled
<1>10. NAnswered'
  BY <1>1, <1>7 DEF NAnswered, N!WD!RightAnswer
<1> QED
  BY <1>8, <1>9, <1>10 DEF NarrowInv

LEMMA NarrowReturn == ASSUME NarrowInv, N!Return PROVE NarrowInv'
<1>1. DP!IInv'
  BY DigitRestsIInv DEF NarrowInv, N!Return
<1>2. 0 \in 0 .. N!Wide - 1 /\ 0 \in 0 .. N!Wide * N!Wide - 1 /\ 0 \in N!D!Digits
  BY NarrowLimb, PositiveProduct DEF N!D!Digits
<1>3. NTyped' /\ NAnswered'
  BY <1>2 DEF NTyped, NAnswered, N!Return
<1>4. NResting' /\ NNormalised' /\ NConserved' /\ NDigitCalled'
  BY DEF NarrowInv, NResting, NNormalised, NConserved, NDigitCalled, N!Return, N!digitVars
<1> QED
  BY <1>1, <1>3, <1>4 DEF NarrowInv

LEMMA NarrowStutter == ASSUME NarrowInv, UNCHANGED N!vars PROVE NarrowInv'
<1>1. DP!IInv'
  BY DigitRestsIInv DEF NarrowInv, N!vars
<1> QED
  BY <1>1 DEF N!vars, N!digitVars, NarrowInv, NTyped, NResting, NNormalised, NConserved,
              NDigitCalled, NAnswered, Shifted, N!Hi, N!NextLimb

-----------------------------------------------------------------------------
(* divide128: arithmetic of its one estimate                               *)

\* Shifting leaves the low limb a multiple of the shift's power.
LEMMA LowLimbShifted ==
  ASSUME NEW b, NEW p, LimbAndShift(b, p), NEW d \in Nat
  PROVE  (d * p) % b <= b - p
<1>1. PICK c \in Nat : c > 1 /\ b = p * c
  BY DEF LimbAndShift
<1>2. b \in Nat /\ b > 1 /\ p \in Nat /\ p > 0
  BY DEF LimbAndShift
<1> DEFINE e == d \div c
           f == d % c
           y == f * p
<1>3. e \in Int /\ f \in Int /\ d = e * c + f /\ 0 <= f /\ f < c
  BY <1>1, DivMod
<1> HIDE DEF e, f
<1>4. y + p <= c * p /\ 0 <= y /\ y \in Int
  BY <1>1, <1>2, <1>3, MultipleOrder
<1>5. d * p = e * b + y
  BY <1>1, <1>2, <1>3
<1>6. y + p <= b
  BY <1>1, <1>2, <1>4
<1> HIDE DEF y
<1>7. (d * p) % b = y
  <2>1. d * p \in Int /\ y < b /\ b \in Int /\ b > 0
    BY <1>2, <1>4, <1>6
  <2> QED
    BY <2>1, <1>3, <1>4, <1>5, DivUnique
<1> QED
  BY <1>2, <1>4, <1>6, <1>7

\* The leading limbs hold fewer than p limbs, so the estimate is below 2 * p:
\* its product with the low limb stays below half of two limbs, and only the
\* largest shift lets it be the largest limb.
LEMMA EstimateSmall ==
  ASSUME NEW b, NEW p, LimbAndShift(b, p), NEW d1 \in Nat, 2 * d1 >= b,
         NEW d0 \in Nat, d0 <= b - p, NEW g \in Nat, NEW r \in Nat,
         g * d1 <= r, r < p * b
  PROVE  /\ g < 2 * p
         /\ 2 * (g * d0) <= b * b
         /\ g = b - 1 => 2 * d1 = b /\ b = 2 * p
<1>1. PICK c \in Nat : c > 1 /\ b = p * c
  BY DEF LimbAndShift
<1>2. b \in Nat /\ b > 1 /\ p \in Nat /\ p > 0
  BY DEF LimbAndShift
<1>3. 2 * p <= b
  BY <1>1, <1>2
<1>4. g < 2 * p
  <2>1. p * b <= (2 * p) * d1
    <3>1. p * b <= p * (2 * d1)
      BY <1>2
    <3> QED
      BY <3>1, <1>2
  <2>2. g * d1 < (2 * p) * d1 /\ d1 > 0
    BY <2>1, <1>2
  <2> QED
    BY <2>2, <1>2, CancelFactor
<1>5. 2 * (g * d0) <= b * b
  <2> DEFINE k == b - 2 * p
  <2>1. k \in Nat /\ b = 2 * p + k
    BY <1>2, <1>3
  <2> HIDE DEF k
  <2>2. g * d0 <= (2 * p) * (p + k)
    <3>1. d0 <= p + k
      BY <2>1, <1>2
    <3>2. g * d0 <= (2 * p) * d0
      BY <1>2, <1>4
    <3>3. (2 * p) * d0 <= (2 * p) * (p + k)
      BY <3>1, <2>1, <1>2
    <3> QED
      BY <3>2, <3>3, <2>1, <1>2
  <2>3. 2 * ((2 * p) * (p + k)) + k * k = b * b
    BY <2>1, <1>2
  <2>4. k * k >= 0
    BY <2>1
  <2> QED
    BY <2>2, <2>3, <2>4, <2>1, <1>2
<1>6. ASSUME g = b - 1 PROVE 2 * d1 = b /\ b = 2 * p
  <2>1. b = 2 * p
    BY <1>6, <1>3, <1>4, <1>2
  <2>2. d1 >= p
    BY <2>1, <1>2
  <2>3. ~(d1 > p)
    <3> SUFFICES ASSUME d1 > p PROVE FALSE
      OBVIOUS
    <3> DEFINE k == d1 - (p + 1)
    <3>1. k \in Nat /\ d1 = p + 1 + k
      BY <1>2
    <3> HIDE DEF k
    <3>2. g * d1 = 2 * (p * p) + p - 1 + (2 * p - 1) * k
      BY <3>1, <2>1, <1>2, <1>6
    <3>3. (2 * p - 1) * k >= 0
      BY <3>1, <1>2
    <3>4. p * b = 2 * (p * p) /\ p * p \in Int /\ (2 * p - 1) * k \in Int
      BY <2>1, <1>2, <3>1
    <3> QED
      BY <3>2, <3>3, <3>4, <1>2
  <2> QED
    BY <2>1, <2>2, <2>3, <1>2
<1> QED
  BY <1>4, <1>5, <1>6

\* An estimate of which the product is that small is at most one too large.
LEMMA OneLowerFits ==
  ASSUME NEW b \in Nat, NEW d1 \in Nat, 2 * d1 >= b, NEW d0 \in Nat,
         NEW g \in Nat, g > 0, NEW s \in Nat, NEW r \in Nat, g * d1 + s = r, NEW n \in Nat,
         2 * (g * d0) <= b * b
  PROVE  (g - 1) * (d1 * b + d0) <= r * b + n
<1> DEFINE x == g * d0
           y == d1 * b
           z == s * b
           w == (g * d1) * b
<1>1. x \in Nat /\ y \in Nat /\ z \in Nat /\ w \in Nat /\ b * b \in Nat
  OBVIOUS
<1>2. 2 * y >= b * b
  <2>1. (2 * d1) * b >= b * b
    OBVIOUS
  <2> QED
    BY <2>1
<1>3. (g - 1) * (d1 * b + d0) = w - y + x - d0
  OBVIOUS
<1>4. r * b = w + z
  <2>1. (g * d1 + s) * b = w + z
    OBVIOUS
  <2> QED
    BY <2>1
<1>5. 2 * x <= b * b
  OBVIOUS
<1> HIDE DEF x, y, z, w
<1> QED
  BY <1>1, <1>2, <1>3, <1>4, <1>5

\* An estimate whose product fits is not too large.
LEMMA EstimateFits ==
  ASSUME NEW b \in Nat, NEW d1 \in Nat, NEW d0 \in Nat, NEW g \in Nat, NEW s \in Nat,
         NEW r \in Nat, g * d1 + s = r, NEW n \in Nat, g * d0 <= s * b + n
  PROVE  g * (d1 * b + d0) <= r * b + n
<1> DEFINE x == g * d0
           z == s * b
           w == (g * d1) * b
<1>1. x \in Nat /\ z \in Nat /\ w \in Nat /\ x <= z + n
  OBVIOUS
<1>2. g * (d1 * b + d0) = w + x
  OBVIOUS
<1>3. r * b = w + z
  <2>1. (g * d1 + s) * b = w + z
    OBVIOUS
  <2> QED
    BY <2>1
<1> HIDE DEF x, z, w
<1> QED
  BY <1>1, <1>2, <1>3

\* A quotient may be compared before or after the shift.
LEMMA ShiftedFloor ==
  ASSUME NEW p \in Nat, p > 0, NEW d \in Nat, d > 0, NEW n \in Nat, NEW k \in Nat
  PROVE  /\ k * (d * p) <= n * p => k <= n \div d
         /\ n * p < (k + 1) * (d * p) => n \div d <= k
<1>1. k * (d * p) = (k * d) * p /\ (k + 1) * (d * p) = ((k + 1) * d) * p
  OBVIOUS
<1>2. k * d \in Int /\ (k + 1) * d \in Int
  OBVIOUS
<1>3. ASSUME k * (d * p) <= n * p PROVE k <= n \div d
  <2>1. ~(n < k * d)
    <3> SUFFICES ASSUME n < k * d PROVE FALSE
      OBVIOUS
    <3>1. n * p + p <= (k * d) * p
      BY <1>2, MultipleOrder
    <3> QED
      BY <3>1, <1>1, <1>3
  <2> QED
    BY <2>1, <1>2, FloorAtLeast
<1>4. ASSUME n * p < (k + 1) * (d * p) PROVE n \div d <= k
  <2>1. n * p < ((k + 1) * d) * p
    BY <1>1, <1>4
  <2> DEFINE e == (k + 1) * d
  <2>2. e \in Int /\ n * p < e * p
    BY <2>1, <1>2
  <2> HIDE DEF e
  <2>3. n < e
    BY <2>2, CancelFactor
  <2> QED
    BY <2>3, FloorAtMost DEF e
<1> QED
  BY <1>3, <1>4

-----------------------------------------------------------------------------
(* divide128: the inductive invariant                                      *)

Floor == num \div den

\* The one deviation: the estimate is the largest limb and one too high.
OneTooHigh(k) ==
  /\ k = P!B - 1 /\ k = Floor + 1
  /\ 2 * P!v1 = P!B /\ num \div P!B = P!B - 1

PTyped ==
  /\ stage \in {"idle", "divide", "correct", "subtract", "answered"}
  /\ num \in 0 .. P!Wide - 1 /\ den \in 0 .. P!Wide - 1
  /\ stage # "idle" => den > 0
  /\ stage \in {"correct", "subtract"} => den >= P!B

\* The two leading limbs of the shifted numerator, which are what v1 divides.
Lead == P!u2 * P!B + P!u1

\* The estimate as it was computed, never below the quotient.
Fresh ==
  /\ qhat = Lead \div P!v1 /\ rhat = Lead % P!v1
  /\ product = qhat * P!v0
  /\ Floor <= qhat

\* An estimate that was lowered is right, and is not lowered again: what the
\* loop compares has grown beyond any product, the stale one included.
LoweredOnce == qhat = Floor /\ rhat >= P!v1

PEstimated ==
  stage = "correct" =>
    /\ qhat \in 0 .. P!B - 1 /\ rhat \in Nat
    /\ product \in Nat /\ 2 * product <= P!B * P!B
    /\ Fresh \/ LoweredOnce

PDecided == stage = "subtract" => qhat = Floor \/ OneTooHigh(qhat)

PAnswered ==
  stage = "answered" =>
    answer = P!Right \/ (answer.q = P!Right.q + 1 /\ OneTooHigh(answer.q))

PortableInv == PTyped /\ PEstimated /\ PDecided /\ PAnswered

LEMMA PortableLimb ==
  /\ P!B \in Nat /\ P!B > 1 /\ P!Wide = P!B * P!B /\ P!Wide \in Nat /\ P!Wide > 0
  /\ \A s \in 0 .. PortableW - 1 : LimbAndShift(P!B, 2 ^ s)
  /\ \A x \in 1 .. P!B - 1 : ShiftsUp(P!B, PortableW, x, P!CountlZero(x))
<1>1. PortableW \in Nat /\ PortableW > 0 /\ PowerLaws(2, PortableW)
  BY WidthAssumption, PowersAssumption DEF PowerLaws
<1>2. \A s \in 0 .. PortableW - 1 : LimbAndShift(P!B, 2 ^ s)
  BY <1>1, LimbPowers DEF P!B
<1>3. P!B \in Nat /\ P!B > 1
  <2>1. 0 \in 0 .. PortableW - 1
    BY <1>1
  <2> QED
    BY <2>1, <1>2 DEF LimbAndShift
<1>4. ASSUME NEW x \in 1 .. P!B - 1 PROVE ShiftsUp(P!B, PortableW, x, P!CountlZero(x))
  <2>1. \E s \in 0 .. PortableW - 1 : P!B <= 2 * x * 2 ^ s /\ x * 2 ^ s < P!B
    BY <1>1, ShiftFound DEF ShiftsUp, P!B
  <2> QED
    BY <2>1 DEF ShiftsUp, P!CountlZero
<1>5. P!Wide = P!B * P!B
  BY DEF P!Wide
<1> QED
  BY <1>2, <1>3, <1>4, <1>5, PositiveProduct

LEMMA EstimateRadix == DQ!RadixAssumption
  BY PortableLimb DEF DQ!RadixAssumption

\* The limbs the estimate is made of.
LEMMA PortableLimbs ==
  ASSUME PTyped, den >= P!B
  PROVE  \E p \in Nat :
           /\ p > 0 /\ LimbAndShift(P!B, p)
           /\ P!v1 \in 0 .. P!B - 1 /\ 2 * P!v1 >= P!B
           /\ P!v0 \in 0 .. P!B - 1 /\ P!v0 <= P!B - p
           /\ den * p = P!v1 * P!B + P!v0
           /\ P!u0 \in 0 .. P!B - 1 /\ num * p = Lead * P!B + P!u0
           /\ Lead \in Nat /\ Lead < p * P!B
           /\ P!u2 = Lead \div P!B /\ P!u2 \in Nat /\ P!u2 < p
<1> DEFINE b == P!B
           m == P!Wide
           s == P!shift
           p == 2 ^ s
           x == den \div b
           v == den * p
           e == num * p
           t == e \div b
<1>1. /\ b \in Nat /\ b > 1 /\ b > 0 /\ m = b * b /\ m \in Nat /\ m > 0
      /\ num \in Nat /\ num < m /\ den \in Nat /\ den < b * b /\ b <= den
  BY PortableLimb DEF PTyped
<1>2. x \in 1 .. b - 1
  <2>1. x \in Int /\ x < b
    BY <1>1, QuotientBelow
  <2> DEFINE one == 1
  <2>2. one * b <= den /\ one \in Int
    BY <1>1
  <2> HIDE DEF one, b
  <2>3. one <= x
    BY <1>1, <2>2, FloorAtLeast
  <2> QED
    BY <2>1, <2>3, <1>1 DEF one
<1>3. ShiftsUp(b, PortableW, x, s)
  BY <1>2, PortableLimb DEF P!shift
<1>4. s \in 0 .. PortableW - 1 /\ b <= 2 * x * p /\ x * p < b
  BY <1>3 DEF ShiftsUp
<1>5. LimbAndShift(b, p) /\ p \in Nat /\ p > 0
  BY <1>4, PortableLimb DEF LimbAndShift
<1>6. /\ P!v1 = v \div b /\ P!v0 = v % b
      /\ P!u2 = e \div m /\ P!u1 = t % b /\ P!u0 = e % b
  BY DEF P!v1, P!v0, P!u2, P!u1, P!u0
<1> HIDE DEF p, s, b, m
<1>7. /\ v \in Nat
      /\ v \div b \in 0 .. b - 1 /\ v % b \in 0 .. b - 1 /\ 2 * (v \div b) >= b
      /\ v = (v \div b) * b + (v % b)
  BY <1>1, <1>4, <1>5, DivisorNormalised DEF x
<1>8. v % b <= b - p
  BY <1>1, <1>5, LowLimbShifted
<1>9. e \in Nat /\ e < p * m
  <2>1. num * p < m * p
    BY <1>1, <1>5
  <2> QED
    BY <2>1, <1>1, <1>5
<1> HIDE DEF v, e
<1> DEFINE l == e % b
<1>10. t \in Int /\ l \in Int /\ 0 <= l /\ l < b /\ e = t * b + l
  BY <1>1, <1>9, DivMod
<1>11. 0 <= t /\ t < p * b
  <2>1. e < (p * b) * b /\ p * b \in Int
    BY <1>1, <1>5, <1>9 DEF m
  <2> DEFINE k == p * b
  <2>2. e < k * b /\ k \in Int
    BY <2>1
  <2> HIDE DEF k
  <2>3. 0 <= t /\ t < k
    BY <2>2, <1>1, <1>9, QuotientBelow
  <2> QED
    BY <2>3 DEF k
<1>12. e \div m = t \div b
  BY <1>1, <1>9, DividedTwice DEF m
<1> HIDE DEF l, t
<1> DEFINE h == t \div b
           g == t % b
<1>13. h \in Int /\ g \in Int /\ t = h * b + g
  BY <1>1, <1>10, DivMod
<1>14. 0 <= h /\ h < p
  BY <1>1, <1>5, <1>10, <1>11, QuotientBelow
<1>15. Lead = t
  BY <1>6, <1>12, <1>13 DEF Lead, b
<1>16. P!u0 = l
  BY <1>6 DEF l
<1>17. P!u2 = h
  BY <1>6, <1>12
<1> HIDE DEF h, g
<1>18. /\ den * p = P!v1 * b + P!v0 /\ num * p = Lead * b + P!u0
       /\ P!v1 \in 0 .. b - 1 /\ 2 * P!v1 >= b /\ P!v0 \in 0 .. b - 1 /\ P!v0 <= b - p
  BY <1>6, <1>7, <1>8, <1>10, <1>15, <1>16 DEF v, e
<1>19. /\ P!u0 \in 0 .. b - 1 /\ Lead \in Nat /\ Lead < p * b
       /\ P!u2 = Lead \div b /\ P!u2 \in Nat /\ P!u2 < p
  BY <1>1, <1>10, <1>11, <1>14, <1>15, <1>16, <1>17 DEF h
<1> QED
  BY <1>5, <1>18, <1>19 DEF b

\* The exact quotient fits two limbs, so there is one right answer.
LEMMA PortableRight ==
  ASSUME PTyped, den > 0
  PROVE  /\ P!Right = P!WD!Answer("quotient", Floor, num % den)
         /\ Floor \in Nat /\ Floor < P!Wide
         /\ num % den \in Nat /\ num % den < P!Wide
         /\ num = Floor * den + (num % den) /\ num \in Nat /\ den \in Nat
<1>1. num \in Nat /\ den \in Nat /\ num < P!Wide /\ den < P!Wide /\ P!Wide \in Nat
  BY PortableLimb DEF PTyped
<1>2. num < P!Wide * den
  BY <1>1
<1>3. Floor \in Int /\ 0 <= Floor /\ Floor < P!Wide
  BY <1>1, <1>2, QuotientBelow DEF Floor
<1> DEFINE r == num % den
<1>4. r \in Int /\ 0 <= r /\ r < den /\ num = Floor * den + r
  BY <1>1, DivMod DEF Floor
<1> HIDE DEF r
<1>5. r \in Nat /\ r < P!Wide
  BY <1>1, <1>4
<1>6. P!Right = P!WD!Answer("quotient", Floor, num % den)
  <2>1. ~(num \div den >= P!Wide) /\ den # 0
    BY <1>1, <1>3 DEF Floor
  <2> QED
    BY <2>1 DEF P!Right, P!WD!RightAnswer, Floor
<1> QED
  BY <1>1, <1>3, <1>4, <1>5, <1>6 DEF r

-----------------------------------------------------------------------------
(* divide128: one lemma per action                                         *)

LEMMA PortableInit == ASSUME P!Init PROVE PortableInv
<1>1. 0 \in 0 .. P!Wide - 1
  BY PortableLimb
<1> QED
  BY <1>1 DEF P!Init, PortableInv, PTyped, PEstimated, PDecided, PAnswered

LEMMA PortableCall == ASSUME PortableInv, P!Call PROVE PortableInv'
<1>1. PTyped'
  BY DEF P!Call, PTyped
<1> QED
  BY <1>1 DEF P!Call, PortableInv, PEstimated, PDecided, PAnswered

\* An answer that is right, or one too high as P!WrongOnlyWhenSaturated allows.
LEMMA PortableReply ==
  ASSUME PortableInv, stage # "idle", NEW k, NEW r, P!Reply(k, r),
         \/ P!WD!Answer("quotient", k, r) = P!Right
         \/ k = P!Right.q + 1 /\ OneTooHigh(k)
  PROVE  PortableInv'
<1>1. PTyped' /\ PEstimated' /\ PDecided'
  BY DEF PortableInv, PTyped, PEstimated, PDecided, P!Reply, P!call
<1>2. P!Right' = P!Right /\ \A e : OneTooHigh(e)' = OneTooHigh(e)
  <2>1. num' = num /\ den' = den
    BY DEF P!Reply, P!call
  <2> QED
    BY <2>1 DEF P!Right, P!WD!RightAnswer, OneTooHigh, Floor, P!v1, P!shift
<1>3. answer' = P!WD!Answer("quotient", k, r) /\ answer'.q = k
  BY DEF P!Reply, P!WD!Answer
<1>4. PAnswered'
  BY <1>2, <1>3 DEF PAnswered
<1> QED
  BY <1>1, <1>4 DEF PortableInv

LEMMA PortableByLimb == ASSUME PortableInv, P!DivideByLimb PROVE PortableInv'
<1> DEFINE t == num \div P!B
           l == num % P!B
           rest == (t % den) * P!B + l
<1>1. stage = "divide" /\ den > 0 /\ PTyped
  BY DEF P!DivideByLimb, PortableInv, PTyped
<1>2. P!Reply((t \div den) * P!B + (rest \div den), rest % den)
  BY DEF P!DivideByLimb
<1>3. num \in Nat /\ den \in Nat /\ P!B \in Nat /\ P!B > 0
  BY <1>1, PortableRight, PortableLimb
<1>4. t \in Int /\ l \in Int /\ num = t * P!B + l /\ 0 <= l /\ l < P!B
  BY <1>3, DivMod
<1>5. t % den \in Int /\ rest \in Int
  BY <1>1, <1>3, <1>4, DivMod
<1>6. num \div den = (t \div den) * P!B + (rest \div den) /\ num % den = rest % den
  <2> HIDE DEF t, l
  <2> QED
    BY <1>1, <1>3, <1>4, <1>5, LimbByLimb
<1>7. P!WD!Answer("quotient", (t \div den) * P!B + (rest \div den), rest % den) = P!Right
  BY <1>1, <1>6, PortableRight DEF Floor
<1> HIDE DEF t, l, rest
<1> QED
  BY <1>1, <1>2, <1>7, PortableReply

LEMMA PortableBelow == ASSUME PortableInv, P!NumeratorBelow PROVE PortableInv'
<1>1. stage = "divide" /\ den > 0 /\ PTyped /\ P!Reply(0, num) /\ num < den
  BY DEF P!NumeratorBelow, PortableInv, PTyped
<1>2. num \in Nat /\ den \in Nat
  BY <1>1, PortableRight
<1>3. num \div den = 0 /\ num % den = num
  <2>1. num = 0 * den + num
    BY <1>2
  <2> QED
    BY <2>1, <1>1, <1>2, DivUnique
<1>4. P!WD!Answer("quotient", 0, num) = P!Right
  BY <1>1, <1>3, PortableRight DEF Floor
<1> QED
  BY <1>1, <1>4, PortableReply

\* The leading limbs never agree, so the estimate is always divided.
LEMMA PortableEstimate == ASSUME PortableInv, P!Estimate PROVE PortableInv'
<1>1. PTyped /\ den >= P!B /\ stage = "divide" /\ den > 0
  BY DEF P!Estimate, PortableInv, PTyped
<1>2. PICK p \in Nat :
        /\ p > 0 /\ LimbAndShift(P!B, p)
        /\ P!v1 \in 0 .. P!B - 1 /\ 2 * P!v1 >= P!B
        /\ P!v0 \in 0 .. P!B - 1 /\ P!v0 <= P!B - p
        /\ den * p = P!v1 * P!B + P!v0
        /\ P!u0 \in 0 .. P!B - 1 /\ num * p = Lead * P!B + P!u0
        /\ Lead \in Nat /\ Lead < p * P!B
        /\ P!u2 = Lead \div P!B /\ P!u2 \in Nat /\ P!u2 < p
  BY <1>1, PortableLimbs
<1>3. P!B \in Nat /\ P!B > 1 /\ num \in Nat /\ den \in Nat
  BY <1>1, PortableLimb, PortableRight
<1>4. 2 * p <= P!B /\ p <= P!v1
  <2>1. PICK c \in Nat : c > 1 /\ P!B = p * c
    BY <1>2 DEF LimbAndShift
  <2>2. 2 * p <= P!B
    BY <2>1, <1>2
  <2> QED
    BY <2>2, <1>2, <1>3
<1>5. P!u2 # P!v1
  BY <1>2, <1>4, <1>3
<1> DEFINE g == Lead \div P!v1
           s == Lead % P!v1
<1>6. /\ qhat' = g /\ rhat' = s /\ product' = g * P!v0
      /\ stage' = "correct" /\ num' = num /\ den' = den /\ answer' = answer
  BY <1>5 DEF P!Estimate, P!call, Lead
<1>7. /\ g \in 0 .. P!B - 1 /\ s \in 0 .. P!B - 1 /\ g * P!v1 + s = Lead
      /\ Lead * P!B + P!u0 < (g + 1) * (P!v1 * P!B + P!v0)
  <2>1. Lead < P!v1 * P!B + P!v0
    <3>1. p * P!B <= P!v1 * P!B
      BY <1>2, <1>3, <1>4
    <3> QED
      BY <3>1, <1>2, <1>3
  <2>2. DQ!Callable(Lead, P!u0, P!v1, P!v0) /\ DQ!High(Lead) # P!v1
    BY <2>1, <1>2, <1>5 DEF DQ!Callable, DQ!Digits, DQ!High
  <2> DEFINE l0 == Lead
             y0 == P!u0
             d1 == P!v1
             d0 == P!v0
  <2>3. l0 \in Nat /\ y0 \in DQ!Digits /\ d1 \in DQ!Digits /\ d0 \in DQ!Digits
        /\ DQ!Callable(l0, y0, d1, d0) /\ DQ!High(l0) # d1
    BY <2>2, <1>2 DEF DQ!Digits
  <2> HIDE DEF l0, y0, d1, d0
  <2>4. /\ l0 \div d1 \in DQ!Digits /\ l0 % d1 \in DQ!Digits
        /\ (l0 \div d1) * d1 + (l0 % d1) = l0
        /\ l0 * P!B + y0 < (l0 \div d1 + 1) * (d1 * P!B + d0)
    BY <2>3, EstimateRadix, DQ!DividedEstimate
  <2> QED
    BY <2>4 DEF l0, y0, d1, d0, DQ!Digits
<1> HIDE DEF g, s
<1>8. Floor <= g
  <2>1. num * p < (g + 1) * (den * p)
    BY <1>2, <1>7
  <2>2. g \in Nat
    BY <1>3, <1>7
  <2> QED
    BY <2>1, <2>2, <1>1, <1>2, <1>3, ShiftedFloor DEF Floor
<1>9. 2 * (g * P!v0) <= P!B * P!B
  <2>1. g * P!v1 <= Lead
    BY <1>2, <1>3, <1>7
  <2>2. g \in Nat /\ P!v1 \in Nat /\ P!v0 \in Nat
    BY <1>2, <1>3, <1>7
  <2> QED
    BY <2>1, <2>2, <1>2, EstimateSmall
<1>10. P!v1' = P!v1 /\ P!v0' = P!v0 /\ Lead' = Lead /\ Floor' = Floor
  BY <1>6 DEF P!v1, P!v0, Lead, P!u2, P!u1, P!shift, Floor
<1>11. Fresh'
  BY <1>6, <1>8, <1>10 DEF Fresh, g, s
<1>12. PTyped' /\ PDecided' /\ PAnswered'
  BY <1>1, <1>6 DEF PTyped, PDecided, PAnswered
<1>13. PEstimated'
  <2>1. g * P!v0 \in Nat /\ g \in 0 .. P!B - 1 /\ s \in Nat
    BY <1>2, <1>3, <1>7
  <2> QED
    BY <2>1, <1>6, <1>9, <1>11 DEF PEstimated
<1> QED
  BY <1>12, <1>13 DEF PortableInv

\* What is known of an estimate before it is lowered or taken.
LEMMA PortableFresh ==
  ASSUME PortableInv, stage = "correct", Fresh
  PROVE  /\ qhat \in Nat /\ Floor \in Nat /\ Floor <= qhat
         /\ qhat > 0 => qhat - 1 <= Floor
         /\ product <= rhat * P!B + P!u0 => qhat = Floor
         /\ product > rhat * P!B + P!u0 => qhat > 0 /\ qhat - 1 = Floor
         /\ qhat = P!B - 1 /\ qhat - 1 = Floor => OneTooHigh(qhat)
<1>1. PTyped /\ den >= P!B /\ den > 0
  BY DEF PortableInv, PTyped
<1>2. PICK p \in Nat :
        /\ p > 0 /\ LimbAndShift(P!B, p)
        /\ P!v1 \in 0 .. P!B - 1 /\ 2 * P!v1 >= P!B
        /\ P!v0 \in 0 .. P!B - 1 /\ P!v0 <= P!B - p
        /\ den * p = P!v1 * P!B + P!v0
        /\ P!u0 \in 0 .. P!B - 1 /\ num * p = Lead * P!B + P!u0
        /\ Lead \in Nat /\ Lead < p * P!B
        /\ P!u2 = Lead \div P!B /\ P!u2 \in Nat /\ P!u2 < p
  BY <1>1, PortableLimbs
<1>3. /\ P!B \in Nat /\ P!B > 1 /\ num \in Nat /\ num < P!B * P!B /\ den \in Nat
      /\ Floor \in Nat
  BY <1>1, PortableLimb, PortableRight DEF PTyped
<1>4. /\ qhat \in 0 .. P!B - 1 /\ qhat \in Nat /\ rhat \in Nat /\ product = qhat * P!v0
      /\ Floor <= qhat /\ qhat = Lead \div P!v1 /\ rhat = Lead % P!v1
      /\ 2 * (qhat * P!v0) <= P!B * P!B
  BY <1>3 DEF PortableInv, PEstimated, Fresh
<1>5. qhat * P!v1 + rhat = Lead
  <2>1. Lead \in Int /\ P!v1 \in Int /\ P!v1 > 0
    BY <1>2, <1>3
  <2> DEFINE d1 == P!v1
             l0 == Lead
             g == l0 \div d1
             y == l0 % d1
  <2>2. l0 \in Int /\ d1 \in Int /\ d1 > 0
    BY <2>1
  <2> HIDE DEF d1, l0
  <2>3. l0 = g * d1 + y
    BY <2>2, DivMod
  <2> QED
    BY <2>3, <1>4 DEF d1, l0
<1>6. P!v1 \in Nat /\ P!v0 \in Nat /\ P!u0 \in Nat /\ P!B > 0
  BY <1>2, <1>3
<1>7. ASSUME qhat > 0 PROVE qhat - 1 <= Floor
  <2>1. (qhat - 1) * (P!v1 * P!B + P!v0) <= Lead * P!B + P!u0
    BY <1>2, <1>3, <1>4, <1>5, <1>6, <1>7, OneLowerFits
  <2>2. (qhat - 1) * (den * p) <= num * p /\ qhat - 1 \in Nat
    BY <2>1, <1>2, <1>4, <1>7
  <2> QED
    BY <2>2, <1>1, <1>2, <1>3, ShiftedFloor DEF Floor
<1>8. ASSUME product <= rhat * P!B + P!u0 PROVE qhat = Floor
  <2>1. qhat * (P!v1 * P!B + P!v0) <= Lead * P!B + P!u0
    BY <1>2, <1>3, <1>4, <1>5, <1>6, <1>8, EstimateFits
  <2>2. qhat * (den * p) <= num * p
    BY <2>1, <1>2
  <2>3. qhat <= Floor
    BY <2>2, <1>1, <1>2, <1>3, <1>4, ShiftedFloor DEF Floor
  <2> QED
    BY <2>3, <1>3, <1>4
<1>9. ASSUME product > rhat * P!B + P!u0 PROVE qhat > 0 /\ qhat - 1 = Floor
  <2>1. qhat # 0
    <3>1. rhat * P!B >= 0 /\ rhat * P!B \in Int
      BY <1>3, <1>4
    <3>2. qhat = 0 => product = 0
      BY <1>4, <1>6
    <3> QED
      BY <3>1, <3>2, <1>6, <1>9
  <2> DEFINE g == qhat
             y == rhat
             n == P!u0
             d1 == P!v1
             d0 == P!v0
             l0 == Lead
  <2>2. /\ l0 \in Nat /\ n \in DQ!Digits /\ d1 \in DQ!Digits /\ d0 \in DQ!Digits
        /\ g \in DQ!Digits /\ g * d1 + y = l0 /\ g * d0 > y * P!B + n
    BY <1>2, <1>4, <1>5, <1>9 DEF DQ!Digits
  <2>3. y \in DQ!Digits
    <3>1. l0 \in Int /\ d1 \in Int /\ d1 > 0
      BY <1>2, <1>3
    <3> HIDE DEF l0, d1
    <3>2. l0 % d1 < d1 /\ l0 % d1 >= 0 /\ l0 % d1 \in Int
      BY <3>1, DivMod
    <3> QED
      BY <3>2, <1>2, <1>3, <1>4 DEF l0, d1, DQ!Digits
  <2> HIDE DEF g, y, n, d1, d0, l0
  <2>4. l0 * P!B + n < ((g - 1) + 1) * (d1 * P!B + d0)
    BY <2>2, <2>3, EstimateRadix, DQ!LoweredEstimate
  <2>5. num * p < ((qhat - 1) + 1) * (den * p)
    BY <2>4, <1>2 DEF g, n, d1, d0, l0
  <2>6. Floor <= qhat - 1
    <3>1. qhat - 1 \in Nat
      BY <2>1, <1>4
    <3> QED
      BY <2>5, <3>1, <1>1, <1>2, <1>3, ShiftedFloor DEF Floor
  <2> QED
    BY <2>1, <2>6, <1>3, <1>4, <1>7
<1>10. ASSUME qhat = P!B - 1, qhat - 1 = Floor PROVE OneTooHigh(qhat)
  <2>1. 2 * P!v1 = P!B /\ P!B = 2 * p
    <3>1. qhat * P!v1 <= Lead
      BY <1>2, <1>4, <1>5, <1>6
    <3> QED
      BY <3>1, <1>2, <1>4, <1>6, <1>10, EstimateSmall
  <2>2. P!v1 = p
    BY <2>1, <1>2, <1>6
  <2>3. (P!B - 1) * p <= Lead
    BY <2>2, <1>2, <1>4, <1>5, <1>10
  <2>4. (P!B - 1) * P!B <= num
    <3>1. ((P!B - 1) * p) * P!B <= Lead * P!B
      BY <2>3, <1>2, <1>3
    <3>2. ((P!B - 1) * P!B) * p <= num * p
      <4>1. ((P!B - 1) * P!B) * p = ((P!B - 1) * p) * P!B
        BY <1>3
      <4>2. Lead * P!B <= num * p
        BY <1>2, <1>3, <1>6
      <4> QED
        BY <3>1, <4>1, <4>2, <1>2, <1>3
    <3> DEFINE k == (P!B - 1) * P!B
    <3>3. k \in Int /\ k * p <= num * p
      BY <3>2, <1>3
    <3> HIDE DEF k
    <3>4. ~(num < k)
      <4> SUFFICES ASSUME num < k PROVE FALSE
        OBVIOUS
      <4>1. num * p + p <= k * p
        BY <3>3, <1>2, <1>3, MultipleOrder
      <4> QED
        BY <4>1, <3>3, <1>2, <1>3
    <3> QED
      BY <3>3, <3>4, <1>3 DEF k
  <2>5. P!B - 1 <= num \div P!B
    BY <2>4, <1>3, FloorAtLeast
  <2>6. num \div P!B < P!B /\ num \div P!B \in Int
    BY <1>3, QuotientBelow
  <2> QED
    BY <2>1, <2>5, <2>6, <1>3, <1>4, <1>10 DEF OneTooHigh
<1> QED
  BY <1>3, <1>4, <1>7, <1>8, <1>9, <1>10

\* The stale product cannot lower a lowered estimate again.
LEMMA LoweredRests ==
  ASSUME PortableInv, stage = "correct", LoweredOnce
  PROVE  ~P!Lower
<1>1. PTyped /\ den >= P!B /\ den > 0
  BY DEF PortableInv, PTyped
<1>2. /\ P!v1 \in 0 .. P!B - 1 /\ 2 * P!v1 >= P!B /\ P!u0 \in 0 .. P!B - 1
  BY <1>1, PortableLimbs
<1>3. P!B \in Nat /\ rhat \in Nat /\ rhat >= P!v1 /\ product \in Nat
      /\ 2 * product <= P!B * P!B
  BY PortableLimb DEF PortableInv, PEstimated, LoweredOnce
<1> DEFINE rb == rhat * P!B
           bb == P!B * P!B
<1>4. bb <= 2 * rb /\ rb \in Int /\ bb \in Int
  <2>1. P!B <= 2 * rhat
    BY <1>2, <1>3
  <2>2. P!B * P!B <= (2 * rhat) * P!B
    BY <2>1, <1>3
  <2> QED
    BY <2>2, <1>3
<1> HIDE DEF rb, bb
<1>5. product <= rb
  BY <1>3, <1>4 DEF bb
<1> QED
  BY <1>2, <1>3, <1>4, <1>5 DEF P!Lower, rb

\* What the estimate is compared with rests while the call's arguments do.
LEMMA ArgumentsRest ==
  ASSUME num' = num, den' = den
  PROVE  /\ P!v1' = P!v1 /\ P!v0' = P!v0 /\ P!u0' = P!u0 /\ Lead' = Lead
         /\ Floor' = Floor /\ P!Right' = P!Right
         /\ \A e : OneTooHigh(e)' = OneTooHigh(e)
BY DEF P!v1, P!v0, P!u0, P!u1, P!u2, P!shift, Lead, Floor, P!Right, P!WD!RightAnswer,
       OneTooHigh

LEMMA PortableCorrect == ASSUME PortableInv, P!Correct PROVE PortableInv'
<1>1. /\ stage = "correct" /\ P!Lower /\ qhat' = qhat - 1
      /\ rhat + P!v1 >= P!B => stage' = "subtract" /\ rhat' = rhat
      /\ ~(rhat + P!v1 >= P!B) => stage' = "correct" /\ rhat' = rhat + P!v1
      /\ num' = num /\ den' = den /\ product' = product /\ answer' = answer
  BY DEF P!Correct, P!call
<1>2. PTyped /\ den >= P!B /\ den > 0 /\ qhat \in 0 .. P!B - 1 /\ rhat \in Nat
      /\ product \in Nat /\ 2 * product <= P!B * P!B
  BY <1>1 DEF PortableInv, PTyped, PEstimated
<1>3. Fresh
  BY <1>1, LoweredRests DEF PortableInv, PEstimated
<1>4. product > rhat * P!B + P!u0
  BY <1>1 DEF P!Lower
<1>5. qhat > 0 /\ qhat - 1 = Floor
  BY <1>1, <1>3, <1>4, PortableFresh
<1>6. P!v1' = P!v1 /\ Floor' = Floor
  BY <1>1, ArgumentsRest
<1>7. PTyped' /\ PAnswered'
  BY <1>1, <1>2 DEF PTyped, PAnswered
<1>8. PEstimated'
  <2> SUFFICES ASSUME stage' = "correct" PROVE PEstimated'
    BY DEF PEstimated
  <2>1. rhat' = rhat + P!v1
    BY <1>1
  <2>2. P!v1 \in Nat /\ P!B \in Nat
    BY <1>2, PortableLimbs, PortableLimb
  <2>3. rhat' \in Nat /\ rhat' >= P!v1' /\ qhat' \in 0 .. P!B - 1
    BY <2>1, <2>2, <1>1, <1>2, <1>5, <1>6
  <2> QED
    BY <2>3, <1>1, <1>2, <1>5, <1>6 DEF PEstimated, LoweredOnce
<1>9. PDecided'
  BY <1>1, <1>5, <1>6 DEF PDecided
<1> QED
  BY <1>7, <1>8, <1>9 DEF PortableInv

LEMMA PortableLeave == ASSUME PortableInv, P!LeaveLoop PROVE PortableInv'
<1>1. /\ stage = "correct" /\ ~P!Lower /\ stage' = "subtract" /\ qhat' = qhat
      /\ num' = num /\ den' = den
  BY DEF P!LeaveLoop, P!call
<1>2. PTyped' /\ PEstimated' /\ PAnswered'
  BY <1>1 DEF PortableInv, PTyped, PEstimated, PAnswered
<1>3. qhat = Floor \/ OneTooHigh(qhat)
  <2>1. CASE LoweredOnce
    BY <2>1 DEF LoweredOnce
  <2>2. CASE Fresh
    <3>1. CASE qhat = P!B - 1
      <4>1. product \in Nat /\ rhat * P!B + P!u0 \in Nat /\ P!B > 1
        <5>1. PTyped /\ den >= P!B
          BY <1>1 DEF PortableInv, PTyped
        <5>2. P!u0 \in Nat /\ P!B \in Nat /\ P!B > 1
          BY <5>1, PortableLimbs, PortableLimb
        <5> QED
          BY <5>2, <1>1 DEF PortableInv, PEstimated
      <4> QED
        BY <4>1, <1>1, <2>2, <3>1, PortableFresh
    <3>2. CASE qhat # P!B - 1
      <4>1. ~(product > rhat * P!B + P!u0)
        BY <1>1, <3>2 DEF P!Lower
      <4>2. product \in Nat /\ rhat * P!B + P!u0 \in Nat
        <5>1. PTyped /\ den >= P!B
          BY <1>1 DEF PortableInv, PTyped
        <5>2. P!u0 \in Nat /\ P!B \in Nat
          BY <5>1, PortableLimbs, PortableLimb
        <5> QED
          BY <5>2, <1>1 DEF PortableInv, PEstimated
      <4> QED
        BY <4>1, <4>2, <1>1, <2>2, PortableFresh
    <3> QED
      BY <3>1, <3>2
  <2> QED
    BY <2>1, <2>2, <1>1 DEF PortableInv, PEstimated
<1>4. PDecided'
  BY <1>1, <1>3, ArgumentsRest DEF PDecided, OneTooHigh
<1> QED
  BY <1>2, <1>4 DEF PortableInv

\* The wrapped difference is the remainder when the digit is right.
LEMMA PortableSubtract == ASSUME PortableInv, P!Subtract PROVE PortableInv'
<1> DEFINE r == (num - den * qhat) % P!Wide
<1>1. stage = "subtract" /\ P!Reply(qhat, r) /\ PTyped /\ den > 0
  BY DEF P!Subtract, PortableInv, PTyped
<1>2. /\ P!Right = P!WD!Answer("quotient", Floor, num % den) /\ P!Right.q = Floor
      /\ num = Floor * den + (num % den) /\ Floor \in Nat /\ den \in Nat
      /\ num % den \in Nat /\ num % den < P!Wide /\ P!Wide \in Nat
  BY <1>1, PortableRight, PortableLimb DEF P!WD!Answer
<1>3. CASE qhat = Floor
  <2> DEFINE z == num % den
             d == Floor * den
  <2>1. num = d + z /\ d \in Int /\ den * qhat = d /\ z \in Nat /\ z < P!Wide
    BY <1>2, <1>3
  <2> HIDE DEF z, d
  <2>2. num - den * qhat = 0 * P!Wide + z
    BY <2>1, <1>2
  <2>3. r = z
    <3> DEFINE y == num - den * qhat
    <3>1. y = 0 * P!Wide + z /\ y \in Int
      BY <2>1, <2>2, <1>2
    <3> HIDE DEF y
    <3>2. y % P!Wide = z
      BY <3>1, <2>1, <1>2, DivUnique
    <3> QED
      BY <3>2 DEF y
  <2>4. P!WD!Answer("quotient", qhat, r) = P!Right
    BY <2>3, <1>2, <1>3 DEF z
  <2> QED
    BY <2>4, <1>1, PortableReply
<1>4. CASE OneTooHigh(qhat)
  <2>1. qhat = P!Right.q + 1
    BY <1>2, <1>4 DEF OneTooHigh
  <2> HIDE DEF r
  <2> QED
    BY <2>1, <1>1, <1>4, PortableReply
<1> QED
  BY <1>1, <1>3, <1>4 DEF PortableInv, PDecided

LEMMA PortableReturn == ASSUME PortableInv, P!Return PROVE PortableInv'
<1>1. 0 \in 0 .. P!Wide - 1
  BY PortableLimb
<1> QED
  BY <1>1 DEF P!Return, PortableInv, PTyped, PEstimated, PDecided, PAnswered

LEMMA PortableStutter == ASSUME PortableInv, UNCHANGED P!vars PROVE PortableInv'
<1>1. /\ stage' = stage /\ num' = num /\ den' = den /\ qhat' = qhat /\ rhat' = rhat
      /\ product' = product /\ answer' = answer
  BY DEF P!vars
<1>2. PTyped'
  BY <1>1 DEF PortableInv, PTyped
<1>3. PEstimated' /\ PDecided' /\ PAnswered'
  BY <1>1, ArgumentsRest DEF PortableInv, PEstimated, PDecided, PAnswered, Fresh, LoweredOnce
<1> QED
  BY <1>2, <1>3 DEF PortableInv

-----------------------------------------------------------------------------
(* Numbers written in limbs, for divmod                                    *)

\* The radix, its powers, and the sizes of the operands.
LEMMA KnuthLimb ==
  /\ K!B \in Nat /\ K!B > 1
  /\ \A s \in 0 .. W - 1 : LimbAndShift(K!B, 2 ^ s)
  /\ PowerLaws(K!B, Lnum + 1)
  /\ Lnum \in Nat /\ Lden \in Nat /\ 1 < Lden /\ Lden <= Lnum
<1>1. W \in Nat /\ W > 0 /\ PortableW \in Nat
  BY WidthAssumption
<1>2. PowerLaws(2, W)
  BY <1>1, PowersAssumption DEF PowerLaws
<1>3. \A s \in 0 .. W - 1 : LimbAndShift(K!B, 2 ^ s)
  BY <1>1, <1>2, LimbPowers DEF K!B
<1>4. K!B \in Nat /\ K!B > 1
  BY <1>1, <1>3 DEF LimbAndShift
<1>5. Lnum \in Nat /\ Lden \in Nat /\ 1 < Lden /\ Lden <= Lnum
  BY LimbsAssumption
<1>6. PowerLaws(K!B, Lnum + 1)
  BY <1>5, PowersAssumption DEF PowerLaws, K!B
<1> QED
  BY <1>3, <1>4, <1>5, <1>6

\* Powers of the radix.
LEMMA RadixPowers ==
  /\ K!B ^ 0 = 1
  /\ \A k \in 0 .. Lnum + 1 : K!B ^ k \in Nat /\ K!B ^ k > 0
  /\ \A k \in 0 .. Lnum : K!B ^ (k + 1) = K!B * K!B ^ k
  /\ \A k \in 0 .. Lnum + 1 : \A l \in 0 .. Lnum + 1 :
       k + l <= Lnum + 1 => K!B ^ (k + l) = K!B ^ k * K!B ^ l
<1> DEFINE b == K!B
           m == Lnum + 1
<1>1. b \in Nat /\ b > 0 /\ m \in Nat /\ PowerLaws(b, m) /\ Lnum \in Nat
  BY KnuthLimb
<1>2. b ^ 0 = 1 /\ \A k \in 0 .. m - 1 : b ^ (k + 1) = b * b ^ k
  BY <1>1 DEF PowerLaws
<1>3. \A k \in 0 .. m : b ^ k \in Nat /\ b ^ k > 0
  BY <1>1, PowersPositive
<1>4. ASSUME NEW k \in 0 .. m, NEW l \in 0 .. m, k + l <= m
      PROVE  b ^ (k + l) = b ^ k * b ^ l
  <2>1. k \in Nat
    OBVIOUS
  <2> HIDE DEF b, m
  <2>2. \A y \in 0 .. m : k + y <= m => b ^ (k + y) = b ^ k * b ^ y
    BY <1>1, <2>1, PowersTimes
  <2> QED
    BY <2>2, <1>4
<1> QED
  BY <1>1, <1>2, <1>3, <1>4

\* One power at a time.
LEMMA PlaceOf ==
  ASSUME NEW k \in 0 .. Lnum + 1
  PROVE  K!B ^ k \in Nat /\ K!B ^ k > 0
BY RadixPowers

LEMMA NextPlace ==
  ASSUME NEW k \in 0 .. Lnum
  PROVE  /\ K!B ^ (k + 1) = K!B * K!B ^ k
         /\ K!B ^ k \in Nat /\ K!B ^ k > 0
<1>1. k \in 0 .. Lnum + 1
  BY KnuthLimb
<1> QED
  BY <1>1, PlaceOf, RadixPowers

\* Value is the sum of its limbs' places.
LEMMA ValueSum ==
  ASSUME NEW x
  PROVE  /\ K!Value(x, 0) = 0
         /\ \A k \in Nat : K!Value(x, k + 1) = K!Value(x, k) + x[k] * K!B ^ k
<1> DEFINE e == [k \in Nat |-> x[k] * K!B ^ k]
           f == CHOOSE f :
                  f = [k \in Nat |-> IF k = 0 THEN 0 ELSE f[k - 1] + x[k - 1] * K!B ^ (k - 1)]
<1>1. \E g : g = [k \in Nat |-> IF k = 0 THEN 0 ELSE g[k - 1] + e[k - 1]]
  <2> HIDE DEF e
  <2> QED
    BY SumsExist
<1>2. PICK g : g = [k \in Nat |-> IF k = 0 THEN 0 ELSE g[k - 1] + e[k - 1]]
  BY <1>1
<1>3. ASSUME NEW k \in Nat PROVE k # 0 => e[k - 1] = x[k - 1] * K!B ^ (k - 1)
  OBVIOUS
<1>4. [k \in Nat |-> IF k = 0 THEN 0 ELSE g[k - 1] + e[k - 1]]
        = [k \in Nat |-> IF k = 0 THEN 0 ELSE g[k - 1] + x[k - 1] * K!B ^ (k - 1)]
  BY <1>3
<1>5. g = [k \in Nat |-> IF k = 0 THEN 0 ELSE g[k - 1] + x[k - 1] * K!B ^ (k - 1)]
  BY <1>2, <1>4
<1>6. f = [k \in Nat |-> IF k = 0 THEN 0 ELSE f[k - 1] + x[k - 1] * K!B ^ (k - 1)]
  BY <1>5
<1>7. \A l : K!Value(x, l) = f[l]
  BY DEF K!Value
<1> HIDE DEF f
<1>8. f[0] = 0
  BY <1>6
<1>9. ASSUME NEW k \in Nat PROVE f[k + 1] = f[k] + x[k] * K!B ^ k
  <2>1. k + 1 \in Nat /\ k + 1 # 0 /\ (k + 1) - 1 = k
    OBVIOUS
  <2>2. f[k + 1] = f[(k + 1) - 1] + x[(k + 1) - 1] * K!B ^ ((k + 1) - 1)
    BY <1>6, <2>1
  <2> QED
    BY <2>1, <2>2
<1> QED
  BY <1>7, <1>8, <1>9

\* x has limbs, as many as l.
Limbs(x, l) == \A k \in 0 .. l - 1 : x[k] \in 0 .. K!B - 1

\* l limbs hold a number below the l-th power of the radix.
LEMMA ValueBound ==
  ASSUME NEW l \in 0 .. Lnum + 1, NEW x, Limbs(x, l)
  PROVE  \A k \in 0 .. l : K!Value(x, k) \in Nat /\ K!Value(x, k) < K!B ^ k
<1> DEFINE V(k) == K!Value(x, k)
           place(k) == K!B ^ k
           Bad == {k \in 0 .. l : ~(V(k) \in Nat /\ V(k) < place(k))}
<1> SUFFICES ASSUME Bad # {} PROVE FALSE
  OBVIOUS
<1>0. Lnum \in Nat /\ K!B \in Nat /\ K!B > 1
  BY KnuthLimb
<1>1. PICK m \in Bad : \A y \in Bad : m <= y
  <2>1. Bad \in SUBSET Nat
    BY <1>0
  <2> QED
    BY <2>1, LeastNat
<1>2. m # 0
  BY <1>1, ValueSum, RadixPowers
<1> DEFINE k == m - 1
<1>3. k \in 0 .. l - 1 /\ k \in 0 .. l /\ k \notin Bad /\ k + 1 = m /\ k \in Nat /\ k \in 0 .. Lnum
  BY <1>0, <1>1, <1>2
<1>4. V(k) \in Nat /\ V(k) < place(k)
  BY <1>3
<1>5. V(m) = V(k) + x[k] * place(k) /\ x[k] \in 0 .. K!B - 1
  BY <1>3, ValueSum DEF Limbs
<1>6. place(m) = K!B * place(k) /\ place(k) \in Nat /\ place(k) > 0
  BY <1>3, NextPlace
<1>7. ~(V(m) \in Nat /\ V(m) < place(m))
  BY <1>1
<1> DEFINE p == place(k)
           b == K!B
           d == x[k]
           v == V(k)
<1>8. p \in Nat /\ p > 0 /\ b \in Nat /\ d \in Int /\ 0 <= d /\ d < b /\ v \in Nat /\ v < p
      /\ V(m) = v + d * p /\ place(m) = b * p
  BY <1>0, <1>4, <1>5, <1>6
<1> HIDE DEF p, b, d, v, V, place, k, Bad
<1>9. d * p + p <= b * p /\ d * p \in Nat
  BY <1>8, MultipleOrder
<1> QED
  BY <1>7, <1>8, <1>9

\* Only the limbs matter.
LEMMA ValueSame ==
  ASSUME NEW l \in Nat, NEW x, NEW y, \A k \in 0 .. l - 1 : x[k] = y[k]
  PROVE  K!Value(x, l) = K!Value(y, l)
<1> DEFINE Bad == {k \in 0 .. l : K!Value(x, k) # K!Value(y, k)}
<1> SUFFICES ASSUME Bad # {} PROVE FALSE
  OBVIOUS
<1>1. PICK m \in Bad : \A k \in Bad : m <= k
  <2>1. Bad \in SUBSET Nat
    OBVIOUS
  <2> QED
    BY <2>1, LeastNat
<1>2. m # 0
  BY <1>1, ValueSum
<1>3. /\ m - 1 \in 0 .. l - 1 /\ m - 1 \in Nat /\ (m - 1) + 1 = m
      /\ m - 1 \notin Bad /\ m - 1 \in 0 .. l
  BY <1>1, <1>2
<1>4. /\ K!Value(x, m) = K!Value(x, m - 1) + x[m - 1] * K!B ^ (m - 1)
      /\ K!Value(y, m) = K!Value(y, m - 1) + y[m - 1] * K!B ^ (m - 1)
  BY <1>3, ValueSum
<1>5. K!Value(x, m - 1) = K!Value(y, m - 1) /\ x[m - 1] = y[m - 1]
  BY <1>3
<1> QED
  BY <1>1, <1>4, <1>5

\* Leading zeros do not matter, and no limb stands for more than the number.
LEMMA ValueTop ==
  ASSUME NEW l \in 0 .. Lnum + 1, NEW x, Limbs(x, l), NEW m \in 0 .. l
  PROVE  /\ K!Value(x, m) <= K!Value(x, l)
         /\ (\A k \in m .. l - 1 : x[k] = 0) => K!Value(x, l) = K!Value(x, m)
<1> DEFINE V(k) == K!Value(x, k)
           Good(k) == /\ V(m) <= V(k)
                      /\ (\A h \in m .. k - 1 : x[h] = 0) => V(k) = V(m)
           Bad == {k \in m .. l : ~Good(k)}
<1>0. Lnum \in Nat /\ K!B \in Nat /\ \A k \in 0 .. l : V(k) \in Nat
  BY KnuthLimb, ValueBound
<1>1. SUFFICES ASSUME Bad # {} PROVE FALSE
  <2>1. l \in m .. l
    BY <1>0
  <2>2. CASE l \in Bad
    BY <2>2, <1>1
  <2>3. CASE l \notin Bad
    <3>1. Good(l)
      BY <2>1, <2>3
    <3> QED
      BY <3>1
  <2> QED
    BY <2>2, <2>3
<1>2. PICK z \in Bad : \A y \in Bad : z <= y
  <2>1. Bad \in SUBSET Nat
    BY <1>0
  <2> HIDE DEF Bad
  <2> QED
    BY <2>1, <1>1, LeastNat
<1>3. z # m
  BY <1>0, <1>2
<1> DEFINE k == z - 1
<1>4. /\ k \in m .. l - 1 /\ k \in m .. l /\ k \in 0 .. l /\ k \in Nat /\ k + 1 = z
      /\ k \in 0 .. l - 1 /\ k \in 0 .. Lnum /\ k \notin Bad /\ m .. k - 1 \subseteq m .. z - 1
      /\ k \in m .. z - 1
  BY <1>0, <1>2, <1>3
<1>5. V(z) = V(k) + x[k] * K!B ^ k /\ x[k] \in 0 .. K!B - 1
  BY <1>4, ValueSum DEF Limbs
<1>6. K!B ^ k \in Nat /\ V(k) \in Nat /\ V(m) \in Nat
  BY <1>0, <1>4, RadixPowers
<1>7. Good(k)
  BY <1>4
<1> DEFINE w == x[k] * K!B ^ k
<1>8. w \in Nat /\ (x[k] = 0 => w = 0)
  <2> DEFINE p == K!B ^ k
             d == x[k]
  <2>1. p \in Nat /\ d \in Nat
    BY <1>0, <1>5, <1>6
  <2> HIDE DEF p, d
  <2>2. d * p \in Nat /\ (d = 0 => d * p = 0)
    BY <2>1
  <2> QED
    BY <2>2 DEF p, d
<1>9. V(z) = V(k) + w
  BY <1>5
<1> HIDE DEF w, k
<1>10. V(m) <= V(z)
  BY <1>6, <1>7, <1>8, <1>9
<1>11. ASSUME \A h \in m .. z - 1 : x[h] = 0 PROVE V(z) = V(m)
  <2>1. x[k] = 0 /\ \A h \in m .. k - 1 : x[h] = 0
    BY <1>4, <1>11
  <2> QED
    BY <2>1, <1>6, <1>7, <1>8, <1>9
<1>12. Good(z)
  BY <1>10, <1>11
<1> QED
  BY <1>2, <1>12

\* Changing a limb changes the number by what the limb stands for.
LEMMA ValueSet ==
  ASSUME NEW l \in 0 .. Lnum + 1, NEW x, Limbs(x, l), NEW p \in 0 .. l - 1,
         NEW y, y[p] \in Int, \A k \in 0 .. l - 1 : k # p => y[k] = x[k]
  PROVE  K!Value(y, l) = K!Value(x, l) + (y[p] - x[p]) * K!B ^ p
<1> DEFINE V(k) == K!Value(x, k)
           Y(k) == K!Value(y, k)
           d == (y[p] - x[p]) * K!B ^ p
           Bad == {k \in p + 1 .. l : Y(k) # V(k) + d}
<1>0. /\ Lnum \in Nat /\ K!B \in Nat /\ \A k \in 0 .. l : V(k) \in Nat
      /\ p \in Nat /\ p \in 0 .. Lnum + 1 /\ K!B ^ p \in Nat /\ x[p] \in Int /\ p \in 0 .. l
  <2>1. Lnum \in Nat /\ K!B \in Nat
    BY KnuthLimb
  <2>2. p \in Nat /\ p \in 0 .. Lnum + 1 /\ p \in 0 .. l
    BY <2>1
  <2>3. \A k \in 0 .. l : V(k) \in Nat
    BY ValueBound
  <2>4. x[p] \in Int
    BY <2>1 DEF Limbs
  <2> QED
    BY <2>1, <2>2, <2>3, <2>4, PlaceOf
<1>1. d \in Int /\ x[p] * K!B ^ p \in Int /\ y[p] * K!B ^ p = x[p] * K!B ^ p + d
  <2> DEFINE c == K!B ^ p
             s == x[p]
             t == y[p]
  <2>1. c \in Int /\ s \in Int /\ t \in Int
    BY <1>0
  <2> HIDE DEF c, s, t
  <2>2. (t - s) * c \in Int /\ s * c \in Int /\ t * c = s * c + (t - s) * c
    BY <2>1
  <2> QED
    BY <2>2 DEF c, s, t
<1> HIDE DEF d
<1>2. Y(p + 1) = V(p + 1) + d
  <2>1. Y(p) = V(p)
    BY <1>0, ValueSame
  <2>2. V(p + 1) = V(p) + x[p] * K!B ^ p /\ Y(p + 1) = Y(p) + y[p] * K!B ^ p
    BY <1>0, ValueSum
  <2>3. V(p) \in Nat
    BY <1>0
  <2> HIDE DEF V, Y
  <2> QED
    BY <2>1, <2>2, <2>3, <1>1
<1>3. SUFFICES ASSUME Bad # {} PROVE FALSE
  <2>1. l \in p + 1 .. l
    BY <1>0
  <2> QED
    BY <2>1, <1>3 DEF d
<1>4. PICK z \in Bad : \A k \in Bad : z <= k
  <2>1. Bad \in SUBSET Nat
    BY <1>0
  <2> HIDE DEF Bad
  <2> QED
    BY <2>1, <1>3, LeastNat
<1>5. z # p + 1
  BY <1>2, <1>4
<1> DEFINE k == z - 1
<1>6. /\ k \in p + 1 .. l /\ k \in 0 .. l /\ k \in 0 .. l - 1 /\ k \in Nat /\ k + 1 = z
      /\ k \notin Bad /\ k # p /\ k \in 0 .. Lnum + 1
  BY <1>0, <1>4, <1>5
<1>7. Y(k) = V(k) + d
  BY <1>6
<1>8. /\ V(z) = V(k) + x[k] * K!B ^ k /\ Y(z) = Y(k) + y[k] * K!B ^ k /\ y[k] = x[k]
  BY <1>6, ValueSum
<1> DEFINE w == x[k] * K!B ^ k
<1>9. w \in Int
  <2>1. x[k] \in Int /\ K!B ^ k \in Int
    BY <1>0, <1>6, RadixPowers DEF Limbs
  <2> QED
    BY <2>1
<1>10. V(k) \in Nat
  BY <1>0, <1>6
<1>11. V(z) = V(k) + w /\ Y(z) = Y(k) + w
  BY <1>8
<1> HIDE DEF w, k
<1>12. Y(z) = V(z) + d
  BY <1>1, <1>7, <1>9, <1>10, <1>11
<1> QED
  BY <1>4, <1>12

\* A limb of a number is a limb.
LEMMA LimbOf ==
  ASSUME NEW a \in Nat, NEW k \in 0 .. Lnum + 1
  PROVE  /\ K!Limb(a, k) \in 0 .. K!B - 1
         /\ a \div K!B ^ k \in Nat
<1> DEFINE p == K!B ^ k
           b == K!B
<1>1. p \in Nat /\ p > 0 /\ b \in Nat /\ b > 1
  BY PlaceOf, KnuthLimb
<1> HIDE DEF p, b
<1>2. a \div p \in Int
  BY <1>1, DivMod
<1>3. 0 <= a \div p
  <2>1. 0 * p <= a
    BY <1>1
  <2> QED
    BY <2>1, <1>1, FloorAtLeast
<1> DEFINE h == a \div p
<1>4. h \in Nat
  BY <1>2, <1>3
<1> HIDE DEF h
<1>5. h % b \in 0 .. b - 1
  BY <1>4, <1>1
<1> QED
  BY <1>4, <1>5 DEF K!Limb, h, p, b

\* The limbs of a number stand for it, as far as they reach.
LEMMA ValueLimbs ==
  ASSUME NEW a \in Nat, NEW l \in 0 .. Lnum + 1, NEW x,
         \A k \in 0 .. l - 1 : x[k] = K!Limb(a, k)
  PROVE  /\ Limbs(x, l)
         /\ \A k \in 0 .. l : K!Value(x, k) = a % K!B ^ k
<1>0. Lnum \in Nat /\ K!B \in Nat /\ K!B > 1
  BY KnuthLimb
<1>1. Limbs(x, l)
  <2> SUFFICES ASSUME NEW k \in 0 .. l - 1 PROVE x[k] \in 0 .. K!B - 1
    BY DEF Limbs
  <2>1. k \in 0 .. Lnum + 1
    BY <1>0
  <2> QED
    BY <2>1, LimbOf
<1> DEFINE Bad == {k \in 0 .. l : K!Value(x, k) # a % K!B ^ k}
<1>2. SUFFICES ASSUME Bad # {} PROVE FALSE
  BY <1>1
<1>3. PICK z \in Bad : \A k \in Bad : z <= k
  <2>1. Bad \in SUBSET Nat
    BY <1>0
  <2> HIDE DEF Bad
  <2> QED
    BY <2>1, <1>2, LeastNat
<1>4. z # 0
  <2>1. a % 1 = 0
    OBVIOUS
  <2>2. K!Value(x, 0) = a % K!B ^ 0
    BY <2>1, ValueSum, RadixPowers
  <2> QED
    BY <2>2, <1>3
<1> DEFINE k == z - 1
<1>5. /\ k \in 0 .. l /\ k \in 0 .. l - 1 /\ k \in 0 .. Lnum /\ k \in Nat /\ k + 1 = z
      /\ k \notin Bad
  BY <1>0, <1>3, <1>4
<1>6. K!Value(x, k) = a % K!B ^ k
  BY <1>5
<1>7. K!Value(x, z) = K!Value(x, k) + K!Limb(a, k) * K!B ^ k
  BY <1>5, ValueSum
<1>8. K!B ^ z = K!B * K!B ^ k /\ K!B ^ k \in Nat /\ K!B ^ k > 0
  BY <1>5, NextPlace
<1>9. a % K!B ^ z = (a % K!B ^ k) + ((a \div K!B ^ k) % K!B) * K!B ^ k
  <2> DEFINE p == K!B ^ k
             b == K!B
  <2>1. p \in Nat /\ p > 0 /\ b \in Nat /\ b > 0
    BY <1>0, <1>8
  <2>2. K!B ^ z = b * p
    BY <1>8
  <2> HIDE DEF p, b
  <2>3. a % (b * p) = (a % p) + ((a \div p) % b) * p
    BY <2>1, SplitByProduct
  <2> QED
    BY <2>2, <2>3 DEF p, b
<1>10. K!Value(x, z) = a % K!B ^ z
  BY <1>6, <1>7, <1>9 DEF K!Limb
<1> QED
  BY <1>3, <1>10

-----------------------------------------------------------------------------
(* The divisor of divmod, normalised                                       *)

\* The limbs a number takes.
LEMMA ActiveLimbsOf ==
  ASSUME NEW a \in Nat, a < K!B ^ Lnum
  PROVE  LET l == K!ActiveLimbs(a)
         IN /\ l \in 0 .. Lnum /\ a < K!B ^ l
            /\ \A k \in 0 .. l - 1 : K!B ^ k <= a
            /\ l = 0 <=> a = 0
<1> DEFINE T == {k \in 0 .. Lnum : a < K!B ^ k}
           Right(k) == a < K!B ^ k /\ \A l \in 0 .. k - 1 : a >= K!B ^ l
           l == K!ActiveLimbs(a)
<1>0. Lnum \in Nat
  BY KnuthLimb
<1>1. PICK z \in T : \A k \in T : z <= k
  <2>1. T \in SUBSET Nat
    BY <1>0
  <2>2. Lnum \in T
    BY <1>0
  <2> HIDE DEF T
  <2> QED
    BY <2>1, <2>2, LeastNat
<1>2. ASSUME NEW k \in 0 .. Lnum PROVE K!B ^ k \in Nat
  <2>1. k \in 0 .. Lnum + 1
    BY <1>0
  <2> QED
    BY <2>1, PlaceOf
<1>3. z \in 0 .. Lnum /\ Right(z)
  <2>1. z \in 0 .. Lnum /\ a < K!B ^ z
    BY <1>1
  <2>2. ASSUME NEW k \in 0 .. z - 1 PROVE a >= K!B ^ k
    <3>1. k \in 0 .. Lnum /\ ~(z <= k)
      BY <1>0, <2>1
    <3>2. k \notin T
      BY <3>1, <1>1
    <3> QED
      BY <3>1, <3>2, <1>2
  <2> QED
    BY <2>1, <2>2
<1>4. l = CHOOSE k \in 0 .. Lnum : Right(k)
  BY DEF K!ActiveLimbs
<1>5. l \in 0 .. Lnum /\ Right(l)
  <2> HIDE DEF Right, l
  <2> QED
    BY <1>3, <1>4
<1> HIDE DEF l
<1>6. l = 0 => a = 0
  BY <1>5, RadixPowers
<1>7. a = 0 => l = 0
  <2> SUFFICES ASSUME a = 0, l # 0 PROVE FALSE
    OBVIOUS
  <2>1. 0 \in 0 .. l - 1
    BY <1>5
  <2>2. a >= 1
    BY <2>1, <1>5, RadixPowers
  <2> QED
    BY <2>2
<1>8. ASSUME NEW k \in 0 .. l - 1 PROVE K!B ^ k <= a
  <2>1. k \in 0 .. Lnum
    BY <1>0, <1>5
  <2>2. K!B ^ k \in Nat /\ a >= K!B ^ k
    BY <2>1, <1>2, <1>5
  <2> QED
    BY <2>2
<1> QED
  BY <1>5, <1>6, <1>7, <1>8 DEF l

\* The arguments of a call of divmod.
KArguments == num \in K!Numerators /\ den \in K!Divisors

\* The divisor's limbs, its shift, and its normalised top.
LEMMA KnuthDivisor ==
  ASSUME KArguments, den # 0
  PROVE  /\ num \in Nat /\ num < K!B ^ Lnum /\ den \in Nat /\ den < K!B ^ Lden
         /\ K!n \in 1 .. Lden /\ den < K!B ^ K!n /\ K!B ^ (K!n - 1) <= den
         /\ K!shift \in 0 .. W - 1 /\ LimbAndShift(K!B, 2 ^ K!shift)
         /\ K!Normalised = den * 2 ^ K!shift /\ K!Normalised \in Nat
         /\ K!B ^ K!n <= 2 * K!Normalised /\ K!Normalised < K!B ^ K!n
<1> DEFINE l == K!n
           S(s) == K!B ^ l <= 2 * den * 2 ^ s /\ den * 2 ^ s < K!B ^ l
<1>0. /\ Lnum \in Nat /\ Lden \in Nat /\ 1 < Lden /\ Lden <= Lnum
      /\ K!B \in Nat /\ K!B > 1 /\ W \in Nat /\ W > 0
  BY KnuthLimb, WidthAssumption
<1>1. K!B ^ Lnum \in Nat /\ K!B ^ Lden \in Nat /\ K!B ^ Lden <= K!B ^ Lnum
  <2>1. Lnum \in 0 .. Lnum + 1 /\ Lden \in 0 .. Lnum + 1 /\ Lnum + 1 \in Nat
    BY <1>0
  <2>2. K!B ^ Lnum \in Nat /\ K!B ^ Lden \in Nat
    BY <2>1, PlaceOf
  <2> DEFINE b == K!B
             m == Lnum + 1
  <2>3. b \in Nat /\ b > 0 /\ PowerLaws(b, m) /\ m \in Nat
    BY <1>0, <2>1, KnuthLimb
  <2> HIDE DEF b, m
  <2>4. b ^ Lden <= b ^ Lnum
    BY <2>1, <2>3, <1>0, PowersOrder DEF m
  <2> QED
    BY <2>2, <2>4 DEF b
<1>2. num \in Nat /\ num < K!B ^ Lnum /\ den \in Nat /\ den < K!B ^ Lden
  BY <1>1 DEF KArguments, K!Numerators, K!Divisors
<1>3. /\ l \in 0 .. Lnum /\ den < K!B ^ l /\ \A k \in 0 .. l - 1 : K!B ^ k <= den
      /\ l # 0
  <2>1. den < K!B ^ Lnum
    BY <1>1, <1>2
  <2> QED
    BY <2>1, <1>2, ActiveLimbsOf DEF K!n
<1> HIDE DEF l
<1>4. l <= Lden
  <2> SUFFICES ASSUME Lden < l PROVE FALSE
    BY <1>0, <1>3
  <2>1. Lden \in 0 .. l - 1
    BY <1>0, <1>3
  <2>2. K!B ^ Lden <= den
    BY <2>1, <1>3
  <2> QED
    BY <2>2, <1>1, <1>2
<1> DEFINE k == l - 1
           c == K!B ^ k
           x == den \div c
<1>5. /\ k \in 0 .. Lnum /\ k \in 0 .. l - 1 /\ k + 1 = l
  BY <1>0, <1>3
<1>6. c \in Nat /\ c > 0 /\ K!B ^ l = K!B * c /\ c <= den
  <2>1. c \in Nat /\ c > 0 /\ K!B ^ (k + 1) = K!B * c
    BY <1>5, NextPlace
  <2>2. c <= den
    BY <1>3, <1>5
  <2> QED
    BY <2>1, <2>2, <1>5
<1> HIDE DEF c
<1>7. x \in 1 .. K!B - 1
  <2>1. x \in Int
    BY <1>2, <1>6, DivMod
  <2>2. 1 * c <= den
    BY <1>6
  <2>3. 1 <= x
    BY <2>2, <1>2, <1>6, FloorAtLeast
  <2>4. den < (K!B - 1 + 1) * c
    <3>1. K!B - 1 + 1 = K!B
      BY <1>0
    <3> QED
      BY <3>1, <1>3, <1>6
  <2>5. x <= K!B - 1
    <3>1. K!B - 1 \in Int
      BY <1>0
    <3> QED
      BY <3>1, <2>4, <1>2, <1>6, FloorAtMost
  <2> QED
    BY <2>1, <2>3, <2>5, <1>0
<1> HIDE DEF x
<1>8. PICK s \in 0 .. W - 1 : ShiftsUp(K!B, W, x, s)
  <2>1. PowerLaws(2, W)
    BY <1>0, PowersAssumption, WidthAssumption DEF PowerLaws
  <2>2. x \in 1 .. 2 ^ W - 1
    BY <1>7 DEF K!B
  <2> QED
    BY <2>1, <2>2, <1>0, ShiftFound DEF K!B
<1>9. S(s)
  <2> DEFINE p == 2 ^ s
  <2>1. LimbAndShift(K!B, p) /\ K!B <= 2 * x * p /\ x * p < K!B
    BY <1>8, KnuthLimb DEF ShiftsUp
  <2> HIDE DEF p
  <2>2. K!B * c <= 2 * den * p /\ den * p < K!B * c
    BY <2>1, <1>2, <1>6, WholeShift DEF x
  <2> QED
    BY <2>2, <1>6 DEF p
<1>10. K!shift \in 0 .. W - 1 /\ S(K!shift)
  <2>1. K!shift = CHOOSE y \in 0 .. W - 1 : S(y)
    BY DEF K!shift, l
  <2> HIDE DEF S
  <2> QED
    BY <2>1, <1>9
<1>11. LimbAndShift(K!B, 2 ^ K!shift)
  BY <1>10, KnuthLimb
<1>12. 2 ^ K!shift \in Nat
  BY <1>11 DEF LimbAndShift
<1>13. K!Normalised = den * 2 ^ K!shift
  BY DEF K!Normalised
<1>14. den * 2 ^ K!shift \in Nat /\ 2 * den * 2 ^ K!shift = 2 * (den * 2 ^ K!shift)
  BY <1>2, <1>12
<1> QED
  BY <1>0, <1>2, <1>3, <1>4, <1>5, <1>6, <1>10, <1>11, <1>13, <1>14 DEF l, c

\* The divisor's two top limbs stand above the rest of it.
LEMMA DivisorTop ==
  ASSUME KArguments, den # 0, K!n > 1
  PROVE  /\ K!v1 \in 1 .. K!B - 1 /\ K!v2 \in 0 .. K!B - 1
         /\ K!n - 2 \in 0 .. Lnum
         /\ \E lo \in Nat : /\ lo < K!B ^ (K!n - 2)
                            /\ K!Normalised = (K!v1 * K!B + K!v2) * K!B ^ (K!n - 2) + lo
<1> DEFINE b == K!B
           v == K!Normalised
           l == K!n
           c == b ^ (l - 2)
           lo == v % c
           cc == b * c
<1>1. /\ l \in 2 .. Lden /\ v \in Nat /\ b ^ l <= 2 * v /\ v < b ^ l
  BY KnuthDivisor
<1>2. /\ Lnum \in Nat /\ Lden \in Nat /\ Lden <= Lnum /\ b \in Nat /\ b > 1
  BY KnuthLimb
<1>3. /\ l - 2 \in 0 .. Lnum /\ l - 1 \in 0 .. Lnum /\ l \in 0 .. Lnum + 1
      /\ (l - 2) + 1 = l - 1 /\ (l - 1) + 1 = l /\ l - 1 \in 0 .. Lnum + 1 /\ l - 2 \in 0 .. Lnum + 1
  BY <1>1, <1>2
<1>4. c \in Nat /\ c > 0 /\ b ^ (l - 1) = b * c
  BY <1>3, NextPlace
<1>5. b ^ l = b * (b * c)
  BY <1>3, <1>4, NextPlace
<1>6. K!v1 = K!Limb(v, l - 1) /\ K!v2 = K!Limb(v, l - 2)
  BY DEF K!v1, K!v2
<1>7. K!v1 \in 0 .. b - 1 /\ K!v2 \in 0 .. b - 1
  BY <1>1, <1>3, <1>6, LimbOf
<1>8. K!v1 = (v \div cc) % b /\ K!v2 = (v \div c) % b
  BY <1>4, <1>6 DEF K!Limb
<1>9. cc \in Nat /\ cc > 0
  BY <1>2, <1>4, PositiveProduct
<1> HIDE DEF b, v, l, c
<1>10. v % (b * cc) = (v % cc) + ((v \div cc) % b) * cc
  <2>1. v \in Nat /\ cc \in Nat /\ cc > 0 /\ b \in Nat /\ b > 0
    BY <1>1, <1>2, <1>9
  <2> HIDE DEF cc
  <2> QED
    BY <2>1, SplitByProduct
<1>11. v % cc = lo + ((v \div c) % b) * c
  <2>1. v \in Nat /\ c \in Nat /\ c > 0 /\ b \in Nat /\ b > 0
    BY <1>1, <1>2, <1>4
  <2>2. v % (b * c) = (v % c) + ((v \div c) % b) * c
    BY <2>1, SplitByProduct
  <2> QED
    BY <2>2
<1>12. v < b * cc /\ b * cc <= 2 * v /\ b * cc \in Nat
  BY <1>1, <1>2, <1>5, <1>9
<1>13. v % (b * cc) = v
  BY <1>1, <1>12, RemainderOfSmall
<1>14. lo \in Nat /\ lo < c
  BY <1>1, <1>4, DivMod
<1> HIDE DEF lo
<1>15. v = lo + K!v2 * c + K!v1 * cc
  BY <1>8, <1>10, <1>11, <1>13
<1>16. K!v1 # 0
  <2> SUFFICES ASSUME K!v1 = 0 PROVE FALSE
    OBVIOUS
  <2>1. v = lo + K!v2 * c /\ K!v2 * c + c <= b * c /\ K!v2 * c \in Nat
    <3>1. K!v1 * cc = 0
      BY <1>9
    <3>2. K!v2 * c + c <= b * c
      BY <1>2, <1>4, <1>7, MultipleOrder
    <3>3. K!v2 * c \in Nat
      BY <1>2, <1>4, <1>7
    <3> QED
      BY <3>1, <3>2, <3>3, <1>14, <1>15
  <2>2. v < cc
    BY <2>1, <1>4, <1>9, <1>14
  <2>3. 2 * cc <= b * cc
    BY <1>2, <1>9, ProductBelow
  <2> QED
    BY <2>2, <2>3, <1>1, <1>9, <1>12
<1>17. v = (K!v1 * b + K!v2) * c + lo
  <2>1. (K!v1 * b + K!v2) * c = K!v1 * (b * c) + K!v2 * c
    BY <1>2, <1>4, <1>7
  <2>2. K!v1 * (b * c) \in Int /\ K!v2 * c \in Int
    BY <1>2, <1>4, <1>7
  <2> QED
    BY <2>1, <2>2, <1>14, <1>15
<1> QED
  BY <1>3, <1>7, <1>14, <1>16, <1>17, <1>2 DEF b, v, l, c

\* Above the place c, a number of three more limbs.
LEMMA ThreeLimbs ==
  ASSUME NEW l \in 0 .. Lnum - 2, NEW x, Limbs(x, l + 3)
  PROVE  /\ K!Value(x, l) \in Nat /\ K!Value(x, l) < K!B ^ l
         /\ K!Value(x, l + 3) = ((x[l + 2] * K!B + x[l + 1]) * K!B + x[l]) * K!B ^ l
                                  + K!Value(x, l)
         /\ x[l] \in 0 .. K!B - 1 /\ x[l + 1] \in 0 .. K!B - 1 /\ x[l + 2] \in 0 .. K!B - 1
<1> DEFINE b == K!B
           c == b ^ l
           x0 == x[l]
           x1 == x[l + 1]
           x2 == x[l + 2]
           v == K!Value(x, l)
<1>1. Lnum \in Nat /\ b \in Nat /\ b > 1
  BY KnuthLimb
<1>2. /\ l \in 0 .. Lnum /\ l + 1 \in 0 .. Lnum /\ l + 2 \in 0 .. Lnum /\ l \in Nat
      /\ l + 3 \in 0 .. Lnum + 1 /\ (l + 1) + 1 = l + 2 /\ (l + 2) + 1 = l + 3
      /\ l \in 0 .. l + 3 /\ l + 1 \in Nat /\ l + 2 \in Nat
      /\ l \in 0 .. (l + 3) - 1 /\ l + 1 \in 0 .. (l + 3) - 1 /\ l + 2 \in 0 .. (l + 3) - 1
  BY <1>1
<1>3. x0 \in 0 .. b - 1 /\ x1 \in 0 .. b - 1 /\ x2 \in 0 .. b - 1
  BY <1>2 DEF Limbs
<1>4. v \in Nat /\ v < c
  BY <1>2, ValueBound
<1>5. c \in Nat /\ c > 0 /\ b ^ (l + 1) = b * c
  BY <1>2, NextPlace
<1>6. b ^ (l + 2) = b * (b * c)
  BY <1>2, <1>5, NextPlace
<1>7. /\ K!Value(x, l + 1) = v + x0 * c
      /\ K!Value(x, (l + 1) + 1) = K!Value(x, l + 1) + x1 * b ^ (l + 1)
      /\ K!Value(x, (l + 2) + 1) = K!Value(x, l + 2) + x2 * b ^ (l + 2)
  BY <1>2, ValueSum
<1>8. K!Value(x, l + 3) = ((v + x0 * c) + x1 * (b * c)) + x2 * (b * (b * c))
  BY <1>2, <1>5, <1>6, <1>7
<1> HIDE DEF b, c, x0, x1, x2, v
<1>9. ((x2 * b + x1) * b + x0) * c + v = ((v + x0 * c) + x1 * (b * c)) + x2 * (b * (b * c))
  BY <1>1, <1>3, <1>4, <1>5
<1> QED
  BY <1>3, <1>4, <1>8, <1>9 DEF b, c, x0, x1, x2, v

\* The divisor at the place of limb jj, and the leading limbs of a number whose
\* limbs end there, are what the estimate divides.
LEMMA DigitWindow ==
  ASSUME KArguments, den # 0, K!n > 1, NEW jj \in Nat, jj + K!n <= Lnum,
         NEW x, Limbs(x, Lnum + 1), \A k \in jj + K!n + 1 .. Lnum : x[k] = 0,
         K!Value(x, Lnum + 1) < (K!Normalised * K!B ^ jj) * K!B
  PROVE  Window(K!B, K!B ^ (jj + K!n - 2), K!v1, K!v2, x[jj + K!n], x[jj + K!n - 1],
                x[jj + K!n - 2], K!Value(x, Lnum + 1), K!Normalised * K!B ^ jj)
<1> DEFINE b == K!B
           l == jj + K!n - 2
           c == b ^ l
           cn == b ^ (K!n - 2)
           cj == b ^ jj
           w == K!Normalised * cj
           U == K!Value(x, Lnum + 1)
<1>1. Lnum \in Nat /\ b \in Nat /\ b > 1 /\ Lden \in Nat /\ K!n \in 2 .. Lden
  BY KnuthLimb, KnuthDivisor
<1>2. /\ l \in 0 .. Lnum - 2 /\ l + 1 = jj + K!n - 1 /\ l + 2 = jj + K!n
      /\ l + 3 \in 0 .. Lnum + 1 /\ l + 3 = jj + K!n + 1
      /\ jj \in 0 .. Lnum + 1 /\ K!n - 2 \in 0 .. Lnum + 1 /\ jj + (K!n - 2) = l
      /\ jj + (K!n - 2) <= Lnum + 1 /\ l \in 0 .. Lnum + 1
  BY <1>1
<1>3. Limbs(x, l + 3)
  BY <1>1, <1>2 DEF Limbs
<1>4. K!Value(x, Lnum + 1) = K!Value(x, l + 3)
  <2>1. \A k \in l + 3 .. (Lnum + 1) - 1 : x[k] = 0
    BY <1>1, <1>2
  <2>2. Lnum + 1 \in 0 .. Lnum + 1
    BY <1>1
  <2> QED
    BY <2>1, <2>2, <1>2, ValueTop
<1>5. /\ K!Value(x, l) \in Nat /\ K!Value(x, l) < c
      /\ U = ((x[l + 2] * b + x[l + 1]) * b + x[l]) * c + K!Value(x, l)
      /\ x[l] \in 0 .. b - 1 /\ x[l + 1] \in 0 .. b - 1 /\ x[l + 2] \in 0 .. b - 1
  BY <1>2, <1>3, <1>4, ThreeLimbs
<1>6. c \in Nat /\ c > 0 /\ cj \in Nat /\ cj > 0 /\ cn \in Nat
  BY <1>2, PlaceOf
<1>7. c = cj * cn
  BY <1>2, RadixPowers
<1>8. PICK lo \in Nat : lo < cn /\ K!Normalised = (K!v1 * b + K!v2) * cn + lo
  BY DivisorTop
<1>9. K!v1 \in 1 .. b - 1 /\ K!v2 \in 0 .. b - 1
  BY DivisorTop
<1>10. K!Normalised \in Nat
  BY KnuthDivisor
<1>11. w \in Nat
  BY <1>6, <1>10
<1>12. lo * cj \in Nat /\ lo * cj < c
  <2>1. lo * cj + cj <= cn * cj /\ cn * cj = cj * cn /\ lo * cj \in Nat
    BY <1>6, <1>8, MultipleOrder
  <2> QED
    BY <2>1, <1>6, <1>7
<1>13. w = (K!v1 * b + K!v2) * c + lo * cj
  <2> DEFINE e == K!v1 * b + K!v2
  <2>1. e \in Int /\ K!Normalised = e * cn + lo
    BY <1>1, <1>8, <1>9
  <2> HIDE DEF e, cn, cj, c
  <2>2. (e * cn + lo) * cj = e * (cj * cn) + lo * cj
    BY <2>1, <1>6, <1>8
  <2> QED
    BY <2>1, <2>2, <1>7 DEF e
<1>14. U \in Nat /\ U < w * b
  <2>1. U \in Nat
    <3>1. Lnum + 1 \in 0 .. Lnum + 1
      BY <1>1
    <3> QED
      BY <3>1, ValueBound
  <2> QED
    BY <2>1
<1>15. Window(b, c, K!v1, K!v2, x[l + 2], x[l + 1], x[l], U, w)
  <2>1. \E y \in Nat : y < c /\ U = ((x[l + 2] * b + x[l + 1]) * b + x[l]) * c + y
    BY <1>5
  <2>2. \E y \in Nat : y < c /\ w = (K!v1 * b + K!v2) * c + y
    BY <1>12, <1>13
  <2> HIDE DEF b, c, U, w, l
  <2> QED
    BY <2>1, <2>2, <1>1, <1>5, <1>6, <1>9, <1>11, <1>14 DEF Window
<1> QED
  BY <1>2, <1>15

-----------------------------------------------------------------------------
(* The inductive invariant of divmod                                       *)

\* What divmod has still to divide, and the divisor at the digit's place.
KRest == num * 2 ^ K!shift - K!Value(q, Lnum) * K!Normalised

KPlace == K!Normalised * K!B ^ j

KDigit == KRest \div KPlace

\* The number the limbs of u stand for.
KLeft == K!Value(u, Lnum + 1)

KLoop == {"digit", "correct", "subtract", "addback"}

\* The dividend and the quotient are written in limbs.
KLoaded ==
  stage \in KLoop \cup {"remainder"} =>
    /\ den # 0 /\ K!n > 1
    /\ u \in [0 .. Lnum -> K!Digits] /\ q \in [0 .. Lnum - 1 -> K!Digits]

\* The digits from j down are still to be found, and they fit.
KPlaced ==
  stage \in KLoop =>
    /\ j + K!n <= Lnum
    /\ \A k \in 0 .. j : q[k] = 0
    /\ \A k \in j + K!n + 1 .. Lnum : u[k] = 0
    /\ KRest \in Nat /\ KRest < KPlace * K!B

\* Outside the inner loops u holds what is left.
KBetween == stage \in {"digit", "correct", "remainder"} => KLeft = KRest

\* An estimate that is never too low, with its rest and its product.
KEstimated ==
  stage = "correct" =>
    /\ product = qhat * K!v2
    /\ qhat * K!v1 + (rhat + IF carry THEN K!B ELSE 0)
         = u[j + K!n] * K!B + u[j + K!n - 1]
    /\ KDigit <= qhat

\* The limbs below i are subtracted; the borrow is owed to limb i.
KSubtracting ==
  stage = "subtract" =>
    /\ i <= K!n /\ (i = 0 => borrow = 0)
    /\ qhat \in {KDigit, KDigit + 1}
    /\ KLeft - borrow * (K!B ^ i * K!B ^ j)
         + qhat * ((K!Normalised % K!B ^ i) * K!B ^ j) = KRest

\* The limbs below i are added back; the top limb is what the borrow left.
KAdding ==
  stage = "addback" =>
    /\ i <= K!n /\ borrow \in {0, 1}
    /\ qhat = KDigit
    /\ K!Value(u, j + K!n) + borrow * (K!B ^ i * K!B ^ j)
         + (K!Normalised - (K!Normalised % K!B ^ i)) * K!B ^ j
         = KRest - qhat * KPlace + K!B ^ K!n * K!B ^ j

\* Every digit is found.
KDone == stage = "remainder" => KRest \in Nat /\ KRest < K!Normalised

\* By one limb: what is left is the remainder so far and the limbs below j.
KLimbwise ==
  stage = "limbs" =>
    /\ den # 0 /\ K!n = 1
    /\ q \in [0 .. Lnum - 1 -> K!Digits] /\ \A k \in 0 .. j - 1 : q[k] = 0
    /\ rhat < den
    /\ num = K!Value(q, Lnum) * den + rhat * K!B ^ j + (num % K!B ^ j)

\* A call starts from the remainder zero, and its answer is right.
KResting == stage \in {"idle", "divide"} => rhat = 0

KAnswered ==
  answer = CASE stage = "idle" -> K!WD!NoCall
             [] stage = "answered" -> K!WD!RightAnswer(num, den)
             [] OTHER -> K!WD!Pending

KnuthInv ==
  /\ K!TypeOK /\ KLoaded /\ KPlaced /\ KBetween /\ KEstimated
  /\ KSubtracting /\ KAdding /\ KDone /\ KLimbwise /\ KResting /\ KAnswered

\* What depends on the arguments alone rests while they do.
LEMMA KArgumentsRest ==
  ASSUME num' = num, den' = den
  PROVE  /\ K!n' = K!n /\ K!shift' = K!shift /\ K!Normalised' = K!Normalised
         /\ K!v1' = K!v1 /\ K!v2' = K!v2
         /\ K!WD!RightAnswer(num, den)' = K!WD!RightAnswer(num, den)
<1>1. K!n' = K!n
  BY DEF K!n
<1>2. K!shift' = K!shift
  BY <1>1 DEF K!shift
<1>3. K!Normalised' = K!Normalised
  BY <1>2 DEF K!Normalised
<1> QED
  BY <1>1, <1>2, <1>3 DEF K!v1, K!v2

LEMMA KRestRests ==
  ASSUME num' = num, den' = den, q' = q
  PROVE  KRest' = KRest
BY KArgumentsRest DEF KRest

\* While the digit is worked on, neither it nor what it divides changes.
LEMMA KDigitRests ==
  ASSUME num' = num, den' = den, q' = q, j' = j
  PROVE  KRest' = KRest /\ KPlace' = KPlace /\ KDigit' = KDigit
<1>1. KRest' = KRest
  BY KRestRests
<1>2. KPlace' = KPlace
  BY KArgumentsRest DEF KPlace
<1> QED
  BY <1>1, <1>2 DEF KDigit

\* Zero is an argument, a limb and a number of limbs.
LEMMA KZeros ==
  /\ 0 \in K!Digits /\ 0 \in 0 .. K!B * K!B - 1 /\ 0 \in 0 .. Lnum /\ 0 \in 0 .. Lden
  /\ 0 \in K!Numerators /\ 0 \in K!Divisors
<1>1. 0 \in K!Digits /\ 0 \in 0 .. K!B * K!B - 1 /\ 0 \in 0 .. Lnum /\ 0 \in 0 .. Lden
  <2>1. K!B \in Nat /\ K!B > 1 /\ Lnum \in Nat /\ Lden \in Nat
    BY KnuthLimb
  <2>2. K!B * K!B \in Nat /\ K!B * K!B > 0
    BY <2>1, PositiveProduct
  <2> QED
    BY <2>1, <2>2 DEF K!Digits
<1>2. 0 \in K!Numerators /\ 0 \in K!Divisors
  <2>1. Lnum \in 0 .. Lnum + 1 /\ Lden \in 0 .. Lnum + 1
    BY KnuthLimb
  <2>2. /\ K!B ^ Lnum \in Nat /\ K!B ^ Lnum > 0
        /\ K!B ^ Lden \in Nat /\ K!B ^ Lden > 0
    BY <2>1, PlaceOf
  <2> QED
    BY <2>2 DEF K!Numerators, K!Divisors
<1> QED
  BY <1>1, <1>2

-----------------------------------------------------------------------------
(* divmod: a call, and the division by one limb                            *)

LEMMA KnuthInit == K!Init => KnuthInv
<1> SUFFICES ASSUME K!Init PROVE KnuthInv
  OBVIOUS
<1>1. K!TypeOK
  BY KZeros DEF K!Init, K!TypeOK, K!NoLimbs
<1>2. KLoaded /\ KPlaced /\ KBetween /\ KEstimated /\ KSubtracting /\ KAdding /\ KDone
  BY DEF K!Init, KLoaded, KPlaced, KBetween, KEstimated, KSubtracting, KAdding, KDone, KLoop
<1>3. KLimbwise /\ KResting /\ KAnswered
  BY DEF K!Init, KLimbwise, KResting, KAnswered
<1> QED
  BY <1>1, <1>2, <1>3 DEF KnuthInv

LEMMA KnuthCall == ASSUME KnuthInv, K!Call PROVE KnuthInv'
<1>1. K!TypeOK'
  BY DEF K!Call, K!TypeOK, KnuthInv, K!estimate, K!inner
<1>2. KLoaded' /\ KPlaced' /\ KBetween' /\ KEstimated' /\ KSubtracting' /\ KAdding' /\ KDone'
  BY DEF K!Call, KLoaded, KPlaced, KBetween, KEstimated, KSubtracting, KAdding, KDone, KLoop
<1>3. KLimbwise' /\ KResting' /\ KAnswered'
  BY DEF K!Call, KLimbwise, KResting, KAnswered, KnuthInv, K!estimate
<1> QED
  BY <1>1, <1>2, <1>3 DEF KnuthInv

\* A right reply ends a call.
LEMMA KnuthReply ==
  ASSUME KnuthInv, NEW a, K!Reply(a), a = K!WD!RightAnswer(num, den),
         UNCHANGED <<num, den, j, u, q, qhat, rhat, carry, product, i, borrow>>
  PROVE  KnuthInv'
<1>1. K!TypeOK'
  BY DEF K!Reply, K!TypeOK, KnuthInv
<1>2. KLoaded' /\ KPlaced' /\ KBetween' /\ KEstimated' /\ KSubtracting' /\ KAdding' /\ KDone'
  BY DEF K!Reply, KLoaded, KPlaced, KBetween, KEstimated, KSubtracting, KAdding, KDone, KLoop
<1>3. KLimbwise' /\ KResting'
  BY DEF K!Reply, KLimbwise, KResting
<1>4. KAnswered'
  BY KArgumentsRest DEF K!Reply, KAnswered
<1> QED
  BY <1>1, <1>2, <1>3, <1>4 DEF KnuthInv

LEMMA KnuthRejectZero == ASSUME KnuthInv, K!RejectZero PROVE KnuthInv'
<1>1. K!WD!Answer("division_by_zero", 0, 0) = K!WD!RightAnswer(num, den)
  BY DEF K!RejectZero, K!WD!RightAnswer
<1> QED
  BY <1>1, KnuthReply DEF K!RejectZero, K!call, K!estimate, K!inner

\* A quotient of numbers that fit always fits.
LEMMA KnuthRight ==
  ASSUME KArguments, den # 0, NEW k \in Nat, NEW r \in Nat, r < den, num = k * den + r
  PROVE  K!WD!Answer("quotient", k, r) = K!WD!RightAnswer(num, den)
<1>1. /\ num \in Nat /\ num < K!B ^ Lnum /\ den \in Nat /\ den > 0 /\ K!B ^ Lnum \in Nat
  <2>1. Lnum \in 0 .. Lnum + 1
    BY KnuthLimb
  <2> QED
    BY <2>1, KnuthDivisor, PlaceOf
<1>2. num \div den = k /\ num % den = r
  BY <1>1, DivUnique
<1>3. k <= k * den /\ k * den \in Nat
  BY <1>1
<1>4. ~(k >= K!B ^ Lnum)
  BY <1>1, <1>3
<1> QED
  BY <1>2, <1>4 DEF K!WD!RightAnswer

LEMMA KnuthFewerLimbs == ASSUME KnuthInv, K!FewerLimbs PROVE KnuthInv'
<1>1. KArguments /\ den # 0
  BY DEF K!FewerLimbs, KnuthInv, K!TypeOK, KArguments
<1> DEFINE l == K!ActiveLimbs(num)
<1>2. /\ num \in Nat /\ num < K!B ^ Lnum /\ den \in Nat /\ K!n \in 1 .. Lden
      /\ K!B ^ (K!n - 1) <= den
  BY <1>1, KnuthDivisor
<1>3. l \in 0 .. Lnum /\ num < K!B ^ l /\ l < K!n
  BY <1>2, ActiveLimbsOf DEF K!FewerLimbs
<1> HIDE DEF l
<1>4. K!B ^ l <= K!B ^ (K!n - 1) /\ K!B ^ l \in Nat /\ K!B ^ (K!n - 1) \in Nat
  <2> DEFINE b == K!B
             m == Lnum + 1
             e == K!n - 1
  <2>1. /\ b \in Nat /\ b > 0 /\ m \in Nat /\ PowerLaws(b, m) /\ Lden \in Nat /\ Lden <= Lnum
        /\ Lnum \in Nat
    BY KnuthLimb
  <2>2. l \in 0 .. m /\ e \in 0 .. m /\ l <= e
    BY <1>2, <1>3, <2>1
  <2>3. K!B ^ l \in Nat /\ K!B ^ e \in Nat
    BY <2>2, PlaceOf
  <2> HIDE DEF b, m, e
  <2>4. b ^ l <= b ^ e
    BY <2>1, <2>2, PowersOrder
  <2> QED
    BY <2>3, <2>4 DEF b, e
<1>5. num < den
  BY <1>2, <1>3, <1>4
<1>6. num = 0 * den + num
  BY <1>2
<1>7. K!WD!Answer("quotient", 0, num) = K!WD!RightAnswer(num, den)
  BY <1>1, <1>2, <1>5, <1>6, KnuthRight
<1> QED
  BY <1>7, KnuthReply DEF K!FewerLimbs, K!call, K!estimate, K!inner

LEMMA KnuthReturn == ASSUME KnuthInv, K!Return PROVE KnuthInv'
<1>1. K!TypeOK'
  BY KZeros DEF K!Return, K!TypeOK, K!NoLimbs
<1>2. KLoaded' /\ KPlaced' /\ KBetween' /\ KEstimated' /\ KSubtracting' /\ KAdding' /\ KDone'
  BY DEF K!Return, KLoaded, KPlaced, KBetween, KEstimated, KSubtracting, KAdding, KDone, KLoop
<1>3. KLimbwise' /\ KResting' /\ KAnswered'
  BY DEF K!Return, KLimbwise, KResting, KAnswered
<1> QED
  BY <1>1, <1>2, <1>3 DEF KnuthInv

LEMMA KnuthStutter == ASSUME KnuthInv, UNCHANGED K!vars PROVE KnuthInv'
<1>1. /\ stage' = stage /\ num' = num /\ den' = den /\ j' = j /\ u' = u /\ q' = q
      /\ qhat' = qhat /\ rhat' = rhat /\ carry' = carry /\ product' = product
      /\ i' = i /\ borrow' = borrow /\ answer' = answer
  BY DEF K!vars
<1>2. /\ K!n' = K!n /\ K!Normalised' = K!Normalised /\ K!v1' = K!v1 /\ K!v2' = K!v2
      /\ K!WD!RightAnswer(num, den)' = K!WD!RightAnswer(num, den)
  BY <1>1, KArgumentsRest
<1>3. KRest' = KRest /\ KPlace' = KPlace /\ KDigit' = KDigit /\ KLeft' = KLeft
  BY <1>1, KDigitRests DEF KLeft
<1>4. K!TypeOK' /\ KLoaded' /\ KLimbwise' /\ KResting' /\ KAnswered'
  BY <1>1, <1>2 DEF KnuthInv, K!TypeOK, KLoaded, KLoop, KLimbwise, KResting, KAnswered
<1>5. KPlaced' /\ KBetween' /\ KEstimated' /\ KDone'
  BY <1>1, <1>2, <1>3 DEF KnuthInv, KPlaced, KLoop, KBetween, KEstimated, KDone
<1>6. KSubtracting' /\ KAdding'
  BY <1>1, <1>2, <1>3 DEF KnuthInv, KSubtracting, KAdding
<1> QED
  BY <1>4, <1>5, <1>6 DEF KnuthInv

\* Zeros stand for zero.
LEMMA ValueZeros ==
  ASSUME NEW l \in 0 .. Lnum + 1, NEW x, \A k \in 0 .. l - 1 : x[k] = 0
  PROVE  K!Value(x, l) = 0
<1>1. Limbs(x, l)
  BY KnuthLimb DEF Limbs
<1>2. 0 \in 0 .. l
  OBVIOUS
<1>3. K!Value(x, l) = K!Value(x, 0)
  BY <1>1, <1>2, ValueTop
<1> QED
  BY <1>3, ValueSum

\* Only zero takes no limbs.
LEMMA KnuthNonzero == ASSUME KArguments, K!n # 0 PROVE den # 0
<1> SUFFICES ASSUME den = 0 PROVE FALSE
  OBVIOUS
<1>1. den \in Nat /\ den < K!B ^ Lnum
  <2>1. Lnum \in 0 .. Lnum + 1
    BY KnuthLimb
  <2>2. K!B ^ Lnum \in Nat /\ K!B ^ Lnum > 0
    BY <2>1, PlaceOf
  <2> QED
    BY <2>2
<1> DEFINE l == K!ActiveLimbs(den)
<1>2. l = 0
  BY <1>1, ActiveLimbsOf
<1> QED
  BY <1>2 DEF K!n

\* The dividend is what its limbs below its length stand for.
LEMMA KnuthLimbsOfNum ==
  ASSUME KArguments, den # 0
  PROVE  LET l == K!ActiveLimbs(num) IN l \in 0 .. Lnum /\ num < K!B ^ l /\ num % K!B ^ l = num
<1> DEFINE l == K!ActiveLimbs(num)
<1>1. num \in Nat /\ num < K!B ^ Lnum
  BY KnuthDivisor
<1>2. l \in 0 .. Lnum /\ num < K!B ^ l
  BY <1>1, ActiveLimbsOf
<1> HIDE DEF l
<1>3. K!B ^ l \in Nat
  <2>1. l \in 0 .. Lnum + 1
    BY <1>2, KnuthLimb
  <2> QED
    BY <2>1, PlaceOf
<1>4. num % K!B ^ l = num
  BY <1>1, <1>2, <1>3, RemainderOfSmall
<1> QED
  BY <1>2, <1>4 DEF l

LEMMA KnuthStartLimbs == ASSUME KnuthInv, K!StartLimbDivision PROVE KnuthInv'
<1>1. /\ stage = "divide" /\ K!n = 1 /\ stage' = "limbs" /\ j' = K!ActiveLimbs(num)
      /\ q' = K!Zeros(Lnum) /\ num' = num /\ den' = den /\ u' = u /\ answer' = answer
      /\ qhat' = qhat /\ rhat' = rhat /\ carry' = carry /\ product' = product
      /\ i' = i /\ borrow' = borrow
  BY DEF K!StartLimbDivision, K!call, K!estimate, K!inner
<1>2. KArguments /\ den # 0 /\ rhat = 0
  <2>1. KArguments
    BY DEF KnuthInv, K!TypeOK, KArguments
  <2> QED
    BY <2>1, <1>1, KnuthNonzero DEF KnuthInv, KResting
<1>3. Lnum \in Nat /\ 0 \in K!Digits
  BY KnuthLimb, KZeros
<1>4. j' \in 0 .. Lnum /\ num % K!B ^ j' = num
  BY <1>1, <1>2, KnuthLimbsOfNum
<1>5. q' \in [0 .. Lnum - 1 -> K!Digits] /\ \A k \in 0 .. Lnum - 1 : q'[k] = 0
  BY <1>1, <1>3 DEF K!Zeros
<1>6. K!TypeOK'
  BY <1>1, <1>4, <1>5 DEF KnuthInv, K!TypeOK
<1>7. KLoaded' /\ KPlaced' /\ KBetween' /\ KEstimated' /\ KSubtracting' /\ KAdding' /\ KDone'
  BY <1>1 DEF KLoaded, KPlaced, KBetween, KEstimated, KSubtracting, KAdding, KDone, KLoop
<1>8. KLimbwise'
  <2>1. K!Value(q', Lnum) = 0
    <3>1. Lnum \in 0 .. Lnum + 1
      BY <1>3
    <3> QED
      BY <3>1, <1>5, ValueZeros
  <2>2. den \in Nat /\ num \in Nat /\ rhat' < den'
    BY <1>1, <1>2, KnuthDivisor
  <2>3. K!B ^ j' \in Nat
    <3>1. j' \in 0 .. Lnum + 1
      BY <1>3, <1>4
    <3> QED
      BY <3>1, PlaceOf
  <2>4. num' = K!Value(q', Lnum) * den' + rhat' * K!B ^ j' + (num' % K!B ^ j')
    BY <2>1, <2>2, <2>3, <1>1, <1>2, <1>4
  <2>5. K!n' = 1
    BY <1>1, KArgumentsRest
  <2>6. \A k \in 0 .. j' - 1 : q'[k] = 0
    <3>1. j' \in 0 .. Lnum
      BY <1>4
    <3>2. \A k \in 0 .. Lnum - 1 : q'[k] = 0
      BY <1>5
    <3>3. \A l \in 0 .. Lnum : \A k \in 0 .. l - 1 : q'[k] = 0
      BY <3>2, <1>3
    <3> QED
      BY <3>1, <3>3
  <2> QED
    BY <2>2, <2>4, <2>5, <2>6, <1>1, <1>2, <1>5 DEF KLimbwise
<1>9. KResting' /\ KAnswered'
  BY <1>1 DEF KResting, KAnswered, KnuthInv
<1> QED
  BY <1>6, <1>7, <1>8, <1>9 DEF KnuthInv

LEMMA KnuthDivideLimb == ASSUME KnuthInv, K!DivideLimb PROVE KnuthInv'
<1> DEFINE k == j - 1
           x == K!Limb(num, k)
           rest == rhat * K!B + x
           d == rest \div den
           r == rest % den
           c == K!B ^ k
<1>1. /\ stage = "limbs" /\ j > 0 /\ stage' = stage /\ j' = k
      /\ q' = [q EXCEPT ![k] = d] /\ rhat' = r
      /\ num' = num /\ den' = den /\ u' = u /\ answer' = answer
      /\ qhat' = qhat /\ carry' = carry /\ product' = product
      /\ i' = i /\ borrow' = borrow
  BY DEF K!DivideLimb, K!call, K!inner
<1>2. /\ den # 0 /\ K!n = 1 /\ q \in [0 .. Lnum - 1 -> K!Digits]
      /\ \A h \in 0 .. j - 1 : q[h] = 0
      /\ rhat < den
      /\ num = K!Value(q, Lnum) * den + rhat * K!B ^ j + (num % K!B ^ j)
  BY <1>1 DEF KnuthInv, KLimbwise
<1>3. KArguments /\ j \in 0 .. Lnum /\ rhat \in K!Digits
  BY DEF KnuthInv, K!TypeOK, KArguments
<1>4. Lnum \in Nat /\ Lnum > 1 /\ K!B \in Nat /\ K!B > 1
  BY KnuthLimb
<1>5. num \in Nat /\ den \in Nat /\ den > 0 /\ den < K!B ^ 1 /\ rhat \in Nat
  BY <1>2, <1>3, <1>4, KnuthDivisor DEF K!Digits
<1>6. den < K!B
  <2>1. 0 \in 0 .. Lnum /\ 0 + 1 = 1
    BY <1>4
  <2>2. K!B ^ (0 + 1) = K!B * K!B ^ 0 /\ K!B ^ 0 = 1
    BY <2>1, NextPlace, RadixPowers
  <2> QED
    BY <2>2, <1>4, <1>5
<1>7. /\ k \in 0 .. Lnum - 1 /\ k \in 0 .. Lnum /\ k \in 0 .. Lnum + 1 /\ k + 1 = j
      /\ k \in 0 .. j - 1
  BY <1>1, <1>3, <1>4
<1>8. c \in Nat /\ c > 0 /\ K!B ^ j = K!B * c
  BY <1>7, NextPlace
<1>9. x \in 0 .. K!B - 1
  BY <1>5, <1>7, LimbOf
<1>10. rest \in Nat /\ rest < K!B * den
  <2>1. rhat * K!B + K!B <= den * K!B /\ rhat * K!B \in Nat /\ den * K!B = K!B * den
    BY <1>2, <1>4, <1>5, MultipleOrder
  <2> DEFINE rb == rhat * K!B
             db == K!B * den
  <2>2. rb + K!B <= db /\ rb \in Nat /\ db \in Nat /\ rest = rb + x
    BY <2>1, <1>4, <1>5
  <2> HIDE DEF x, rb, db, rest
  <2>3. rest \in Nat /\ rest < db
    BY <2>2, <1>4, <1>9
  <2> QED
    BY <2>3 DEF db
<1> HIDE DEF x
<1>11. rest = rhat * K!B + x
  OBVIOUS
<1> HIDE DEF rest
<1>12. d \in 0 .. K!B - 1
  <2>1. d \in Int /\ 0 <= d /\ d < K!B
    BY <1>4, <1>5, <1>10, QuotientBelow
  <2> HIDE DEF d
  <2> QED
    BY <2>1, <1>4
<1>13. r \in Nat /\ r < den /\ rest = d * den + r
  <2>1. r \in Int /\ rest = d * den + r /\ 0 <= r /\ r < den
    BY <1>5, <1>10, DivMod
  <2> QED
    BY <2>1
<1> HIDE DEF d, r, k, c
<1>14. q' \in [0 .. Lnum - 1 -> K!Digits] /\ q'[k] = d /\ q[k] = 0
       /\ \A h \in 0 .. Lnum - 1 : h # k => q'[h] = q[h]
  BY <1>1, <1>2, <1>7, <1>12 DEF K!Digits
<1>15. K!TypeOK'
  <2>1. rhat' \in K!Digits /\ j' \in 0 .. Lnum
    BY <1>1, <1>4, <1>5, <1>6, <1>7, <1>13 DEF K!Digits
  <2> QED
    BY <2>1, <1>1, <1>14 DEF KnuthInv, K!TypeOK
<1>16. K!Value(q', Lnum) = K!Value(q, Lnum) + d * c /\ K!Value(q, Lnum) \in Nat
  <2>1. Lnum \in 0 .. Lnum + 1 /\ Limbs(q, Lnum) /\ q'[k] \in Int /\ Lnum \in 0 .. Lnum
    BY <1>2, <1>4, <1>12, <1>14 DEF Limbs, K!Digits
  <2>2. K!Value(q', Lnum) = K!Value(q, Lnum) + (q'[k] - q[k]) * K!B ^ k
    BY <2>1, <1>7, <1>14, ValueSet
  <2>3. K!Value(q, Lnum) \in Nat
    BY <2>1, ValueBound
  <2>4. d - 0 = d
    BY <1>12
  <2> QED
    BY <2>2, <2>3, <2>4, <1>14 DEF c
<1>17. num % K!B ^ j = (num % c) + x * c /\ num % c \in Nat
  <2>1. num % (K!B * c) = (num % c) + ((num \div c) % K!B) * c
    <3>1. num \in Nat /\ c \in Nat /\ c > 0 /\ K!B \in Nat /\ K!B > 0
      BY <1>4, <1>5, <1>8
    <3> QED
      BY <3>1, SplitByProduct
  <2>2. x = (num \div c) % K!B
    BY DEF x, K!Limb, c
  <2>3. num % c \in Nat
    BY <1>5, <1>8, DivMod
  <2> QED
    BY <2>1, <2>2, <2>3, <1>8
<1>18. num = K!Value(q', Lnum) * den + r * c + (num % c)
  <2> DEFINE Q == K!Value(q, Lnum)
             s == num % c
             b == K!B
  <2>1. num = Q * den + rhat * (b * c) + (s + x * c)
    BY <1>2, <1>8, <1>17
  <2>2. Q \in Nat /\ s \in Nat /\ b \in Nat /\ c \in Nat /\ x \in Nat /\ den \in Nat
        /\ rhat \in Nat /\ d \in Nat /\ r \in Nat /\ rhat * b + x = d * den + r
    BY <1>4, <1>5, <1>8, <1>9, <1>11, <1>12, <1>13, <1>16, <1>17
  <2> HIDE DEF Q, s, b
  <2>3. rhat * (b * c) + x * c = (rhat * b + x) * c
    BY <2>2
  <2>4. (d * den + r) * c = (d * c) * den + r * c
    BY <2>2
  <2>5. (Q + d * c) * den = Q * den + (d * c) * den
    BY <2>2
  <2>6. rhat * (b * c) + x * c = (d * c) * den + r * c
    BY <2>2, <2>3, <2>4
  <2>7. /\ Q * den \in Int /\ rhat * (b * c) \in Int /\ x * c \in Int
        /\ (d * c) * den \in Int /\ r * c \in Int
    BY <2>2
  <2>8. num = (Q + d * c) * den + r * c + s
    BY <2>1, <2>2, <2>5, <2>6, <2>7
  <2> QED
    BY <2>8, <1>16 DEF Q, s
<1>19. KLimbwise'
  <2>1. num' = K!Value(q', Lnum) * den' + rhat' * K!B ^ j' + (num' % K!B ^ j')
    BY <1>1, <1>18 DEF c
  <2>2. \A h \in 0 .. j' - 1 : q'[h] = 0
    BY <1>1, <1>2, <1>3, <1>7, <1>14
  <2>3. K!n' = 1
    BY <1>1, <1>2, KArgumentsRest
  <2> QED
    BY <2>1, <2>2, <2>3, <1>1, <1>2, <1>13, <1>14 DEF KLimbwise
<1>20. KLoaded' /\ KPlaced' /\ KBetween' /\ KEstimated' /\ KSubtracting' /\ KAdding' /\ KDone'
  BY <1>1 DEF KLoaded, KPlaced, KBetween, KEstimated, KSubtracting, KAdding, KDone, KLoop
<1>21. KResting' /\ KAnswered'
  BY <1>1 DEF KResting, KAnswered, KnuthInv
<1> QED
  BY <1>15, <1>19, <1>20, <1>21 DEF KnuthInv

LEMMA KnuthLimbsDivided == ASSUME KnuthInv, K!LimbsDivided PROVE KnuthInv'
<1>1. /\ stage = "limbs" /\ j = 0 /\ K!Reply(K!WD!Answer("quotient", K!Value(q, Lnum), rhat))
      /\ UNCHANGED <<num, den, j, u, q, qhat, rhat, carry, product, i, borrow>>
  BY DEF K!LimbsDivided, K!call, K!estimate, K!inner
<1>2. /\ den # 0 /\ q \in [0 .. Lnum - 1 -> K!Digits] /\ rhat < den
      /\ num = K!Value(q, Lnum) * den + rhat * K!B ^ 0 + (num % K!B ^ 0)
  BY <1>1 DEF KnuthInv, KLimbwise
<1>3. KArguments /\ rhat \in Nat /\ num \in Nat /\ den \in Nat
  <2>1. KArguments /\ rhat \in K!Digits
    BY DEF KnuthInv, K!TypeOK, KArguments
  <2> QED
    BY <2>1, <1>2, KnuthDivisor, KnuthLimb DEF K!Digits
<1>4. K!Value(q, Lnum) \in Nat
  <2>1. Lnum \in 0 .. Lnum + 1 /\ Limbs(q, Lnum) /\ Lnum \in 0 .. Lnum
    BY <1>2, KnuthLimb DEF Limbs, K!Digits
  <2> QED
    BY <2>1, ValueBound
<1>5. num = K!Value(q, Lnum) * den + rhat
  <2>1. K!B ^ 0 = 1 /\ num % 1 = 0 /\ rhat * 1 = rhat
    BY <1>3, RadixPowers
  <2> DEFINE e == K!Value(q, Lnum) * den
  <2>2. e \in Nat /\ num = e + rhat * 1 + (num % 1)
    BY <2>1, <1>2, <1>3, <1>4
  <2> HIDE DEF e
  <2>3. num = e + rhat
    BY <2>1, <2>2, <1>3
  <2> QED
    BY <2>3 DEF e
<1>6. K!WD!Answer("quotient", K!Value(q, Lnum), rhat) = K!WD!RightAnswer(num, den)
  BY <1>2, <1>3, <1>4, <1>5, KnuthRight
<1> QED
  BY <1>1, <1>6, KnuthReply

-----------------------------------------------------------------------------
(* divmod: the estimate of a digit                                         *)

\* The sizes of what the loop over the digits works on.
LEMMA KnuthLoop ==
  ASSUME KnuthInv, stage \in KLoop
  PROVE  /\ KArguments /\ den # 0 /\ K!n \in 2 .. Lden /\ K!n > 1 /\ K!n \in Nat
         /\ K!B \in Nat /\ K!B > 1 /\ Lnum \in Nat
         /\ j \in Nat /\ j \in 0 .. Lnum /\ j + K!n <= Lnum /\ j \in 0 .. Lnum - 1
         /\ u \in [0 .. Lnum -> 0 .. K!B - 1] /\ Limbs(u, Lnum + 1)
         /\ q \in [0 .. Lnum - 1 -> 0 .. K!B - 1] /\ Limbs(q, Lnum)
         /\ K!Normalised \in Nat /\ K!Normalised > 0
         /\ KPlace \in Nat /\ KPlace > 0 /\ KRest \in Nat /\ KRest < KPlace * K!B
         /\ \A k \in j + K!n + 1 .. Lnum : u[k] = 0
         /\ \A k \in 0 .. j : q[k] = 0
<1>1. KArguments /\ j \in 0 .. Lnum
  BY DEF KnuthInv, K!TypeOK, KArguments
<1>2. /\ den # 0 /\ K!n > 1 /\ u \in [0 .. Lnum -> K!Digits]
      /\ q \in [0 .. Lnum - 1 -> K!Digits]
  BY DEF KnuthInv, KLoaded
<1>3. /\ j + K!n <= Lnum /\ KRest \in Nat /\ KRest < KPlace * K!B
      /\ \A k \in j + K!n + 1 .. Lnum : u[k] = 0
      /\ \A k \in 0 .. j : q[k] = 0
  BY DEF KnuthInv, KPlaced
<1>4. Lnum \in Nat /\ Lden \in Nat /\ K!B \in Nat /\ K!B > 1
  BY KnuthLimb
<1>5. K!n \in 2 .. Lden /\ K!n \in Nat /\ j \in Nat /\ j \in 0 .. Lnum + 1 /\ j \in 0 .. Lnum - 1
  <2>1. K!n \in 1 .. Lden
    BY <1>1, <1>2, KnuthDivisor
  <2> QED
    BY <2>1, <1>1, <1>2, <1>3, <1>4
<1>6. u \in [0 .. Lnum -> 0 .. K!B - 1] /\ q \in [0 .. Lnum - 1 -> 0 .. K!B - 1]
  BY <1>2 DEF K!Digits
<1>7. Limbs(u, Lnum + 1) /\ Limbs(q, Lnum)
  BY <1>4, <1>6 DEF Limbs
<1>8. K!Normalised \in Nat /\ K!Normalised > 0
  <2>1. K!B ^ K!n > 0 /\ K!B ^ K!n \in Nat
    <3>1. K!n \in 0 .. Lnum + 1
      BY <1>3, <1>4, <1>5
    <3> QED
      BY <3>1, PlaceOf
  <2>2. K!Normalised \in Nat /\ K!B ^ K!n <= 2 * K!Normalised
    BY <1>1, <1>2, KnuthDivisor
  <2> QED
    BY <2>1, <2>2
<1>9. KPlace \in Nat /\ KPlace > 0
  <2>1. K!B ^ j \in Nat /\ K!B ^ j > 0
    BY <1>5, PlaceOf
  <2> QED
    BY <2>1, <1>8, PositiveProduct DEF KPlace
<1> QED
  BY <1>1, <1>2, <1>3, <1>4, <1>5, <1>6, <1>7, <1>8, <1>9

\* The digit is what division gives.
LEMMA KnuthDigit ==
  ASSUME KnuthInv, stage \in KLoop
  PROVE  /\ KDigit \in 0 .. K!B - 1 /\ KDigit \in Nat
         /\ KDigit * KPlace <= KRest /\ KRest < KDigit * KPlace + KPlace
         /\ KDigit * KPlace \in Nat
<1>1. /\ K!B \in Nat /\ KPlace \in Nat /\ KPlace > 0 /\ KRest \in Nat
      /\ KRest < KPlace * K!B
  BY KnuthLoop
<1>2. KRest < K!B * KPlace
  BY <1>1
<1> DEFINE x == KRest % KPlace
           d == KDigit
<1>3. d \in Int /\ 0 <= d /\ d < K!B
  BY <1>1, <1>2, QuotientBelow DEF KDigit
<1>4. x \in Int /\ 0 <= x /\ x < KPlace /\ KRest = d * KPlace + x
  BY <1>1, DivMod DEF KDigit
<1> HIDE DEF x, d
<1>5. d * KPlace \in Nat
  BY <1>1, <1>3
<1>6. d * KPlace <= KRest /\ KRest < d * KPlace + KPlace
  BY <1>1, <1>4, <1>5
<1> QED
  BY <1>1, <1>3, <1>5, <1>6 DEF d

\* The estimate looks at what is left through a window of three limbs.
LEMMA KnuthWindow ==
  ASSUME KnuthInv, stage \in {"digit", "correct"}
  PROVE  Window(K!B, K!B ^ (j + K!n - 2), K!v1, K!v2, u[j + K!n], u[j + K!n - 1],
                u[j + K!n - 2], KRest, KPlace)
<1>1. stage \in KLoop /\ K!Value(u, Lnum + 1) = KRest
  BY DEF KLoop, KnuthInv, KBetween, KLeft
<1>2. /\ KArguments /\ den # 0 /\ K!n > 1 /\ j \in Nat /\ j + K!n <= Lnum
      /\ Limbs(u, Lnum + 1) /\ \A k \in j + K!n + 1 .. Lnum : u[k] = 0
      /\ KRest < KPlace * K!B
  BY <1>1, KnuthLoop
<1> QED
  BY <1>1, <1>2, DigitWindow DEF KPlace

LEMMA KnuthEstimate == ASSUME KnuthInv, K!EstimateDigit PROVE KnuthInv'
<1> DEFINE b == K!B
           t2 == u[j + K!n]
           t1 == u[j + K!n - 1]
           t0 == u[j + K!n - 2]
           t == t2 * b + t1
<1>1. /\ stage = "digit" /\ stage' = "correct" /\ product' = qhat' * K!v2
      /\ num' = num /\ den' = den /\ j' = j /\ u' = u /\ q' = q /\ i' = i
      /\ borrow' = borrow /\ answer' = answer
  BY DEF K!EstimateDigit, K!call, K!inner
<1>2. stage \in KLoop
  BY <1>1 DEF KLoop
<1>3. Window(b, b ^ (j + K!n - 2), K!v1, K!v2, t2, t1, t0, KRest, KPlace)
  BY <1>1, KnuthWindow
<1>4. /\ b \in Nat /\ b > 1 /\ K!v1 \in 1 .. b - 1 /\ K!v2 \in 0 .. b - 1
      /\ t2 \in 0 .. b - 1 /\ t1 \in 0 .. b - 1
  BY <1>3 DEF Window
<1>5. qhat' \in 0 .. b - 1 /\ rhat' \in 0 .. b - 1 /\ carry' \in BOOLEAN
      /\ qhat' * K!v1 + (rhat' + IF carry' THEN b ELSE 0) = t /\ KDigit <= qhat'
  <2>1. CASE t2 = K!v1
    <3>1. qhat' = b - 1 /\ rhat' = (t1 + K!v1) % b /\ carry' = (rhat' < t1)
      BY <2>1 DEF K!EstimateDigit
    <3>2. (b - 1) * K!v1 + (t1 + K!v1) = t
      BY <2>1, <1>3, WindowEstimate
    <3>3. rhat' = t1 + K!v1 - (IF rhat' < t1 THEN b ELSE 0) /\ rhat' \in 0 .. b - 1
      <4>1. t1 \in 0 .. b - 1 /\ K!v1 \in 0 .. b - 1 /\ b \in Nat /\ b > 0
        BY <1>4
      <4> DEFINE s == (t1 + K!v1) % b
      <4>2. s = t1 + K!v1 - (IF s < t1 THEN b ELSE 0) /\ s \in 0 .. b - 1
        BY <4>1, WrapsOnce
      <4> QED
        BY <4>2, <3>1
    <3>4. KDigit <= b - 1
      BY <1>2, KnuthDigit
    <3>5. rhat' + (IF carry' THEN b ELSE 0) = t1 + K!v1
      <4>1. CASE rhat' < t1
        <5>1. rhat' = t1 + K!v1 - b
          BY <4>1, <3>3
        <5>2. (IF carry' THEN b ELSE 0) = b
          BY <4>1, <3>1
        <5> QED
          BY <5>1, <5>2, <1>4
      <4>2. CASE ~(rhat' < t1)
        <5>1. rhat' = t1 + K!v1
          BY <4>2, <3>3, <1>4
        <5>2. (IF carry' THEN b ELSE 0) = 0
          BY <4>2, <3>1
        <5> QED
          BY <5>1, <5>2, <1>4
      <4> QED
        BY <4>1, <4>2
    <3> HIDE DEF t
    <3> QED
      BY <3>1, <3>2, <3>3, <3>4, <3>5, <1>4
  <2>2. CASE t2 # K!v1
    <3>1. qhat' = t \div K!v1 /\ rhat' = t % K!v1 /\ carry' = FALSE
      BY <2>2 DEF K!EstimateDigit
    <3>2. /\ t \div K!v1 \in 0 .. b - 1 /\ t % K!v1 \in 0 .. b - 1
          /\ KRest \div KPlace <= t \div K!v1
          /\ (t \div K!v1) * K!v1 + (t % K!v1) = t
      BY <2>2, <1>3, WindowEstimate
    <3> HIDE DEF t
    <3>3. qhat' * K!v1 + rhat' = t
      BY <3>1, <3>2
    <3>4. rhat' + (IF carry' THEN b ELSE 0) = rhat'
      BY <3>1, <3>2
    <3> QED
      BY <3>1, <3>2, <3>3, <3>4 DEF KDigit
  <2> QED
    BY <2>1, <2>2
<1>6. product' \in 0 .. b * b - 1
  <2> DEFINE y == qhat'
             v == K!v2
  <2>1. y \in 0 .. b - 1 /\ v \in 0 .. b - 1 /\ b \in Nat /\ b > 1
    BY <1>4, <1>5
  <2> HIDE DEF y, v, b
  <2>2. y * v \in Nat /\ y * v <= b * v /\ v * b + b <= b * b /\ b * v = v * b
        /\ v * b \in Nat /\ b * b \in Nat
    BY <2>1, ProductBelow, MultipleOrder
  <2>3. y * v \in 0 .. b * b - 1
    BY <2>1, <2>2
  <2> QED
    BY <2>3, <1>1 DEF y, v
<1>7. K!TypeOK'
  BY <1>1, <1>5, <1>6 DEF KnuthInv, K!TypeOK, K!Digits
<1>8. KRest' = KRest /\ KPlace' = KPlace /\ KDigit' = KDigit /\ KLeft' = KLeft
      /\ K!n' = K!n /\ K!v1' = K!v1 /\ K!v2' = K!v2
  BY <1>1, KDigitRests, KArgumentsRest DEF KLeft
<1>9. KLoaded' /\ KPlaced' /\ KBetween'
  BY <1>1, <1>2, <1>8 DEF KnuthInv, KLoaded, KPlaced, KBetween, KLoop
<1>10. KEstimated'
  BY <1>1, <1>5, <1>8 DEF KEstimated
<1>11. KSubtracting' /\ KAdding' /\ KDone' /\ KLimbwise' /\ KResting'
  BY <1>1 DEF KSubtracting, KAdding, KDone, KLimbwise, KResting
<1>12. KAnswered'
  BY <1>1 DEF KAnswered, KnuthInv
<1> QED
  BY <1>7, <1>9, <1>10, <1>11, <1>12 DEF KnuthInv

LEMMA KnuthCorrect == ASSUME KnuthInv, K!Correct PROVE KnuthInv'
<1> DEFINE b == K!B
           t2 == u[j + K!n]
           t1 == u[j + K!n - 1]
           t0 == u[j + K!n - 2]
           t == t2 * b + t1
<1>1. /\ stage = "correct" /\ stage' = "correct"
      /\ ~carry /\ product > rhat * b + t0
      /\ qhat' = qhat - 1 /\ product' = product - K!v2
      /\ rhat' = (rhat + K!v1) % b /\ carry' = (rhat' < rhat)
      /\ num' = num /\ den' = den /\ j' = j /\ u' = u /\ q' = q /\ i' = i
      /\ borrow' = borrow /\ answer' = answer
  BY DEF K!Correct, K!TooLarge, K!call, K!inner
<1>2. stage \in KLoop
  BY <1>1 DEF KLoop
<1>3. Window(b, b ^ (j + K!n - 2), K!v1, K!v2, t2, t1, t0, KRest, KPlace)
  BY <1>1, KnuthWindow
<1>4. /\ b \in Nat /\ b > 1 /\ K!v1 \in 1 .. b - 1 /\ K!v2 \in 0 .. b - 1
      /\ t2 \in 0 .. b - 1 /\ t1 \in 0 .. b - 1
  BY <1>3 DEF Window
<1>5. qhat \in 0 .. b - 1 /\ rhat \in 0 .. b - 1 /\ product \in 0 .. b * b - 1
  BY DEF KnuthInv, K!TypeOK, K!Digits
<1>6. product = qhat * K!v2 /\ qhat * K!v1 + rhat = t /\ KDigit <= qhat
  <2>1. /\ product = qhat * K!v2 /\ KDigit <= qhat
        /\ qhat * K!v1 + (rhat + IF carry THEN b ELSE 0) = t
    BY <1>1 DEF KnuthInv, KEstimated
  <2>2. rhat + (IF carry THEN b ELSE 0) = rhat
    BY <1>1, <1>5
  <2> QED
    BY <2>1, <2>2
<1>7. KRest < qhat * KPlace
  BY <1>1, <1>3, <1>5, <1>6, WindowTooLarge
<1>8. KDigit < qhat
  <2>1. KDigit \in Nat /\ KDigit * KPlace <= KRest /\ KPlace \in Nat /\ KPlace > 0 /\ KRest \in Nat
        /\ KDigit * KPlace \in Nat
    BY <1>2, KnuthDigit, KnuthLoop
  <2>2. qhat * KPlace \in Int
    BY <2>1, <1>5
  <2>3. KDigit * KPlace < qhat * KPlace
    BY <2>1, <2>2, <1>7
  <2> QED
    BY <2>1, <2>3, <1>5, CancelFactor
<1>9. qhat' \in 0 .. b - 1 /\ KDigit <= qhat'
  <2>1. KDigit \in Nat
    BY <1>2, KnuthDigit
  <2> QED
    BY <2>1, <1>1, <1>4, <1>5, <1>8
<1>10. product' = qhat' * K!v2 /\ product' \in 0 .. b * b - 1
  <2> DEFINE y == qhat
             v == K!v2
  <2>1. y \in Nat /\ y > 0 /\ v \in Nat /\ b \in Nat /\ product = y * v /\ product < b * b
        /\ product' = product - v /\ qhat' = y - 1 /\ b * b \in Nat
    BY <1>1, <1>4, <1>5, <1>6, <1>9
  <2> HIDE DEF y, v, b
  <2>2. (y - 1) * v = y * v - v /\ v <= y * v
    BY <2>1, PositiveProduct
  <2> QED
    BY <2>1, <2>2 DEF v
<1>11. /\ rhat' = rhat + K!v1 - (IF rhat' < rhat THEN b ELSE 0) /\ rhat' \in 0 .. b - 1
  BY <1>1, <1>4, <1>5, WrapsOnce
<1>12. rhat' + (IF carry' THEN b ELSE 0) = rhat + K!v1
  <2>1. CASE rhat' < rhat
    <3>1. rhat' = rhat + K!v1 - b
      BY <2>1, <1>11
    <3>2. (IF carry' THEN b ELSE 0) = b
      BY <2>1, <1>1
    <3> QED
      BY <3>1, <3>2, <1>4, <1>5
  <2>2. CASE ~(rhat' < rhat)
    <3>1. rhat' = rhat + K!v1
      BY <2>2, <1>11, <1>4, <1>5
    <3>2. (IF carry' THEN b ELSE 0) = 0
      BY <2>2, <1>1
    <3> QED
      BY <3>1, <3>2, <1>4, <1>5
  <2> QED
    BY <2>1, <2>2
<1>13. qhat' * K!v1 + (rhat' + IF carry' THEN b ELSE 0) = t
  <2>1. (qhat - 1) * K!v1 = qhat * K!v1 - K!v1 /\ qhat * K!v1 \in Nat
    BY <1>4, <1>5
  <2> HIDE DEF t
  <2> QED
    BY <2>1, <1>1, <1>4, <1>5, <1>6, <1>12
<1>14. K!TypeOK'
  BY <1>1, <1>9, <1>10, <1>11 DEF KnuthInv, K!TypeOK, K!Digits
<1>15. KRest' = KRest /\ KPlace' = KPlace /\ KDigit' = KDigit /\ KLeft' = KLeft
      /\ K!n' = K!n /\ K!v1' = K!v1 /\ K!v2' = K!v2
  BY <1>1, KDigitRests, KArgumentsRest DEF KLeft
<1>16. KLoaded' /\ KPlaced' /\ KBetween'
  BY <1>1, <1>2, <1>15 DEF KnuthInv, KLoaded, KPlaced, KBetween, KLoop
<1>17. KEstimated'
  BY <1>1, <1>9, <1>10, <1>13, <1>15 DEF KEstimated
<1>18. KSubtracting' /\ KAdding' /\ KDone' /\ KLimbwise' /\ KResting'
  BY <1>1 DEF KSubtracting, KAdding, KDone, KLimbwise, KResting
<1>19. KAnswered'
  BY <1>1 DEF KAnswered, KnuthInv
<1> QED
  BY <1>14, <1>16, <1>17, <1>18, <1>19 DEF KnuthInv

LEMMA KnuthCorrected == ASSUME KnuthInv, K!Corrected PROVE KnuthInv'
<1> DEFINE b == K!B
           t2 == u[j + K!n]
           t1 == u[j + K!n - 1]
           t0 == u[j + K!n - 2]
           r == rhat + IF carry THEN b ELSE 0
<1>1. /\ stage = "correct" /\ stage' = "subtract" /\ i' = 0 /\ borrow' = 0
      /\ carry \/ ~(product > rhat * b + t0)
      /\ num' = num /\ den' = den /\ j' = j /\ u' = u /\ q' = q /\ answer' = answer
      /\ qhat' = qhat /\ rhat' = rhat /\ carry' = carry /\ product' = product
  BY DEF K!Corrected, K!TooLarge, K!call, K!estimate
<1>2. stage \in KLoop
  BY <1>1 DEF KLoop
<1>3. Window(b, b ^ (j + K!n - 2), K!v1, K!v2, t2, t1, t0, KRest, KPlace)
  BY <1>1, KnuthWindow
<1>4. b \in Nat /\ b > 1 /\ t0 \in 0 .. b - 1
  BY <1>3 DEF Window
<1>5. qhat \in 0 .. b - 1 /\ rhat \in 0 .. b - 1 /\ product \in 0 .. b * b - 1
      /\ carry \in BOOLEAN
  BY DEF KnuthInv, K!TypeOK, K!Digits
<1>6. product = qhat * K!v2 /\ qhat * K!v1 + r = t2 * b + t1 /\ KDigit <= qhat
  BY <1>1 DEF KnuthInv, KEstimated
<1>7. r \in Nat
  BY <1>4, <1>5
<1>8. r >= b \/ qhat * K!v2 <= r * b + t0
  <2>1. CASE carry
    BY <2>1, <1>4, <1>5
  <2>2. CASE ~carry
    <3>1. r = rhat
      BY <2>2, <1>5
    <3>2. rhat * b \in Nat
      BY <1>4, <1>5
    <3> QED
      BY <2>2, <3>1, <3>2, <1>1, <1>4, <1>5, <1>6
  <2> QED
    BY <2>1, <2>2
<1> HIDE DEF r
<1>9. qhat * KPlace < KRest + KPlace
  BY <1>3, <1>5, <1>6, <1>7, <1>8, WindowClose
<1>10. qhat < KDigit + 2
  <2> DEFINE d == KDigit
  <2>1. d \in Nat /\ KPlace \in Nat /\ KPlace > 0 /\ KRest \in Nat
        /\ KRest < d * KPlace + KPlace /\ d * KPlace \in Nat
    BY <1>2, KnuthDigit, KnuthLoop
  <2> HIDE DEF d
  <2>2. (d + 2) * KPlace = d * KPlace + KPlace + KPlace /\ qhat * KPlace \in Int
    BY <2>1, <1>5
  <2>3. qhat * KPlace < (d + 2) * KPlace
    BY <2>1, <2>2, <1>9
  <2>4. d + 2 \in Int /\ qhat \in Int
    BY <2>1, <1>5
  <2>5. qhat < d + 2
    BY <2>1, <2>3, <2>4, CancelFactor
  <2> QED
    BY <2>5 DEF d
<1>11. qhat \in {KDigit, KDigit + 1}
  <2>1. KDigit \in Nat
    BY <1>2, KnuthDigit
  <2> QED
    BY <2>1, <1>5, <1>6, <1>10
<1>12. K!TypeOK'
  BY <1>1, KZeros DEF KnuthInv, K!TypeOK
<1>13. KRest' = KRest /\ KPlace' = KPlace /\ KDigit' = KDigit /\ KLeft' = KLeft
      /\ K!n' = K!n /\ K!Normalised' = K!Normalised
  BY <1>1, KDigitRests, KArgumentsRest DEF KLeft
<1>14. KLoaded' /\ KPlaced' /\ KBetween'
  BY <1>1, <1>2, <1>13 DEF KnuthInv, KLoaded, KPlaced, KBetween, KLoop
<1>15. KSubtracting'
  <2>1. K!n \in Nat /\ KLeft = KRest /\ KRest \in Nat /\ K!Normalised \in Nat /\ j \in 0 .. Lnum + 1
    BY <1>1, <1>2, KnuthLoop DEF KnuthInv, KBetween
  <2>2. K!B ^ 0 = 1 /\ K!B ^ j \in Nat
    BY <2>1, RadixPowers, PlaceOf
  <2>3. K!Normalised % K!B ^ 0 = 0
    <3>1. K!Normalised % 1 = 0
      BY <2>1
    <3> QED
      BY <3>1, <2>2
  <2>4. KRest - 0 * (K!B ^ 0 * K!B ^ j) + qhat * ((K!Normalised % K!B ^ 0) * K!B ^ j) = KRest
    <3>1. 0 * (K!B ^ 0 * K!B ^ j) = 0
      BY <2>2
    <3>2. qhat * (0 * K!B ^ j) = 0
      BY <2>2, <1>5
    <3> QED
      BY <3>1, <3>2, <2>1, <2>3
  <2> QED
    BY <2>1, <2>4, <1>1, <1>11, <1>13 DEF KSubtracting
<1>16. KEstimated' /\ KAdding' /\ KDone' /\ KLimbwise' /\ KResting'
  BY <1>1 DEF KEstimated, KAdding, KDone, KLimbwise, KResting
<1>17. KAnswered'
  BY <1>1 DEF KAnswered, KnuthInv
<1> QED
  BY <1>12, <1>14, <1>15, <1>16, <1>17 DEF KnuthInv

\* Shifted into place, the dividend is below the divisor above its top limb.
LEMMA KnuthPlaced ==
  ASSUME KArguments, den # 0, K!n > 1, NEW a \in 0 .. Lnum, num < K!B ^ a, K!n <= a
  PROVE  LET lifted == num * 2 ^ K!shift
         IN  /\ lifted \in Nat /\ lifted < K!B ^ (a + 1)
             /\ lifted < (K!Normalised * K!B ^ (a - K!n)) * K!B
<1> DEFINE b == K!B
           p == 2 ^ K!shift
           lifted == num * p
           e == b ^ (a - K!n)
           f == b ^ (K!n - 1)
           g == b ^ a
<1>1. /\ num \in Nat /\ den \in Nat /\ K!n \in 1 .. Lden /\ f <= den /\ LimbAndShift(b, p)
      /\ K!Normalised = den * p
  BY KnuthDivisor
<1>2. b \in Nat /\ b > 1 /\ Lnum \in Nat /\ Lden \in Nat
  BY KnuthLimb
<1>3. PICK c \in Nat : c > 1 /\ b = p * c
  BY <1>1 DEF LimbAndShift
<1>4. p \in Nat /\ p > 0
  BY <1>1 DEF LimbAndShift
<1>5. /\ a \in 0 .. Lnum + 1 /\ a - K!n \in 0 .. Lnum /\ K!n - 1 \in 0 .. Lnum + 1
      /\ a - K!n + 1 \in 0 .. Lnum + 1 /\ (K!n - 1) + (a - K!n + 1) = a
      /\ (K!n - 1) + (a - K!n + 1) <= Lnum + 1
  BY <1>1, <1>2
<1>6. g \in Nat /\ g > 0 /\ f \in Nat /\ f > 0 /\ e \in Nat /\ e > 0 /\ b ^ (a - K!n + 1) = b * e
  BY <1>5, PlaceOf, NextPlace
<1>7. g = f * (b * e)
  <2>1. b ^ ((K!n - 1) + (a - K!n + 1)) = b ^ (K!n - 1) * b ^ (a - K!n + 1)
    BY <1>5, RadixPowers
  <2> QED
    BY <2>1, <1>5, <1>6
<1>8. b ^ (a + 1) = b * g
  BY NextPlace
<1>9. num < g
  OBVIOUS
<1> HIDE DEF b, p, e, f, g
<1>10. lifted \in Nat /\ lifted < p * g /\ p * g \in Nat
  <2>1. num * p + p <= g * p /\ g * p = p * g /\ num * p \in Nat /\ p * g \in Nat
    BY <1>1, <1>4, <1>6, <1>9, MultipleOrder
  <2> QED
    BY <2>1, <1>4
<1> HIDE DEF lifted
<1>11. p * g <= b * g /\ b * g \in Nat
  <2>1. p <= b
    BY <1>3, <1>4, PositiveProduct
  <2> QED
    BY <2>1, <1>2, <1>4, <1>6, ProductBelow
<1>12. p * g <= ((den * p) * e) * b /\ ((den * p) * e) * b \in Nat
  <2> DEFINE y == b * e
  <2>1. y \in Nat
    BY <1>2, <1>6
  <2>2. ((den * p) * e) * b = (den * y) * p
    BY <1>1, <1>2, <1>4, <1>6
  <2> HIDE DEF y
  <2>3. f * y <= den * y /\ f * y \in Nat /\ den * y \in Nat
    BY <2>1, <1>1, <1>6, ProductBelow
  <2> DEFINE x == f * y
             z == den * y
  <2>4. g = x /\ x \in Nat /\ z \in Nat /\ x <= z
    BY <2>3, <1>7 DEF y
  <2> HIDE DEF x, z
  <2>5. x * p <= z * p /\ x * p = p * x /\ z * p \in Nat
    BY <2>4, <1>4, ProductBelow
  <2> QED
    BY <2>2, <2>4, <2>5 DEF z
<1>13. lifted < b * g /\ lifted < ((den * p) * e) * b
  <2> DEFINE x == p * g
             y == b * g
             z == ((den * p) * e) * b
  <2>1. x \in Nat /\ y \in Nat /\ z \in Nat /\ lifted < x /\ x <= y /\ x <= z
    BY <1>10, <1>11, <1>12
  <2> HIDE DEF x, y, z
  <2>2. lifted < y /\ lifted < z
    BY <2>1, <1>10
  <2> QED
    BY <2>2 DEF y, z
<1> QED
  BY <1>1, <1>8, <1>10, <1>13 DEF lifted, b, p, e, g

LEMMA KnuthNormalise == ASSUME KnuthInv, K!Normalise PROVE KnuthInv'
<1> DEFINE a == K!ActiveLimbs(num)
           lifted == num * 2 ^ K!shift
<1>1. /\ stage = "divide" /\ K!n > 1 /\ a >= K!n /\ stage' = "digit" /\ j' = a - K!n
      /\ u' = [k \in 0 .. Lnum |-> K!Limb(lifted, k)] /\ q' = K!Zeros(Lnum)
      /\ num' = num /\ den' = den /\ answer' = answer
      /\ qhat' = qhat /\ rhat' = rhat /\ carry' = carry /\ product' = product
      /\ i' = i /\ borrow' = borrow
  BY DEF K!Normalise, K!call, K!estimate, K!inner
<1>2. KArguments
  BY DEF KnuthInv, K!TypeOK, KArguments
<1>3. den # 0 /\ Lnum \in Nat /\ Lden \in Nat /\ K!B \in Nat /\ K!B > 1
  <2>1. K!n # 0
    BY <1>1
  <2> QED
    BY <2>1, <1>2, KnuthNonzero, KnuthLimb
<1>4. a \in 0 .. Lnum /\ num < K!B ^ a
  BY <1>2, <1>3, KnuthLimbsOfNum
<1>5. K!n \in 1 .. Lden /\ K!n \in Nat
  BY <1>2, <1>3, KnuthDivisor
<1> HIDE DEF a
<1>6. lifted \in Nat /\ lifted < K!B ^ (a + 1) /\ lifted < (K!Normalised * K!B ^ (a - K!n)) * K!B
  BY <1>1, <1>2, <1>3, <1>4, KnuthPlaced
<1> HIDE DEF lifted
<1>7. /\ j' \in 0 .. Lnum /\ j' + K!n = a /\ a + 1 \in 0 .. Lnum + 1
  BY <1>1, <1>3, <1>4, <1>5
<1>8. u' \in [0 .. Lnum -> 0 .. K!B - 1]
  <2>1. \A k \in 0 .. Lnum : K!Limb(lifted, k) \in 0 .. K!B - 1
    <3> TAKE k \in 0 .. Lnum
    <3>1. k \in 0 .. Lnum + 1
      BY <1>3
    <3> QED
      BY <3>1, <1>6, LimbOf
  <2> QED
    BY <2>1, <1>1
<1>9. q' \in [0 .. Lnum - 1 -> K!Digits] /\ \A k \in 0 .. Lnum - 1 : q'[k] = 0
  BY <1>1, KZeros DEF K!Zeros
<1>10. K!TypeOK'
  BY <1>1, <1>7, <1>8, <1>9 DEF KnuthInv, K!TypeOK, K!Digits
<1>11. K!Value(q', Lnum) = 0
  <2>1. Lnum \in 0 .. Lnum + 1
    BY <1>3
  <2> QED
    BY <2>1, <1>9, ValueZeros
<1>12. K!n' = K!n /\ K!Normalised' = K!Normalised /\ K!shift' = K!shift
       /\ K!Normalised \in Nat
  BY <1>1, <1>2, <1>3, KArgumentsRest, KnuthDivisor
<1>13. KRest' = lifted
  <2>1. KRest' = num' * 2 ^ K!shift' - K!Value(q', Lnum) * K!Normalised'
    BY DEF KRest
  <2>2. KRest' = lifted - 0 * K!Normalised
    BY <2>1, <1>1, <1>11, <1>12 DEF lifted
  <2>3. 0 * K!Normalised = 0 /\ lifted - 0 = lifted
    BY <1>6, <1>12
  <2> QED
    BY <2>2, <2>3
<1>14. KPlace' = K!Normalised * K!B ^ (a - K!n)
  BY <1>1, <1>12 DEF KPlace
<1>15. K!Value(u', Lnum + 1) = lifted
  <2>1. Lnum + 1 \in 0 .. Lnum + 1 /\ \A k \in 0 .. (Lnum + 1) - 1 : u'[k] = K!Limb(lifted, k)
    BY <1>1, <1>3
  <2>2. K!Value(u', Lnum + 1) = lifted % K!B ^ (Lnum + 1)
    BY <2>1, <1>6, ValueLimbs
  <2>3. K!B ^ (a + 1) <= K!B ^ (Lnum + 1) /\ K!B ^ (Lnum + 1) \in Nat /\ K!B ^ (a + 1) \in Nat
    <3> DEFINE b == K!B
               m == Lnum + 1
               y == a + 1
    <3>1. b \in Nat /\ b > 0 /\ m \in Nat /\ PowerLaws(b, m) /\ y \in 0 .. m /\ m \in 0 .. m
          /\ y <= m
      BY <1>3, <1>7, KnuthLimb
    <3>2. b ^ m \in Nat /\ b ^ y \in Nat
      BY <3>1, PlaceOf
    <3> HIDE DEF b, m, y
    <3>3. b ^ y <= b ^ m
      BY <3>1, PowersOrder
    <3> QED
      BY <3>2, <3>3 DEF b, m, y
  <2>4. lifted % K!B ^ (Lnum + 1) = lifted
    <3> DEFINE m == K!B ^ (Lnum + 1)
               y == K!B ^ (a + 1)
    <3>1. m \in Nat /\ y \in Nat /\ y <= m /\ lifted < y /\ lifted \in Nat
      BY <2>3, <1>6
    <3> HIDE DEF m, y
    <3>2. lifted < m
      BY <3>1
    <3>3. lifted % m = lifted
      BY <3>1, <3>2, RemainderOfSmall
    <3> QED
      BY <3>3 DEF m
  <2> QED
    BY <2>2, <2>4
<1>16. ASSUME NEW k \in a + 1 .. Lnum PROVE u'[k] = 0
  <2>1. k \in 0 .. Lnum /\ k \in 0 .. Lnum + 1 /\ a + 1 \in 0 .. Lnum + 1 /\ a + 1 <= k
    BY <1>3, <1>7
  <2> DEFINE b == K!B
             m == Lnum + 1
             y == a + 1
             c == b ^ k
  <2>2. c \in Nat /\ c > 0 /\ b ^ y \in Nat /\ lifted < b ^ y
    BY <2>1, <1>6, PlaceOf
  <2>3. b \in Nat /\ b > 0 /\ m \in Nat /\ PowerLaws(b, m) /\ y \in 0 .. m /\ k \in 0 .. m
        /\ y <= k
    BY <2>1, <1>3, KnuthLimb
  <2>4. u'[k] = (lifted \div c) % b
    BY <2>1, <1>1 DEF K!Limb
  <2> HIDE DEF b, m, y, c
  <2>5. b ^ y <= c
    BY <2>3, PowersOrder DEF c
  <2>6. lifted = 0 * c + lifted /\ lifted < c
    BY <2>2, <2>5, <1>6
  <2>7. lifted \div c = 0
    BY <2>2, <2>6, <1>6, DivUnique
  <2>8. 0 % b = 0
    BY <2>3
  <2> QED
    BY <2>4, <2>7, <2>8
<1>17. KLoaded'
  BY <1>1, <1>3, <1>8, <1>9, <1>12 DEF KLoaded, K!Digits
<1>18. KPlaced'
  <2>1. j' + K!n' <= Lnum
    BY <1>4, <1>7, <1>12
  <2>2. \A k \in 0 .. j' : q'[k] = 0
    <3>1. \A l \in 0 .. Lnum - 1 : \A k \in 0 .. l : q'[k] = 0
      BY <1>9, <1>3
    <3>2. j' \in 0 .. Lnum - 1
      <4>1. a - K!n \in 0 .. Lnum - 1
        BY <1>1, <1>3, <1>4, <1>5
      <4> QED
        BY <4>1, <1>1
    <3> QED
      BY <3>1, <3>2
  <2>3. \A k \in j' + K!n' + 1 .. Lnum : u'[k] = 0
    <3>1. j' + K!n' = a
      BY <1>7, <1>12
    <3> QED
      BY <3>1, <1>16
  <2>4. KRest' \in Nat /\ KRest' < KPlace' * K!B
    BY <1>6, <1>13, <1>14
  <2> QED
    BY <2>1, <2>2, <2>3, <2>4 DEF KPlaced
<1>19. KBetween'
  BY <1>13, <1>15 DEF KBetween, KLeft
<1>20. KEstimated' /\ KSubtracting' /\ KAdding' /\ KDone' /\ KLimbwise' /\ KResting'
  BY <1>1 DEF KEstimated, KSubtracting, KAdding, KDone, KLimbwise, KResting
<1>21. KAnswered'
  BY <1>1 DEF KAnswered, KnuthInv
<1> QED
  BY <1>10, <1>17, <1>18, <1>19, <1>20, <1>21 DEF KnuthInv

-----------------------------------------------------------------------------
(* divmod: the multiply-subtract and the add-back                          *)

\* One more limb of the divisor, and where it stands above limb j.
LEMMA KnuthNextLimb ==
  ASSUME KnuthInv, stage \in KLoop, NEW k \in Nat, k < K!n
  PROVE  /\ K!Limb(K!Normalised, k) \in 0 .. K!B - 1
         /\ K!Normalised % K!B ^ k \in Nat
         /\ K!Normalised % K!B ^ (k + 1)
              = (K!Normalised % K!B ^ k) + K!Limb(K!Normalised, k) * K!B ^ k
         /\ K!B ^ (k + 1) = K!B * K!B ^ k
         /\ K!B ^ k \in Nat /\ K!B ^ k > 0 /\ K!B ^ j \in Nat /\ K!B ^ j > 0
         /\ K!B ^ (j + k) = K!B ^ k * K!B ^ j
         /\ j + k \in 0 .. j + K!n - 1 /\ j + k \in 0 .. Lnum
<1> DEFINE b == K!B
           v == K!Normalised
           c == b ^ k
           x == K!Limb(v, k)
<1>1. /\ K!n \in Nat /\ b \in Nat /\ b > 1 /\ Lnum \in Nat /\ j \in Nat /\ j \in 0 .. Lnum
      /\ j + K!n <= Lnum /\ v \in Nat
  BY KnuthLoop
<1>2. /\ k \in 0 .. Lnum /\ k \in 0 .. Lnum + 1 /\ j \in 0 .. Lnum + 1 /\ k + j <= Lnum + 1
      /\ j + k = k + j /\ j + k \in 0 .. j + K!n - 1 /\ j + k \in 0 .. Lnum
  BY <1>1
<1>3. c \in Nat /\ c > 0 /\ b ^ (k + 1) = b * c /\ b ^ j \in Nat /\ b ^ j > 0
  BY <1>2, NextPlace, PlaceOf
<1>4. b ^ (k + j) = c * b ^ j
  BY <1>2, RadixPowers
<1>5. x \in 0 .. b - 1
  BY <1>1, <1>2, LimbOf
<1>6. x = (v \div c) % b
  BY DEF K!Limb
<1>7. v % (b * c) = (v % c) + ((v \div c) % b) * c
  <2>1. v \in Nat /\ c \in Nat /\ c > 0 /\ b \in Nat /\ b > 0
    BY <1>1, <1>3
  <2> HIDE DEF v, c, b
  <2> QED
    BY <2>1, SplitByProduct
<1>8. v % c \in Nat
  BY <1>1, <1>3, DivMod
<1>9. v % b ^ (k + 1) = (v % c) + x * c
  BY <1>3, <1>6, <1>7
<1> QED
  BY <1>2, <1>3, <1>4, <1>5, <1>8, <1>9

LEMMA KnuthSubtractLimb == ASSUME KnuthInv, K!SubtractLimb PROVE KnuthInv'
<1> DEFINE b == K!B
           d == K!Limb(K!Normalised, i)
           x == u[j + i]
           out == LimbBorrow(b, x, qhat, d, borrow)
           y == (x - TakenLimb(b, qhat, d, borrow)) % b
<1>1. /\ stage = "subtract" /\ stage' = stage /\ i < K!n /\ i' = i + 1
      /\ u' = [u EXCEPT ![j + i] = (@ - TakenLimb(b, qhat, d, borrow)) % b] /\ borrow' = out
      /\ num' = num /\ den' = den /\ j' = j /\ q' = q /\ answer' = answer
      /\ qhat' = qhat /\ rhat' = rhat /\ carry' = carry /\ product' = product
  BY DEF K!SubtractLimb, K!call, K!estimate, TakenLimb, LimbBorrow
<1>2. stage \in KLoop
  BY <1>1 DEF KLoop
<1>3. i \in Nat /\ qhat \in 0 .. b - 1 /\ borrow \in 0 .. b - 1
  <2>1. i \in 0 .. Lden
    BY DEF KnuthInv, K!TypeOK
  <2> QED
    BY <2>1, KnuthLimb DEF KnuthInv, K!TypeOK, K!Digits
<1>4. /\ d \in 0 .. b - 1 /\ K!Normalised % b ^ i \in Nat
      /\ K!Normalised % b ^ (i + 1) = (K!Normalised % b ^ i) + d * b ^ i
      /\ b ^ (i + 1) = b * b ^ i
      /\ b ^ i \in Nat /\ b ^ j \in Nat /\ b ^ (j + i) = b ^ i * b ^ j
      /\ j + i \in 0 .. j + K!n - 1 /\ j + i \in 0 .. Lnum
  BY <1>1, <1>2, <1>3, KnuthNextLimb
<1>5. /\ b \in Nat /\ b > 1 /\ Lnum \in Nat /\ u \in [0 .. Lnum -> 0 .. b - 1]
      /\ Limbs(u, Lnum + 1) /\ K!n \in 2 .. Lden /\ j \in Nat /\ j + K!n <= Lnum
      /\ KRest \in Nat /\ \A k \in j + K!n + 1 .. Lnum : u[k] = 0
  BY <1>2, KnuthLoop
<1>6. x \in 0 .. b - 1
  BY <1>4, <1>5
<1>7. out \in 0 .. b - 1 /\ y \in 0 .. b - 1 /\ y - x = b * out - qhat * d - borrow
  <2>1. /\ b \in Nat /\ b > 1 /\ x \in 0 .. b - 1 /\ qhat \in 0 .. b - 1 /\ d \in 0 .. b - 1
        /\ borrow \in 0 .. b - 1
    BY <1>3, <1>4, <1>5, <1>6
  <2> HIDE DEF b, d, x
  <2> QED
    BY <2>1, SubtractOneLimb
<1>8. u' = [u EXCEPT ![j + i] = y] /\ borrow' = out
  BY <1>1, <1>4, <1>5
<1> HIDE DEF out, y, d
<1>9. /\ u' \in [0 .. Lnum -> 0 .. b - 1] /\ u'[j + i] = y
      /\ \A k \in 0 .. Lnum : k # j + i => u'[k] = u[k]
  BY <1>4, <1>5, <1>7, <1>8
<1>10. KRest' = KRest /\ KPlace' = KPlace /\ KDigit' = KDigit
       /\ K!n' = K!n /\ K!Normalised' = K!Normalised
  BY <1>1, KDigitRests, KArgumentsRest
<1>11. KLeft' = KLeft + (y - x) * (b ^ i * b ^ j) /\ KLeft \in Nat
  <2>1. Lnum + 1 \in 0 .. Lnum + 1 /\ j + i \in 0 .. (Lnum + 1) - 1 /\ y \in Int
        /\ \A k \in 0 .. (Lnum + 1) - 1 : k # j + i => u'[k] = u[k]
    BY <1>4, <1>5, <1>7, <1>9
  <2>2. K!Value(u', Lnum + 1) = K!Value(u, Lnum + 1) + (u'[j + i] - u[j + i]) * b ^ (j + i)
    <3> DEFINE l == j + i
               z == u'
               w == u
               m == Lnum + 1
    <3>1. /\ m \in 0 .. Lnum + 1 /\ Limbs(w, m) /\ l \in 0 .. m - 1 /\ z[l] \in Int
          /\ \A k \in 0 .. m - 1 : k # l => z[k] = w[k]
      BY <2>1, <1>5, <1>9
    <3> HIDE DEF l, z, w, m
    <3>2. K!Value(z, m) = K!Value(w, m) + (z[l] - w[l]) * K!B ^ l
      BY <3>1, ValueSet
    <3> QED
      BY <3>2 DEF l, z, w, m
  <2>3. K!Value(u, Lnum + 1) \in Nat
    BY <2>1, <1>5, ValueBound
  <2> QED
    BY <2>2, <2>3, <1>4, <1>9 DEF KLeft
<1>12. /\ i <= K!n /\ qhat \in {KDigit, KDigit + 1}
       /\ KLeft - borrow * (b ^ i * b ^ j) + qhat * ((K!Normalised % b ^ i) * b ^ j) = KRest
  BY <1>1 DEF KnuthInv, KSubtracting
<1>13. KLeft' - out * ((b * b ^ i) * b ^ j)
         + qhat * (((K!Normalised % b ^ i) + d * b ^ i) * b ^ j) = KRest
  <2> DEFINE ci == b ^ i
             cj == b ^ j
             m == K!Normalised % ci
             U == KLeft
             R == KRest
  <2>1. /\ U \in Int /\ borrow \in Int /\ out \in Int /\ qhat \in Int /\ m \in Int /\ d \in Int
        /\ b \in Int /\ ci \in Int /\ cj \in Int /\ R \in Int /\ x \in Int /\ y \in Int
        /\ y - x = b * out - qhat * d - borrow
        /\ U - borrow * (ci * cj) + qhat * (m * cj) = R
    BY <1>3, <1>4, <1>5, <1>6, <1>7, <1>11, <1>12
  <2>2. KLeft' = U + (y - x) * (ci * cj)
    BY <1>11
  <2> HIDE DEF ci, cj, m, U, R, b, x
  <2>3. (U + (y - x) * (ci * cj)) - out * ((b * ci) * cj) + qhat * ((m + d * ci) * cj) = R
    BY <2>1, SubtractKeeps
  <2> QED
    BY <2>2, <2>3 DEF ci, cj, m, U, R
<1>14. K!TypeOK'
  <2>1. i' \in 0 .. Lden
    <3>1. i + 1 \in 0 .. Lden
      BY <1>1, <1>3, <1>5, KnuthLimb
    <3> QED
      BY <3>1, <1>1
  <2> QED
    BY <2>1, <1>1, <1>7, <1>8, <1>9 DEF KnuthInv, K!TypeOK, K!Digits
<1>15. KLoaded'
  BY <1>1, <1>2, <1>9, <1>10 DEF KnuthInv, KLoaded, KLoop, K!Digits
<1>16. KPlaced'
  <2>1. \A k \in j + K!n + 1 .. Lnum : u'[k] = 0
    <3> TAKE k \in j + K!n + 1 .. Lnum
    <3>1. k \in 0 .. Lnum /\ k # j + i /\ u[k] = 0
      BY <1>1, <1>3, <1>5
    <3> QED
      BY <3>1, <1>9
  <2> QED
    BY <2>1, <1>1, <1>2, <1>10 DEF KnuthInv, KPlaced, KLoop
<1>17. KSubtracting'
  <2>1. i' <= K!n /\ i' # 0
    BY <1>1, <1>3, <1>5
  <2>2. KLeft' - borrow' * (b ^ i' * b ^ j') + qhat' * ((K!Normalised' % b ^ i') * b ^ j') = KRest
    BY <1>1, <1>4, <1>8, <1>10, <1>13
  <2> QED
    BY <2>1, <2>2, <1>1, <1>10, <1>12 DEF KSubtracting
<1>18. KBetween' /\ KEstimated' /\ KAdding' /\ KDone' /\ KLimbwise' /\ KResting'
  BY <1>1 DEF KBetween, KEstimated, KAdding, KDone, KLimbwise, KResting
<1>19. KAnswered'
  BY <1>1 DEF KAnswered, KnuthInv
<1> QED
  BY <1>14, <1>15, <1>16, <1>17, <1>18, <1>19 DEF KnuthInv

\* The divisor at its place: below the place of limb j + n, its limbs complete.
LEMMA KnuthWhole ==
  ASSUME KnuthInv, stage \in KLoop
  PROVE  LET c == K!B ^ K!n * K!B ^ j
         IN  /\ c \in Nat /\ c > 0 /\ K!B ^ (j + K!n) = c /\ KPlace < c
             /\ K!Normalised % K!B ^ K!n = K!Normalised
             /\ K!B ^ K!n \in Nat /\ K!B ^ j \in Nat
             /\ KPlace = K!Normalised * K!B ^ j
             /\ j + K!n \in 0 .. Lnum /\ j + K!n \in Nat
<1> DEFINE b == K!B
           v == K!Normalised
           cn == b ^ K!n
           cj == b ^ j
<1>1. /\ K!n \in Nat /\ b \in Nat /\ b > 1 /\ Lnum \in Nat /\ j \in Nat
      /\ j + K!n <= Lnum /\ v \in Nat /\ KArguments /\ den # 0
  BY KnuthLoop
<1>2. K!n \in 0 .. Lnum + 1 /\ j \in 0 .. Lnum + 1 /\ K!n + j <= Lnum + 1
      /\ j + K!n = K!n + j /\ j + K!n \in 0 .. Lnum /\ j + K!n \in Nat
  BY <1>1
<1>3. cn \in Nat /\ cn > 0 /\ cj \in Nat /\ cj > 0
  BY <1>2, PlaceOf
<1>4. b ^ (K!n + j) = cn * cj
  BY <1>2, RadixPowers
<1>5. v < cn
  BY <1>1, KnuthDivisor
<1>6. KPlace = v * cj
  BY DEF KPlace
<1> HIDE DEF b, v, cn, cj
<1>7. v % cn = v
  BY <1>1, <1>3, <1>5, RemainderOfSmall
<1>8. v * cj + cj <= cn * cj /\ v * cj \in Nat /\ cn * cj \in Nat
  BY <1>1, <1>3, <1>5, MultipleOrder
<1>9. cn * cj > 0
  BY <1>3, PositiveProduct
<1>10. KPlace < cn * cj
  BY <1>3, <1>6, <1>8
<1> QED
  BY <1>2, <1>3, <1>4, <1>6, <1>7, <1>8, <1>9, <1>10 DEF cn, cj, b, v

\* What is left, above and below the place of limb j + n.
LEMMA KnuthTop ==
  ASSUME KnuthInv, stage \in KLoop
  PROVE  LET c == K!B ^ K!n * K!B ^ j
             lo == K!Value(u, j + K!n)
         IN  /\ u[j + K!n] \in 0 .. K!B - 1 /\ lo \in Nat /\ lo < c
             /\ KLeft = lo + u[j + K!n] * c
<1>1. /\ Lnum \in Nat /\ Limbs(u, Lnum + 1) /\ u \in [0 .. Lnum -> 0 .. K!B - 1]
      /\ \A k \in j + K!n + 1 .. Lnum : u[k] = 0
  BY KnuthLoop
<1>2. K!B ^ (j + K!n) = K!B ^ K!n * K!B ^ j /\ j + K!n \in 0 .. Lnum /\ j + K!n \in Nat
  BY KnuthWhole
<1> DEFINE l == j + K!n
<1>3. l \in 0 .. Lnum + 1 /\ l + 1 \in 0 .. Lnum + 1 /\ Lnum + 1 \in 0 .. Lnum + 1
      /\ u[l] \in 0 .. K!B - 1
  BY <1>1, <1>2
<1>4. K!Value(u, l) \in Nat /\ K!Value(u, l) < K!B ^ l
  BY <1>1, <1>3, ValueBound
<1>5. K!Value(u, l + 1) = K!Value(u, l) + u[l] * K!B ^ l
  BY <1>2, ValueSum
<1>6. K!Value(u, Lnum + 1) = K!Value(u, l + 1)
  <2>1. \A k \in l + 1 .. (Lnum + 1) - 1 : u[k] = 0
    BY <1>1, <1>2
  <2> QED
    BY <2>1, <1>1, <1>3, ValueTop
<1> QED
  BY <1>2, <1>3, <1>4, <1>5, <1>6 DEF KLeft

\* A digit taken away leaves a remainder below the divisor at its place, and
\* the loop goes on with the next digit or is done.
LEMMA KnuthStore ==
  ASSUME KnuthInv, stage \in KLoop, K!StoreDigit(KDigit),
         u' \in [0 .. Lnum -> 0 .. K!B - 1],
         K!Value(u', Lnum + 1) = KRest - KDigit * KPlace,
         \A k \in j + K!n + 1 .. Lnum : u'[k] = 0,
         UNCHANGED <<num, den, qhat, rhat, carry, product, i, borrow, answer>>
  PROVE  KnuthInv'
<1> DEFINE b == K!B
           d == KDigit
           c == K!B ^ K!n * K!B ^ j
           R == KRest - d * KPlace
           v == K!Normalised
           l == j + K!n
<1>1. /\ q' = [q EXCEPT ![j] = d]
      /\ j = 0 => stage' = "remainder" /\ j' = 0
      /\ j # 0 => stage' = "digit" /\ j' = j - 1
      /\ num' = num /\ den' = den /\ qhat' = qhat /\ rhat' = rhat /\ carry' = carry
      /\ product' = product /\ i' = i /\ borrow' = borrow /\ answer' = answer
  BY DEF K!StoreDigit
<1>2. /\ KArguments /\ den # 0 /\ K!n \in 2 .. Lden /\ K!n > 1
      /\ b \in Nat /\ b > 1 /\ Lnum \in Nat
      /\ j \in Nat /\ j \in 0 .. Lnum /\ j + K!n <= Lnum /\ j \in 0 .. Lnum - 1
      /\ q \in [0 .. Lnum - 1 -> 0 .. b - 1] /\ Limbs(q, Lnum)
      /\ v \in Nat /\ KPlace \in Nat /\ KPlace > 0 /\ KRest \in Nat
      /\ \A k \in 0 .. j : q[k] = 0
  BY KnuthLoop
<1>3. d \in 0 .. b - 1 /\ d \in Nat /\ R \in Nat /\ R < KPlace
  <2>1. /\ d \in 0 .. b - 1 /\ d \in Nat /\ d * KPlace \in Nat
        /\ d * KPlace <= KRest /\ KRest < d * KPlace + KPlace
    BY KnuthDigit
  <2> DEFINE dp == d * KPlace
  <2>2. dp \in Nat /\ dp <= KRest /\ KRest < dp + KPlace
    BY <2>1
  <2> HIDE DEF dp
  <2>3. KRest - dp \in Nat /\ KRest - dp < KPlace
    BY <2>2, <1>2
  <2> QED
    BY <2>1, <2>3 DEF dp
<1>4. /\ c \in Nat /\ c > 0 /\ b ^ l = c /\ KPlace < c /\ l \in 0 .. Lnum /\ l \in Nat
      /\ KPlace = v * b ^ j /\ b ^ j \in Nat
  BY KnuthWhole
<1> HIDE DEF d
<1>5. /\ q' \in [0 .. Lnum - 1 -> 0 .. b - 1] /\ q'[j] = d /\ q[j] = 0
      /\ \A k \in 0 .. Lnum - 1 : k # j => q'[k] = q[k]
  BY <1>1, <1>2, <1>3
<1>6. K!Value(q', Lnum) = K!Value(q, Lnum) + d * b ^ j /\ K!Value(q, Lnum) \in Nat
  <2>1. Lnum \in 0 .. Lnum + 1 /\ q'[j] \in Int /\ Lnum \in 0 .. Lnum
    BY <1>2, <1>3, <1>5
  <2>2. K!Value(q', Lnum) = K!Value(q, Lnum) + (q'[j] - q[j]) * b ^ j
    <3> DEFINE z == q'
    <3>1. /\ Lnum \in 0 .. Lnum + 1 /\ Limbs(q, Lnum) /\ j \in 0 .. Lnum - 1 /\ z[j] \in Int
          /\ \A k \in 0 .. Lnum - 1 : k # j => z[k] = q[k]
      BY <2>1, <1>2, <1>5
    <3> HIDE DEF z
    <3>2. K!Value(z, Lnum) = K!Value(q, Lnum) + (z[j] - q[j]) * K!B ^ j
      BY <3>1, ValueSet
    <3> QED
      BY <3>2 DEF z
  <2>3. q'[j] - q[j] = d
    BY <1>3, <1>5
  <2>4. K!Value(q, Lnum) \in Nat
    BY <2>1, <1>2, ValueBound
  <2> QED
    BY <2>2, <2>3, <2>4
<1>7. K!n' = K!n /\ K!shift' = K!shift /\ K!Normalised' = v
  BY <1>1, KArgumentsRest
<1>8. KRest' = R
  <2> DEFINE lifted == num * 2 ^ K!shift
             Q == K!Value(q, Lnum)
             cj == b ^ j
  <2>1. KRest' = lifted - (Q + d * cj) * v
    BY <1>1, <1>6, <1>7 DEF KRest
  <2>2. KRest = lifted - Q * v
    BY DEF KRest
  <2>3. lifted \in Int
    <3>1. num \in Nat /\ LimbAndShift(K!B, 2 ^ K!shift)
      BY <1>2, KnuthDivisor
    <3>2. 2 ^ K!shift \in Nat
      BY <3>1 DEF LimbAndShift
    <3> QED
      BY <3>1, <3>2
  <2>4. Q \in Nat /\ cj \in Nat /\ v \in Nat /\ d \in Nat /\ KPlace = v * cj
    BY <1>2, <1>3, <1>4, <1>6
  <2> HIDE DEF lifted, Q, cj, v
  <2>5. (Q + d * cj) * v = Q * v + d * (v * cj) /\ Q * v \in Int /\ d * (v * cj) \in Int
    BY <2>4
  <2> DEFINE x == Q * v
             y == d * (v * cj)
  <2>6. KRest' = lifted - (x + y) /\ KRest = lifted - x /\ x \in Int /\ y \in Int
    BY <2>1, <2>2, <2>5
  <2>7. R = KRest - y
    BY <2>4
  <2> HIDE DEF x, y, R
  <2> QED
    BY <2>3, <2>6, <2>7
<1> HIDE DEF R, v
<1>9. /\ u' \in [0 .. Lnum -> 0 .. b - 1] /\ K!Value(u', Lnum + 1) = R
      /\ \A k \in l + 1 .. Lnum : u'[k] = 0
  BY DEF R, d
<1>10. u'[l] = 0
  <2> DEFINE z == u'
             m == Lnum + 1
             x == z[l]
  <2>1. /\ Limbs(z, m) /\ m \in 0 .. Lnum + 1 /\ l \in 0 .. m /\ l + 1 \in 0 .. m
        /\ x \in 0 .. b - 1 /\ l \in 0 .. Lnum + 1 /\ Limbs(z, l)
    BY <1>2, <1>4, <1>9 DEF Limbs
  <2>2. K!Value(z, l + 1) <= K!Value(z, m)
    BY <2>1, ValueTop
  <2>3. K!Value(z, l + 1) = K!Value(z, l) + x * b ^ l
    BY <1>4, ValueSum
  <2>9. K!Value(z, l + 1) = K!Value(z, l) + x * c
    BY <2>3, <1>4
  <2>4. K!Value(z, l) \in Nat
    <3>1. l \in 0 .. l
      BY <1>4
    <3> QED
      BY <2>1, <3>1, ValueBound
  <2>5. K!Value(z, m) = R
    BY <1>9
  <2> HIDE DEF z, m, x, c
  <2>6. x * c < c /\ x * c \in Nat
    <3>1. x * c \in Nat
      BY <2>1, <1>2, <1>4
    <3> DEFINE xc == x * c
    <3>2. xc \in Nat /\ K!Value(z, l + 1) = K!Value(z, l) + xc
      BY <3>1, <2>9
    <3>3. KPlace \in Nat /\ c \in Nat /\ KPlace < c /\ R \in Nat /\ R < KPlace
      BY <1>2, <1>3, <1>4
    <3> HIDE DEF xc
    <3>4. xc < c
      BY <3>2, <3>3, <2>2, <2>4, <2>5
    <3> QED
      BY <3>1, <3>4 DEF xc
  <2>7. x < 1
    <3>1. x * c < 1 * c /\ x \in Int /\ 1 \in Int /\ c \in Int
      BY <2>1, <2>6, <1>2, <1>4
    <3> QED
      BY <3>1, <1>4, CancelFactor
  <2> QED
    BY <2>1, <2>7, <1>2 DEF x, z
<1>11. K!TypeOK'
  <2>1. j' \in 0 .. Lnum
    <3>1. CASE j = 0
      BY <3>1, <1>1, <1>2
    <3>2. CASE j # 0
      <4>1. j - 1 \in 0 .. Lnum
        BY <3>2, <1>2
      <4> QED
        BY <4>1, <3>2, <1>1
    <3> QED
      BY <3>1, <3>2
  <2>2. \A k \in DOMAIN u' : u'[k] \in K!Digits
    BY <1>9 DEF K!Digits
  <2>3. \A k \in DOMAIN q' : q'[k] \in K!Digits
    BY <1>5 DEF K!Digits
  <2>4. stage' \in {"remainder", "digit"}
    BY <1>1
  <2> QED
    BY <2>1, <2>2, <2>3, <2>4, <1>1 DEF KnuthInv, K!TypeOK
<1>12. KLoaded'
  BY <1>1, <1>2, <1>5, <1>7, <1>9 DEF KLoaded, K!Digits
<1>13. KBetween'
  BY <1>8, <1>9 DEF KBetween, KLeft
<1>14. KPlaced'
  <2> SUFFICES ASSUME j # 0 PROVE KPlaced'
    BY <1>1 DEF KPlaced, KLoop
  <2>1. j' = j - 1 /\ j - 1 \in 0 .. Lnum /\ (j - 1) + 1 = j /\ (j - 1) + K!n <= Lnum
        /\ (j - 1) + K!n + 1 = l
    BY <1>1, <1>2
  <2>2. \A k \in 0 .. j - 1 : q'[k] = 0
    BY <1>2, <1>5
  <2>3. \A k \in l .. Lnum : u'[k] = 0
    <3> TAKE k \in l .. Lnum
    <3>1. k = l \/ k \in l + 1 .. Lnum
      BY <1>2, <1>4
    <3> QED
      BY <3>1, <1>9, <1>10
  <2>4. R < (v * b ^ (j - 1)) * b
    <3> DEFINE y == b ^ (j - 1)
    <3>1. b ^ j = b * y /\ y \in Nat
      BY <2>1, NextPlace
    <3> HIDE DEF y
    <3>2. v \in Nat /\ b \in Nat
      BY <1>2
    <3>3. (v * y) * b = v * (b * y)
      BY <3>1, <3>2
    <3> QED
      BY <3>1, <3>3, <1>3, <1>4 DEF y
  <2>5. KPlace' = v * b ^ (j - 1)
    BY <2>1, <1>7 DEF KPlace
  <2> QED
    BY <2>1, <2>2, <2>3, <2>4, <2>5, <1>3, <1>7, <1>8 DEF KPlaced
<1>15. KDone'
  <2> SUFFICES ASSUME j = 0 PROVE KDone'
    BY <1>1 DEF KDone
  <2>1. KPlace = v * 1 /\ v * 1 = v
    <3>1. b ^ j = 1
      BY RadixPowers
    <3>2. KPlace = v * b ^ j /\ v \in Nat
      BY <1>2, <1>4
    <3> QED
      BY <3>1, <3>2
  <2> QED
    BY <2>1, <1>3, <1>7, <1>8 DEF KDone
<1>16. KEstimated' /\ KSubtracting' /\ KAdding' /\ KLimbwise' /\ KResting'
  BY <1>1 DEF KEstimated, KSubtracting, KAdding, KLimbwise, KResting
<1>17. KAnswered'
  BY <1>1, KArgumentsRest DEF KAnswered, KnuthInv, KLoop
<1> QED
  BY <1>11, <1>12, <1>13, <1>14, <1>15, <1>16, <1>17 DEF KnuthInv

\* All limbs subtracted: what the borrow leaves.
LEMMA KnuthSubtracted ==
  ASSUME KnuthInv, stage = "subtract", i = K!n
  PROVE  /\ KLeft - borrow * (K!B ^ K!n * K!B ^ j) + qhat * KPlace = KRest
         /\ qhat \in {KDigit, KDigit + 1} /\ qhat \in 0 .. K!B - 1 /\ borrow \in 0 .. K!B - 1
<1>1. stage \in KLoop
  BY DEF KLoop
<1>2. /\ qhat \in {KDigit, KDigit + 1}
      /\ KLeft - borrow * (K!B ^ K!n * K!B ^ j)
           + qhat * ((K!Normalised % K!B ^ K!n) * K!B ^ j) = KRest
  BY DEF KnuthInv, KSubtracting
<1>3. K!Normalised % K!B ^ K!n = K!Normalised /\ KPlace = K!Normalised * K!B ^ j
  BY <1>1, KnuthWhole
<1>4. qhat \in 0 .. K!B - 1 /\ borrow \in 0 .. K!B - 1
  BY DEF KnuthInv, K!TypeOK, K!Digits
<1> QED
  BY <1>2, <1>3, <1>4

LEMMA KnuthDigitRight == ASSUME KnuthInv, K!DigitRight PROVE KnuthInv'
<1> DEFINE b == K!B
           c == K!B ^ K!n * K!B ^ j
           l == j + K!n
           t == u[l]
           y == t - borrow
           z == u'
           m == Lnum + 1
<1>1. /\ stage = "subtract" /\ i = K!n /\ t >= borrow
      /\ u' = [u EXCEPT ![l] = @ - borrow] /\ K!StoreDigit(qhat)
      /\ UNCHANGED <<num, den, qhat, rhat, carry, product, i, borrow, answer>>
  BY DEF K!DigitRight, K!call, K!estimate, K!inner
<1>2. stage \in KLoop
  BY <1>1 DEF KLoop
<1>3. /\ KLeft - borrow * c + qhat * KPlace = KRest
      /\ qhat \in {KDigit, KDigit + 1} /\ qhat \in 0 .. b - 1 /\ borrow \in 0 .. b - 1
  BY <1>1, KnuthSubtracted
<1>4. /\ b \in Nat /\ b > 1 /\ Lnum \in Nat /\ u \in [0 .. Lnum -> 0 .. b - 1] /\ j \in Nat
      /\ Limbs(u, m) /\ KPlace \in Nat /\ KRest \in Nat
      /\ \A k \in l + 1 .. Lnum : u[k] = 0
  BY <1>2, KnuthLoop
<1>5. c \in Nat /\ b ^ l = c /\ l \in 0 .. Lnum /\ l \in Nat
  BY <1>2, KnuthWhole
<1>6. y \in 0 .. b - 1 /\ t \in 0 .. b - 1
  BY <1>1, <1>3, <1>4, <1>5
<1>7. z \in [0 .. Lnum -> 0 .. b - 1] /\ z[l] = y /\ \A k \in 0 .. Lnum : k # l => z[k] = u[k]
  BY <1>1, <1>4, <1>5, <1>6
<1>8. K!Value(z, m) = KLeft + (y - t) * c
  <2>1. m \in 0 .. Lnum + 1 /\ l \in 0 .. m - 1 /\ z[l] \in Int
        /\ \A k \in 0 .. m - 1 : k # l => z[k] = u[k]
    BY <1>4, <1>5, <1>6, <1>7
  <2> HIDE DEF z, m, l
  <2>2. K!Value(z, m) = K!Value(u, m) + (z[l] - u[l]) * K!B ^ l
    BY <2>1, <1>4, ValueSet
  <2> QED
    BY <2>2, <1>5, <1>7 DEF KLeft, m, l
<1>9. K!Value(z, m) \in Nat
  <2>1. m \in 0 .. Lnum + 1 /\ Limbs(z, m) /\ m \in 0 .. m
    BY <1>4, <1>7 DEF Limbs
  <2> HIDE DEF z, m
  <2> QED
    BY <2>1, ValueBound
<1>10. KLeft \in Nat
  <2>1. m \in 0 .. Lnum + 1 /\ m \in 0 .. m
    BY <1>4
  <2> QED
    BY <2>1, <1>4, ValueBound DEF KLeft
<1>11. K!Value(z, m) = KRest - qhat * KPlace /\ qhat * KPlace \in Nat
  <2>1. (y - t) * c = 0 - borrow * c /\ borrow * c \in Nat
    <3>1. y - t = 0 - borrow
      BY <1>3, <1>4, <1>6
    <3>2. (0 - borrow) * c = 0 - borrow * c /\ borrow * c \in Nat
      BY <1>3, <1>4, <1>5
    <3> HIDE DEF y, t, c
    <3> QED
      BY <3>1, <3>2
  <2>2. qhat * KPlace \in Nat
    BY <1>3, <1>4
  <2> DEFINE bc == borrow * c
             yc == (y - t) * c
             qp == qhat * KPlace
  <2>3. /\ yc = 0 - bc /\ bc \in Nat /\ qp \in Nat /\ KLeft \in Nat /\ KRest \in Nat
        /\ KLeft - bc + qp = KRest /\ K!Value(z, m) = KLeft + yc
    BY <2>1, <2>2, <1>3, <1>4, <1>8, <1>10
  <2> HIDE DEF bc, yc, qp, z, m
  <2>4. K!Value(z, m) = KRest - qp
    BY <2>3
  <2> QED
    BY <2>2, <2>4 DEF qp
<1>12. qhat = KDigit
  <2> SUFFICES ASSUME qhat = KDigit + 1 PROVE FALSE
    BY <1>3
  <2> DEFINE d == KDigit
  <2>1. d \in Nat /\ KRest < d * KPlace + KPlace /\ d * KPlace \in Nat
    BY <1>2, KnuthDigit
  <2>2. qhat = d + 1
    OBVIOUS
  <2> HIDE DEF d
  <2>3. qhat * KPlace = d * KPlace + KPlace
    <3>1. KPlace \in Nat
      BY <1>4
    <3>2. (d + 1) * KPlace = d * KPlace + KPlace
      BY <2>1, <3>1
    <3> QED
      BY <3>2, <2>2
  <2> QED
    BY <2>1, <2>3, <1>4, <1>9, <1>11
<1>13. \A k \in l + 1 .. Lnum : u'[k] = 0
  <2> TAKE k \in l + 1 .. Lnum
  <2>1. k \in 0 .. Lnum /\ k # l
    BY <1>4, <1>5
  <2> QED
    BY <2>1, <1>4, <1>7
<1> QED
  BY <1>1, <1>2, <1>7, <1>11, <1>12, <1>13, KnuthStore

LEMMA KnuthStartAddBack == ASSUME KnuthInv, K!StartAddBack PROVE KnuthInv'
<1> DEFINE b == K!B
           c == K!B ^ K!n * K!B ^ j
           l == j + K!n
           t == u[l]
           lo == K!Value(u, l)
           d == KDigit
           R == KRest - d * KPlace
           v == K!Normalised
<1>1. /\ stage = "subtract" /\ i = K!n /\ t < borrow /\ stage' = "addback"
      /\ qhat' = qhat - 1 /\ i' = 0 /\ borrow' = 0
      /\ num' = num /\ den' = den /\ j' = j /\ u' = u /\ q' = q /\ answer' = answer
      /\ rhat' = rhat /\ carry' = carry /\ product' = product
  BY DEF K!StartAddBack, K!call
<1>2. stage \in KLoop
  BY <1>1 DEF KLoop
<1>3. /\ KLeft - borrow * c + qhat * KPlace = KRest
      /\ qhat \in {d, d + 1} /\ qhat \in 0 .. b - 1 /\ borrow \in 0 .. b - 1
  BY <1>1, KnuthSubtracted
<1>4. /\ b \in Nat /\ b > 1 /\ KPlace \in Nat /\ KPlace > 0 /\ KRest \in Nat /\ v \in Nat
      /\ K!n \in 2 .. Lden /\ j \in 0 .. Lnum + 1
  BY <1>2, KnuthLoop
<1>5. /\ c \in Nat /\ c > 0 /\ KPlace < c /\ KPlace = v * b ^ j /\ b ^ j \in Nat
      /\ b ^ K!n * b ^ j = c
  BY <1>2, KnuthWhole
<1>6. t \in 0 .. b - 1 /\ lo \in Nat /\ lo < c /\ KLeft = lo + t * c
  BY <1>2, KnuthTop
<1>7. d \in Nat /\ d \in 0 .. b - 1 /\ d * KPlace \in Nat /\ R \in Nat /\ R < KPlace
  <2>1. /\ d \in 0 .. b - 1 /\ d \in Nat /\ d * KPlace <= KRest
        /\ KRest < d * KPlace + KPlace /\ d * KPlace \in Nat
    BY <1>2, KnuthDigit
  <2> HIDE DEF d
  <2>2. R \in Nat /\ R < KPlace
    BY <2>1, <1>4
  <2> QED
    BY <2>1, <2>2
<1>8. lo + t * c - borrow * c + qhat * KPlace = KRest
  <2> DEFINE tc == t * c
             wc == borrow * c
             qp == qhat * KPlace
  <2>1. /\ tc \in Int /\ wc \in Int /\ qp \in Int /\ lo \in Int
        /\ KLeft = lo + tc /\ KLeft - wc + qp = KRest
    BY <1>3, <1>4, <1>5, <1>6
  <2> HIDE DEF tc, wc, qp, lo
  <2>2. lo + tc - wc + qp = KRest
    BY <2>1
  <2> QED
    BY <2>2 DEF tc, wc, qp
<1> HIDE DEF c, t, lo, d
<1>9. t * c \in Int /\ borrow * c \in Int /\ qhat * KPlace \in Int /\ t * c + c <= borrow * c
  <2>1. t \in Int /\ borrow \in Int /\ t < borrow
    BY <1>1, <1>3, <1>4, <1>6
  <2> QED
    BY <2>1, <1>3, <1>4, <1>5, MultipleOrder
<1>10. qhat = d + 1
  <2> SUFFICES ASSUME qhat = d PROVE FALSE
    BY <1>3
  <2> DEFINE tc == t * c
             wc == borrow * c
             dp == d * KPlace
  <2>1. /\ tc \in Int /\ wc \in Int /\ dp \in Nat /\ dp <= KRest /\ tc + c <= wc
        /\ lo + tc - wc + dp = KRest
    BY <1>4, <1>7, <1>8, <1>9
  <2> HIDE DEF tc, wc, dp, R
  <2> QED
    BY <2>1, <1>4, <1>5, <1>6
<1>11. lo + t * c - borrow * c = R - KPlace
  <2> DEFINE tc == t * c
             wc == borrow * c
             dp == d * KPlace
  <2>1. (d + 1) * KPlace = dp + KPlace
    BY <1>4, <1>7
  <2>2. /\ tc \in Int /\ wc \in Int /\ dp \in Nat
        /\ lo + tc - wc + (dp + KPlace) = KRest /\ R = KRest - dp
    BY <2>1, <1>7, <1>8, <1>9, <1>10
  <2> HIDE DEF tc, wc, dp, R
  <2>3. lo + tc - wc = R - KPlace
    BY <2>2, <1>4, <1>6
  <2> QED
    BY <2>3 DEF tc, wc
<1>12. lo = R - KPlace + c
  <2>1. /\ c \in Nat /\ c > 0 /\ lo \in Nat /\ lo < c /\ t \in Int /\ borrow \in Int
        /\ t < borrow /\ R \in Nat /\ KPlace \in Nat /\ R < KPlace /\ KPlace < c
        /\ lo + t * c - borrow * c = R - KPlace
    BY <1>1, <1>3, <1>4, <1>5, <1>6, <1>7, <1>11
  <2> HIDE DEF R
  <2>2. borrow = t + 1 /\ lo = R - KPlace + c
    BY <2>1, OnePlaceShort
  <2> QED
    BY <2>2
<1>13. KRest' = KRest /\ KPlace' = KPlace /\ KDigit' = d
       /\ K!n' = K!n /\ K!Normalised' = v
  BY <1>1, KDigitRests, KArgumentsRest DEF d
<1>14. K!TypeOK'
  <2>1. qhat' \in K!Digits
    BY <1>1, <1>7, <1>10 DEF K!Digits
  <2> QED
    BY <2>1, <1>1, KZeros DEF KnuthInv, K!TypeOK
<1>15. KLoaded' /\ KPlaced'
  BY <1>1, <1>2, <1>13 DEF KnuthInv, KLoaded, KPlaced, KLoop
<1>16. KAdding'
  <2>1. qhat' = d
    BY <1>1, <1>7, <1>10
  <2>2. b ^ 0 = 1 /\ v % 1 = 0
    BY <1>4, RadixPowers
  <2>3. lo + 0 * (b ^ 0 * b ^ j) + (v - (v % b ^ 0)) * b ^ j = R + c
    <3>1. 0 * (b ^ 0 * b ^ j) = 0
      BY <2>2, <1>5
    <3>2. (v - (v % b ^ 0)) * b ^ j = KPlace
      <4>1. v - 0 = v
        BY <1>4
      <4> QED
        BY <4>1, <2>2, <1>5
    <3> HIDE DEF R, v, b
    <3> QED
      BY <3>1, <3>2, <1>4, <1>5, <1>6, <1>7, <1>12
  <2>4. K!Value(u', j' + K!n') = lo
    BY <1>1, <1>13 DEF lo
  <2>5. R = KRest - qhat' * KPlace
    BY <2>1
  <2>6. K!Value(u', j' + K!n') + borrow' * (b ^ i' * b ^ j') + (v - (v % b ^ i')) * b ^ j'
          = KRest - qhat' * KPlace + b ^ K!n * b ^ j'
    BY <2>3, <2>4, <2>5, <1>1, <1>5
  <2>7. 0 <= K!n
    BY <1>4
  <2> QED
    BY <2>1, <2>6, <2>7, <1>1, <1>13 DEF KAdding
<1>17. KBetween' /\ KEstimated' /\ KSubtracting' /\ KDone' /\ KLimbwise' /\ KResting'
  BY <1>1 DEF KBetween, KEstimated, KSubtracting, KDone, KLimbwise, KResting
<1>18. KAnswered'
  BY <1>1 DEF KAnswered, KnuthInv
<1> QED
  BY <1>14, <1>15, <1>16, <1>17, <1>18 DEF KnuthInv

LEMMA KnuthAddBackLimb == ASSUME KnuthInv, K!AddBackLimb PROVE KnuthInv'
<1> DEFINE b == K!B
           l == j + K!n
           d == K!Limb(K!Normalised, i)
           x == u[j + i]
           y == AddedLimb(b, x, d, borrow)
           out == LimbCarry(b, x, d, borrow)
           v == K!Normalised
<1>1. /\ stage = "addback" /\ stage' = stage /\ i < K!n /\ i' = i + 1
      /\ u' = [u EXCEPT ![j + i] = y] /\ borrow' = out
      /\ num' = num /\ den' = den /\ j' = j /\ q' = q /\ answer' = answer
      /\ qhat' = qhat /\ rhat' = rhat /\ carry' = carry /\ product' = product
  BY DEF K!AddBackLimb, K!call, K!estimate, AddedLimb, LimbCarry
<1>2. stage \in KLoop
  BY <1>1 DEF KLoop
<1>3. /\ i <= K!n /\ borrow \in {0, 1} /\ qhat = KDigit
      /\ K!Value(u, l) + borrow * (b ^ i * b ^ j) + (v - (v % b ^ i)) * b ^ j
           = KRest - qhat * KPlace + b ^ K!n * b ^ j
  BY <1>1 DEF KnuthInv, KAdding
<1>4. i \in Nat /\ Lden \in Nat
  <2>1. i \in 0 .. Lden
    BY DEF KnuthInv, K!TypeOK
  <2> QED
    BY <2>1, KnuthLimb
<1>5. /\ d \in 0 .. b - 1 /\ v % b ^ i \in Nat
      /\ v % b ^ (i + 1) = (v % b ^ i) + d * b ^ i
      /\ b ^ (i + 1) = b * b ^ i
      /\ b ^ i \in Nat /\ b ^ j \in Nat /\ b ^ (j + i) = b ^ i * b ^ j
      /\ j + i \in 0 .. l - 1 /\ j + i \in 0 .. Lnum
  <2>1. i \in Nat /\ i < K!n /\ stage \in KLoop
    BY <1>1, <1>2, <1>4
  <2>2. /\ K!Limb(K!Normalised, i) \in 0 .. b - 1 /\ K!Normalised % b ^ i \in Nat
        /\ K!Normalised % b ^ (i + 1)
             = (K!Normalised % b ^ i) + K!Limb(K!Normalised, i) * b ^ i
        /\ b ^ (i + 1) = b * b ^ i
        /\ b ^ i \in Nat /\ b ^ j \in Nat /\ b ^ (j + i) = b ^ i * b ^ j
        /\ j + i \in 0 .. j + K!n - 1 /\ j + i \in 0 .. Lnum
    BY <2>1, KnuthNextLimb
  <2>3. j + i \in 0 .. l - 1
    BY <2>1, <2>2, KnuthLoop
  <2> QED
    BY <2>2, <2>3
<1>6. /\ b \in Nat /\ b > 1 /\ Lnum \in Nat /\ u \in [0 .. Lnum -> 0 .. b - 1]
      /\ K!n \in 2 .. Lden /\ j \in Nat /\ l <= Lnum /\ l \in 0 .. Lnum /\ v \in Nat
      /\ KRest \in Nat /\ KPlace \in Nat /\ \A k \in l + 1 .. Lnum : u[k] = 0
  BY <1>2, KnuthLoop
<1>7. x \in 0 .. b - 1
  BY <1>5, <1>6
<1>8. y \in 0 .. b - 1 /\ out \in {0, 1} /\ y - x = d + borrow - b * out
  <2>1. b \in Nat /\ b > 1 /\ x \in 0 .. b - 1 /\ d \in 0 .. b - 1 /\ borrow \in {0, 1}
    BY <1>3, <1>5, <1>6, <1>7
  <2> HIDE DEF b, d, x
  <2> QED
    BY <2>1, AddOneLimb
<1> HIDE DEF out, y, d
<1>9. /\ u' \in [0 .. Lnum -> 0 .. b - 1] /\ u'[j + i] = y
      /\ \A k \in 0 .. Lnum : k # j + i => u'[k] = u[k]
  BY <1>1, <1>5, <1>6, <1>8
<1>10. KRest' = KRest /\ KPlace' = KPlace /\ KDigit' = KDigit
       /\ K!n' = K!n /\ K!Normalised' = v
  BY <1>1, KDigitRests, KArgumentsRest
<1>11. K!Value(u', l) = K!Value(u, l) + (y - x) * (b ^ i * b ^ j) /\ K!Value(u, l) \in Nat
  <2> DEFINE z == u'
             w == u
             p == j + i
  <2>1. /\ l \in 0 .. Lnum + 1 /\ Limbs(w, l) /\ p \in 0 .. l - 1 /\ z[p] \in Int
        /\ \A k \in 0 .. l - 1 : k # p => z[k] = w[k]
        /\ z[p] = y /\ w[p] = x
    <3>1. l \in 0 .. Lnum + 1 /\ p \in 0 .. l - 1 /\ z[p] = y /\ w[p] = x /\ y \in Int
      BY <1>5, <1>6, <1>8, <1>9
    <3>2. \A k \in 0 .. l - 1 : k \in 0 .. Lnum
      BY <1>6
    <3>3. Limbs(w, l)
      BY <3>2, <1>6 DEF Limbs
    <3>4. \A k \in 0 .. l - 1 : k # p => z[k] = w[k]
      BY <3>2, <1>9
    <3> QED
      BY <3>1, <3>3, <3>4
  <2> HIDE DEF z, w, p, l
  <2>2. K!Value(z, l) = K!Value(w, l) + (z[p] - w[p]) * K!B ^ p
    BY <2>1, ValueSet
  <2>3. K!Value(w, l) \in Nat
    BY <2>1, ValueBound
  <2>4. K!B ^ p = b ^ i * b ^ j
    BY <1>5 DEF p
  <2> QED
    BY <2>1, <2>2, <2>3, <2>4 DEF z, w
<1>12. K!Value(u', l) + out * ((b * b ^ i) * b ^ j)
         + (v - ((v % b ^ i) + d * b ^ i)) * b ^ j = KRest - qhat * KPlace + b ^ K!n * b ^ j
  <2> DEFINE ci == b ^ i
             cj == b ^ j
             m == v % ci
             U == K!Value(u, l)
             R == KRest - qhat * KPlace + b ^ K!n * cj
  <2>1. R \in Int
    <3>1. b ^ K!n \in Nat
      BY <1>2, KnuthWhole
    <3>2. qhat \in Nat
      BY <1>2, <1>3, KnuthDigit
    <3>3. qhat * KPlace \in Nat /\ b ^ K!n * cj \in Nat /\ KRest \in Nat
      <4> HIDE DEF cj, b
      <4>1. cj \in Nat /\ KPlace \in Nat
        BY <1>5, <1>6 DEF cj
      <4> QED
        BY <4>1, <3>1, <3>2, <1>6
    <3> DEFINE qp == qhat * KPlace
               bc == b ^ K!n * cj
    <3>4. qp \in Int /\ bc \in Int
      BY <3>3
    <3> HIDE DEF qp, bc
    <3>5. KRest - qp + bc \in Int
      BY <3>3, <3>4
    <3> QED
      BY <3>5 DEF qp, bc
  <2>2. /\ U \in Int /\ borrow \in Int /\ out \in Int /\ v \in Int /\ m \in Int /\ d \in Int
        /\ b \in Int /\ ci \in Int /\ cj \in Int /\ x \in Int /\ y \in Int
        /\ y - x = d + borrow - b * out
        /\ U + borrow * (ci * cj) + (v - m) * cj = R
    BY <1>3, <1>5, <1>6, <1>7, <1>8, <1>11
  <2>3. K!Value(u', l) = U + (y - x) * (ci * cj)
    BY <1>11
  <2> HIDE DEF ci, cj, m, U, R, b, x, v
  <2>4. (U + (y - x) * (ci * cj)) + out * ((b * ci) * cj) + (v - (m + d * ci)) * cj = R
    BY <2>1, <2>2, AddKeeps
  <2> QED
    BY <2>3, <2>4 DEF ci, cj, m, U, R
<1>13. K!TypeOK'
  <2>1. i' \in 0 .. Lden
    <3>1. i + 1 \in 0 .. Lden
      BY <1>1, <1>4, <1>6
    <3> QED
      BY <3>1, <1>1
  <2>2. borrow' \in K!Digits
    BY <1>1, <1>6, <1>8 DEF K!Digits
  <2>3. \A k \in DOMAIN u' : u'[k] \in K!Digits
    BY <1>9 DEF K!Digits
  <2> QED
    BY <2>1, <2>2, <2>3, <1>1 DEF KnuthInv, K!TypeOK
<1>14. KLoaded'
  BY <1>1, <1>2, <1>9, <1>10 DEF KnuthInv, KLoaded, KLoop, K!Digits
<1>15. KPlaced'
  <2>1. \A k \in l + 1 .. Lnum : u'[k] = 0
    <3> TAKE k \in l + 1 .. Lnum
    <3>1. k \in 0 .. Lnum /\ k # j + i /\ u[k] = 0
      BY <1>1, <1>4, <1>6
    <3> QED
      BY <3>1, <1>9
  <2> QED
    BY <2>1, <1>1, <1>2, <1>10 DEF KnuthInv, KPlaced, KLoop
<1>16. KAdding'
  <2>1. i + 1 <= K!n
    BY <1>1, <1>4, <1>6
  <2>2. K!Value(u', l) + out * (b ^ (i + 1) * b ^ j) + (v - (v % b ^ (i + 1))) * b ^ j
          = KRest - qhat * KPlace + b ^ K!n * b ^ j
    BY <1>5, <1>12
  <2> HIDE DEF v
  <2> QED
    BY <2>1, <2>2, <1>1, <1>3, <1>8, <1>10 DEF KAdding
<1>17. KBetween' /\ KEstimated' /\ KSubtracting' /\ KDone' /\ KLimbwise' /\ KResting'
  BY <1>1 DEF KBetween, KEstimated, KSubtracting, KDone, KLimbwise, KResting
<1>18. KAnswered'
  BY <1>1 DEF KAnswered, KnuthInv
<1> QED
  BY <1>13, <1>14, <1>15, <1>16, <1>17, <1>18 DEF KnuthInv

\* All limbs added back: the sum carries out, and what is left is the rest.
LEMMA KnuthCarriesOut ==
  ASSUME KnuthInv, stage = "addback", i = K!n
  PROVE  borrow = 1 /\ K!Value(u, j + K!n) = KRest - KDigit * KPlace /\ qhat = KDigit
<1> DEFINE c == K!B ^ K!n * K!B ^ j
           lo == K!Value(u, j + K!n)
           d == KDigit
           R == KRest - d * KPlace
           v == K!Normalised
<1>1. stage \in KLoop
  BY DEF KLoop
<1>2. /\ borrow \in {0, 1} /\ qhat = d
      /\ lo + borrow * c + (v - (v % K!B ^ K!n)) * K!B ^ j = R + c
  BY DEF KnuthInv, KAdding
<1>3. c \in Nat /\ v % K!B ^ K!n = v /\ K!B ^ j \in Nat
  BY <1>1, KnuthWhole
<1>4. lo \in Nat /\ lo < c
  BY <1>1, KnuthTop
<1>5. /\ d \in Nat /\ d * KPlace \in Nat /\ d * KPlace <= KRest /\ KRest \in Nat /\ v \in Nat
  BY <1>1, KnuthDigit, KnuthLoop
<1>6. R \in Nat
  <2> HIDE DEF d
  <2> QED
    BY <1>5
<1>7. (v - (v % K!B ^ K!n)) * K!B ^ j = 0
  <2>1. v - v = 0
    BY <1>5
  <2>2. 0 * K!B ^ j = 0
    BY <1>3
  <2> QED
    BY <2>1, <2>2, <1>3
<1> HIDE DEF c, lo, R, v, d
<1>8. lo + borrow * c = R + c
  <2>1. borrow * c \in Nat
    BY <1>2, <1>3
  <2> QED
    BY <2>1, <1>2, <1>3, <1>4, <1>6, <1>7
<1>9. borrow = 1
  <2> SUFFICES ASSUME borrow = 0 PROVE FALSE
    BY <1>2
  <2>1. 0 * c = 0
    BY <1>3
  <2> QED
    BY <2>1, <1>3, <1>4, <1>6, <1>8
<1>10. lo = R
  <2>1. 1 * c = c
    BY <1>3
  <2> QED
    BY <2>1, <1>3, <1>4, <1>6, <1>8, <1>9
<1> QED
  BY <1>2, <1>9, <1>10 DEF lo, R, d

LEMMA KnuthAddedBack == ASSUME KnuthInv, K!AddedBack PROVE KnuthInv'
<1> DEFINE l == j + K!n
           z == u'
           m == Lnum + 1
<1>1. /\ stage = "addback" /\ i = K!n /\ u' = [u EXCEPT ![l] = 0] /\ K!StoreDigit(qhat)
      /\ UNCHANGED <<num, den, qhat, rhat, carry, product, i, borrow, answer>>
  BY DEF K!AddedBack, K!call, K!estimate, K!inner
<1>2. stage \in KLoop
  BY <1>1 DEF KLoop
<1>3. K!Value(u, l) = KRest - KDigit * KPlace /\ qhat = KDigit
  BY <1>1, KnuthCarriesOut
<1>4. /\ K!B \in Nat /\ K!B > 1 /\ Lnum \in Nat /\ u \in [0 .. Lnum -> 0 .. K!B - 1]
      /\ \A k \in l + 1 .. Lnum : u[k] = 0
  BY <1>2, KnuthLoop
<1>5. l \in 0 .. Lnum /\ l \in Nat
  BY <1>2, KnuthWhole
<1>6. /\ z \in [0 .. Lnum -> 0 .. K!B - 1] /\ z[l] = 0
      /\ \A k \in 0 .. Lnum : k # l => z[k] = u[k]
  BY <1>1, <1>4, <1>5
<1>7. \A k \in l + 1 .. Lnum : z[k] = 0
  <2> TAKE k \in l + 1 .. Lnum
  <2>1. k \in 0 .. Lnum /\ k # l
    BY <1>4, <1>5
  <2> QED
    BY <2>1, <1>4, <1>6
<1>8. K!Value(z, m) = K!Value(u, l)
  <2>1. /\ m \in 0 .. Lnum + 1 /\ l \in 0 .. m
        /\ \A k \in l .. m - 1 : z[k] = 0
    BY <1>4, <1>5, <1>6, <1>7
  <2>2. \A k \in 0 .. l - 1 : z[k] = u[k]
    BY <1>4, <1>5, <1>6
  <2>3. Limbs(z, m)
    BY <1>4, <1>6 DEF Limbs
  <2> HIDE DEF z, m, l
  <2>4. K!Value(z, m) = K!Value(z, l)
    BY <2>1, <2>3, ValueTop
  <2>5. K!Value(z, l) = K!Value(u, l)
    BY <2>2, <1>5, ValueSame
  <2> QED
    BY <2>4, <2>5
<1>9. K!StoreDigit(KDigit)
  BY <1>1, <1>3 DEF K!StoreDigit
<1> QED
  BY <1>1, <1>2, <1>3, <1>6, <1>7, <1>8, <1>9, KnuthStore

-----------------------------------------------------------------------------
(* Shifting the remainder back                                             *)

\* A number in limbs is its low limbs and a multiple of the next place.
LEMMA ValueSplit ==
  ASSUME NEW l \in 0 .. Lnum + 1, NEW x, Limbs(x, l), NEW k \in 0 .. l
  PROVE  \E h \in Nat : K!Value(x, l) = K!Value(x, k) + h * K!B ^ k
<1> DEFINE V(g) == K!Value(x, g)
           place(g) == K!B ^ g
           Good(g) == \E h \in Nat : V(g) = V(k) + h * place(k)
           Bad == {g \in k .. l : ~Good(g)}
<1>0. /\ Lnum \in Nat /\ K!B \in Nat /\ \A g \in 0 .. l : V(g) \in Nat
      /\ \A g \in 0 .. Lnum + 1 : place(g) \in Nat
  BY ValueBound, KnuthLimb, RadixPowers
<1> SUFFICES ASSUME Bad # {} PROVE FALSE
  <2>1. l \in k .. l
    BY <1>0
  <2>2. Bad = {}
    OBVIOUS
  <2>3. Good(l)
    BY <2>1, <2>2
  <2> QED
    BY <2>3
<1>1. PICK g \in Bad : \A y \in Bad : g <= y
  <2>1. Bad \in SUBSET Nat
    BY <1>0
  <2> HIDE DEF Bad
  <2> QED
    BY <2>1, LeastNat
<1>2. g \in k .. l /\ ~Good(g)
  OBVIOUS
<1>3. Good(k)
  <2>1. V(k) \in Nat /\ place(k) \in Nat
    BY <1>0
  <2> HIDE DEF V, place
  <2>2. V(k) = V(k) + 0 * place(k)
    BY <2>1
  <2> QED
    BY <2>2
<1>4. g - 1 \in k .. l /\ g - 1 \in Nat /\ (g - 1) + 1 = g /\ g # k
  <2> HIDE DEF Good
  <2>1. g # k
    BY <1>2, <1>3
  <2> QED
    BY <2>1, <1>0, <1>2
<1>5. Good(g - 1)
  <2>1. ~(g - 1 \in Bad)
    BY <1>1, <1>4
  <2> HIDE DEF Good
  <2> QED
    BY <2>1, <1>4
<1>6. PICK h \in Nat : V(g - 1) = V(k) + h * place(k)
  BY <1>5
<1>7. V(g) = V(g - 1) + x[g - 1] * place(g - 1)
  BY <1>4, ValueSum
<1>8. place(g - 1) = place(k) * place(g - 1 - k) /\ place(g - 1 - k) \in Nat
  <2>1. /\ k \in 0 .. Lnum + 1 /\ g - 1 - k \in 0 .. Lnum + 1
        /\ k + (g - 1 - k) = g - 1 /\ g - 1 <= Lnum + 1
    BY <1>0, <1>4
  <2> QED
    BY <2>1, <1>0, RadixPowers
<1>9. x[g - 1] \in Nat
  <2>1. g - 1 \in 0 .. l - 1
    BY <1>0, <1>2, <1>4
  <2> QED
    BY <2>1, <1>0 DEF Limbs
<1> DEFINE pk == place(k)
           pr == place(g - 1 - k)
           d == x[g - 1]
<1>10. pk \in Nat /\ pr \in Nat /\ d \in Nat /\ V(k) \in Nat
  BY <1>0, <1>8, <1>9
<1>11. V(g) = (V(k) + h * pk) + d * (pk * pr)
  BY <1>6, <1>7, <1>8
<1> HIDE DEF pk, pr, d, V
<1>12. V(g) = V(k) + (h + d * pr) * pk /\ h + d * pr \in Nat
  BY <1>10, <1>11
<1> QED
  BY <1>2, <1>12 DEF pk

\* Its limbs are its digits.
LEMMA LimbsOfValue ==
  ASSUME NEW l \in 0 .. Lnum + 1, NEW x, Limbs(x, l), NEW k \in 0 .. l - 1
  PROVE  x[k] = K!Limb(K!Value(x, l), k)
<1> DEFINE a == K!Value(x, l)
           lo == K!Value(x, k)
           p == K!B ^ k
           b == K!B
           d == x[k]
<1>1. Lnum \in Nat /\ b \in Nat /\ b > 1
  BY KnuthLimb
<1>2. k \in 0 .. l /\ k + 1 \in 0 .. l /\ k \in 0 .. Lnum /\ k \in Nat
  BY <1>1
<1>3. d \in 0 .. b - 1
  BY DEF Limbs
<1>4. lo \in Nat /\ lo < p /\ a \in Nat
  <2>1. l \in 0 .. l
    BY <1>1
  <2> QED
    BY <2>1, <1>2, ValueBound
<1>5. K!B ^ (k + 1) = b * p /\ p \in Nat /\ p > 0
  BY <1>2, NextPlace
<1>6. K!Value(x, k + 1) = lo + d * p
  BY <1>2, ValueSum
<1>7. PICK h \in Nat : a = K!Value(x, k + 1) + h * K!B ^ (k + 1)
  BY <1>2, ValueSplit
<1>8. a = (lo + d * p) + h * (b * p)
  BY <1>5, <1>6, <1>7
<1> HIDE DEF a, lo, p, b, d
<1>9. a = (h * b + d) * p + lo /\ h * b + d \in Nat
  BY <1>1, <1>3, <1>4, <1>5, <1>8
<1>10. a \div p = h * b + d
  <2> DEFINE e == h * b + d
  <2>1. /\ a = e * p + lo /\ e \in Int /\ a \in Int /\ p \in Int /\ p > 0
        /\ lo \in Int /\ 0 <= lo /\ lo < p
    BY <1>4, <1>5, <1>9
  <2> HIDE DEF e
  <2>2. a \div p = e
    BY <2>1, DivUnique
  <2> QED
    BY <2>2 DEF e
<1>11. (h * b + d) % b = d
  <2> DEFINE e == h * b + d
  <2>1. e \in Nat /\ e = h * b + d /\ 0 <= d /\ d < b /\ d \in Int
    BY <1>1, <1>3, <1>9
  <2> HIDE DEF e
  <2>2. e % b = d
    BY <2>1, <1>1, DivUnique
  <2> QED
    BY <2>2 DEF e
<1> QED
  BY <1>10, <1>11 DEF a, p, b, d, K!Limb

\* A limb of the remainder, from two limbs of what is left.
LEMMA UnnormalisedLimb ==
  ASSUME Limbs(u, Lnum + 1), NEW k \in 0 .. Lnum - 1, NEW p, LimbAndShift(K!B, p)
  PROVE  ((u[k] + K!B * u[k + 1]) \div p) % K!B = K!Limb(KLeft \div p, k)
<1> DEFINE b == K!B
           m == Lnum + 1
           U == KLeft
           place == b ^ k
           a == U \div place
<1>1. Lnum \in Nat /\ b \in Nat /\ b > 1
  BY KnuthLimb
<1>2. /\ m \in 0 .. Lnum + 1 /\ k \in 0 .. m - 1 /\ k + 1 \in 0 .. m - 1
      /\ k \in 0 .. Lnum /\ m \in 0 .. m
  BY <1>1
<1>3. U \in Nat
  BY <1>2, ValueBound DEF KLeft
<1>4. b ^ (k + 1) = b * place /\ place \in Nat /\ place > 0
  BY <1>2, NextPlace
<1>5. p \in Nat /\ p > 0
  BY DEF LimbAndShift
<1>6. u[k] = K!Limb(U, k) /\ u[k + 1] = K!Limb(U, k + 1)
  <2> DEFINE w == u
             y == k + 1
  <2>1. y \in 0 .. m - 1 /\ Limbs(w, m)
    BY <1>2
  <2> HIDE DEF w, y, m
  <2>2. w[k] = K!Limb(K!Value(w, m), k) /\ w[y] = K!Limb(K!Value(w, m), y)
    BY <2>1, <1>2, LimbsOfValue
  <2> QED
    BY <2>2 DEF w, y, m, KLeft
<1> HIDE DEF U, place, b
<1>7. a \in Nat
  <2>1. a \in Int
    BY <1>3, <1>4, DivMod
  <2>2. 0 * place <= U
    BY <1>3, <1>4
  <2>3. 0 <= a
    BY <2>2, <1>3, <1>4, FloorAtLeast
  <2> QED
    BY <2>1, <2>3
<1>8. u[k] = a % b /\ u[k + 1] = (a \div b) % b
  <2>1. U \div (b * place) = a \div b
    BY <1>1, <1>3, <1>4, SplitByProduct
  <2> QED
    BY <2>1, <1>4, <1>6 DEF K!Limb, place, b
<1> HIDE DEF a
<1>9. a % (b * b) = u[k] + b * u[k + 1]
  <2>1. a % (b * b) = (a % b) + ((a \div b) % b) * b
    <3> DEFINE w == b
    <3>1. b \in Nat /\ w \in Nat /\ b > 0 /\ w > 0 /\ a \in Nat
      BY <1>1, <1>7
    <3> HIDE DEF w
    <3>2. a % (b * w) = (a % w) + ((a \div w) % b) * w /\ a \div (b * w) = (a \div w) \div b
      BY <3>1, SplitByProduct
    <3> QED
      BY <3>2 DEF w
  <2> DEFINE y == a \div b
  <2>2. y \in Int /\ a % b \in Int
    BY <1>1, <1>7, DivMod
  <2> HIDE DEF y
  <2>3. y % b \in Int
    BY <2>2, <1>1, DivMod
  <2>4. (y % b) * b = b * (y % b)
    BY <2>3, <1>1
  <2> QED
    BY <2>1, <2>4, <1>8 DEF y
<1>10. ((a % (b * b)) \div p) % b = (a \div p) % b
  BY <1>7, ShiftedLimb DEF b
<1>11. a \div p = (U \div p) \div place
  BY <1>3, <1>4, <1>5, DivisionsCommute DEF a
<1> QED
  BY <1>9, <1>10, <1>11 DEF K!Limb, place, b, U

LEMMA KnuthUnnormalise == ASSUME KnuthInv, K!Unnormalise PROVE KnuthInv'
<1> DEFINE p == 2 ^ K!shift
           limb == [k \in 0 .. K!n - 1 |-> ((u[k] + K!B * u[k + 1]) \div p) % K!B]
           U == KLeft
           Q == K!Value(q, Lnum)
           r == U \div p
<1>1. /\ stage = "remainder" /\ K!Reply(K!WD!Answer("quotient", Q, K!Value(limb, K!n)))
      /\ UNCHANGED <<num, den, j, u, q, qhat, rhat, carry, product, i, borrow>>
  BY DEF K!Unnormalise, K!call, K!estimate, K!inner
<1>2. /\ den # 0 /\ K!n > 1 /\ u \in [0 .. Lnum -> K!Digits] /\ q \in [0 .. Lnum - 1 -> K!Digits]
      /\ KLeft = KRest /\ KRest \in Nat /\ KRest < K!Normalised
  BY <1>1 DEF KnuthInv, KLoaded, KBetween, KDone
<1>3. Lnum \in Nat /\ Lden \in Nat /\ Lden <= Lnum /\ K!B \in Nat /\ K!B > 1
  BY KnuthLimb
<1>4. Limbs(u, Lnum + 1) /\ Limbs(q, Lnum)
  BY <1>2, <1>3 DEF Limbs, K!Digits
<1>5. KArguments
  BY DEF KnuthInv, K!TypeOK, KArguments
<1>6. /\ num \in Nat /\ den \in Nat /\ K!n \in 1 .. Lden /\ den < K!B ^ K!n
      /\ LimbAndShift(K!B, p) /\ K!Normalised = den * p
  BY <1>2, <1>5, KnuthDivisor
<1>7. p \in Nat /\ p > 0
  BY <1>6 DEF LimbAndShift
<1>8. Q \in Nat
  <2>1. Lnum \in 0 .. Lnum + 1 /\ Lnum \in 0 .. Lnum
    BY <1>3
  <2> DEFINE z == q
  <2>2. Limbs(z, Lnum)
    BY <1>4
  <2> HIDE DEF z
  <2>3. K!Value(z, Lnum) \in Nat
    BY <2>1, <2>2, ValueBound
  <2> QED
    BY <2>3 DEF z
<1>9. U \in Nat /\ U = num * p - Q * (den * p) /\ U < den * p
  BY <1>2, <1>6 DEF KRest
<1>10. r \in Nat /\ r < den /\ num = Q * den + r
  <2> HIDE DEF p, U, Q
  <2> QED
    BY <1>6, <1>7, <1>8, <1>9, ShiftedBack
<1>11. K!n \in 0 .. Lnum + 1 /\ K!n \in 0 .. K!n /\ \A k \in 0 .. K!n - 1 : k \in 0 .. Lnum - 1
  BY <1>3, <1>6
<1>12. \A k \in 0 .. K!n - 1 : limb[k] = K!Limb(r, k)
  <2> TAKE k \in 0 .. K!n - 1
  <2>1. k \in 0 .. Lnum - 1
    BY <1>11
  <2>2. ((u[k] + K!B * u[k + 1]) \div p) % K!B = K!Limb(r, k)
    <3> HIDE DEF p
    <3> QED
      BY <2>1, <1>4, <1>6, UnnormalisedLimb
  <2> QED
    BY <2>2
<1>13. K!Value(limb, K!n) = r
  <2> HIDE DEF limb, r
  <2>1. K!Value(limb, K!n) = r % K!B ^ K!n
    BY <1>10, <1>11, <1>12, ValueLimbs
  <2>2. K!B ^ K!n \in Nat /\ r < K!B ^ K!n
    BY <1>6, <1>10, <1>11, PlaceOf
  <2> QED
    BY <2>1, <2>2, <1>10, RemainderOfSmall
<1>14. K!WD!Answer("quotient", Q, r) = K!WD!RightAnswer(num, den)
  <2> HIDE DEF Q, r
  <2> QED
    BY <1>2, <1>5, <1>8, <1>10, KnuthRight
<1> HIDE DEF limb, r
<1> QED
  BY <1>1, <1>13, <1>14, KnuthReply

-----------------------------------------------------------------------------
(* divmod: what its invariant says of every reachable state                *)

LEMMA KnuthConserves == ASSUME KnuthInv PROVE K!NumeratorConserved
<1> SUFFICES ASSUME stage \in {"digit", "remainder"}
             PROVE  /\ num * 2 ^ K!shift = K!Value(q, Lnum) * K!Normalised + KLeft
                    /\ KLeft < K!Normalised * (IF stage = "digit" THEN K!B ^ (j + 1) ELSE 1)
  BY DEF K!NumeratorConserved, KLeft
<1> DEFINE p == 2 ^ K!shift
           Q == K!Value(q, Lnum)
           v == K!Normalised
<1>1. den # 0 /\ q \in [0 .. Lnum - 1 -> K!Digits] /\ KLeft = KRest /\ KArguments
  BY DEF KnuthInv, KLoaded, KBetween, K!TypeOK, KArguments, KLoop
<1>2. num \in Nat /\ v \in Nat /\ LimbAndShift(K!B, p)
  BY <1>1, KnuthDivisor
<1>3. Q \in Nat
  <2>1. Lnum \in 0 .. Lnum + 1 /\ Lnum \in 0 .. Lnum
    BY KnuthLimb
  <2> DEFINE z == q
  <2>2. Limbs(z, Lnum)
    BY <1>1 DEF Limbs, K!Digits
  <2> HIDE DEF z
  <2>3. K!Value(z, Lnum) \in Nat
    BY <2>1, <2>2, ValueBound
  <2> QED
    BY <2>3 DEF z
<1>4. num * p = Q * v + KLeft
  <2> DEFINE x == num * p
             y == Q * v
  <2>1. x \in Int /\ y \in Int /\ KLeft = x - y
    BY <1>1, <1>2, <1>3 DEF KRest, LimbAndShift
  <2> HIDE DEF x, y
  <2>2. x = y + KLeft
    BY <2>1
  <2> QED
    BY <2>2 DEF x, y
<1>5. CASE stage = "digit"
  <2>1. stage \in KLoop
    BY <1>5 DEF KLoop
  <2>2. KRest < KPlace * K!B /\ j \in 0 .. Lnum /\ K!B \in Nat
    BY <2>1, KnuthLoop
  <2>3. K!B ^ (j + 1) = K!B * K!B ^ j /\ K!B ^ j \in Nat
    BY <2>2, NextPlace
  <2> DEFINE cj == K!B ^ j
             b == K!B
  <2>4. (v * cj) * b = v * (b * cj)
    <3> HIDE DEF v, cj, b
    <3>1. v \in Nat /\ cj \in Nat /\ b \in Nat
      BY <1>2, <2>2, <2>3 DEF v, cj, b
    <3> QED
      BY <3>1
  <2> QED
    BY <1>1, <1>4, <1>5, <2>2, <2>3, <2>4 DEF KPlace
<1>6. CASE stage = "remainder"
  <2>1. KRest < v /\ v * 1 = v
    BY <1>2, <1>6 DEF KnuthInv, KDone
  <2> QED
    BY <1>1, <1>4, <1>6, <2>1
<1> QED
  BY <1>5, <1>6

LEMMA KnuthEstimateClose == ASSUME KnuthInv PROVE K!EstimateWithinOne
<1> SUFFICES ASSUME stage = "subtract", i = 0
             PROVE  LET digit == (KLeft \div K!B ^ j) \div K!Normalised
                    IN  qhat \in {digit, digit + 1}
  BY DEF K!EstimateWithinOne, KLeft
<1> DEFINE v == K!Normalised
           cj == K!B ^ j
<1>1. stage \in KLoop
  BY DEF KLoop
<1>2. /\ borrow = 0 /\ qhat \in {KDigit, KDigit + 1}
      /\ KLeft - borrow * (K!B ^ 0 * cj) + qhat * ((v % K!B ^ 0) * cj) = KRest
  BY DEF KnuthInv, KSubtracting
<1>3. /\ v \in Nat /\ v > 0 /\ KRest \in Nat /\ j \in 0 .. Lnum /\ Lnum \in Nat
      /\ Limbs(u, Lnum + 1)
  BY <1>1, KnuthLoop
<1>4. cj \in Nat /\ cj > 0 /\ K!B ^ 0 = 1
  BY <1>3, NextPlace, RadixPowers
<1>5. KLeft \in Nat
  <2> DEFINE m == Lnum + 1
             z == u
  <2>1. m \in 0 .. Lnum + 1 /\ m \in 0 .. m /\ Limbs(z, m)
    BY <1>3
  <2> HIDE DEF m, z
  <2>2. K!Value(z, m) \in Nat
    BY <2>1, ValueBound
  <2> QED
    BY <2>2 DEF m, z, KLeft
<1>6. qhat \in Nat
  BY <1>1, <1>2, KnuthDigit
<1>7. KLeft = KRest
  <2>1. v % 1 = 0
    BY <1>3
  <2>2. 0 * (1 * cj) = 0 /\ 0 * cj = 0 /\ qhat * 0 = 0
    BY <1>4, <1>6
  <2>3. KLeft - 0 + 0 = KRest
    BY <2>1, <2>2, <1>2, <1>4
  <2> QED
    BY <2>3, <1>3, <1>5
<1>8. KRest \div (v * cj) = (KRest \div cj) \div v
  <2> HIDE DEF v, cj
  <2> QED
    BY <1>3, <1>4, SplitByProduct
<1> QED
  BY <1>2, <1>7, <1>8 DEF KDigit, KPlace

-----------------------------------------------------------------------------
(* The theorems                                                            *)

Inv ==
  /\ method \in {"narrow", "portable", "knuth"}
  /\ method = "narrow" => NarrowInv
  /\ method = "portable" => PortableInv
  /\ method = "knuth" => KnuthInv

LEMMA InitInv == Init => Inv
  BY NarrowInit, PortableInit, KnuthInit DEF Init, Inv

LEMMA NextInv == Inv /\ [Next]_vars => Inv'
<1> SUFFICES ASSUME Inv, [Next]_vars PROVE Inv'
  OBVIOUS
<1>1. CASE Narrow
  <2>1. method = "narrow" /\ method' = "narrow" /\ N!Next /\ NarrowInv
    BY <1>1 DEF Narrow, Inv
  <2>2. NarrowInv'
    BY <2>1, NarrowCall, NarrowRejectZero, NarrowRejectWide, NarrowDivideLow,
       NarrowDivideByLimb, NarrowNormalise, NarrowDigitCall, NarrowDigitStep,
       NarrowHighDigit, NarrowLowDigit, NarrowReturn DEF N!Next, N!Work
  <2> QED
    BY <2>1, <2>2 DEF Inv
<1>2. CASE Portable
  <2>1. method = "portable" /\ method' = "portable" /\ P!Next /\ PortableInv
    BY <1>2 DEF Portable, Inv
  <2>2. PortableInv'
    BY <2>1, PortableCall, PortableByLimb, PortableBelow, PortableEstimate,
       PortableCorrect, PortableLeave, PortableSubtract, PortableReturn DEF P!Next, P!Work
  <2> QED
    BY <2>1, <2>2 DEF Inv
<1>3. CASE Knuth
  <2>1. method = "knuth" /\ method' = "knuth" /\ K!Next /\ KnuthInv
    BY <1>3 DEF Knuth, Inv
  <2>2. KnuthInv'
    BY <2>1, KnuthCall, KnuthRejectZero, KnuthFewerLimbs, KnuthStartLimbs, KnuthDivideLimb,
       KnuthLimbsDivided, KnuthNormalise, KnuthEstimate, KnuthCorrect, KnuthCorrected,
       KnuthSubtractLimb, KnuthDigitRight, KnuthStartAddBack, KnuthAddBackLimb,
       KnuthAddedBack, KnuthUnnormalise, KnuthReturn DEF K!Next, K!Work
  <2> QED
    BY <2>1, <2>2 DEF Inv
<1>4. CASE UNCHANGED vars
  <2>1. method' = method /\ UNCHANGED N!vars /\ UNCHANGED P!vars /\ UNCHANGED K!vars
    BY <1>4 DEF vars, narrowOnly, knuthOnly, N!vars, N!digitVars, P!vars, K!vars
  <2> QED
    BY <2>1, NarrowStutter, PortableStutter, KnuthStutter DEF Inv
<1> QED
  BY <1>1, <1>2, <1>3, <1>4 DEF Next

\* The inductive invariant holds in every reachable state.
THEOREM InductiveInvariant == Spec => []Inv
<1> QED
  BY InitInv, NextInv, PTL DEF Spec

\* Every divisor divide_narrow hands to divide_digit is normalised and above
\* the remainder, so that its machine division cannot trap.
THEOREM DigitCallsLegal == Spec => []DigitPrecondition
<1>1. Inv => DigitPrecondition
  <2> SUFFICES ASSUME Inv, method = "narrow", stage \in {"high", "low"}
               PROVE  N!D!Callable(rem, N!NextLimb, Shifted \div N!B, Shifted % N!B)
    BY DEF DigitPrecondition, N!DigitPrecondition, Shifted
  <2> QED
    BY DigitLegal DEF Inv
<1> QED
  BY InductiveInvariant, <1>1, PTL

\* Between divide_narrow's digits nothing of the numerator is lost.
THEOREM NarrowConserves == Spec => [](method = "narrow" => N!NumeratorConserved)
<1>1. Inv => (method = "narrow" => N!NumeratorConserved)
  <2> SUFFICES ASSUME Inv, method = "narrow", stage = "low"
               PROVE  num * 2 ^ shift = qhigh * N!B * den * 2 ^ shift + rem * N!B + (low % N!B)
    BY DEF N!NumeratorConserved
  <2> DEFINE p == 2 ^ shift
  <2>1. num * p = qhigh * N!B * (den * p) + rem * N!B + (low % N!B)
    BY DEF Inv, NarrowInv, NConserved, Shifted
  <2>2. N!B \in Nat /\ qhigh \in Nat /\ den \in Nat /\ shift \in 0 .. W - 1
    BY NarrowLimb DEF Inv, NarrowInv, NTyped, NNormalised, N!D!Digits
  <2>3. p \in Nat
    BY <2>2, NarrowLimb DEF LimbAndShift
  <2> HIDE DEF p
  <2>4. qhigh * N!B * (den * p) = qhigh * N!B * den * p
    BY <2>2, <2>3
  <2>5. num * p = qhigh * N!B * den * p + rem * N!B + (low % N!B)
    BY <2>1, <2>4
  <2> QED
    BY <2>5 DEF p
<1> QED
  BY InductiveInvariant, <1>1, PTL

\* Between the limbs of divide_narrow and of divmod nothing of the numerator is
\* lost, and in divmod what is left fits the digits still to be found.
THEOREM Conserved == Spec => []NumeratorConserved
<1>1. Inv => (method = "knuth" => K!NumeratorConserved)
  BY KnuthConserves DEF Inv
<1>2. NumeratorConserved <=>
        /\ method = "narrow" => N!NumeratorConserved
        /\ method = "knuth" => K!NumeratorConserved
  BY DEF NumeratorConserved
<1> QED
  BY InductiveInvariant, NarrowConserves, <1>1, <1>2, PTL

\* The limbs, the estimate, its rest and its product stay in range in divmod.
THEOREM TypeCorrect == Spec => []TypeOK
<1>1. Inv => TypeOK
  BY DEF Inv, KnuthInv, TypeOK
<1> QED
  BY InductiveInvariant, <1>1, PTL

\* The estimate divmod subtracts by is the digit or one more.
THEOREM EstimateClose == Spec => []EstimateWithinOne
<1>1. Inv => EstimateWithinOne
  BY KnuthEstimateClose DEF Inv, EstimateWithinOne
<1> QED
  BY InductiveInvariant, <1>1, PTL

\* When the divisor is added back the sum carries out of its top limb, so that
\* the zero divmod stores there is what the borrow and the carry leave.
THEOREM CarryMeetsBorrow == Spec => []AddBackCarriesOut
<1>1. Inv => AddBackCarriesOut
  BY KnuthCarriesOut DEF Inv, AddBackCarriesOut, K!AddBackCarriesOut
<1> QED
  BY InductiveInvariant, <1>1, PTL

\* The portable division deviates only after a saturated estimate, by one.
THEOREM PortableDeviation == Spec => []WrongOnlyWhenSaturated
<1>1. Inv => WrongOnlyWhenSaturated
  BY DEF Inv, PortableInv, PAnswered, OneTooHigh, WrongOnlyWhenSaturated,
         P!WrongOnlyWhenSaturated, P!Answered
<1> QED
  BY InductiveInvariant, <1>1, PTL

\* The comparison with a stale product never lowers the estimate too far.
THEOREM StaleProductNeverLowers == Spec => []StaleProductHarmless
<1>1. Inv => StaleProductHarmless
  <2> SUFFICES ASSUME Inv, method = "portable", stage \in {"correct", "subtract"}
               PROVE  qhat >= Floor
    BY DEF StaleProductHarmless, P!StaleProductHarmless, Floor
  <2>1. PTyped /\ den > 0
    BY DEF Inv, PortableInv, PTyped
  <2>2. Floor \in Nat
    BY <2>1, PortableRight
  <2>3. qhat = Floor \/ OneTooHigh(qhat) \/ Floor <= qhat
    BY DEF Inv, PortableInv, PEstimated, PDecided, Fresh, LoweredOnce
  <2>4. P!B \in Nat
    BY PortableLimb
  <2> QED
    BY <2>2, <2>3, <2>4 DEF OneTooHigh
<1> QED
  BY InductiveInvariant, <1>1, PTL

-----------------------------------------------------------------------------
(* divide_narrow implements WideDivision                                   *)

LEMMA Replies ==
  \A n, d : N!WD!RightAnswer(n, d) \notin {N!WD!NoCall, N!WD!Pending}
BY DEF N!WD!RightAnswer, N!WD!NoCall, N!WD!Pending, N!WD!Answer

LEMMA NarrowSteps ==
  ASSUME Inv, Inv', method = "narrow", [Next]_vars
  PROVE  [N!WD!Next]_(N!WD!vars) /\ method' = "narrow"
<1>1. CASE UNCHANGED vars
  BY <1>1 DEF vars, N!WD!vars, N!Wide, N!B
<1>2. CASE Narrow
  <2>1. N!Next /\ method' = "narrow" /\ NAnswered /\ NAnswered' /\ NTyped
    BY <1>2 DEF Narrow, Inv, NarrowInv
  <2>2. N!Wide' = N!Wide
    BY DEF N!Wide, N!B
  <2>3. CASE N!Call
    <3>1. answer = N!WD!NoCall
      BY <2>1, <2>3 DEF NAnswered, N!Call
    <3>2. N!WD!Call
      BY <2>2, <2>3, <3>1 DEF N!WD!Call, N!Call
    <3> QED
      BY <2>1, <3>2 DEF N!WD!Next
  <2>4. CASE N!RejectZero \/ N!RejectWide \/ N!DivideLow \/ N!DivideByLimb \/ N!LowDigit
    <3>1. stage \in {"divide", "low"} /\ stage' = "answered" /\ num' = num /\ den' = den
      BY <2>4 DEF N!RejectZero, N!RejectWide, N!DivideLow, N!DivideByLimb, N!LowDigit, N!Reply
    <3>2. answer = N!WD!Pending
      BY <2>1, <3>1 DEF NAnswered
    <3>3. answer' = N!WD!RightAnswer(num, den)
      <4>1. answer' = N!WD!RightAnswer(num, den)'
        BY <2>1, <3>1 DEF NAnswered
      <4> QED
        BY <4>1, <3>1, <2>2 DEF N!WD!RightAnswer
    <3>4. N!WD!Respond
      BY <2>2, <3>1, <3>2, <3>3 DEF N!WD!Respond
    <3> QED
      BY <2>1, <3>4 DEF N!WD!Next
  <2>5. CASE N!Normalise \/ N!DigitCall \/ N!DigitStep \/ N!HighDigit
    <3>1. num' = num /\ den' = den /\ answer' = answer
      BY <2>5 DEF N!Normalise, N!DigitCall, N!DigitStep, N!HighDigit
    <3> QED
      BY <2>1, <2>2, <3>1 DEF N!WD!vars
  <2>6. CASE N!Return
    <3>1. answer \notin {N!WD!NoCall, N!WD!Pending}
      BY <2>1, <2>6, Replies DEF NAnswered, N!Return
    <3>2. N!WD!Return
      BY <2>2, <2>6, <3>1 DEF N!WD!Return, N!Return
    <3> QED
      BY <2>1, <3>2 DEF N!WD!Next
  <2> QED
    BY <2>1, <2>3, <2>4, <2>5, <2>6 DEF N!Next, N!Work
<1>3. CASE Portable \/ Knuth
  BY <1>3 DEF Portable, Knuth
<1> QED
  BY <1>1, <1>2, <1>3 DEF Next

\* Every step of divide_narrow is a step of WideDivision or leaves it where it
\* is: each call it answers gets the exact quotient and remainder, or the error.
THEOREM NarrowImplements ==
  Spec /\ method = "narrow" => N!WD!Init /\ [][N!WD!Next]_(N!WD!vars)
<1>1. Init => N!WD!Init
  BY NarrowLimb DEF Init, N!Init, N!WD!Init
<1>2. Inv /\ Inv' /\ method = "narrow" /\ [Next]_vars
        => [N!WD!Next]_(N!WD!vars) /\ (method = "narrow")'
  BY NarrowSteps
<1> QED
  BY InductiveInvariant, <1>1, <1>2, PTL DEF Spec

-----------------------------------------------------------------------------
(* divmod implements WideDivision                                          *)

LEMMA KnuthReplies ==
  \A n, d : K!WD!RightAnswer(n, d) \notin {K!WD!NoCall, K!WD!Pending}
BY DEF K!WD!RightAnswer, K!WD!NoCall, K!WD!Pending, K!WD!Answer

LEMMA KnuthSteps ==
  ASSUME Inv, Inv', method = "knuth", [Next]_vars
  PROVE  [K!WD!Next]_(K!WD!vars) /\ method' = "knuth"
<1>1. CASE UNCHANGED vars
  BY <1>1 DEF vars, K!WD!vars
<1>2. CASE Knuth
  <2>1. K!Next /\ method' = "knuth" /\ KAnswered /\ KAnswered'
    BY <1>2 DEF Knuth, Inv, KnuthInv
  <2>2. CASE K!Call
    <3>1. answer = K!WD!NoCall
      BY <2>1, <2>2 DEF KAnswered, K!Call
    <3>2. K!WD!Call
      BY <2>2, <3>1 DEF K!WD!Call, K!Call
    <3> QED
      BY <2>1, <3>2 DEF K!WD!Next
  <2>3. CASE K!RejectZero \/ K!FewerLimbs \/ K!LimbsDivided \/ K!Unnormalise
    <3>1. stage \in {"divide", "limbs", "remainder"} /\ stage' = "answered"
          /\ num' = num /\ den' = den
      BY <2>3 DEF K!RejectZero, K!FewerLimbs, K!LimbsDivided, K!Unnormalise, K!Reply, K!call
    <3>2. answer = K!WD!Pending
      BY <2>1, <3>1 DEF KAnswered
    <3>3. answer' = K!WD!RightAnswer(num, den)
      BY <2>1, <3>1, KArgumentsRest DEF KAnswered
    <3>4. K!WD!Respond
      BY <3>1, <3>2, <3>3 DEF K!WD!Respond
    <3> QED
      BY <2>1, <3>4 DEF K!WD!Next
  <2>4. CASE \/ K!StartLimbDivision \/ K!DivideLimb \/ K!Normalise \/ K!EstimateDigit
             \/ K!Correct \/ K!Corrected \/ K!SubtractLimb \/ K!DigitRight
             \/ K!StartAddBack \/ K!AddBackLimb \/ K!AddedBack
    <3>1. num' = num /\ den' = den /\ answer' = answer
      BY <2>4 DEF K!StartLimbDivision, K!DivideLimb, K!Normalise, K!EstimateDigit, K!Correct,
         K!Corrected, K!SubtractLimb, K!DigitRight, K!StartAddBack, K!AddBackLimb,
         K!AddedBack, K!call
    <3> QED
      BY <2>1, <3>1 DEF K!WD!vars
  <2>5. CASE K!Return
    <3>1. answer \notin {K!WD!NoCall, K!WD!Pending}
      BY <2>1, <2>5, KnuthReplies DEF KAnswered, K!Return
    <3>2. K!WD!Return
      BY <2>5, <3>1 DEF K!WD!Return, K!Return
    <3> QED
      BY <2>1, <3>2 DEF K!WD!Next
  <2> QED
    BY <2>1, <2>2, <2>3, <2>4, <2>5 DEF K!Next, K!Work
<1>3. CASE Narrow \/ Portable
  BY <1>3 DEF Narrow, Portable
<1> QED
  BY <1>1, <1>2, <1>3 DEF Next

\* Every step of divmod is a step of WideDivision or leaves it where it is:
\* every quotient and remainder it answers with is exact, for any number of
\* limbs of the numerator and of the divisor.
THEOREM KnuthImplements ==
  Spec /\ method = "knuth" => K!WD!Init /\ [][K!WD!Next]_(K!WD!vars)
<1>1. Init => K!WD!Init
  <2>1. Lnum \in 0 .. Lnum + 1
    BY KnuthLimb
  <2>2. K!B ^ Lnum \in Nat
    BY <2>1, PlaceOf
  <2> QED
    BY <2>2 DEF Init, K!Init, K!WD!Init
<1>2. Inv /\ Inv' /\ method = "knuth" /\ [Next]_vars
        => [K!WD!Next]_(K!WD!vars) /\ (method = "knuth")'
  BY KnuthSteps
<1> QED
  BY InductiveInvariant, <1>1, <1>2, PTL DEF Spec
=============================================================================
