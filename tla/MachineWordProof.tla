--------------------------- MODULE MachineWordProof ---------------------------
(***************************************************************************)
(* Proofs about words of any size.  The ways the code has of deciding      *)
(* nearest_even agree, although each wraps differently, and                *)
(* round_magnitude() delivers the integer its mode names, which is the one *)
(* of ExactRounding; what the range tests before a machine division let    *)
(* through does not trap, and leaves the room its rounding takes.          *)
(***************************************************************************)
EXTENDS MachineWord, IntegerLemmas

INSTANCE Rounding
INSTANCE ExactRounding WITH Bits <- Word

-----------------------------------------------------------------------------
(* Rounding                                                                *)

\* Words wrap at an even number; 2^64 in the code.
WordWraps == M \in Nat /\ M >= 4 /\ M % 2 = 0

\* What nearest_even has to decide for the magnitude q + r / d.
MovesUp(q, r, d) == 2 * r > d \/ (2 * r = d /\ q % 2 = 1)

\* N / d rounds to x by a mode; N and x are signed, d is positive.
IsRounded(N, d, x, rounding) ==
  LET e == Magnitude(N - x * d)
  IN /\ rounding = "floor" => 0 <= N - x * d /\ e < d
     /\ rounding = "ceil" => 0 <= x * d - N /\ e < d
     /\ rounding = "toward_zero" =>
          e < d /\ (N >= 0 => 0 <= N - x * d) /\ (N <= 0 => 0 <= x * d - N)
     /\ rounding = "exact" => e = 0
     /\ rounding = "nearest_even" => 2 * e < d \/ (2 * e = d /\ x % 2 = 0)
     /\ rounding = "nearest_away" =>
          \/ 2 * e < d
          \/ 2 * e = d /\ (N >= 0 => N < x * d) /\ (N <= 0 => x * d < N)

-----------------------------------------------------------------------------
(* The increments *)

\* Half of a positive number, and what is left of it.
LEMMA Halves ==
  ASSUME NEW d \in Nat
  PROVE  /\ d \div 2 \in Nat /\ d % 2 \in {0, 1}
         /\ d = 2 * (d \div 2) + (d % 2)
  OBVIOUS

\* The tie bit is one exactly for an odd quotient and an even divisor.
LEMMA TieBit ==
  ASSUME NEW q \in Int, NEW d \in Int
  PROVE  /\ Tie(q, d) \in {0, 1}
         /\ Tie(q, d) = 1 <=> (q % 2 = 1 /\ d % 2 = 0)
  BY DEF Tie, Indicator

\* The threshold of round_magnitude() and of the kernels never wraps, and
\* comparing a remainder with it decides nearest_even.
THEOREM NearestEvenIncrementRight ==
  ASSUME WordWraps, NEW q \in Nat, NEW d \in 1 .. M - 1, NEW r \in 0 .. d - 1
  PROVE  NearestEvenIncrement(q, r, d) <=> MovesUp(q, r, d)
<1> DEFINE h == d \div 2
<1> DEFINE t == Tie(q, d)
<1>1. h \in Nat /\ d % 2 \in {0, 1} /\ d = 2 * h + (d % 2) /\ M \in Nat
  BY Halves DEF WordWraps
<1>2. t \in {0, 1} /\ (t = 1 <=> (q % 2 = 1 /\ d % 2 = 0))
  BY TieBit DEF WordWraps
<1>3. q % 2 \in {0, 1}
  OBVIOUS
<1> HIDE DEF h, t
<1>4. h - t \in 0 .. M - 1
  BY <1>1, <1>2
<1>5. (h - t) % M = h - t
  BY <1>4, <1>1
<1>6. r > h - t <=> MovesUp(q, r, d)
  BY <1>1, <1>2, <1>3 DEF MovesUp
<1> QED
  BY <1>5, <1>6 DEF NearestEvenIncrement, h, t

\* The branchless increment of arithmetic.hpp doubles the remainder, which
\* does not wrap for the magnitude of a signed divisor.
THEOREM NearestEvenIncRight ==
  ASSUME WordWraps, NEW q \in Int, NEW d \in 1 .. M \div 2, NEW r \in 0 .. d - 1
  PROVE  NearestEvenInc(q, r, d) <=> MovesUp(q, r, d)
<1>1. M \div 2 \in Nat /\ M = 2 * (M \div 2) /\ M \in Nat
  BY Halves DEF WordWraps
<1>2. q % 2 \in {0, 1}
  OBVIOUS
<1> DEFINE p == q % 2
<1>3. 2 * r + p \in 0 .. M - 1
  BY <1>1, <1>2
<1>4. (2 * r + p) % M = 2 * r + p
  BY <1>3, <1>1
<1>5. 2 * r + p > d <=> MovesUp(q, r, d)
  BY <1>1, <1>2 DEF MovesUp
<1> QED
  BY <1>4, <1>5 DEF NearestEvenInc

\* The multiplication's adjustment, which does not ask for the sign, moves a
\* truncated quotient away from zero exactly when nearest_even does.
THEOREM NearestScaledAdjRight ==
  ASSUME NEW q \in Int, NEW scale \in Nat \ {0},
         NEW rem \in -(scale - 1) .. scale - 1
  PROVE  NearestScaledAdj(q, rem, scale)
           = IF MovesUp(q, Magnitude(rem), scale)
               THEN IF rem < 0 THEN -1 ELSE 1
               ELSE 0
<1> DEFINE h == scale \div 2
<1> DEFINE t == Tie(q, scale)
<1>1. h \in Nat /\ scale % 2 \in {0, 1} /\ scale = 2 * h + (scale % 2)
  BY Halves
<1>2. t \in {0, 1} /\ (t = 1 <=> (q % 2 = 1 /\ scale % 2 = 0))
  BY TieBit
<1>3. q % 2 \in {0, 1}
  OBVIOUS
<1> HIDE DEF h, t
<1>4. h - t >= 0
  BY <1>1, <1>2
<1>5. Magnitude(rem) \in 0 .. scale - 1
      /\ (rem < 0 => Magnitude(rem) = -rem) /\ (rem >= 0 => Magnitude(rem) = rem)
  BY DEF Magnitude
<1>6. Magnitude(rem) > h - t <=> MovesUp(q, Magnitude(rem), scale)
  BY <1>1, <1>2, <1>3, <1>5 DEF MovesUp
<1>7. NearestScaledAdj(q, rem, scale)
        = Indicator(rem > h - t) - Indicator(rem < -(h - t))
  BY DEF NearestScaledAdj, h, t
<1>8. CASE rem < 0
  BY <1>1, <1>2, <1>4, <1>5, <1>6, <1>7, <1>8 DEF Indicator
<1>9. CASE rem >= 0
  BY <1>1, <1>2, <1>4, <1>5, <1>6, <1>7, <1>9 DEF Indicator
<1> QED
  BY <1>8, <1>9

-----------------------------------------------------------------------------
(* round_magnitude() *)

\* The increment by mode, free of wrapping.
LEMMA IncrementMeans ==
  ASSUME WordWraps, NEW q \in Nat, NEW d \in 1 .. M - 1, NEW r \in 1 .. d - 1,
         NEW negative \in BOOLEAN, NEW rounding \in Modes
  PROVE  /\ rounding = "floor" => (Increment(q, r, d, negative, rounding) <=> negative)
         /\ rounding = "ceil" => (Increment(q, r, d, negative, rounding) <=> ~negative)
         /\ rounding = "nearest_even" =>
              (Increment(q, r, d, negative, rounding) <=> MovesUp(q, r, d))
         /\ rounding = "nearest_away" =>
              (Increment(q, r, d, negative, rounding) <=> 2 * r >= d)
         /\ rounding = "toward_zero" => ~Increment(q, r, d, negative, rounding)
<1>1. NearestEvenIncrement(q, r, d) <=> MovesUp(q, r, d)
  BY NearestEvenIncrementRight
<1>2. (d - r) % M = d - r /\ M \in Nat
  BY DEF WordWraps
<1> QED
  BY <1>1, <1>2 DEF Increment

\* A magnitude left as it was is rounded if the mode does not move it up.
LEMMA KeptIsRounded ==
  ASSUME NEW q \in Nat, NEW p \in Nat, NEW d \in Nat, NEW r \in Nat, r < d,
         NEW negative \in BOOLEAN, NEW rounding \in Modes, NEW N \in Int, NEW x \in Int,
         N = IF negative THEN -(p + r) ELSE p + r,
         x * d = IF negative THEN -p ELSE p,
         x = IF negative THEN -q ELSE q,
         rounding = "exact" => r = 0,
         rounding = "floor" => r = 0 \/ ~negative,
         rounding = "ceil" => r = 0 \/ negative,
         rounding = "nearest_even" => ~MovesUp(q, r, d),
         rounding = "nearest_away" => 2 * r < d
  PROVE  IsRounded(N, d, x, rounding)
<1>1. Magnitude(N - x * d) = r
  BY DEF Magnitude
<1> DEFINE y == x * d
<1>2. y = (IF negative THEN -p ELSE p) /\ Magnitude(N - y) = r
  BY <1>1
<1>3. rounding = "nearest_even" => 2 * r < d \/ (2 * r = d /\ x % 2 = 0)
  BY DEF MovesUp
<1> HIDE DEF y
<1>4. /\ rounding = "floor" => 0 <= N - y /\ r < d
      /\ rounding = "ceil" => 0 <= y - N /\ r < d
      /\ rounding = "toward_zero" =>
           r < d /\ (N >= 0 => 0 <= N - y) /\ (N <= 0 => 0 <= y - N)
  BY <1>2
<1> QED
  BY <1>2, <1>3, <1>4 DEF IsRounded, y

\* A magnitude moved up is rounded if the mode does move it up.
LEMMA MovedIsRounded ==
  ASSUME NEW q \in Nat, NEW p \in Nat, NEW d \in Nat, NEW r \in Nat, 0 < r, r < d,
         NEW negative \in BOOLEAN, NEW rounding \in Modes, NEW N \in Int, NEW x \in Int,
         N = IF negative THEN -(p + r) ELSE p + r,
         x * d = IF negative THEN -(p + d) ELSE p + d,
         x = IF negative THEN -(q + 1) ELSE q + 1,
         rounding \notin {"exact", "toward_zero"},
         rounding = "floor" => negative,
         rounding = "ceil" => ~negative,
         rounding = "nearest_even" => MovesUp(q, r, d),
         rounding = "nearest_away" => 2 * r >= d
  PROVE  IsRounded(N, d, x, rounding)
<1> DEFINE y == x * d
<1> DEFINE e == Magnitude(N - y)
<1>1. y = (IF negative THEN -(p + d) ELSE p + d) /\ e = d - r
  BY DEF Magnitude
<1>2. rounding = "nearest_even" =>
        2 * (d - r) < d \/ (2 * (d - r) = d /\ x % 2 = 0)
  BY DEF MovesUp
<1> HIDE DEF y, e
<1>3. /\ rounding = "floor" => 0 <= N - y /\ e < d
      /\ rounding = "ceil" => 0 <= y - N /\ e < d
      /\ rounding = "nearest_away" =>
           \/ 2 * e < d
           \/ 2 * e = d /\ (N >= 0 => N < y) /\ (N <= 0 => y < N)
  BY <1>1
<1>4. rounding = "nearest_even" => 2 * e < d \/ (2 * e = d /\ x % 2 = 0)
  BY <1>1, <1>2
<1> QED
  BY <1>3, <1>4 DEF IsRounded, e, y

\* A value delivered by round_magnitude() is within the limit and is the one
\* the mode names for the signed number.
THEOREM RoundMagnitudeRight ==
  ASSUME WordWraps, NEW q \in Nat, NEW d \in 1 .. M - 1, NEW r \in 0 .. d - 1,
         NEW negative \in BOOLEAN, NEW rounding \in Modes, NEW limit \in Nat,
         NEW v, RoundMagnitude(q, r, d, negative, rounding, limit) = Value(v)
  PROVE  /\ v \in 0 .. limit
         /\ IF negative THEN IsRounded(-(q * d + r), d, -v, rounding)
                        ELSE IsRounded(q * d + r, d, v, rounding)
<1> DEFINE up == Increment(q, r, d, negative, rounding)
<1>1. /\ q <= limit
      /\ \/ r = 0 /\ v = q
         \/ r # 0 /\ rounding # "exact" /\ ~up /\ v = q
         \/ r # 0 /\ rounding # "exact" /\ up /\ v = q + 1 /\ q # limit
  BY DEF RoundMagnitude, Failure, Value
<1>2. v \in 0 .. limit
  BY <1>1
<1> DEFINE p == q * d
<1> DEFINE N == IF negative THEN -(p + r) ELSE p + r
<1> DEFINE x == IF negative THEN -v ELSE v
<1>3. /\ p \in Nat /\ d \in Nat /\ r \in Nat /\ r < d /\ M \in Nat
      /\ (q + 1) * d = p + d
      /\ (-q) * d = -p /\ (-(q + 1)) * d = -(p + d)
  BY DEF WordWraps
<1>4. N \in Int /\ x \in Int
  BY <1>2, <1>3
<1>5. IsRounded(N, d, x, rounding)
  <2>1. CASE v = q /\ r = 0
    <3>1. x = (IF negative THEN -q ELSE q) /\ x * d = IF negative THEN -p ELSE p
      BY <2>1, <1>3
    <3>2. ~MovesUp(q, r, d)
      BY <2>1, <1>3 DEF MovesUp
    <3>3. 2 * r < d
      BY <2>1
    <3> HIDE DEF p, x, N
    <3> QED
      BY <3>1, <3>2, <3>3, <2>1, <1>3, <1>4, KeptIsRounded DEF N
  <2>2. CASE v = q /\ r # 0 /\ rounding # "exact" /\ ~up
    <3>1. x = (IF negative THEN -q ELSE q) /\ x * d = IF negative THEN -p ELSE p
      BY <2>2, <1>3
    <3>2. /\ rounding = "floor" => ~negative
          /\ rounding = "ceil" => negative
          /\ rounding = "nearest_even" => ~MovesUp(q, r, d)
          /\ rounding = "nearest_away" => 2 * r < d
      BY <2>2, IncrementMeans
    <3> HIDE DEF p, x, N, up
    <3> QED
      BY <3>1, <3>2, <2>2, <1>3, <1>4, KeptIsRounded DEF N
  <2>3. CASE v = q + 1 /\ r # 0 /\ rounding # "exact" /\ up
    <3>1. /\ x = (IF negative THEN -(q + 1) ELSE q + 1)
          /\ x * d = IF negative THEN -(p + d) ELSE p + d
      BY <2>3, <1>3
    <3>2. /\ rounding = "floor" => negative
          /\ rounding = "ceil" => ~negative
          /\ rounding = "nearest_even" => MovesUp(q, r, d)
          /\ rounding = "nearest_away" => 2 * r >= d
          /\ rounding \notin {"exact", "toward_zero"}
      BY <2>3, IncrementMeans
    <3>3. 0 < r /\ N = IF negative THEN -(p + r) ELSE p + r
      BY <2>3
    <3> HIDE DEF p, x, N, up
    <3> QED
      BY <3>1, <3>2, <3>3, <1>3, <1>4, MovedIsRounded
  <2> QED
    BY <1>1, <2>1, <2>2, <2>3
<1> QED
  BY <1>2, <1>5

\* An inexact answer of round_magnitude() means that truncation would do.
THEOREM InexactMeansTruncatable ==
  ASSUME NEW q \in Nat, NEW d, NEW r, NEW negative, NEW rounding, NEW limit \in Nat,
         RoundMagnitude(q, r, d, negative, rounding, limit).error = "inexact"
  PROVE  RoundMagnitude(q, r, d, negative, "toward_zero", limit) = Value(q)
  BY DEF RoundMagnitude, Failure, Value, Increment

-----------------------------------------------------------------------------
(* The machine division *)

\* A word of two bits or more, with as many negative values as others.
WordHalves(h) == h \in Int /\ h > 1 /\ M = h + h /\ INT_MIN = -h /\ INT_MAX = h - 1

\* n has a signed high word and fits two words.
DoubleWord(n, h) == n \in Int /\ -h <= HighWord(n) /\ HighWord(n) < h

-----------------------------------------------------------------------------

\* The sum of the test wraps only below zero, far from what is let through.
LEMMA ShiftedHighWord ==
  ASSUME NEW h, WordHalves(h), NEW hi \in Int, -h <= hi, hi < h,
         NEW half \in Int, 0 <= half, half + half <= h
  PROVE  (Unsigned(hi) + half) % M = IF hi + half < 0 THEN hi + half + M ELSE hi + half
<1>1. h \in Int /\ h > 1 /\ M \in Int /\ M = h + h
  BY DEF WordHalves
<1>2. CASE 0 <= hi
  <2>1. hi % M = hi
    BY <1>1, <1>2, hi = 0 * M + hi, DivUnique
  <2>2. (hi + half) % M = hi + half
    BY <1>1, <1>2, hi + half = 0 * M + (hi + half), DivUnique
  <2> QED
    BY <1>1, <1>2, <2>1, <2>2 DEF Unsigned
<1>3. CASE hi < 0
  <2>1. hi % M = hi + M
    <3>1. hi = (-1) * M + (hi + M)
      BY <1>1
    <3> QED
      BY <3>1, <1>1, <1>3, DivUnique
  <2>2. CASE hi + half < 0
    <3>1. hi + M + half = 0 * M + (hi + half + M)
      BY <1>1
    <3>2. (hi + M + half) % M = hi + half + M
      BY <3>1, <1>1, <1>3, <2>2, DivUnique
    <3> QED
      BY <3>2, <2>1, <2>2 DEF Unsigned
  <2>3. CASE ~(hi + half < 0)
    <3>1. hi + M + half = 1 * M + (hi + half)
      BY <1>1
    <3>2. (hi + M + half) % M = hi + half
      BY <3>1, <1>1, <1>3, <2>3, DivUnique
    <3> QED
      BY <3>2, <2>1, <2>3 DEF Unsigned
  <2> QED
    BY <2>2, <2>3
<1> QED
  BY <1>2, <1>3

\* A numerator is its high word's multiple of M and what is below.
LEMMA HighWordBounds ==
  ASSUME NEW h, WordHalves(h), NEW n \in Int
  PROVE  /\ HighWord(n) \in Int
         /\ HighWord(n) * M <= n /\ n < HighWord(n) * M + M
<1>1. M \in Int /\ M > 0
  BY DEF WordHalves
<1>2. /\ n \div M \in Int /\ n % M \in Int
      /\ n = (n \div M) * M + (n % M) /\ 0 <= n % M /\ n % M < M
  BY <1>1, DivMod
<1>3. (n \div M) * M \in Int
  BY <1>1, <1>2
<1> QED
  BY <1>1, <1>2, <1>3 DEF HighWord

\* A high word of at most half the divisor either way keeps the numerator within
\* h divisors.
LEMMA NumeratorWithin ==
  ASSUME NEW h, WordHalves(h), NEW n, DoubleWord(n, h),
         NEW mag \in Int, NEW half \in Int, 0 <= half, half + half <= mag
  PROVE  /\ HighWord(n) < half => n < h * mag
         /\ -half <= HighWord(n) => -(h * mag) <= n
         /\ -half < HighWord(n) => -(h * mag) + M <= n
<1> DEFINE hi == HighWord(n)
<1>1. /\ h \in Int /\ h > 1 /\ M \in Int /\ M = h + h
      /\ n \in Int /\ hi \in Int /\ hi * M <= n /\ n < hi * M + M
  <2>1. h \in Int /\ h > 1 /\ M = h + h /\ M \in Int
    BY DEF WordHalves
  <2>2. n \in Int
    BY DEF DoubleWord
  <2>3. hi \in Int /\ hi * M <= n /\ n < hi * M + M
    BY <2>2, HighWordBounds
  <2> QED
    BY <2>1, <2>2, <2>3
<1> HIDE DEF hi
<1>2. half * M <= h * mag
  <2>1. half * M = (half + half) * h
    BY <1>1
  <2>2. (half + half) * h <= mag * h
    BY <1>1, ProductBelow
  <2> QED
    BY <2>1, <2>2, <1>1
<1>3. hi * M \in Int /\ half * M \in Int /\ h * mag \in Int
  BY <1>1
<1>4. ASSUME hi < half PROVE n < h * mag
  <2>1. hi * M + M <= half * M
    BY <1>1, <1>4, MultipleOrder
  <2> QED
    BY <2>1, <1>1, <1>2, <1>3
<1>5. ASSUME -half < hi PROVE -(h * mag) + M <= n
  <2>1. (-half) * M + M <= hi * M
    BY <1>1, <1>5, MultipleOrder
  <2>2. (-half) * M = -(half * M)
    BY <1>1
  <2> QED
    BY <2>1, <2>2, <1>1, <1>2, <1>3
<1>6. ASSUME -half <= hi PROVE -(h * mag) <= n
  <2>1. CASE -half < hi
    BY <2>1, <1>1, <1>3, <1>5
  <2>2. CASE hi = -half
    <3>1. hi * M = -(half * M)
      BY <2>2, <1>1
    <3> QED
      BY <3>1, <1>1, <1>2, <1>3
  <2> QED
    BY <2>1, <2>2, <1>1, <1>6
<1> QED
  BY <1>4, <1>5, <1>6 DEF hi

\* A product of two words has a signed high word.
LEMMA ProductOfWords ==
  ASSUME NEW h \in Int, WordHalves(h),
         NEW a \in Int, -h <= a, a <= h, NEW b \in Int, -h <= b, b <= h
  PROVE  DoubleWord(a * b, h)
<1> DEFINE n == a * b
           hi == HighWord(n)
           m == M
           u == Absolute(a)
           v == Absolute(b)
<1>1. m \in Int /\ m = h + h /\ h > 1
  BY DEF WordHalves
<1>2. n \in Int
  OBVIOUS
<1>3. hi \in Int /\ hi * m <= n /\ n < hi * m + m
  BY <1>2, HighWordBounds
<1>4. u \in Int /\ 0 <= u /\ u <= h /\ v \in Int /\ 0 <= v /\ v <= h
  BY <1>1 DEF Absolute
<1>5. n = u * v \/ n = -(u * v)
  BY <1>2 DEF Absolute
<1> HIDE DEF n, hi, m, u, v
<1>6. u * v \in Int /\ 0 <= u * v /\ u * v <= h * h
  <2>1. u * v <= h * v /\ 0 <= u * v /\ u * v \in Int
    BY <1>4, ProductBelow
  <2>2. v * h <= h * h /\ v * h = h * v /\ h * h \in Int /\ h * v \in Int
    BY <1>1, <1>4, ProductBelow
  <2> QED
    BY <2>1, <2>2
<1>7. h * h \in Int /\ h * m = h * h + h * h /\ h <= h * h
  <2>1. h * (h + h) = h * h + h * h
    OBVIOUS
  <2>2. h <= h * h
    BY <1>1, PositiveProduct
  <2> QED
    BY <1>1, <2>1, <2>2
<1>8. -(h * h) <= n /\ n <= h * h
  BY <1>2, <1>5, <1>6, <1>7
<1>9. ~(hi < -h)
  <2> SUFFICES ASSUME hi < -h PROVE FALSE
    OBVIOUS
  <2>1. hi * m + m <= (-h) * m
    BY <1>1, <1>3, MultipleOrder
  <2>2. (-h) * m = -(h * m) /\ hi * m \in Int /\ h * m \in Int
    BY <1>1, <1>3
  <2> QED
    BY <2>1, <2>2, <1>1, <1>2, <1>3, <1>7, <1>8
<1>10. ~(h <= hi)
  <2> SUFFICES ASSUME h <= hi PROVE FALSE
    OBVIOUS
  <2>1. h * m <= hi * m /\ hi * m \in Int /\ h * m \in Int
    BY <1>1, <1>3, ProductBelow
  <2> QED
    BY <2>1, <1>1, <1>2, <1>3, <1>7, <1>8
<1> QED
  BY <1>1, <1>2, <1>3, <1>9, <1>10 DEF DoubleWord, n, hi

\* quotient_fits_signed64, and its inline copies: a division they allow has a
\* divisor and a quotient of one signed word, min / -1 excluded, so it does not trap.
THEOREM MachineDivisionFits ==
  ASSUME NEW h, WordHalves(h), NEW n, DoubleWord(n, h),
         NEW d \in Int, -h <= d, d < h, QuotientFits(n, d)
  PROVE  d # 0 /\ InWord(Quotient(n, d))
<1> DEFINE hi == HighWord(n)
           mag == Absolute(d)
           half == mag \div 2
           m == Absolute(n) \div mag
<1>1. /\ h \in Int /\ h > 1 /\ M \in Int /\ M = h + h
      /\ INT_MIN = -h /\ INT_MAX = h - 1
      /\ n \in Int /\ hi \in Int /\ -h <= hi /\ hi < h
  <2>1. /\ h \in Int /\ h > 1 /\ M = h + h
        /\ INT_MIN = -h /\ INT_MAX = h - 1
    BY DEF WordHalves
  <2>2. M \in Int
    BY <2>1
  <2>3. n \in Int /\ -h <= hi /\ hi < h
    BY DEF DoubleWord
  <2>4. hi \in Int
    BY <2>3, HighWordBounds
  <2> QED
    BY <2>1, <2>2, <2>3, <2>4
<1>2. mag \in Int /\ 0 <= mag /\ mag <= h /\ (mag = 0 <=> d = 0)
  BY <1>1 DEF Absolute
<1>3. half \in Int /\ 0 <= half /\ half + half <= mag /\ (mag > 0 \/ half = 0)
  BY <1>2
<1>4. /\ (Unsigned(hi) + half) % M < 2 * half
      /\ ~(d < 0 /\ (Unsigned(hi) + half) % M = 0)
  BY DEF QuotientFits
<1> HIDE DEF hi, mag, half
<1>5. (Unsigned(hi) + half) % M = IF hi + half < 0 THEN hi + half + M ELSE hi + half
  BY <1>1, <1>2, <1>3, ShiftedHighWord
<1>6. -half <= hi /\ hi < half /\ (d < 0 => -half < hi)
  BY <1>1, <1>2, <1>3, <1>4, <1>5
<1>7. mag > 0
  BY <1>1, <1>2, <1>3, <1>6
<1>8. n < h * mag /\ -(h * mag) <= n /\ (d < 0 => -(h * mag) + M <= n)
  BY <1>3, <1>6, <1>2, NumeratorWithin DEF hi
<1>9. h * mag \in Int /\ (h + 1) * mag = h * mag + mag
  BY <1>1, <1>2
<1>10. CASE n >= 0
  <2>1. Absolute(n) = n
    BY <1>1, <1>10 DEF Absolute
  <2>2. m \in Int /\ 0 <= m /\ m < h
    BY <2>1, <1>1, <1>2, <1>7, <1>8, <1>10, QuotientBelow
  <2> HIDE DEF m
  <2>3. Quotient(n, d) \in {m, -m}
    BY <2>2 DEF Quotient, m, mag
  <2> QED
    BY <2>2, <2>3, <1>1, <1>2, <1>7 DEF InWord
<1>11. CASE n < 0 /\ d < 0
  <2>1. Absolute(n) = -n
    BY <1>1, <1>11 DEF Absolute
  <2>2. -n < h * mag
    BY <1>1, <1>8, <1>9, <1>11
  <2>3. m \in Int /\ 0 <= m /\ m < h
    BY <2>1, <2>2, <1>1, <1>2, <1>7, <1>11, QuotientBelow
  <2> HIDE DEF m
  <2>4. Quotient(n, d) \in {m, -m}
    BY <2>3 DEF Quotient, m, mag
  <2> QED
    BY <2>3, <2>4, <1>1, <1>2, <1>7 DEF InWord
<1>12. CASE n < 0 /\ ~(d < 0)
  <2>1. Absolute(n) = -n
    BY <1>1, <1>12 DEF Absolute
  <2>2. -n < (h + 1) * mag
    BY <1>1, <1>2, <1>7, <1>8, <1>9
  <2>3. m \in Int /\ 0 <= m /\ m < h + 1
    BY <2>1, <2>2, <1>1, <1>2, <1>7, <1>12, QuotientBelow
  <2>4. Quotient(n, d) = -m
    BY <1>12 DEF Quotient, m, mag
  <2> HIDE DEF m
  <2> QED
    BY <2>3, <2>4, <1>1, <1>2, <1>7 DEF InWord
<1> QED
  BY <1>1, <1>10, <1>11, <1>12

\* The inline multiplication of arithmetic.hpp adds its rounding unchecked: what
\* its range test allows fits the word with one added or taken away ("Any
\* rounding fits").
THEOREM MultiplicationLeavesRoom ==
  ASSUME NEW h, WordHalves(h), NEW n, DoubleWord(n, h),
         NEW scale \in Int, 0 < scale, scale <= h, MultiplyFits(n, scale)
  PROVE  LET e == Quotient(n, scale)
         IN /\ InWord(e)
            /\ Remainder(n, scale) # 0 => InWord(e - 1) /\ InWord(e + 1)
<1> DEFINE hi == HighWord(n)
           half == scale \div 2
           rest == (scale - 1) - half
           m == Absolute(n) \div scale
<1>1. /\ h \in Int /\ h > 1 /\ M \in Int /\ M = h + h
      /\ INT_MIN = -h /\ INT_MAX = h - 1
      /\ n \in Int /\ hi \in Int /\ -h <= hi /\ hi < h
  <2>1. /\ h \in Int /\ h > 1 /\ M = h + h
        /\ INT_MIN = -h /\ INT_MAX = h - 1
    BY DEF WordHalves
  <2>2. M \in Int
    BY <2>1
  <2>3. n \in Int /\ -h <= hi /\ hi < h
    BY DEF DoubleWord
  <2>4. hi \in Int
    BY <2>3, HighWordBounds
  <2> QED
    BY <2>1, <2>2, <2>3, <2>4
<1>2. /\ half \in Int /\ 0 <= half /\ half + half <= scale
      /\ rest \in Int /\ 0 <= rest /\ rest + rest <= scale - 1
  OBVIOUS
<1>3. (Unsigned(hi) + half) % M < scale - 1
  BY DEF MultiplyFits
<1> HIDE DEF hi, half
<1>4. (Unsigned(hi) + half) % M = IF hi + half < 0 THEN hi + half + M ELSE hi + half
  BY <1>1, <1>2, ShiftedHighWord
<1>5. -half <= hi /\ hi < rest
  BY <1>1, <1>2, <1>3, <1>4
<1> HIDE DEF rest
<1>6. -(h * scale) <= n
  BY <1>2, <1>5, NumeratorWithin DEF hi
<1>7. n < h * (scale - 1)
  BY <1>2, <1>5, NumeratorWithin DEF hi
<1>8. /\ h * scale \in Int /\ h * (scale - 1) = h * scale - h
      /\ (h - 1) * scale = h * scale - scale
  BY <1>1
<1>9. CASE n >= 0
  <2>1. Absolute(n) = n /\ n < (h - 1) * scale
    BY <1>1, <1>7, <1>8, <1>9 DEF Absolute
  <2>2. m \in Int /\ 0 <= m /\ m < h - 1
    BY <2>1, <1>1, <1>9, QuotientBelow
  <2>3. Quotient(n, scale) = m
    BY <1>1, <1>9 DEF Quotient, Absolute, m
  <2> HIDE DEF m
  <2>4. InWord(m) /\ InWord(m - 1) /\ InWord(m + 1)
    BY <2>2, <1>1 DEF InWord
  <2> QED
    BY <2>3, <2>4
<1>10. CASE n < 0 /\ n # -(h * scale)
  <2>1. Absolute(n) = -n /\ -n < h * scale
    BY <1>1, <1>6, <1>8, <1>10 DEF Absolute
  <2>2. m \in Int /\ 0 <= m /\ m < h
    BY <2>1, <1>1, <1>10, QuotientBelow
  <2>3. Quotient(n, scale) = -m
    BY <1>1, <1>10 DEF Quotient, Absolute, m
  <2> HIDE DEF m
  <2>4. InWord(-m) /\ InWord(-m - 1) /\ InWord(-m + 1)
    BY <2>2, <1>1 DEF InWord
  <2> QED
    BY <2>3, <2>4
<1>11. CASE n < 0 /\ n = -(h * scale)
  <2>1. Absolute(n) = h * scale + 0
    BY <1>1, <1>8, <1>11 DEF Absolute
  <2>2. m = h
    BY <2>1, <1>1, <1>8, DivUnique
  <2>3. Quotient(n, scale) = -h
    BY <2>2, <1>1, <1>11 DEF Quotient, Absolute, m
  <2>4. Remainder(n, scale) = 0
    <3>1. scale * (-h) = -(h * scale)
      BY <1>1
    <3> QED
      BY <2>3, <3>1, <1>1, <1>8, <1>11 DEF Remainder
  <2>5. InWord(-h)
    BY <1>1 DEF InWord
  <2> QED
    BY <2>3, <2>4, <2>5
<1> QED
  BY <1>1, <1>9, <1>10, <1>11

-----------------------------------------------------------------------------
(* The integer that a mode names *)

\* What floor, ceiling and truncation are, for a positive divisor.
LEMMA FloorMeans ==
  ASSUME NEW n \in Int, NEW d \in Int, d > 0
  PROVE  Floor(n, d) \in Int /\ Floor(n, d) * d <= n /\ n < Floor(n, d) * d + d
<1>1. /\ n \div d \in Int /\ n % d \in Int
      /\ n = (n \div d) * d + (n % d) /\ 0 <= n % d /\ n % d < d
  BY DivMod
<1> QED
  BY <1>1 DEF Floor

\* The least integer not below n / d.
LEMMA CeilingMeans ==
  ASSUME NEW n \in Int, NEW d \in Int, d > 0
  PROVE  Ceiling(n, d) \in Int /\ n <= Ceiling(n, d) * d /\ Ceiling(n, d) * d < n + d
<1> DEFINE e == Floor(-n, d)
<1>1. e \in Int /\ e * d <= -n /\ -n < e * d + d
  BY FloorMeans
<1> HIDE DEF e
<1>2. (-e) * d = -(e * d) /\ e * d \in Int
  BY <1>1
<1>3. Ceiling(n, d) = -e
  BY DEF Ceiling, e
<1> QED
  BY <1>1, <1>2, <1>3

\* Multiples of d less than d apart are the same.
LEMMA MultiplesApart ==
  ASSUME NEW x \in Int, NEW y \in Int, NEW d \in Int, d > 0,
         x * d < y * d + d, y * d < x * d + d
  PROVE  x = y
<1>1. x * d \in Int /\ y * d \in Int
  OBVIOUS
<1>2. ~(x < y)
  BY <1>1, MultipleOrder
<1>3. ~(y < x)
  BY <1>1, MultipleOrder
<1> QED
  BY <1>2, <1>3

\* The integer next to n / d on the side of zero.
LEMMA TruncateMeans ==
  ASSUME NEW n \in Int, NEW d \in Int, d > 0
  PROVE  LET t == Truncate(n, d)
         IN /\ t \in Int
            /\ n >= 0 => 0 <= t /\ t * d <= n /\ n < t * d + d
            /\ n <= 0 => t <= 0 /\ n <= t * d /\ t * d < n + d
<1> DEFINE f == Floor(n, d)
           c == Ceiling(n, d)
<1>1. f \in Int /\ f * d <= n /\ n < f * d + d
  BY FloorMeans
<1>2. c \in Int /\ n <= c * d /\ c * d < n + d
  BY CeilingMeans
<1>3. Truncate(n, d) = IF f >= 0 THEN f ELSE c
  BY DEF Truncate
<1> HIDE DEF f, c
<1>4. f * d \in Int /\ c * d \in Int /\ 0 * d = 0
  BY <1>1, <1>2
<1>5. n >= 0 => f >= 0
  <2> SUFFICES ASSUME n >= 0, f < 0 PROVE FALSE
    BY <1>1
  <2>1. f * d + d <= 0 * d
    BY <2>1, <1>1, MultipleOrder
  <2> QED
    BY <2>1, <1>1, <1>4
<1>6. f >= 0 => n >= 0
  <2> SUFFICES ASSUME f >= 0 PROVE 0 <= f * d
    BY <1>1, <1>4
  <2> QED
    BY <1>1, <1>4, ProductBelow
<1>7. n <= 0 => c <= 0
  <2> SUFFICES ASSUME n <= 0, 0 < c PROVE FALSE
    BY <1>2
  <2>1. 0 * d + d <= c * d
    BY <1>2, MultipleOrder
  <2> QED
    BY <2>1, <1>2, <1>4
<1>8. n = 0 => f = 0
  <2> SUFFICES ASSUME n = 0 PROVE f = 0
    OBVIOUS
  <2>1. f * d < 0 * d + d /\ 0 * d < f * d + d
    BY <1>1, <1>4
  <2> QED
    BY <2>1, <1>1, MultiplesApart
<1> QED
  BY <1>1, <1>2, <1>3, <1>4, <1>5, <1>6, <1>7, <1>8

\* A rounded multiple leaves the rest that its mode allows.
LEMMA RoundedIs ==
  ASSUME NEW n \in Int, NEW d \in Int, d > 0, NEW x \in Int, NEW rounding \in Modes,
         IsRounded(n, d, x, rounding)
  PROVE  Rounded(n, d, rounding) = x
<1> DEFINE f == Floor(n, d)
           c == Ceiling(n, d)
           t == Truncate(n, d)
           p == x * d
           e == Magnitude(n - p)
<1>1. f \in Int /\ f * d <= n /\ n < f * d + d
  BY FloorMeans
<1>2. c \in Int /\ n <= c * d /\ c * d < n + d
  BY CeilingMeans
<1>3. /\ t \in Int
      /\ n >= 0 => t * d <= n /\ n < t * d + d
      /\ n <= 0 => n <= t * d /\ t * d < n + d
  BY TruncateMeans
<1>4. p \in Int /\ e \in Int /\ 0 <= e /\ (e = n - p \/ e = p - n)
  BY DEF Magnitude
<1>5. f * d \in Int /\ c * d \in Int /\ t * d \in Int
  BY <1>1, <1>2, <1>3
<1>6. CASE rounding = "floor"
  <2>1. 0 <= n - p /\ e < d
    BY <1>6 DEF IsRounded
  <2>2. p < f * d + d /\ f * d < p + d
    BY <2>1, <1>1, <1>4, <1>5
  <2>3. f = x
    BY <2>2, <1>1, MultiplesApart
  <2> QED
    BY <2>3, <1>6 DEF Rounded
<1>7. CASE rounding = "ceil"
  <2>1. 0 <= p - n /\ e < d
    BY <1>7 DEF IsRounded
  <2>2. p < c * d + d /\ c * d < p + d
    BY <2>1, <1>2, <1>4, <1>5
  <2>3. c = x
    BY <2>2, <1>2, MultiplesApart
  <2> QED
    BY <2>3, <1>7 DEF Rounded
<1>8. CASE rounding \in {"toward_zero", "exact"}
  <2>1. e < d /\ (n >= 0 => 0 <= n - p) /\ (n <= 0 => 0 <= p - n)
    BY <1>8, <1>4 DEF IsRounded
  <2>2. p < t * d + d /\ t * d < p + d
    BY <2>1, <1>3, <1>4, <1>5
  <2>3. t = x
    BY <2>2, <1>3, MultiplesApart
  <2> QED
    BY <2>3, <1>8 DEF Rounded
<1>9. CASE rounding \in {"nearest_even", "nearest_away"}
  <2> DEFINE near == {f, c}
             nearest == NearestTo(n, d)
  <2>1. \/ 2 * e < d
        \/ /\ 2 * e = d
           /\ rounding = "nearest_even" => x % 2 = 0
           /\ rounding = "nearest_away" => (n >= 0 => n < p) /\ (n <= 0 => p < n)
    BY <1>9 DEF IsRounded
  <2>2. \A y \in Int : Distance(y, n, d) = Magnitude(n - y * d)
    BY DEF Distance, Magnitude
  <2>3. /\ Distance(f, n, d) = n - f * d /\ Distance(c, n, d) = c * d - n
        /\ Distance(x, n, d) = e
    BY <1>1, <1>2, <1>5, <2>2 DEF Magnitude
  <2>4. x = f \/ x = c
    <3>1. CASE p <= n
      <4>1. p < f * d + d /\ f * d < p + d
        BY <3>1, <2>1, <1>1, <1>4, <1>5
      <4> QED
        BY <4>1, <1>1, MultiplesApart
    <3>2. CASE ~(p <= n)
      <4>1. p < c * d + d /\ c * d < p + d
        BY <3>2, <2>1, <1>2, <1>4, <1>5
      <4> QED
        BY <4>1, <1>2, MultiplesApart
    <3> QED
      BY <3>1, <3>2
  <2>5. f * d = c * d => f = c
    <3> SUFFICES ASSUME f * d = c * d PROVE f = c
      OBVIOUS
    <3>1. f * d < c * d + d /\ c * d < f * d + d
      BY <1>5
    <3> HIDE DEF f, c
    <3> QED
      BY <3>1, <1>1, <1>2, MultiplesApart
  <2>6. f * d # c * d => c * d = f * d + d /\ c = f + 1
    <3> SUFFICES ASSUME f * d # c * d PROVE c * d = f * d + d /\ c = f + 1
      OBVIOUS
    <3>1. (f + 1) * d = f * d + d
      BY <1>1
    <3>2. f < c
      <4>2. f # c
        OBVIOUS
      <4> SUFFICES ASSUME c < f PROVE FALSE
        <5> HIDE DEF f, c
        <5> QED
          BY <4>2, <1>1, <1>2
      <4>1. c * d + d <= f * d
        BY <1>1, <1>2, MultipleOrder
      <4> HIDE DEF f, c
      <4> QED
        BY <4>1, <1>1, <1>2, <1>5
    <3>3. f * d + d <= c * d
      BY <3>2, <1>1, <1>2, MultipleOrder
    <3>4. c * d < (f + 1) * d + d /\ (f + 1) * d < c * d + d
      BY <3>1, <3>3, <1>1, <1>2, <1>5
    <3>5. c = f + 1
      BY <3>4, <1>1, <1>2, MultiplesApart
    <3> QED
      BY <3>1, <3>5
  <2>7. nearest = {y \in near : \A z \in near : Distance(y, n, d) <= Distance(z, n, d)}
    BY DEF NearestTo
  <2>8. CASE 2 * e < d
    <3>1. nearest = {x}
      <4>1. \A y \in near : y # x => e < Distance(y, n, d)
        BY <2>3, <2>4, <2>5, <2>6, <2>8, <1>1, <1>2, <1>4, <1>5
      <4> HIDE DEF f, c, e
      <4> QED
        BY <4>1, <2>3, <2>4, <2>7, <1>4, <1>5, <1>1, <1>2
    <3>2. \A y, z \in nearest : Distance(y, 0, 1) <= Distance(z, 0, 1)
      <4>1. Distance(x, 0, 1) \in Int
        BY DEF Distance
      <4> QED
        BY <3>1, <4>1
    <3> HIDE DEF nearest
    <3>3. (CHOOSE y \in nearest : nearest = {y} \/ y % 2 = 0) = x
      BY <3>1
    <3>4. (CHOOSE y \in nearest : \A z \in nearest : Distance(z, 0, 1) <= Distance(y, 0, 1)) = x
      BY <3>1, <3>2
    <3>5. CASE rounding = "nearest_even"
      BY <3>3, <3>5 DEF Rounded, nearest
    <3>6. CASE rounding = "nearest_away"
      BY <3>4, <3>6 DEF Rounded, nearest
    <3> QED
      BY <3>5, <3>6, <1>9
  <2>9. CASE 2 * e = d
    <3>1. f * d # c * d
      BY <2>3, <2>4, <2>9, <1>1, <1>2, <1>4, <1>5
    <3>2. c = f + 1 /\ c * d = f * d + d
      BY <3>1, <2>6
    <3>3. Distance(f, n, d) = e /\ Distance(c, n, d) = e
      BY <3>2, <2>3, <2>4, <2>9, <1>4, <1>5
    <3>4. nearest = {f, c}
      <4> HIDE DEF f, c, e
      <4> QED
        BY <3>3, <2>7, <1>4
    <3> HIDE DEF nearest
    <3>5. CASE rounding = "nearest_even"
      <4>1. x % 2 = 0
        BY <2>1, <2>9, <3>5
      <4> HIDE DEF f, c
      <4>2. f # c /\ (f % 2 = 0 => c % 2 # 0)
        BY <3>2, <1>1
      <4>3. x \in nearest /\ (\A y \in nearest : y % 2 = 0 => y = x)
                           /\ \A y \in nearest : nearest # {y}
        BY <4>1, <4>2, <3>4, <2>4
      <4>4. (CHOOSE y \in nearest : nearest = {y} \/ y % 2 = 0) = x
        BY <4>1, <4>3
      <4> QED
        BY <4>4, <3>5 DEF Rounded, nearest
    <3>6. CASE rounding = "nearest_away"
      <4>1. \A y \in Int : Distance(y, 0, 1) = Magnitude(y)
        BY DEF Distance, Magnitude
      <4>2. (n >= 0 => x = c /\ f >= 0) /\ (n <= 0 => x = f /\ c <= 0)
        <5>1. (n >= 0 => n < p) /\ (n <= 0 => p < n)
          BY <2>1, <2>9, <3>6
        <5>2. n >= 0 => x = c
          BY <5>1, <2>4, <1>1, <1>5
        <5>3. n <= 0 => x = f
          BY <5>1, <2>4, <1>2, <1>5
        <5>4. n >= 0 => f >= 0
          <6> SUFFICES ASSUME n >= 0, f < 0 PROVE FALSE
            BY <1>1
          <6>1. f * d + d <= 0 * d /\ 0 * d = 0
            BY <1>1, MultipleOrder
          <6> QED
            BY <6>1, <1>1, <1>5
        <5>5. n <= 0 => c <= 0
          <6> SUFFICES ASSUME n <= 0, 0 < c PROVE FALSE
            BY <1>2
          <6>1. 0 * d + d <= c * d /\ 0 * d = 0
            BY <1>2, MultipleOrder
          <6> QED
            BY <6>1, <1>2, <1>5
        <5> QED
          BY <5>2, <5>3, <5>4, <5>5
      <4>3. \A y \in nearest : y = x \/ Distance(y, 0, 1) < Distance(x, 0, 1)
        BY <4>1, <4>2, <3>2, <3>4, <1>1, <1>2 DEF Magnitude
      <4>4. x \in nearest /\ \A y \in nearest : Distance(y, 0, 1) \in Int
        BY <4>1, <3>4, <2>4, <1>1, <1>2 DEF Magnitude
      <4>5. \A y \in nearest :
              (\A z \in nearest : Distance(z, 0, 1) <= Distance(y, 0, 1)) <=> y = x
        BY <4>3, <4>4
      <4>6. (CHOOSE y \in nearest : \A z \in nearest : Distance(z, 0, 1) <= Distance(y, 0, 1)) = x
        BY <4>4, <4>5
      <4> QED
        BY <4>6, <3>6 DEF Rounded, nearest
    <3> QED
      BY <3>5, <3>6, <1>9
  <2> QED
    BY <2>1, <2>8, <2>9
<1> QED
  BY <1>6, <1>7, <1>8, <1>9 DEF Modes

-----------------------------------------------------------------------------
(* What round_magnitude() and the machine division deliver                 *)

\* n / d, with the sign of d given to n.
Righted(n, d) == IF d < 0 THEN -n ELSE n

\* A quotient rounds the same when both its signs change.
LEMMA SignsMove ==
  ASSUME NEW n \in Int, NEW d \in Int, d # 0, NEW rounding
  PROVE  /\ Absolute(d) \in Int /\ Absolute(d) > 0 /\ Righted(n, d) \in Int
         /\ Truncate(n, d) = Truncate(Righted(n, d), Absolute(d))
         /\ Rounded(n, d, rounding) = Rounded(Righted(n, d), Absolute(d), rounding)
         /\ \A x \in Int : n = d * x <=> Righted(n, d) = Absolute(d) * x
<1>1. CASE d > 0
  BY <1>1 DEF Righted, Absolute
<1>2. CASE d < 0
  <2> DEFINE u == -n
             c == -d
  <2>1. /\ u \in Int /\ c \in Int /\ c > 0 /\ -u = n /\ -c = d
        /\ Righted(n, d) = u /\ Absolute(d) = c
    BY <1>2 DEF Righted, Absolute
  <2> HIDE DEF u, c
  <2>2. Floor(n, d) = Floor(u, c)
    BY <2>1, <1>2 DEF Floor, u, c
  <2>3. Ceiling(n, d) = Ceiling(u, c)
    <3>1. Floor(-n, d) = Floor(-u, c)
      BY <2>1, <1>2 DEF Floor, u, c
    <3> QED
      BY <3>1 DEF Ceiling
  <2>4. Truncate(n, d) = Truncate(u, c)
    BY <2>2, <2>3 DEF Truncate
  <2>5. \A x \in Int : u - x * c = -(n - x * d)
    BY <2>1
  <2>6. Floor(n, d) \in Int /\ Ceiling(n, d) \in Int
    BY <2>1, <2>2, <2>3, FloorMeans, CeilingMeans
  <2>7. \A x \in Int : Distance(x, n, d) = Distance(x, u, c)
    BY <2>1, <2>5 DEF Distance
  <2>8. NearestTo(n, d) = NearestTo(u, c)
    <3> DEFINE f == Floor(n, d)
               e == Ceiling(n, d)
    <3>1. f \in Int /\ e \in Int /\ f = Floor(u, c) /\ e = Ceiling(u, c)
      BY <2>2, <2>3, <2>6
    <3>2. \A x \in {f, e} : Distance(x, n, d) = Distance(x, u, c)
      BY <3>1, <2>7
    <3>3. NearestTo(n, d)
                = {x \in {f, e} : \A y \in {f, e} : Distance(x, n, d) <= Distance(y, n, d)}
      BY DEF NearestTo
    <3>4. NearestTo(u, c)
                = {x \in {f, e} : \A y \in {f, e} : Distance(x, u, c) <= Distance(y, u, c)}
      BY <3>1 DEF NearestTo
    <3> HIDE DEF f, e
    <3> QED
      BY <3>2, <3>3, <3>4
  <2>9. Rounded(n, d, rounding) = Rounded(u, c, rounding)
    BY <2>2, <2>3, <2>4, <2>8 DEF Rounded
  <2>10. \A x \in Int : n = d * x <=> u = c * x
    BY <2>1
  <2> QED
    BY <2>1, <2>4, <2>9, <2>10
<1> QED
  BY <1>1, <1>2

\* What round_magnitude() returns: an overflow of the truncated quotient, then an
\* inexact one, then an overflow of the rounded one, or that.
THEOREM MagnitudeRounds ==
  ASSUME WordWraps, NEW q \in Nat, NEW d \in 1 .. M - 1, NEW r \in 0 .. d - 1,
         NEW negative \in BOOLEAN, NEW rounding \in Modes, NEW limit \in Nat,
         NEW n \in Int, n = IF negative THEN -(q * d + r) ELSE q * d + r
  PROVE  LET t == IF negative THEN -q ELSE q
             result == RoundMagnitude(q, r, d, negative, rounding, limit)
         IN /\ Truncate(n, d) = t
            /\ n = d * t <=> r = 0
            /\ q > limit => result = Failure("overflow")
            /\ q <= limit /\ rounding = "exact" /\ r # 0 => result = Failure("inexact")
            /\ q <= limit /\ ~(rounding = "exact" /\ r # 0) =>
                 \E v \in {q, q + 1} :
                   /\ Rounded(n, d, rounding) = IF negative THEN -v ELSE v
                   /\ result = IF v > limit THEN Failure("overflow") ELSE Value(v)
<1> DEFINE t == IF negative THEN -q ELSE q
           result == RoundMagnitude(q, r, d, negative, rounding, limit)
           p == q * d
           u == Truncate(n, d)
<1>0. M \in Nat
  BY DEF WordWraps
<1>1. /\ d \in Int /\ d > 0 /\ r \in Int /\ 0 <= r /\ r < d
      /\ p \in Int /\ 0 <= p /\ t \in Int
      /\ n = (IF negative THEN -(p + r) ELSE p + r)
      /\ t * d = (IF negative THEN -p ELSE p) /\ d * t = t * d
  <2>1. d \in Int /\ d > 0 /\ r \in Int /\ 0 <= r /\ r < d
    BY <1>0
  <2>2. 0 <= p
    BY <2>1
  <2>3. t * d = (IF negative THEN -p ELSE p) /\ d * t = t * d
    BY <2>1
  <2> QED
    BY <2>1, <2>2, <2>3
<1>2. u = t
  <2>1. /\ u \in Int
        /\ n >= 0 => 0 <= u /\ u * d <= n /\ n < u * d + d
        /\ n <= 0 => u <= 0 /\ n <= u * d /\ u * d < n + d
    BY <1>1, TruncateMeans
  <2> HIDE DEF u, t, p
  <2>2. u * d < t * d + d /\ t * d < u * d + d
    <3>1. u * d \in Int
      BY <2>1, <1>1
    <3> QED
      BY <2>1, <3>1, <1>1
  <2> QED
    BY <2>1, <2>2, <1>1, MultiplesApart
<1>3. n = d * t <=> r = 0
  <2> HIDE DEF t, p
  <2> QED
    BY <1>1
<1>4. q > limit => result = Failure("overflow")
  BY DEF RoundMagnitude
<1>5. q <= limit /\ rounding = "exact" /\ r # 0 => result = Failure("inexact")
  BY DEF RoundMagnitude
<1>6. ASSUME q <= limit, ~(rounding = "exact" /\ r # 0)
      PROVE  \E v \in {q, q + 1} :
               /\ Rounded(n, d, rounding) = IF negative THEN -v ELSE v
               /\ result = IF v > limit THEN Failure("overflow") ELSE Value(v)
  <2>1. PICK v \in {q, q + 1} :
          /\ RoundMagnitude(q, r, d, negative, rounding, limit + 1) = Value(v)
          /\ result = IF v > limit THEN Failure("overflow") ELSE Value(v)
    <3>1. CASE r = 0 \/ ~Increment(q, r, d, negative, rounding)
      BY <1>6, <3>1 DEF RoundMagnitude
    <3>2. CASE r # 0 /\ Increment(q, r, d, negative, rounding)
      BY <1>6, <3>2 DEF RoundMagnitude
    <3> QED
      BY <3>1, <3>2
  <2>2. IF negative THEN IsRounded(n, d, -v, rounding) ELSE IsRounded(n, d, v, rounding)
    <3>1. limit + 1 \in Nat
      OBVIOUS
    <3>2. IF negative THEN IsRounded(-(q * d + r), d, -v, rounding)
                      ELSE IsRounded(q * d + r, d, v, rounding)
      BY <2>1, <3>1, RoundMagnitudeRight
    <3> QED
      BY <3>2
  <2>3. v \in Int /\ -v \in Int
    BY <2>1
  <2>4. Rounded(n, d, rounding) = IF negative THEN -v ELSE v
    BY <2>2, <2>3, <1>1, RoundedIs
  <2> QED
    BY <2>1, <2>4
<1> QED
  BY <1>2, <1>3, <1>4, <1>5, <1>6

\* The machine's quotient truncates, and its remainder is the rest.
LEMMA MachineDivides ==
  ASSUME NEW n \in Int, NEW d \in Int, d # 0
  PROVE  LET negative == (n < 0) # (d < 0)
             b == Absolute(d)
             m == Absolute(n) \div b
             k == Absolute(n) % b
         IN /\ b \in Int /\ b > 0 /\ m \in Nat /\ k \in 0 .. b - 1
            /\ Quotient(n, d) = IF negative THEN -m ELSE m
            /\ Remainder(n, d) = IF n < 0 THEN -k ELSE k
            /\ Righted(n, d) = IF negative THEN -(m * b + k) ELSE m * b + k
<1> DEFINE negative == (n < 0) # (d < 0)
           a == Absolute(n)
           b == Absolute(d)
           m == a \div b
           k == a % b
           q == Quotient(n, d)
           p == m * b
<1>1. a \in Int /\ 0 <= a /\ b \in Int /\ b > 0
  BY DEF Absolute
<1>2. m \in Int /\ k \in Int /\ a = p + k /\ 0 <= k /\ k < b
  BY <1>1, DivMod
<1>3. 0 <= m
  <2>1. 0 * b <= a
    BY <1>1
  <2> QED
    BY <2>1, <1>1, FloorAtLeast
<1>4. q = IF negative THEN -m ELSE m
  BY DEF Quotient
<1>5. n = (IF n < 0 THEN -a ELSE a) /\ d = (IF d < 0 THEN -b ELSE b)
  BY DEF Absolute
<1> HIDE DEF a, b, m, k, q
<1>6. d * q = IF n < 0 THEN -p ELSE p
  BY <1>1, <1>2, <1>4, <1>5
<1>7. p \in Int
  BY <1>1, <1>2
<1> HIDE DEF p
<1>8. n - d * q = IF n < 0 THEN -k ELSE k
  BY <1>1, <1>2, <1>5, <1>6, <1>7
<1>9. Righted(n, d) = IF negative THEN -(p + k) ELSE p + k
  BY <1>1, <1>2, <1>5, <1>7, <1>3 DEF Righted
<1> QED
  BY <1>1, <1>2, <1>3, <1>4, <1>8, <1>9 DEF Remainder, a, b, m, k, q, p

\* What a mode does to a truncated quotient with a remainder of magnitude k.
MovesOut(q, k, d, negative, rounding) ==
  /\ k # 0
  /\ \/ rounding = "floor" /\ negative
     \/ rounding = "ceil" /\ ~negative
     \/ rounding = "nearest_even" /\ MovesUp(q, k, d)
     \/ rounding = "nearest_away" /\ 2 * k >= d

\* The machine's quotient, moved away from zero when the mode says so, is rounded;
\* the sign matters where there is a remainder.
THEOREM QuotientRounds ==
  ASSUME NEW n \in Int, NEW d \in Int, d # 0, NEW rounding \in Modes,
         NEW negative \in BOOLEAN,
         Remainder(n, d) # 0 => (negative <=> (n < 0) # (d < 0)),
         rounding = "exact" => Remainder(n, d) = 0
  PROVE  LET q == Quotient(n, d)
             k == Magnitude(Remainder(n, d))
             x == IF MovesOut(q, k, Absolute(d), negative, rounding)
                    THEN IF negative THEN q - 1 ELSE q + 1
                    ELSE q
         IN /\ q \in Int /\ Truncate(n, d) = q
            /\ Rounded(n, d, rounding) = x
            /\ IsRounded(Righted(n, d), Absolute(d), x, rounding)
<1> DEFINE q == Quotient(n, d)
           k == Magnitude(Remainder(n, d))
           b == Absolute(d)
           u == Righted(n, d)
           sign == (n < 0) # (d < 0)
           m == Absolute(n) \div b
           rest == Absolute(n) % b
           p == m * b
           up == MovesOut(q, k, b, negative, rounding)
           x == IF up THEN IF negative THEN q - 1 ELSE q + 1 ELSE q
<1>1. /\ b \in Int /\ b > 0 /\ m \in Nat /\ rest \in 0 .. b - 1
      /\ q = (IF sign THEN -m ELSE m)
      /\ Remainder(n, d) = (IF n < 0 THEN -rest ELSE rest)
      /\ u = IF sign THEN -(m * b + rest) ELSE m * b + rest
  BY MachineDivides
<1>2. k = rest /\ k \in Int /\ 0 <= k /\ k < b /\ (k = 0 <=> Remainder(n, d) = 0)
  BY <1>1 DEF Magnitude
<1>3. /\ u \in Int /\ Truncate(n, d) = Truncate(u, b)
      /\ Rounded(n, d, rounding) = Rounded(u, b, rounding)
  BY SignsMove
<1>4. /\ p \in Int /\ 0 <= p /\ (m + 1) * b = p + b
      /\ (-m) * b = -p /\ (-(m + 1)) * b = -(p + b)
  <2>1. 0 <= p
    BY <1>1
  <2> QED
    BY <2>1, <1>1
<1>5. q \in Int /\ q * b = (IF sign THEN -p ELSE p) /\ q % 2 = m % 2
  <2>1. (-m) % 2 = m % 2
    BY <1>1
  <2> QED
    BY <2>1, <1>1, <1>4
<1>6. u = IF sign THEN -(p + k) ELSE p + k
  BY <1>1, <1>2
<1> DEFINE t == Truncate(u, b)
<1>7. t = q
  <2>1. /\ t \in Int
        /\ u >= 0 => 0 <= t /\ t * b <= u /\ u < t * b + b
        /\ u <= 0 => t <= 0 /\ u <= t * b /\ t * b < u + b
    BY <1>1, <1>3, TruncateMeans
  <2> HIDE DEF t, q, p, b, u, k, m, sign
  <2>2. t * b < q * b + b /\ q * b < t * b + b
    <3>1. t * b \in Int
      BY <2>1, <1>1
    <3> QED
      BY <2>1, <3>1, <1>1, <1>2, <1>4, <1>5, <1>6
  <2> QED
    BY <2>1, <2>2, <1>1, <1>5, MultiplesApart
<1>8. Rounded(u, b, rounding) = x /\ IsRounded(u, b, x, rounding)
  <2>1. CASE up
    <3>1. /\ 0 < k /\ rounding \notin {"exact", "toward_zero"}
          /\ rounding = "floor" => negative
          /\ rounding = "ceil" => ~negative
          /\ rounding = "nearest_even" => MovesUp(q, k, b)
          /\ rounding = "nearest_away" => 2 * k >= b
      BY <2>1, <1>2 DEF MovesOut
    <3>2. negative = sign
      BY <3>1, <1>2
    <3>3. x = IF sign THEN -(m + 1) ELSE m + 1
      <4> HIDE DEF up, m, q, p, b, u, k, sign
      <4> QED
        BY <2>1, <3>2, <1>1
    <3>4. x * b = IF sign THEN -(p + b) ELSE p + b
      BY <3>3, <1>4
    <3>5. MovesUp(q, k, b) = MovesUp(m, k, b)
      BY <1>5 DEF MovesUp
    <3>6. x \in Int /\ sign \in BOOLEAN /\ b \in Nat /\ k \in Nat /\ p \in Nat
      BY <3>3, <1>1, <1>2, <1>4
    <3> HIDE DEF x, q, p, b, u, k, m, sign, up
    <3>7. IsRounded(u, b, x, rounding)
      BY <3>1, <3>2, <3>3, <3>4, <3>5, <3>6, <1>1, <1>2, <1>3, <1>6, MovedIsRounded
    <3> QED
      BY <3>6, <3>7, <1>1, <1>3, RoundedIs
  <2>2. CASE ~up
    <3>1. x = q
      BY <2>2
    <3>2. k # 0 => /\ rounding = "floor" => ~sign
                   /\ rounding = "ceil" => sign
                   /\ rounding = "nearest_even" => ~MovesUp(q, k, b)
                   /\ rounding = "nearest_away" => 2 * k < b
      BY <2>2, <1>1, <1>2 DEF MovesOut
    <3>3. k = 0 => ~MovesUp(q, k, b) /\ 2 * k < b
      BY <1>1 DEF MovesUp
    <3>4. MovesUp(q, k, b) = MovesUp(m, k, b)
      BY <1>5 DEF MovesUp
    <3>5. rounding = "exact" => k = 0
      BY <1>2
    <3>6. x \in Int /\ sign \in BOOLEAN /\ b \in Nat /\ k \in Nat /\ p \in Nat
      BY <3>1, <1>1, <1>2, <1>4, <1>5
    <3>7. x = (IF sign THEN -m ELSE m) /\ x * b = IF sign THEN -p ELSE p
      BY <3>1, <1>1, <1>5
    <3> HIDE DEF x, q, p, b, u, k, m, sign, up
    <3>8. IsRounded(u, b, x, rounding)
      BY <3>2, <3>3, <3>4, <3>5, <3>6, <3>7, <1>1, <1>2, <1>3, <1>6, KeptIsRounded
    <3> QED
      BY <3>6, <3>8, <1>1, <1>3, RoundedIs
  <2> QED
    BY <2>1, <2>2
<1> QED
  BY <1>3, <1>5, <1>7, <1>8

\* The three shortcuts for nearest_even after a machine division are that move.
THEOREM ShortcutsRound ==
  ASSUME WordWraps, NEW n \in Int, NEW d \in Int, d # 0, Absolute(d) <= M \div 2,
         Remainder(n, d) # 0
  PROVE  LET q == Quotient(n, d)
             r == Remainder(n, d)
             negative == (n < 0) # (d < 0)
             x == Rounded(n, d, "nearest_even")
         IN /\ x = q + NearestAdjustment(q, r, d, negative)
            /\ x = q + NearestAdj(q, r, d, negative)
            /\ d > 0 => x = q + NearestScaledAdj(q, r, d)
<1> DEFINE q == Quotient(n, d)
           r == Remainder(n, d)
           negative == (n < 0) # (d < 0)
           k == Magnitude(r)
           b == Absolute(d)
           out == MovesUp(q, k, b)
           x == Rounded(n, d, "nearest_even")
<1>1. /\ b \in Int /\ b > 0 /\ q \in Int
      /\ k \in Int /\ 0 < k /\ k < b
      /\ (r < 0 <=> n < 0) /\ r \in Int /\ r # 0
  <2> DEFINE m == Absolute(n) \div b
             rest == Absolute(n) % b
  <2>1. /\ b \in Int /\ b > 0 /\ m \in Nat /\ rest \in 0 .. b - 1
        /\ q = (IF negative THEN -m ELSE m)
        /\ r = (IF n < 0 THEN -rest ELSE rest)
    BY MachineDivides
  <2> HIDE DEF m, rest, q, r, b
  <2> QED
    BY <2>1 DEF Magnitude, r
<1>2. M \in Nat /\ M > 0 /\ M \div 2 \in Nat /\ M = 2 * (M \div 2) /\ b <= M \div 2 /\ b < M
  BY <1>1, Halves DEF WordWraps
<1>3. x = IF out THEN IF negative THEN q - 1 ELSE q + 1 ELSE q
  <2>1. MovesOut(q, k, b, negative, "nearest_even") = out
    <3>1. k # 0 /\ out \in BOOLEAN
      BY <1>1 DEF MovesUp
    <3> HIDE DEF q, k, b, negative
    <3> QED
      BY <3>1 DEF MovesOut
  <2>2. negative \in BOOLEAN /\ "nearest_even" \in Modes
    BY DEF Modes
  <2> HIDE DEF out
  <2> QED
    BY <2>1, <2>2, QuotientRounds
<1>4. Magnitude(d) = b
  BY DEF Magnitude, Absolute
<1>5. x = q + NearestAdjustment(q, r, d, negative)
  <2>1. q % M \in Nat /\ (q % M) % 2 = q % 2
    <3> DEFINE h == M \div 2
               e == q \div M
               l == q % M
    <3>1. e \in Int /\ l \in Int /\ q = e * M + l /\ 0 <= l
      <4> HIDE DEF q
      <4> QED
        BY <1>1, <1>2, DivMod
    <3>2. e * M = 2 * (e * h) /\ e * h \in Int
      <4> HIDE DEF e, l
      <4>1. e * (2 * h) = 2 * (e * h) /\ e * h \in Int
        BY <3>1, <1>2
      <4> QED
        BY <4>1, <1>2
    <3> HIDE DEF e, l, h
    <3>3. q = 2 * (e * h) + l
      BY <3>1, <3>2
    <3> DEFINE s == e * h
    <3>4. q = 2 * s + l /\ s \in Int
      BY <3>2, <3>3
    <3> HIDE DEF s
    <3> QED
      BY <3>1, <3>4 DEF l
  <2>2. NearestEvenIncrement(q % M, k, b) <=> MovesUp(q % M, k, b)
    BY <2>1, <1>1, <1>2, NearestEvenIncrementRight
  <2>3. MovesUp(q % M, k, b) = out
    BY <2>1 DEF MovesUp
  <2> HIDE DEF out, q, r, k, b
  <2>4. NearestAdjustment(q, r, d, negative)
          = IF out THEN IF negative THEN -1 ELSE 1 ELSE 0
    BY <2>2, <2>3, <1>4 DEF NearestAdjustment, k
  <2> QED
    BY <2>4, <1>1, <1>3
<1>6. x = q + NearestAdj(q, r, d, negative)
  <2>1. NearestEvenInc(q, k, b) <=> out
    BY <1>1, <1>2, NearestEvenIncRight
  <2> HIDE DEF out, q, r, k, b
  <2>2. NearestAdj(q, r, d, negative) = IF out THEN IF negative THEN -1 ELSE 1 ELSE 0
    BY <2>1, <1>4 DEF NearestAdj, k
  <2> QED
    BY <2>2, <1>1, <1>3
<1>7. d > 0 => x = q + NearestScaledAdj(q, r, d)
  <2> SUFFICES ASSUME d > 0 PROVE x = q + NearestScaledAdj(q, r, d)
    OBVIOUS
  <2>1. b = d /\ d \in Nat \ {0} /\ r \in -(d - 1) .. d - 1
    <3>1. b = d
      BY DEF Absolute
    <3> HIDE DEF b, r
    <3> QED
      BY <3>1, <1>1 DEF Magnitude
  <2>2. NearestScaledAdj(q, r, d) = IF out THEN IF r < 0 THEN -1 ELSE 1 ELSE 0
    BY <2>1, <1>1, NearestScaledAdjRight
  <2>3. negative <=> r < 0
    BY <1>1
  <2> HIDE DEF out, q, r, k, b
  <2> QED
    BY <2>2, <2>3, <1>1, <1>3
<1> QED
  BY <1>5, <1>6, <1>7

\* Rounding takes a truncated quotient nowhere but away from zero.
LEMMA RoundedOutward ==
  ASSUME NEW n \in Int, NEW d \in Int, d # 0, NEW rounding \in Modes
  PROVE  LET t == Truncate(n, d)
             x == Rounded(n, d, rounding)
         IN /\ t \in Int /\ x \in Int
            /\ (0 <= t /\ t <= x) \/ (x <= t /\ t <= 0)
<1> DEFINE t == Truncate(n, d)
           x == Rounded(n, d, rounding)
           q == Quotient(n, d)
           k == Magnitude(Remainder(n, d))
           sign == (n < 0) # (d < 0)
           m == Absolute(n) \div Absolute(d)
           up == MovesOut(q, k, Absolute(d), sign, rounding)
<1>1. m \in Nat /\ q = (IF sign THEN -m ELSE m)
  BY MachineDivides
<1>2. "toward_zero" \in Modes /\ sign \in BOOLEAN
  BY DEF Modes
<1>3. t = q
  BY <1>2, QuotientRounds
<1>4. CASE rounding = "exact"
  <2>1. x = t
    BY <1>4 DEF Rounded
  <2> HIDE DEF t, x, q, m, k, up
  <2> QED
    BY <2>1, <1>1, <1>3 DEF t, x
<1>5. CASE rounding # "exact"
  <2>1. x = IF up THEN IF sign THEN q - 1 ELSE q + 1 ELSE q
    BY <1>2, <1>5, QuotientRounds
  <2> HIDE DEF t, x, q, m, k, up
  <2> QED
    BY <2>1, <1>1, <1>3 DEF t, x
<1> QED
  BY <1>4, <1>5

\* A multiple that truncates stays within what is cut.
LEMMA TruncatedWithin ==
  ASSUME NEW n \in Int, NEW d \in Int, d > 0
  PROVE  LET t == Truncate(n, d)
         IN t \in Int /\ ((0 <= d * t /\ d * t <= n) \/ (n <= d * t /\ d * t <= 0))
<1> DEFINE t == Truncate(n, d)
<1>1. /\ t \in Int
      /\ n >= 0 => 0 <= t /\ t * d <= n /\ n < t * d + d
      /\ n <= 0 => t <= 0 /\ n <= t * d /\ t * d < n + d
  BY TruncateMeans
<1> HIDE DEF t
<1>2. d * t = t * d /\ t * d \in Int
  BY <1>1
<1>3. n >= 0 => 0 <= t * d
  BY <1>1, ProductBelow
<1>4. n <= 0 => t * d <= 0
  BY <1>1
<1> QED
  BY <1>1, <1>2, <1>3, <1>4 DEF t
==============================================================================
