--------------------------- MODULE WideIntegerProof ---------------------------
(***************************************************************************)
(* The loops of the wide integers for every type, and what they amount to. *)
(*                                                                         *)
(* The invariant says of each loop what it has computed of the result: the *)
(* low limbs of a sum with the carry above them, the product of the limbs  *)
(* taken so far, the dividend split at the bit the division has reached.   *)
(* Then each operation without a loop is shown to compute its integer, and *)
(* both together give the refinement of ModularArithmetic.                 *)
(***************************************************************************)
EXTENDS BigInteger, IntegerLemmas

\* The type is one of those the module is about.
Chosen == \E s \in Shapes : W = s[1] /\ N = s[2]

Patterns == 0 .. All - 1

-----------------------------------------------------------------------------
(* A type and its limbs *)

\* Powers of a limb are those of two.
LEMMA LimbsArePowers ==
  ASSUME NEW w \in Nat, w > 0, NEW n \in Nat, PowerLaws(2, n * w), PowerLaws(2 ^ w, n)
  PROVE  \A k \in 0 .. n : k * w \in 0 .. n * w /\ 2 ^ (k * w) = (2 ^ w) ^ k
<1> DEFINE Good(k) == 2 ^ (k * w) = (2 ^ w) ^ k
           Bad == {k \in 0 .. n : ~Good(k)}
<1>1. \A k \in 0 .. n : k * w \in 0 .. n * w
  <2> SUFFICES ASSUME NEW k \in 0 .. n PROVE k * w \in 0 .. n * w
    OBVIOUS
  <2> QED
    BY ProductBelow
<1>2. SUFFICES ASSUME Bad # {} PROVE FALSE
  BY <1>1
<1>3. PICK k \in Bad : \A l \in Bad : k <= l
  <2>1. Bad \in SUBSET Nat
    OBVIOUS
  <2> QED
    BY <2>1, <1>2, LeastNat
<1>4. k # 0
  <2>1. 2 ^ 0 = 1 /\ (2 ^ w) ^ 0 = 1
    BY DEF PowerLaws
  <2>2. 0 * w = 0
    OBVIOUS
  <2> QED
    BY <2>1, <2>2, <1>3
<1>5. k - 1 \in 0 .. n - 1 /\ k - 1 \in 0 .. n /\ Good(k - 1) /\ k = (k - 1) + 1
  BY <1>3, <1>4
<1> DEFINE e == (k - 1) * w
<1>6. e \in 0 .. n * w /\ k * w = w + e /\ k * w \in 0 .. n * w /\ e + w <= n * w
  <2>1. k * w = e + w
    BY <1>5
  <2> QED
    BY <2>1, <1>1, <1>3, <1>5
<1>7. n * w \in Nat
  OBVIOUS
<1>8. 2 ^ (w + e) = 2 ^ w * 2 ^ e
  <2> HIDE DEF e
  <2>1. w \in Nat /\ e \in 0 .. n * w /\ w + e <= n * w
    BY <1>6, <1>7
  <2> QED
    BY <2>1, <1>7, PowersTimes
<1>9. (2 ^ w) ^ ((k - 1) + 1) = 2 ^ w * (2 ^ w) ^ (k - 1)
  BY <1>5 DEF PowerLaws
<1>10. 2 ^ e = (2 ^ w) ^ (k - 1)
  BY <1>5
<1> HIDE DEF e
<1>11. Good(k)
  BY <1>5, <1>6, <1>8, <1>9, <1>10
<1> QED
  BY <1>3, <1>11

\* What a type is made of.
TypeNumbers ==
  /\ W \in Nat /\ W >= 2 /\ N \in Nat /\ N >= 2 /\ Bits \in Nat /\ Bits >= W
  /\ M \in Nat /\ M >= 4 /\ PowerLaws(2, Bits) /\ PowerLaws(M, 2 * N)
  /\ PowerLaws(2, Bits + 1) /\ All = M ^ N /\ All \in Nat
  /\ \E h \in Nat : h >= 2 /\ h = 2 ^ (W \div 2) /\ M = h * h

LEMMA Numbers ==
  ASSUME Chosen
  PROVE  TypeNumbers
<1>1. PICK s \in Shapes : W = s[1] /\ N = s[2]
  BY DEF Chosen
<1>2. W \in Nat /\ W >= 2 /\ W % 2 = 0 /\ N \in Nat /\ N >= 2
  BY <1>1, ShapesAssumption
<1>3. W * N = Bits /\ Bits \in Nat /\ Bits >= W /\ N * W = Bits
  <2>1. W * N = N * W /\ N * W \in Nat /\ N * W >= W
    BY <1>2, PositiveProduct
  <2> QED
    BY <2>1 DEF Bits
<1>4. PowerLaws(2, Bits + 1) /\ PowerLaws(2, Bits) /\ PowerLaws(M, 2 * N)
  BY <1>1, <1>3, PowersAssumption DEF PowerLaws, M
<1>5. PowerLaws(M, N)
  BY <1>2, <1>4 DEF PowerLaws
<1>6. All = M ^ N
  <2>1. PowerLaws(2, N * W) /\ PowerLaws(2 ^ W, N) /\ W > 0 /\ N \in 0 .. N
    BY <1>2, <1>3, <1>4, <1>5 DEF M
  <2>2. 2 ^ (N * W) = (2 ^ W) ^ N
    BY <2>1, <1>2, LimbsArePowers
  <2> QED
    BY <2>2 DEF All, Bits, M
<1> DEFINE e == W \div 2
<1>7. e \in Nat /\ e > 0 /\ e + e = W
  BY <1>2
<1>8. 2 ^ W = 2 ^ e * 2 ^ e
  <2> HIDE DEF e
  <2>1. e \in Nat /\ e \in 0 .. Bits /\ e + e <= Bits
    BY <1>3, <1>7
  <2> QED
    BY <2>1, <1>3, <1>4, <1>7, PowersTimes
<1>9. \A k \in 0 .. Bits : 2 ^ k \in Nat /\ 2 ^ k > 0
  BY <1>3, <1>4, PowersPositive
<1>10. 2 ^ e \in Nat /\ 2 ^ e >= 2
  <2> HIDE DEF e
  <2>1. e - 1 \in 0 .. Bits - 1 /\ e - 1 \in 0 .. Bits /\ (e - 1) + 1 = e
    BY <1>3, <1>7
  <2>2. 2 ^ ((e - 1) + 1) = 2 * 2 ^ (e - 1) /\ 2 ^ (e - 1) \in Nat /\ 2 ^ (e - 1) > 0
    BY <2>1, <1>4, <1>9 DEF PowerLaws
  <2> QED
    BY <2>1, <2>2
<1>11. M \in Nat /\ M >= 4 /\ M = 2 ^ e * 2 ^ e
  <2> DEFINE h == 2 ^ e
  <2>1. h \in Nat /\ h >= 2 /\ M = h * h
    BY <1>8, <1>10 DEF M
  <2> HIDE DEF h
  <2>2. h * h \in Nat /\ h * h >= 2 * h
    BY <2>1
  <2>3. M \in Nat /\ M >= 4
    BY <2>1, <2>2
  <2> QED
    BY <2>1, <2>3 DEF h
<1>12. All \in Nat
  BY <1>3, <1>9 DEF All
<1> QED
  BY <1>2, <1>3, <1>4, <1>6, <1>7, <1>10, <1>11, <1>12 DEF TypeNumbers

\* Powers of a limb, up to twice the type's width.
LEMMA LimbPlaces ==
  ASSUME TypeNumbers
  PROVE  /\ \A k \in 0 .. 2 * N : M ^ k \in Nat /\ M ^ k > 0
         /\ \A k \in 0 .. 2 * N - 1 : M ^ (k + 1) = M * M ^ k
         /\ M ^ 0 = 1
<1>1. M \in Nat /\ M > 0 /\ 2 * N \in Nat /\ PowerLaws(M, 2 * N)
  BY DEF TypeNumbers
<1> QED
  BY <1>1, PowersPositive DEF PowerLaws

\* A limb of a number, and the number below it.
LEMMA Parts ==
  ASSUME TypeNumbers, NEW v \in Nat, NEW k \in 0 .. 2 * N - 1
  PROVE  /\ Part(v, k) \in 0 .. M - 1
         /\ v % M ^ (k + 1) = (v % M ^ k) + Part(v, k) * M ^ k
         /\ v \div M ^ (k + 1) = (v \div M ^ k) \div M
         /\ v \div M ^ k = (v \div M ^ (k + 1)) * M + Part(v, k)
         /\ v % M ^ k \in 0 .. M ^ k - 1 /\ v \div M ^ k \in Nat
<1> DEFINE p == M ^ k
           h == v \div p
<1>1. M \in Nat /\ M >= 4 /\ p \in Nat /\ p > 0 /\ M ^ (k + 1) = M * p
  BY LimbPlaces DEF TypeNumbers
<1>2. Part(v, k) = h % M
  BY DEF Part
<1> HIDE DEF p
<1>3. h \in Nat /\ v % p \in 0 .. p - 1
  <2>1. h \in Int /\ v % p \in Int /\ 0 <= v % p /\ v % p < p
    BY <1>1, DivMod
  <2>2. 0 * p <= v
    BY <1>1
  <2>3. 0 <= h
    BY <2>2, <1>1, FloorAtLeast
  <2> HIDE DEF h
  <2> QED
    BY <2>1, <2>3, <1>1
<1>4. v % (M * p) = (v % p) + (h % M) * p /\ v \div (M * p) = h \div M
  BY <1>1, SplitByProduct
<1> HIDE DEF h
<1>5. h = (h \div M) * M + (h % M) /\ h % M \in 0 .. M - 1
  BY <1>1, <1>3, DivMod
<1> QED
  BY <1>1, <1>2, <1>3, <1>4, <1>5 DEF h, p

\* At the first limb nothing is below; a pattern has no more than its limbs.
LEMMA Ends ==
  ASSUME TypeNumbers
  PROVE  /\ \A v \in Int : v % M ^ 0 = 0 /\ v \div M ^ 0 = v
         /\ \A v \in Patterns : v % M ^ N = v /\ v \div M ^ N = 0
<1>1. M ^ 0 = 1 /\ M ^ N \in Nat /\ M ^ N > 0 /\ All = M ^ N
  BY LimbPlaces DEF TypeNumbers
<1>2. \A v \in Int : v % 1 = 0 /\ v \div 1 = v
  OBVIOUS
<1>3. ASSUME NEW v \in Patterns
      PROVE  v % M ^ N = v /\ v \div M ^ N = 0
  <2> DEFINE a == M ^ N
  <2>1. v \in Int /\ 0 <= v /\ v < a /\ a \in Int /\ a > 0
    BY <1>1, <1>3 DEF Patterns
  <2> HIDE DEF a
  <2>2. v = 0 * a + v
    BY <2>1
  <2>3. v % a = v /\ v \div a = 0
    BY <2>1, <2>2, DivUnique
  <2> QED
    BY <2>3 DEF a
<1> QED
  BY <1>1, <1>2, <1>3

-----------------------------------------------------------------------------
(* Sums and differences, limb by limb *)

\* One more limb on top of a number.
LEMMA LimbOnTop ==
  ASSUME TypeNumbers, NEW k \in 0 .. 2 * N - 1, NEW r \in 0 .. M ^ k - 1, NEW s \in 0 .. M - 1
  PROVE  r + s * M ^ k \in 0 .. M ^ (k + 1) - 1
<1> DEFINE p == M ^ k
<1>1. p \in Nat /\ p > 0 /\ M \in Nat /\ M ^ (k + 1) = M * p
  BY LimbPlaces DEF TypeNumbers
<1>2. r \in 0 .. p - 1
  OBVIOUS
<1> HIDE DEF p
<1>3. 0 <= s * p /\ s * p <= (M - 1) * p /\ s * p \in Int
  BY <1>1, ProductBelow
<1>4. (M - 1) * p = M * p - p
  BY <1>1
<1>5. r + s * p \in 0 .. M * p - 1
  BY <1>1, <1>2, <1>3, <1>4
<1> QED
  BY <1>1, <1>5 DEF p

\* What a limb's sum and its carry stand for.
LEMMA SumGrows ==
  ASSUME TypeNumbers, NEW k \in 0 .. N - 1, NEW u \in Nat, NEW v \in Nat,
         NEW r \in Int, NEW c \in Int, NEW s \in Int, NEW d \in Int,
         r + c * M ^ k = (u % M ^ k) + (v % M ^ k),
         s + M * d = Part(u, k) + Part(v, k) + c
  PROVE  (r + s * M ^ k) + d * M ^ (k + 1) = (u % M ^ (k + 1)) + (v % M ^ (k + 1))
<1> DEFINE p == M ^ k
           q == M ^ (k + 1)
<1>0. k \in 0 .. 2 * N - 1
  BY DEF TypeNumbers
<1>1. p \in Int /\ M \in Int /\ q = M * p
  BY <1>0, LimbPlaces DEF TypeNumbers
<1>2. /\ u % q = (u % p) + Part(u, k) * p /\ Part(u, k) \in Int /\ u % p \in Int
      /\ v % q = (v % p) + Part(v, k) * p /\ Part(v, k) \in Int /\ v % p \in Int
  BY <1>0, Parts
<1> DEFINE a == Part(u, k)
           b == Part(v, k)
           up == u % p
           vp == v % p
<1>3. (s + M * d) * p = s * p + d * q
  <2> HIDE DEF p, q
  <2>1. (s + M * d) * p = s * p + (M * d) * p /\ (M * d) * p = d * (M * p)
    BY <1>1
  <2> QED
    BY <2>1, <1>1
<1>4. (s + M * d) * p = a * p + b * p + c * p
  <2>1. s + M * d = a + b + c
    OBVIOUS
  <2>2. a \in Int /\ b \in Int
    BY <1>2
  <2> HIDE DEF a, b, p
  <2>3. (a + b + c) * p = a * p + b * p + c * p
    BY <2>2, <1>1
  <2> QED
    BY <2>1, <2>3
<1>5. r + c * p = up + vp
  OBVIOUS
<1>6. u % q = up + a * p /\ v % q = vp + b * p
  BY <1>2
<1>7. /\ a * p \in Int /\ b * p \in Int /\ c * p \in Int /\ s * p \in Int /\ d * q \in Int
      /\ up \in Int /\ vp \in Int
  BY <1>1, <1>2
<1>8. s * p + d * q = a * p + b * p + c * p
  BY <1>3, <1>4
<1> HIDE DEF p, q, a, b, up, vp
<1>9. (r + s * p) + d * q = (u % q) + (v % q)
  <2> DEFINE ap == a * p  bp == b * p  cp == c * p  sp == s * p  dq == d * q
  <2>1. /\ sp + dq = ap + bp + cp /\ r + cp = up + vp
        /\ u % q = up + ap /\ v % q = vp + bp
        /\ ap \in Int /\ bp \in Int /\ cp \in Int /\ sp \in Int /\ dq \in Int
    BY <1>5, <1>6, <1>7, <1>8
  <2> HIDE DEF ap, bp, cp, sp, dq
  <2>2. (r + sp) + dq = (up + ap) + (vp + bp)
    BY <2>1, <1>7
  <2> QED
    BY <2>1, <2>2 DEF sp, dq
<1> QED
  BY <1>9 DEF p, q

LEMMA DifferenceGrows ==
  ASSUME TypeNumbers, NEW k \in 0 .. N - 1, NEW u \in Nat, NEW v \in Nat,
         NEW r \in Int, NEW c \in Int, NEW s \in Int, NEW d \in Int,
         r - c * M ^ k = (u % M ^ k) - (v % M ^ k),
         s - M * d = Part(u, k) - Part(v, k) - c
  PROVE  (r + s * M ^ k) - d * M ^ (k + 1) = (u % M ^ (k + 1)) - (v % M ^ (k + 1))
<1> DEFINE p == M ^ k
           q == M ^ (k + 1)
<1>0. k \in 0 .. 2 * N - 1
  BY DEF TypeNumbers
<1>1. p \in Int /\ M \in Int /\ q = M * p
  BY <1>0, LimbPlaces DEF TypeNumbers
<1>2. /\ u % q = (u % p) + Part(u, k) * p /\ Part(u, k) \in Int /\ u % p \in Int
      /\ v % q = (v % p) + Part(v, k) * p /\ Part(v, k) \in Int /\ v % p \in Int
  BY <1>0, Parts
<1> DEFINE a == Part(u, k)
           b == Part(v, k)
           up == u % p
           vp == v % p
<1>3. (s - M * d) * p = s * p - d * q
  <2> HIDE DEF p, q
  <2>1. (s - M * d) * p = s * p - (M * d) * p /\ (M * d) * p = d * (M * p)
    BY <1>1
  <2> QED
    BY <2>1, <1>1
<1>4. (s - M * d) * p = a * p - b * p - c * p
  <2>1. s - M * d = a - b - c
    OBVIOUS
  <2>2. a \in Int /\ b \in Int
    BY <1>2
  <2> HIDE DEF a, b, p
  <2>3. (a - b - c) * p = a * p - b * p - c * p
    BY <2>2, <1>1
  <2> QED
    BY <2>1, <2>3
<1>5. r - c * p = up - vp
  OBVIOUS
<1>6. u % q = up + a * p /\ v % q = vp + b * p
  BY <1>2
<1>7. /\ a * p \in Int /\ b * p \in Int /\ c * p \in Int /\ s * p \in Int /\ d * q \in Int
      /\ up \in Int /\ vp \in Int
  BY <1>1, <1>2
<1>8. s * p - d * q = a * p - b * p - c * p
  BY <1>3, <1>4
<1> HIDE DEF p, q, a, b, up, vp
<1>9. (r + s * p) - d * q = (u % q) - (v % q)
  <2> DEFINE ap == a * p  bp == b * p  cp == c * p  sp == s * p  dq == d * q
  <2>1. /\ sp - dq = ap - bp - cp /\ r - cp = up - vp
        /\ u % q = up + ap /\ v % q = vp + bp
        /\ ap \in Int /\ bp \in Int /\ cp \in Int /\ sp \in Int /\ dq \in Int
    BY <1>5, <1>6, <1>7, <1>8
  <2> HIDE DEF ap, bp, cp, sp, dq
  <2>2. (r + sp) - dq = (up + ap) - (vp + bp)
    BY <2>1, <1>7
  <2> QED
    BY <2>1, <2>2 DEF sp, dq
<1> QED
  BY <1>9 DEF p, q

\* The borrow is taken twice at most, and once is what it says.
LEMMA SubtractLimb ==
  ASSUME TypeNumbers, NEW u \in 0 .. M - 1, NEW v \in 0 .. M - 1, NEW c \in {0, 1}
  PROVE  LET b == (v + c) % M
             d == Indicator(b < v \/ u < b)
         IN /\ (u - b) % M \in 0 .. M - 1 /\ d \in {0, 1}
            /\ ((u - b) % M) - M * d = u - v - c
<1> DEFINE b == (v + c) % M
           d == Indicator(b < v \/ u < b)
           s == (u - b) % M
<1>1. M \in Nat /\ M >= 4 /\ c \in 0 .. M - 1
  BY DEF TypeNumbers
<1>2. b = v + c - (IF b < v THEN M ELSE 0) /\ b \in 0 .. M - 1
  BY <1>1, WrapsOnce
<1> HIDE DEF b
<1>3. s = u - b + (IF u < b THEN M ELSE 0) /\ s \in 0 .. M - 1
  BY <1>1, <1>2, WrapsOnce
<1> HIDE DEF s
<1>4. d \in {0, 1} /\ M * d = IF b < v \/ u < b THEN M ELSE 0
  BY <1>1 DEF Indicator
<1> HIDE DEF d
<1>5. s - M * d = u - v - c
  BY <1>1, <1>2, <1>3, <1>4
<1> QED
  BY <1>3, <1>4, <1>5 DEF b, d, s

-----------------------------------------------------------------------------
(* The loops of sums and differences *)

Summing ==
  stage = "sum" =>
    /\ x \in Patterns /\ y \in Patterns /\ i \in 0 .. N /\ carry \in {0, 1}
    /\ res \in 0 .. M ^ i - 1
    /\ res + carry * M ^ i = (x % M ^ i) + (y % M ^ i)

Differing ==
  stage = "difference" =>
    /\ x \in Patterns /\ y \in Patterns /\ i \in 0 .. N /\ carry \in {0, 1}
    /\ res \in 0 .. M ^ i - 1
    /\ res - carry * M ^ i = (x % M ^ i) - (y % M ^ i)

LEMMA SumLimbSums ==
  ASSUME TypeNumbers, Summing, SumLimb
  PROVE  Summing'
<1> DEFINE a == Part(x, i)
           b == Part(y, i)
           s == (a + b + carry) % M
           c == Indicator(s < a \/ (carry # 0 /\ s = a))
<1>1. /\ i \in 0 .. N - 1 /\ x \in Nat /\ y \in Nat /\ carry \in {0, 1}
      /\ res \in 0 .. M ^ i - 1
      /\ res + carry * M ^ i = (x % M ^ i) + (y % M ^ i)
      /\ x \in Patterns /\ y \in Patterns
  BY DEF Summing, SumLimb, Patterns, TypeNumbers
<1>2. N \in Nat /\ i \in 0 .. 2 * N - 1 /\ i + 1 \in 0 .. N
  BY <1>1 DEF TypeNumbers
<1>3. a \in 0 .. M - 1 /\ b \in 0 .. M - 1 /\ M ^ i \in Nat /\ M \in Nat /\ M > 1
  BY <1>1, <1>2, Parts, LimbPlaces DEF TypeNumbers
<1>4. s \in 0 .. M - 1 /\ c \in {0, 1} /\ s + M * c = a + b + carry
  <2> HIDE DEF a, b
  <2>1. s = AddedLimb(M, a, b, carry) /\ c = LimbCarry(M, a, b, carry)
    BY <1>1 DEF AddedLimb, LimbCarry, Indicator
  <2> HIDE DEF s, c
  <2>2. s \in 0 .. M - 1 /\ c \in {0, 1} /\ s - a = b + carry - M * c
    BY <2>1, <1>1, <1>3, AddOneLimb
  <2> QED
    BY <2>2, <1>1, <1>3
<1>5. /\ x' = x /\ y' = y /\ i' = i + 1 /\ M' = M /\ All' = All /\ N' = N
      /\ carry' = c /\ res' = res + s * M ^ i /\ Patterns' = Patterns
  BY DEF SumLimb, M, All, Bits, type, Patterns
<1> HIDE DEF s, c
<1>6. res + s * M ^ i \in 0 .. M ^ (i + 1) - 1
  BY <1>1, <1>2, <1>4, LimbOnTop
<1>7. (res + s * M ^ i) + c * M ^ (i + 1) = (x % M ^ (i + 1)) + (y % M ^ (i + 1))
  BY <1>1, <1>4, SumGrows
<1> QED
  BY <1>1, <1>2, <1>4, <1>5, <1>6, <1>7 DEF Summing

LEMMA DifferenceLimbDiffers ==
  ASSUME TypeNumbers, Differing, DifferenceLimb
  PROVE  Differing'
<1> DEFINE a == Part(x, i)
           u == Part(y, i)
           b == (u + carry) % M
           s == (a - b) % M
           c == Indicator(b < u \/ a < b)
<1>1. /\ i \in 0 .. N - 1 /\ x \in Nat /\ y \in Nat /\ carry \in {0, 1}
      /\ res \in 0 .. M ^ i - 1
      /\ res - carry * M ^ i = (x % M ^ i) - (y % M ^ i)
      /\ x \in Patterns /\ y \in Patterns
  BY DEF Differing, DifferenceLimb, Patterns, TypeNumbers
<1>2. N \in Nat /\ i \in 0 .. 2 * N - 1 /\ i + 1 \in 0 .. N
  BY <1>1 DEF TypeNumbers
<1>3. a \in 0 .. M - 1 /\ u \in 0 .. M - 1 /\ M ^ i \in Nat /\ M \in Nat
  BY <1>1, <1>2, Parts, LimbPlaces DEF TypeNumbers
<1>4. s \in 0 .. M - 1 /\ c \in {0, 1} /\ s - M * c = a - u - carry
  BY <1>1, <1>3, SubtractLimb
<1>5. /\ x' = x /\ y' = y /\ i' = i + 1 /\ M' = M /\ All' = All /\ N' = N
      /\ carry' = c /\ res' = res + s * M ^ i /\ Patterns' = Patterns
  BY DEF DifferenceLimb, M, All, Bits, type, Patterns
<1> HIDE DEF s, c
<1>6. res + s * M ^ i \in 0 .. M ^ (i + 1) - 1
  BY <1>1, <1>2, <1>4, LimbOnTop
<1>7. (res + s * M ^ i) - c * M ^ (i + 1) = (x % M ^ (i + 1)) - (y % M ^ (i + 1))
  BY <1>1, <1>4, DifferenceGrows
<1> QED
  BY <1>1, <1>2, <1>4, <1>5, <1>6, <1>7 DEF Differing

\* At the end, the sum and the difference are there, modulo the type.
LEMMA SumDone ==
  ASSUME TypeNumbers, Summing, stage = "sum", i = N
  PROVE  res = (x + y) % All
<1> DEFINE a == M ^ N
<1>1. /\ x \in Patterns /\ y \in Patterns /\ carry \in {0, 1} /\ res \in 0 .. a - 1
      /\ res + carry * a = (x % a) + (y % a)
  BY DEF Summing
<1>2. x % a = x /\ y % a = y /\ All = a /\ All \in Nat
  BY <1>1, Ends DEF TypeNumbers
<1>3. x \in Int /\ y \in Int /\ a \in Int /\ a > 0
  BY <1>1, <1>2 DEF Patterns
<1> HIDE DEF a
<1>4. x + y = carry * a + res /\ carry \in Int
  BY <1>1, <1>2, <1>3
<1>5. (x + y) % a = res
  BY <1>1, <1>3, <1>4, DivUnique
<1> QED
  BY <1>2, <1>5

LEMMA DifferenceDone ==
  ASSUME TypeNumbers, Differing, stage = "difference", i = N
  PROVE  res = (x - y) % All
<1> DEFINE a == M ^ N
<1>1. /\ x \in Patterns /\ y \in Patterns /\ carry \in {0, 1} /\ res \in 0 .. a - 1
      /\ res - carry * a = (x % a) - (y % a)
  BY DEF Differing
<1>2. x % a = x /\ y % a = y /\ All = a /\ All \in Nat
  BY <1>1, Ends DEF TypeNumbers
<1>3. x \in Int /\ y \in Int /\ a \in Int /\ a > 0
  BY <1>1, <1>2 DEF Patterns
<1> HIDE DEF a
<1>4. x - y = (-carry) * a + res /\ -carry \in Int
  BY <1>1, <1>2, <1>3
<1>5. (x - y) % a = res
  BY <1>1, <1>3, <1>4, DivUnique
<1> QED
  BY <1>2, <1>5

-----------------------------------------------------------------------------
(* Products, from half words *)

\* A quotient of natural numbers, and what is left.
LEMMA DivideNat ==
  ASSUME NEW a \in Nat, NEW b \in Nat, b > 0
  PROVE  a = (a \div b) * b + (a % b) /\ a \div b \in Nat /\ a % b \in 0 .. b - 1
<1>1. /\ a \div b \in Int /\ a % b \in Int /\ a = (a \div b) * b + (a % b)
      /\ 0 <= a % b /\ a % b < b
  BY DivMod
<1>2. 0 * b <= a
  OBVIOUS
<1>3. 0 <= a \div b
  BY <1>2, FloorAtLeast
<1> QED
  BY <1>1, <1>3

\* The four partial products are the product.
LEMMA PartialProducts ==
  ASSUME NEW h \in Int, NEW u1 \in Int, NEW u0 \in Int, NEW v1 \in Int, NEW v0 \in Int,
         NEW a \in Int, NEW b \in Int, NEW t1 \in Int, NEW t0 \in Int,
         NEW c1 \in Int, NEW c0 \in Int,
         u0 * v0 = a * h + b, u1 * v0 + a = t1 * h + t0, t0 + u0 * v1 = c1 * h + c0
  PROVE  (u1 * v1 + (t1 + c1)) * (h * h) + (c0 * h + b) = (u1 * h + u0) * (v1 * h + v0)
<1> DEFINE p == u1 * v1
           q == u1 * v0
           r == u0 * v1
           s == u0 * v0
           hh == h * h
<1>1. (u1 * h + u0) * (v1 * h + v0) = p * hh + q * h + r * h + s
  OBVIOUS
<1>2. p \in Int /\ q \in Int /\ r \in Int /\ s \in Int /\ hh \in Int
  OBVIOUS
<1>3. s = a * h + b /\ q + a = t1 * h + t0 /\ t0 + r = c1 * h + c0
  OBVIOUS
<1> HIDE DEF p, q, r, s
<1>4. q * h + a * h = t1 * hh + t0 * h
  <2>1. (q + a) * h = (t1 * h + t0) * h
    BY <1>3
  <2>2. (q + a) * h = q * h + a * h /\ (t1 * h + t0) * h = t1 * hh + t0 * h
    BY <1>2
  <2> QED
    BY <2>1, <2>2
<1>5. t0 * h + r * h = c1 * hh + c0 * h
  <2>1. (t0 + r) * h = (c1 * h + c0) * h
    BY <1>3
  <2>2. (t0 + r) * h = t0 * h + r * h /\ (c1 * h + c0) * h = c1 * hh + c0 * h
    BY <1>2
  <2> QED
    BY <2>1, <2>2
<1> HIDE DEF hh
<1>6. (p + (t1 + c1)) * hh = p * hh + t1 * hh + c1 * hh
  BY <1>2
<1> DEFINE ph == p * hh  qh == q * h  rh == r * h  ah == a * h  th == t1 * hh  tl == t0 * h
           ch == c1 * hh  cl == c0 * h
<1>7. /\ ph \in Int /\ qh \in Int /\ rh \in Int /\ ah \in Int /\ th \in Int /\ tl \in Int
      /\ ch \in Int /\ cl \in Int
  BY <1>2
<1>8. /\ s = ah + b /\ qh + ah = th + tl /\ tl + rh = ch + cl
      /\ (p + (t1 + c1)) * hh = ph + th + ch
      /\ (u1 * h + u0) * (v1 * h + v0) = ph + qh + rh + s
  BY <1>1, <1>3, <1>4, <1>5, <1>6
<1> HIDE DEF ph, qh, rh, ah, th, tl, ch, cl
<1>9. (p + (t1 + c1)) * hh + (c0 * h + b) = (u1 * h + u0) * (v1 * h + v0)
  <2>1. c0 * h = cl
    BY DEF cl
  <2>2. (ph + th + ch) + (cl + b) = ph + qh + rh + s
    BY <1>2, <1>7, <1>8
  <2> QED
    BY <1>8, <2>1, <2>2
<1> QED
  BY <1>9 DEF p, hh

\* A product and two more words are still two words.
LEMMA WordAndTwo ==
  ASSUME NEW m \in Nat, m > 1, NEW u \in 0 .. m - 1, NEW v \in 0 .. m - 1
  PROVE  u * v \in Nat /\ u * v + 2 * (m - 1) < m * m
<1>1. 0 <= u * v /\ u * v <= (m - 1) * v /\ u * v \in Int
  BY ProductBelow
<1>2. (m - 1) * v = v * (m - 1) /\ v * (m - 1) <= (m - 1) * (m - 1)
  BY ProductBelow
<1>3. (m - 1) * (m - 1) + 2 * (m - 1) = m * m - 1
  OBVIOUS
<1> QED
  BY <1>1, <1>2, <1>3

LEMMA WordRight ==
  ASSUME TypeNumbers, NEW u \in 0 .. M - 1, NEW v \in 0 .. M - 1
  PROVE  LET w == mul64x64(u, v)
         IN w.hi \in 0 .. M - 1 /\ w.lo \in 0 .. M - 1 /\ w.hi * M + w.lo = u * v
<1> DEFINE h == 2 ^ (W \div 2)
           w0 == (u % h) * (v % h)
           t == (u \div h) * (v % h) + w0 \div h
           w1 == (t % h) + (u % h) * (v \div h)
           w2 == t \div h + w1 \div h
           hi == (u \div h) * (v \div h) + w2
           lo == (w1 % h) * h + (w0 % h)
<1>1. h \in Nat /\ h >= 2 /\ M = h * h /\ M \in Nat /\ M >= 4
  BY DEF TypeNumbers
<1>2. mul64x64(u, v) = [hi |-> hi, lo |-> lo]
  BY DEF mul64x64
<1> HIDE DEF h
<1>3. /\ u = (u \div h) * h + (u % h) /\ u \div h \in Int /\ u % h \in Int
      /\ 0 <= u % h /\ u % h < h
      /\ v = (v \div h) * h + (v % h) /\ v \div h \in Int /\ v % h \in Int
      /\ 0 <= v % h /\ v % h < h
  BY <1>1, DivMod
<1>4. 0 <= u \div h /\ 0 <= v \div h
  <2>1. 0 * h <= u /\ 0 * h <= v
    BY <1>1
  <2> QED
    BY <2>1, <1>1, FloorAtLeast
<1> DEFINE u1 == u \div h  u0 == u % h  v1 == v \div h  v0 == v % h
<1>5. u1 \in Nat /\ u0 \in Nat /\ v1 \in Nat /\ v0 \in Nat /\ u0 < h /\ v0 < h
      /\ u = u1 * h + u0 /\ v = v1 * h + v0
  BY <1>3, <1>4, <1>1
<1>6. w0 = u0 * v0 /\ t = u1 * v0 + w0 \div h /\ w1 = (t % h) + u0 * v1
      /\ hi = u1 * v1 + (t \div h + w1 \div h)
  OBVIOUS
<1> HIDE DEF u1, u0, v1, v0, w0, t, w1, hi
<1>7. w0 \in Nat /\ u1 * v0 \in Nat /\ u0 * v1 \in Nat /\ u1 * v1 \in Nat
  <2>1. \A a, b \in Nat : a * b \in Nat
    OBVIOUS
  <2> QED
    BY <2>1, <1>5, <1>6
<1>8. w0 = (w0 \div h) * h + (w0 % h) /\ w0 \div h \in Nat /\ w0 % h \in 0 .. h - 1
  BY <1>1, <1>7, DivideNat
<1>9. t \in Nat
  BY <1>6, <1>7, <1>8
<1>10. t = (t \div h) * h + (t % h) /\ t \div h \in Nat /\ t % h \in 0 .. h - 1
  BY <1>1, <1>9, DivideNat
<1>11. w1 \in Nat
  BY <1>6, <1>7, <1>10
<1>12. w1 = (w1 \div h) * h + (w1 % h) /\ w1 \div h \in Nat /\ w1 % h \in 0 .. h - 1
  BY <1>1, <1>11, DivideNat
<1> DEFINE a == w0 \div h  b == w0 % h  t1 == t \div h  t0 == t % h  c1 == w1 \div h
           c0 == w1 % h
<1>13. /\ u0 * v0 = a * h + b /\ u1 * v0 + a = t1 * h + t0 /\ t0 + u0 * v1 = c1 * h + c0
       /\ a \in Nat /\ t1 \in Nat /\ c1 \in Nat /\ t0 \in Nat
       /\ b \in 0 .. h - 1 /\ c0 \in 0 .. h - 1
  BY <1>6, <1>8, <1>10, <1>12
<1>14. hi = u1 * v1 + (t1 + c1) /\ lo = c0 * h + b
  BY <1>6
<1> HIDE DEF a, b, t1, t0, c1, c0
<1>15. hi * (h * h) + lo = (u1 * h + u0) * (v1 * h + v0)
  <2>1. /\ h \in Int /\ u1 \in Int /\ u0 \in Int /\ v1 \in Int /\ v0 \in Int /\ a \in Int
        /\ b \in Int /\ t1 \in Int /\ t0 \in Int /\ c1 \in Int /\ c0 \in Int
    BY <1>1, <1>5, <1>13
  <2>2. (u1 * v1 + (t1 + c1)) * (h * h) + (c0 * h + b) = (u1 * h + u0) * (v1 * h + v0)
    BY <2>1, <1>13, PartialProducts
  <2> HIDE DEF lo
  <2> QED
    BY <2>2, <1>14
<1>16. hi * M + lo = u * v
  BY <1>1, <1>5, <1>15
<1>17. lo \in 0 .. M - 1
  <2>1. 0 <= c0 * h /\ c0 * h <= (h - 1) * h /\ c0 * h \in Int
    BY <1>1, <1>13, ProductBelow
  <2>2. (h - 1) * h = h * h - h /\ h * h \in Int
    BY <1>1
  <2> HIDE DEF lo
  <2> QED
    BY <1>1, <1>13, <1>14, <2>1, <2>2
<1>18. hi \in Nat
  BY <1>7, <1>13, <1>14
<1> HIDE DEF lo
<1>19. hi < M
  <2>1. u * v \in Nat /\ u * v + 2 * (M - 1) < M * M
    BY <1>1, WordAndTwo
  <2>2. hi * M < M * M /\ hi * M \in Int
    BY <2>1, <1>1, <1>16, <1>17, <1>18
  <2> QED
    BY <2>2, <1>1, <1>18, CancelFactor
<1> QED
  BY <1>2, <1>16, <1>17, <1>18, <1>19, <1>1

\* What the loop makes of a limb, a product and a carry: a limb and a carry.
ProductLow(a, u, v, c) == (((a + mul64x64(u, v).lo) % M) + c) % M
ProductHigh(a, u, v, c) ==
  LET s1 == (a + mul64x64(u, v).lo) % M
  IN (mul64x64(u, v).hi + Indicator(s1 < mul64x64(u, v).lo) + Indicator((s1 + c) % M < s1)) % M

\* The carry of a limb of a product: a high word and two wraps, still one word.
LEMMA ProductCarry ==
  ASSUME TypeNumbers, NEW u \in 0 .. M - 1, NEW v \in 0 .. M - 1,
         NEW a \in 0 .. M - 1, NEW c \in 0 .. M - 1
  PROVE  /\ ProductLow(a, u, v, c) \in 0 .. M - 1 /\ ProductHigh(a, u, v, c) \in 0 .. M - 1
         /\ ProductLow(a, u, v, c) + M * ProductHigh(a, u, v, c) = a + u * v + c
         /\ (a + mul64x64(u, v).lo + c) \div M + mul64x64(u, v).hi < M
<1> DEFINE w == mul64x64(u, v)
           s1 == (a + w.lo) % M
           s2 == (s1 + c) % M
           d1 == Indicator(s1 < w.lo)
           d2 == Indicator(s2 < s1)
           e == w.hi + d1 + d2
           up == u * v
<1>1. M \in Nat /\ M >= 4
  BY DEF TypeNumbers
<1>2. w.hi \in 0 .. M - 1 /\ w.lo \in 0 .. M - 1 /\ w.hi * M + w.lo = up
  BY WordRight
<1>3. up \in Nat /\ up + 2 * (M - 1) < M * M
  BY <1>1, WordAndTwo
<1> DEFINE hi == w.hi
           lo == w.lo
<1> HIDE DEF w, up
<1>4. hi \in 0 .. M - 1 /\ lo \in 0 .. M - 1 /\ hi * M + lo = up
  BY <1>2
<1>5. s1 = a + lo - (IF s1 < lo THEN M ELSE 0) /\ s1 \in 0 .. M - 1
  <2>1. s1 = (lo + a) % M
    BY <1>1, <1>4
  <2> HIDE DEF s1, lo
  <2> QED
    BY <2>1, <1>1, <1>4, WrapsOnce
<1>6. s1 = a + lo - M * d1 /\ d1 \in {0, 1}
  BY <1>1, <1>5 DEF Indicator
<1> HIDE DEF s1
<1>7. s2 = s1 + c - (IF s2 < s1 THEN M ELSE 0) /\ s2 \in 0 .. M - 1
  BY <1>1, <1>5, WrapsOnce
<1>8. s2 = s1 + c - M * d2 /\ d2 \in {0, 1}
  BY <1>1, <1>7 DEF Indicator
<1>9. e = hi + d1 + d2
  OBVIOUS
<1> HIDE DEF s2, d1, d2, e, hi, lo
<1>10. s2 + M * e = a + up + c /\ M * e \in Int /\ e \in Nat
  <2>1. M * e = hi * M + M * d1 + M * d2 /\ e \in Nat
    BY <1>1, <1>4, <1>6, <1>8, <1>9
  <2> DEFINE he == hi * M  de == M * d1  ee == M * d2  me == M * e
  <2>2. /\ me = he + de + ee /\ s2 = s1 + c - ee /\ s1 = a + lo - de /\ he + lo = up
        /\ he \in Int /\ de \in Int /\ ee \in Int
    BY <2>1, <1>1, <1>4, <1>6, <1>8
  <2> HIDE DEF he, de, ee, me
  <2>3. s2 + me = a + up + c /\ me \in Int
    BY <2>2, <1>1, <1>5, <1>4, <1>7
  <2> QED
    BY <2>1, <2>3 DEF me
<1>11. M * M \in Int
  BY <1>1
<1>12. e < M
  <2>1. e * M < M * M /\ e * M = M * e
    BY <1>1, <1>3, <1>7, <1>10, <1>11
  <2> QED
    BY <2>1, <1>1, <1>10, CancelFactor
<1>13. e % M = e
  BY <1>1, <1>10, <1>12, RemainderOfSmall
<1>14. (a + lo + c) \div M + hi < M
  <2> DEFINE q == (a + lo + c) \div M
             r == (a + lo + c) % M
  <2>1. a + lo + c = q * M + r /\ q \in Int /\ 0 <= r
    BY <1>1, <1>4, DivMod
  <2> HIDE DEF q, r
  <2>2. (q + hi) * M = q * M + hi * M
    BY <1>1, <1>4, <2>1
  <2>3. (q + hi) * M < M * M
    <3> DEFINE qm == q * M  hm == hi * M
    <3>1. /\ a + lo + c = qm + r /\ hm + lo = up /\ (q + hi) * M = qm + hm
          /\ qm \in Int /\ hm \in Int /\ r \in Int
      BY <2>1, <2>2, <1>1, <1>4 DEF r
    <3> HIDE DEF qm, hm
    <3> QED
      BY <3>1, <2>1, <1>1, <1>3, <1>4, <1>11
  <2> QED
    BY <2>1, <2>3, <1>1, <1>4, CancelFactor DEF q
<1>15. ProductLow(a, u, v, c) = s2 /\ ProductHigh(a, u, v, c) = e
  BY <1>13 DEF ProductLow, ProductHigh, w, s1, s2, d1, d2, e, hi, lo
<1>16. s2 \in 0 .. M - 1 /\ e \in 0 .. M - 1 /\ s2 + M * e = a + up + c
  BY <1>7, <1>10, <1>12, <1>1
<1> QED
  BY <1>14, <1>15, <1>16 DEF w, hi, lo, up

-----------------------------------------------------------------------------
(* The loop of products *)

\* What has been multiplied by limb k of the row: the second factor's low limbs.
Taken(k) == IF k < N THEN y % M ^ k ELSE y

\* The limbs written and the carry, up to multiples of the type's width for a
\* product that keeps only that, are what has been multiplied so far.
Multiplying ==
  stage = "row" =>
    /\ request.op \in {"mul", "mul_full"}
    /\ x \in Patterns /\ y \in Patterns
    /\ i \in 0 .. N /\ j \in Nat /\ i + j <= Width
    /\ carry \in 0 .. M - 1 /\ res \in 0 .. M ^ Width - 1
    /\ i = N => j = 0 /\ carry = 0
    /\ \E k \in Nat :
         /\ request.op = "mul_full" => k = 0
         /\ res + carry * M ^ (i + j) + k * All
              = (x % M ^ i) * y + (Part(x, i) * M ^ i) * Taken(j)

\* A limb is put in the place of another one.
LEMMA PutKeeps ==
  ASSUME TypeNumbers, NEW n \in 0 .. 2 * N, NEW k \in 0 .. n - 1,
         NEW v \in 0 .. M ^ n - 1, NEW s \in 0 .. M - 1
  PROVE  v + (s - Part(v, k)) * M ^ k \in 0 .. M ^ n - 1
<1> DEFINE p == M ^ k
           q == M ^ (k + 1)
           t == M ^ n
           d == M ^ (n - (k + 1))
           h == v \div q
           a == Part(v, k)
           l == v % p
<1>0. /\ n \in Nat /\ k \in 0 .. 2 * N - 1 /\ k + 1 \in 0 .. 2 * N /\ k + 1 <= n /\ 2 * N \in Nat
      /\ n - (k + 1) \in 0 .. 2 * N /\ k \in 0 .. 2 * N /\ v \in Nat
  <2>1. N \in Nat /\ M ^ n \in Nat
    BY LimbPlaces DEF TypeNumbers
  <2> QED
    BY <2>1
<1>1. /\ p \in Nat /\ p > 0 /\ q \in Nat /\ q > 0 /\ t \in Nat /\ t > 0 /\ q = M * p
      /\ d \in Nat /\ d > 0 /\ M \in Nat /\ M >= 4
  BY <1>0, LimbPlaces DEF TypeNumbers
<1>2. t = q * d
  <2>1. PowerLaws(M, 2 * N) /\ M > 0
    BY <1>1 DEF TypeNumbers
  <2> QED
    BY <2>1, <1>0, <1>1, PowersOrder
<1>3. a \in 0 .. M - 1 /\ v % q = l + a * p /\ l \in 0 .. p - 1
  BY <1>0, Parts
<1>4. v = h * q + (v % q) /\ h \in Nat
  BY <1>0, <1>1, DivideNat
<1>5. v < d * q
  BY <1>1, <1>2
<1> HIDE DEF a, l, h, p, q, t, d
<1>6. h < d
  <2>1. h * q < d * q
    <3> DEFINE hq == h * q  ap == a * p  dq == d * q
    <3>1. hq \in Int /\ ap \in Int /\ ap >= 0 /\ dq \in Int /\ v = hq + (l + ap) /\ v < dq
      BY <1>1, <1>3, <1>4, <1>5
    <3> HIDE DEF hq, ap, dq
    <3>2. hq < dq
      BY <3>1, <1>3, <1>0
    <3> QED
      BY <3>2 DEF hq, dq
  <2> QED
    BY <2>1, <1>1, <1>4, CancelFactor
<1>7. h * q + q <= t
  BY <1>1, <1>2, <1>4, <1>6, MultipleOrder
<1>8. 0 <= s * p /\ s * p <= (M - 1) * p /\ s * p \in Int /\ a * p \in Int /\ h * q \in Int
  BY <1>1, <1>3, <1>4, ProductBelow
<1>9. (M - 1) * p = q - p /\ (s - a) * p = s * p - a * p
  BY <1>1, <1>3
<1>10. 0 <= h * q
  BY <1>1, <1>4
<1> DEFINE hq == h * q  ap == a * p  sp == s * p
<1>11. /\ hq \in Int /\ ap \in Int /\ sp \in Int /\ v = hq + (l + ap) /\ hq + q <= t
       /\ 0 <= sp /\ sp <= q - p /\ 0 <= hq /\ (s - a) * p = sp - ap
  BY <1>3, <1>4, <1>7, <1>8, <1>9, <1>10
<1> HIDE DEF hq, ap, sp
<1>12. v + (s - a) * p \in 0 .. t - 1
  BY <1>1, <1>3, <1>11, <1>0
<1> QED
  BY <1>12 DEF a, p, t

\* What a limb's sum and its carry add to the limbs written.
Carries(a, s, d, t, c) == s + M * d = a + t + c

LEMMA PutGrows ==
  ASSUME TypeNumbers, NEW k \in 0 .. 2 * N - 1, NEW r \in Int, NEW a \in Int,
         NEW s \in Int, NEW d \in Int, NEW t \in Int, NEW c \in Int, Carries(a, s, d, t, c)
  PROVE  (r + (s - a) * M ^ k) + d * M ^ (k + 1) = (r + c * M ^ k) + t * M ^ k
<1> DEFINE p == M ^ k
<1>1. p \in Int /\ M \in Int /\ M ^ (k + 1) = M * p
  BY LimbPlaces DEF TypeNumbers
<1> HIDE DEF p
<1>2. d * (M * p) = (M * d) * p /\ M * d = a + t + c - s
  BY <1>1 DEF Carries
<1>3. (a + t + c - s) * p = a * p + t * p + c * p - s * p /\ (s - a) * p = s * p - a * p
  BY <1>1
<1> DEFINE ap == a * p  tp == t * p  cp == c * p  sp == s * p
<1>4. /\ d * (M * p) = ap + tp + cp - sp /\ (s - a) * p = sp - ap
      /\ ap \in Int /\ tp \in Int /\ cp \in Int /\ sp \in Int
  BY <1>1, <1>2, <1>3
<1> HIDE DEF ap, tp, cp, sp
<1>5. (r + (s - a) * p) + d * (M * p) = (r + cp) + tp
  BY <1>4
<1> QED
  BY <1>1, <1>5 DEF p, cp, tp

\* The places of two limbs are the place of their product.
LEMMA PlacesAdd ==
  ASSUME TypeNumbers, NEW k \in Nat, NEW l \in Nat, k + l <= 2 * N
  PROVE  M ^ (k + l) = M ^ k * M ^ l
<1>1. PowerLaws(M, 2 * N) /\ M \in Nat /\ M > 0 /\ 2 * N \in Nat /\ l \in 0 .. 2 * N
  BY DEF TypeNumbers
<1> QED
  BY <1>1, PowersTimes

LEMMA Widths ==
  ASSUME TypeNumbers
  PROVE  /\ N \in Nat /\ N >= 2 /\ M \in Nat /\ M >= 4 /\ Width \in Nat /\ Width \in 0 .. 2 * N
         /\ Width >= N /\ (request.op = "mul_full" => Width = 2 * N)
         /\ (request.op # "mul_full" => Width = N)
BY DEF TypeNumbers, Width

\* Taking one more limb of the second factor.
LEMMA TakenGrows ==
  ASSUME TypeNumbers, y \in Patterns, NEW k \in 0 .. N - 1
  PROVE  /\ Taken(k) = y % M ^ k /\ Taken(k + 1) = Taken(k) + Part(y, k) * M ^ k
         /\ Part(y, k) \in 0 .. M - 1 /\ Taken(k) \in Nat
<1>1. y \in Nat /\ k \in 0 .. 2 * N - 1 /\ k + 1 \in 0 .. N /\ N \in Nat
  BY DEF Patterns, TypeNumbers
<1>2. /\ y % M ^ (k + 1) = (y % M ^ k) + Part(y, k) * M ^ k /\ Part(y, k) \in 0 .. M - 1
      /\ y % M ^ k \in 0 .. M ^ k - 1
  BY <1>1, Parts
<1>3. Taken(k) = y % M ^ k
  BY <1>1 DEF Taken
<1>4. Taken(k + 1) = y % M ^ (k + 1)
  <2>1. CASE k + 1 < N
    BY <2>1 DEF Taken
  <2>2. CASE k + 1 = N
    <3>1. y % M ^ N = y
      BY Ends
    <3> QED
      BY <3>1, <2>2, <1>1 DEF Taken
  <2> QED
    BY <2>1, <2>2, <1>1
<1> QED
  BY <1>2, <1>3, <1>4

LEMMA ProductLimbMultiplies ==
  ASSUME TypeNumbers, Multiplying, ProductLimb
  PROVE  Multiplying'
<1> DEFINE u == Part(x, i)
           v == Part(y, j)
           a == Part(res, i + j)
           s2 == ProductLow(a, u, v, carry)
           d == ProductHigh(a, u, v, carry)
           at == i + j
<1>1. /\ stage = "row" /\ request.op \in {"mul", "mul_full"}
      /\ x \in Patterns /\ y \in Patterns /\ x \in Nat /\ i \in 0 .. N - 1 /\ j \in 0 .. N - 1
      /\ carry \in 0 .. M - 1 /\ res \in 0 .. M ^ Width - 1 /\ i + j < Width
      /\ N \in Nat /\ M \in Nat
  BY DEF ProductLimb, Multiplying, TypeNumbers, Patterns
<1>2. PICK k \in Nat :
        /\ request.op = "mul_full" => k = 0
        /\ res + carry * M ^ (i + j) + k * All
             = (x % M ^ i) * y + (Part(x, i) * M ^ i) * Taken(j)
  BY <1>1 DEF Multiplying
<1>3. /\ at \in 0 .. 2 * N - 1 /\ at \in 0 .. Width - 1 /\ Width \in 0 .. 2 * N
      /\ at + 1 = i + (j + 1) /\ i \in 0 .. 2 * N - 1 /\ j \in 0 .. 2 * N - 1
  BY <1>1, Widths
<1>4. res \in Nat
  <2>1. M ^ Width \in Nat
    BY <1>3, LimbPlaces
  <2> QED
    BY <1>1, <2>1
<1>5. u \in 0 .. M - 1 /\ v \in 0 .. M - 1 /\ a \in 0 .. M - 1
  <2>1. Part(res, at) \in 0 .. M - 1
    BY <1>3, <1>4, Parts
  <2>2. y \in Nat
    BY <1>1 DEF Patterns, TypeNumbers
  <2> QED
    BY <2>1, <2>2, <1>1, <1>3, Parts
<1>6. s2 \in 0 .. M - 1 /\ d \in 0 .. M - 1 /\ s2 + M * d = a + u * v + carry
  <2> HIDE DEF u, v, a
  <2> QED
    BY <1>1, <1>5, ProductCarry
<1>7. /\ x' = x /\ y' = y /\ i' = i /\ j' = j + 1 /\ M' = M /\ All' = All /\ N' = N
      /\ stage' = stage /\ request' = request /\ Width' = Width /\ Patterns' = Patterns
      /\ carry' = d /\ res' = res + (s2 - a) * M ^ at
  BY DEF ProductLimb, M, All, Bits, type, Patterns, Put, Width, ProductLow, ProductHigh
<1> HIDE DEF s2, d
<1>8. res + (s2 - a) * M ^ at \in 0 .. M ^ Width - 1
  BY <1>1, <1>3, <1>6, PutKeeps
<1>9. (res + (s2 - a) * M ^ at) + d * M ^ (at + 1) = (res + carry * M ^ at) + (u * v) * M ^ at
  <2>1. u * v \in Int
    BY <1>5
  <2> DEFINE t == u * v
  <2>2. t \in Int /\ res \in Int /\ a \in Int /\ s2 \in Int /\ d \in Int /\ carry \in Int
        /\ at \in 0 .. 2 * N - 1 /\ Carries(a, s2, d, t, carry)
    BY <2>1, <1>1, <1>3, <1>4, <1>5, <1>6 DEF Carries
  <2> HIDE DEF t, a, at
  <2>3. (res + (s2 - a) * M ^ at) + d * M ^ (at + 1) = (res + carry * M ^ at) + t * M ^ at
    BY <2>2, PutGrows
  <2> QED
    BY <2>3 DEF t
<1>10. (u * v) * M ^ at = (u * M ^ i) * (v * M ^ j)
  <2>1. M ^ at = M ^ i * M ^ j /\ M ^ i \in Int /\ M ^ j \in Int
    BY <1>1, <1>3, PlacesAdd, LimbPlaces
  <2> DEFINE mi == M ^ i  mj == M ^ j
  <2> HIDE DEF mi, mj, u, v
  <2>2. (u * v) * (mi * mj) = (u * mi) * (v * mj)
    BY <2>1, <1>5 DEF mi, mj
  <2> QED
    BY <2>1, <2>2 DEF mi, mj
<1>11. Taken(j + 1) = Taken(j) + v * M ^ j /\ Taken(j) \in Int /\ v * M ^ j \in Int
       /\ u * M ^ i \in Int
  <2>1. M ^ i \in Int /\ M ^ j \in Int
    BY <1>1, <1>3, LimbPlaces
  <2> QED
    BY <2>1, <1>1, <1>5, TakenGrows
<1> DEFINE um == u * M ^ i
           vm == v * M ^ j
<1>12. um * Taken(j + 1) = um * Taken(j) + um * vm
  <2> HIDE DEF um, vm
  <2>1. Taken(j + 1) = Taken(j) + vm /\ Taken(j) \in Int /\ vm \in Int /\ um \in Int
    BY <1>11 DEF um, vm
  <2> QED
    BY <2>1
<1>13. (res + (s2 - a) * M ^ at) + d * M ^ (at + 1) + k * All = (x % M ^ i) * y + um * Taken(j + 1)
  <2> DEFINE new == res + (s2 - a) * M ^ at
             dq == d * M ^ (at + 1)
             cp == carry * M ^ at
             ka == k * All
             xy == (x % M ^ i) * y
             ut == um * Taken(j)
             uv == um * vm
  <2>1. /\ new + dq = (res + cp) + uv /\ res + cp + ka = xy + ut
        /\ um * Taken(j + 1) = ut + uv
    BY <1>2, <1>9, <1>10, <1>12
  <2>2. /\ new \in Int /\ dq \in Int /\ cp \in Int /\ ka \in Int /\ xy \in Int /\ ut \in Int
        /\ uv \in Int
    <3>1. M ^ at \in Int /\ M ^ (at + 1) \in Int /\ All \in Int /\ x % M ^ i \in Int /\ y \in Int
          /\ um \in Int /\ vm \in Int /\ Taken(j) \in Int
      <4>1. at \in 0 .. 2 * N /\ at + 1 \in 0 .. 2 * N
        BY <1>1, <1>3
      <4>2. x % M ^ i \in Int
        BY <1>1, <1>3, Parts
      <4> QED
        BY <4>1, <4>2, <1>1, <1>11, LimbPlaces DEF TypeNumbers, Patterns
    <3> HIDE DEF at, um, vm, a
    <3>2. \A b, c \in Int : b * c \in Int
      OBVIOUS
    <3>3. a \in Int /\ s2 - a \in Int
      BY <1>5, <1>6
    <3> QED
      BY <3>1, <3>2, <3>3, <1>1, <1>4, <1>6
  <2> HIDE DEF new, dq, cp, ka, xy, ut, uv, um
  <2> QED
    BY <2>1, <2>2, <1>4 DEF new, dq, ka, xy
<1>14. \E l \in Nat :
         /\ request.op = "mul_full" => l = 0
         /\ res' + carry' * M' ^ (i' + j') + l * All'
              = (x' % M' ^ i') * y' + (Part(x, i)' * M' ^ i') * Taken(j)'
  <2>1. Taken(j)' = Taken(j + 1) /\ Part(x, i)' = Part(x, i)
    BY <1>7 DEF Taken, Part
  <2>2. i + (j + 1) = at + 1
    BY <1>3
  <2> QED
    BY <1>2, <1>7, <1>13, <2>1, <2>2
<1>15. i' + j' <= Width' /\ j' \in Nat /\ i' \in 0 .. N' /\ i' # N'
  BY <1>1, <1>3, <1>7
<1> QED
  BY <1>1, <1>6, <1>7, <1>8, <1>14, <1>15 DEF Multiplying

\* Past the second factor's limbs, the carry goes on alone.
LEMMA PropagateMultiplies ==
  ASSUME TypeNumbers, Multiplying, Propagate, i < N
  PROVE  Multiplying'
<1> DEFINE at == i + j
           a == Part(res, at)
           s == (a + carry) % M
           d == Indicator(s < carry)
<1>1. /\ stage = "row" /\ request.op \in {"mul", "mul_full"}
      /\ x \in Patterns /\ y \in Patterns /\ x \in Nat /\ i \in 0 .. N - 1 /\ j \in Nat /\ j >= N
      /\ carry \in 0 .. M - 1 /\ res \in 0 .. M ^ Width - 1 /\ at < Width
      /\ N \in Nat /\ M \in Nat /\ M >= 4
  BY DEF Propagate, Multiplying, TypeNumbers, Patterns
<1>2. PICK k \in Nat :
        /\ request.op = "mul_full" => k = 0
        /\ res + carry * M ^ at + k * All = (x % M ^ i) * y + (Part(x, i) * M ^ i) * Taken(j)
  BY <1>1 DEF Multiplying
<1>3. /\ at \in 0 .. 2 * N - 1 /\ at \in 0 .. Width - 1 /\ Width \in 0 .. 2 * N
      /\ at + 1 = i + (j + 1) /\ at + 1 \in 0 .. 2 * N
  BY <1>1, Widths
<1>4. res \in Nat
  <2>1. M ^ Width \in Nat
    BY <1>3, LimbPlaces
  <2> QED
    BY <1>1, <2>1
<1>5. a \in 0 .. M - 1
  BY <1>3, <1>4, Parts
<1>6. /\ x' = x /\ y' = y /\ i' = i /\ j' = j + 1 /\ M' = M /\ All' = All /\ N' = N
      /\ stage' = stage /\ request' = request /\ Width' = Width /\ Patterns' = Patterns
      /\ carry' = d /\ res' = res + (s - a) * M ^ at
  BY DEF Propagate, M, All, Bits, type, Patterns, Put, Width
<1> HIDE DEF a, at
<1>7. s = carry + a - (IF s < carry THEN M ELSE 0) /\ s \in 0 .. M - 1
  <2>1. s = (carry + a) % M
    BY <1>1, <1>5
  <2> HIDE DEF s
  <2> QED
    BY <2>1, <1>1, <1>5, WrapsOnce
<1> HIDE DEF s
<1>8. Carries(a, s, d, 0, carry) /\ d \in {0, 1} /\ d \in 0 .. M - 1
  BY <1>1, <1>5, <1>7 DEF Indicator, Carries
<1> HIDE DEF d
<1>9. (res + (s - a) * M ^ at) + d * M ^ (at + 1) = res + carry * M ^ at
  <2>1. (res + (s - a) * M ^ at) + d * M ^ (at + 1) = (res + carry * M ^ at) + 0 * M ^ at
    <3>1. /\ res \in Int /\ a \in Int /\ s \in Int /\ d \in Int /\ 0 \in Int /\ carry \in Int
          /\ at \in 0 .. 2 * N - 1 /\ Carries(a, s, d, 0, carry)
      BY <1>1, <1>3, <1>4, <1>5, <1>7, <1>8
    <3> QED
      BY <3>1, PutGrows
  <2>2. M ^ at \in Int
    BY <1>1, <1>3, LimbPlaces
  <2>3. 0 * M ^ at = 0 /\ carry * M ^ at \in Int
    BY <2>2, <1>1
  <2> QED
    BY <2>1, <2>3, <1>4
<1>10. res + (s - a) * M ^ at \in 0 .. M ^ Width - 1
  BY <1>1, <1>3, <1>7, PutKeeps DEF a
<1>11. Taken(j + 1) = Taken(j)
  BY <1>1 DEF Taken
<1>12. \E l \in Nat :
         /\ request.op = "mul_full" => l = 0
         /\ res' + carry' * M' ^ (i' + j') + l * All'
              = (x' % M' ^ i') * y' + (Part(x, i)' * M' ^ i') * Taken(j)'
  <2>1. Taken(j)' = Taken(j + 1) /\ Part(x, i)' = Part(x, i)
    BY <1>6 DEF Taken, Part
  <2> QED
    BY <1>2, <1>3, <1>6, <1>9, <1>11, <2>1
<1>13. i' + j' <= Width' /\ j' \in Nat /\ i' \in 0 .. N' /\ i' # N'
  BY <1>1, <1>3, <1>6
<1> QED
  BY <1>1, <1>6, <1>8, <1>10, <1>12, <1>13 DEF Multiplying

\* A row of the first factor, all of it.
LEMMA RowOfAll ==
  ASSUME TypeNumbers, x \in Patterns, y \in Patterns, NEW k \in 0 .. N - 1
  PROVE  /\ (x % M ^ k) * y + (Part(x, k) * M ^ k) * y = (x % M ^ (k + 1)) * y
         /\ (x % M ^ (k + 1)) * y \in Nat /\ (x % M ^ (k + 1)) * y < M ^ (2 * N)
<1>1. x \in Nat /\ y \in Nat /\ y < All /\ N \in Nat /\ N >= 2 /\ All \in Nat
      /\ k \in 0 .. 2 * N - 1 /\ k + 1 \in 0 .. N /\ k \in 0 .. N /\ x \in 0 .. All - 1
  BY DEF Patterns, TypeNumbers
<1> DEFINE l == x % M ^ k
           t == Part(x, k) * M ^ k
           u == x % M ^ (k + 1)
<1>2. u = l + t /\ l \in Int /\ t \in Int
  <2>1. M ^ k \in Int /\ Part(x, k) \in Int
    <3>1. k \in 0 .. 2 * N
      BY <1>1
    <3>2. M ^ k \in Int
      BY <3>1, LimbPlaces
    <3>3. Part(x, k) \in 0 .. M - 1
      BY <1>1, Parts
    <3> QED
      BY <3>2, <3>3
  <2> QED
    BY <2>1, <1>1, Parts
<1>3. u \in Nat /\ u <= x
  <2> DEFINE q == M ^ (k + 1)
  <2>1. q \in Nat /\ q > 0
    BY <1>1, LimbPlaces
  <2> HIDE DEF q
  <2>2. x = (x \div q) * q + (x % q) /\ x \div q \in Nat /\ x % q \in 0 .. q - 1
    BY <1>1, <2>1, DivideNat
  <2>3. (x \div q) * q \in Nat
    BY <2>1, <2>2
  <2>4. x % q \in Nat /\ x % q <= x
    BY <2>1, <2>2, <2>3, <1>1
  <2> QED
    BY <2>4 DEF q
<1> HIDE DEF l, t, u
<1>4. u * y = l * y + t * y
  BY <1>1, <1>2
<1>5. u * y \in Nat /\ u * y < All * All
  <2>1. 0 <= u * y /\ u * y <= x * y /\ x * y \in Int /\ u * y \in Int
    BY <1>1, <1>3, ProductBelow
  <2>2. x * y <= (All - 1) * y
    BY <1>1, ProductBelow
  <2>3. (All - 1) * y = y * (All - 1) /\ y * (All - 1) <= (All - 1) * (All - 1)
    BY <1>1, ProductBelow
  <2>4. (All - 1) * (All - 1) < All * All /\ All * All \in Int
    BY <1>1
  <2> DEFINE uy == u * y  xy == x * y  by == (All - 1) * y  yb == y * (All - 1)
             bb == (All - 1) * (All - 1)  aa == All * All
  <2>5. /\ 0 <= uy /\ uy <= xy /\ xy <= by /\ by = yb /\ yb <= bb /\ bb < aa /\ aa \in Int
        /\ uy \in Int /\ xy \in Int /\ by \in Int /\ yb \in Int /\ bb \in Int
    BY <2>1, <2>2, <2>3, <2>4, <1>1
  <2> HIDE DEF uy, xy, by, yb, bb, aa
  <2>6. uy \in Nat /\ uy < aa
    BY <2>5
  <2> QED
    BY <2>6 DEF uy, aa
<1>6. M ^ (2 * N) = All * All
  <2>1. M ^ (N + N) = M ^ N * M ^ N
    BY <1>1, PlacesAdd
  <2>2. N + N = 2 * N
    BY <1>1
  <2> QED
    BY <2>1, <2>2 DEF TypeNumbers
<1> QED
  BY <1>4, <1>5, <1>6 DEF l, t, u

\* A full product has no carry out of its top limb.
LEMMA TopCarriesNothing ==
  ASSUME TypeNumbers, Multiplying, stage = "row", i < N, j >= N, i + j = 2 * N,
         request.op = "mul_full"
  PROVE  carry = 0
<1>1. /\ x \in Patterns /\ y \in Patterns /\ i \in 0 .. N - 1 /\ N \in Nat
      /\ carry \in 0 .. M - 1 /\ res \in 0 .. M ^ Width - 1 /\ Taken(j) = y /\ M \in Nat
      /\ j \in Nat
  BY DEF Multiplying, TypeNumbers, Taken
<1>2. res + carry * M ^ (2 * N) + 0 * All = (x % M ^ i) * y + (Part(x, i) * M ^ i) * y
  BY <1>1 DEF Multiplying
<1> DEFINE p == M ^ (2 * N)
           t == (x % M ^ (i + 1)) * y
<1>3. t \in Nat /\ t < p /\ (x % M ^ i) * y + (Part(x, i) * M ^ i) * y = t
  BY <1>1, RowOfAll
<1>4. p \in Nat /\ p > 0 /\ 0 * All = 0 /\ M ^ Width \in Nat
  <2>1. Width \in 0 .. 2 * N /\ 2 * N \in 0 .. 2 * N
    BY Widths
  <2> QED
    BY <2>1, LimbPlaces DEF TypeNumbers
<1>5. res \in Nat
  BY <1>1, <1>4
<1>6. res + carry * p = t
  <2> HIDE DEF t
  <2>1. carry * p \in Int
    BY <1>1, <1>4
  <2> QED
    BY <2>1, <1>2, <1>3, <1>4, <1>5
<1> HIDE DEF p, t
<1>7. carry * p < 1 * p
  <2>1. carry * p \in Int
    BY <1>1, <1>4
  <2> QED
    BY <2>1, <1>3, <1>4, <1>5, <1>6
<1>8. carry < 1
  BY <1>1, <1>4, <1>7, CancelFactor
<1> QED
  BY <1>1, <1>8

\* The next row begins where this one has multiplied by all of the second factor.
LEMMA NextRowMultiplies ==
  ASSUME TypeNumbers, Multiplying, NextRow
  PROVE  Multiplying'
<1> DEFINE at == i + j
           u == Part(x, i)
<1>1. /\ stage = "row" /\ request.op \in {"mul", "mul_full"}
      /\ x \in Patterns /\ y \in Patterns /\ x \in Nat /\ y \in Nat
      /\ i \in 0 .. N - 1 /\ j \in Nat /\ at <= Width
      /\ carry \in 0 .. M - 1 /\ res \in 0 .. M ^ Width - 1 /\ RowEnded
      /\ N \in Nat /\ N >= 2 /\ M \in Nat /\ M >= 4 /\ All \in Nat
  BY DEF NextRow, Multiplying, TypeNumbers, Patterns
<1>2. PICK k \in Nat :
        /\ request.op = "mul_full" => k = 0
        /\ res + carry * M ^ at + k * All = (x % M ^ i) * y + (u * M ^ i) * Taken(j)
  BY <1>1 DEF Multiplying
<1>3. /\ x' = x /\ y' = y /\ i' = i + 1 /\ j' = 0 /\ M' = M /\ All' = All /\ N' = N
      /\ stage' = stage /\ request' = request /\ Width' = Width /\ Patterns' = Patterns
      /\ carry' = 0 /\ res' = res
  BY DEF NextRow, M, All, Bits, type, Patterns, Width
<1>4. /\ Width \in Nat /\ Width \in 0 .. 2 * N /\ Width >= N
      /\ request.op = "mul_full" => Width = 2 * N
      /\ request.op # "mul_full" => Width = N
  BY Widths
<1>5. res \in Nat
  <2>1. M ^ Width \in Nat
    BY <1>4, LimbPlaces
  <2> QED
    BY <1>1, <2>1
<1>6. /\ u \in Nat /\ M ^ i \in Nat /\ x % M ^ i \in Nat /\ M ^ at \in Nat
      /\ M ^ i > 0
  <2>1. i \in 0 .. 2 * N - 1 /\ i \in 0 .. 2 * N /\ at \in 0 .. 2 * N
    BY <1>1, <1>4
  <2>2. M ^ i \in Nat /\ M ^ i > 0 /\ M ^ at \in Nat
    BY <2>1, LimbPlaces
  <2>3. u \in 0 .. M - 1 /\ x % M ^ i \in 0 .. M ^ i - 1
    BY <2>1, <1>1, Parts
  <2> QED
    BY <2>2, <2>3, <1>1
<1> DEFINE t == (x % M ^ (i + 1)) * y
           xy == (x % M ^ i) * y
<1>7. xy + (u * M ^ i) * y = t /\ t \in Nat
  BY <1>1, RowOfAll
<1>8. \E l \in Nat : (request.op = "mul_full" => l = 0) /\ res + l * All = t
  <2>1. CASE j >= N /\ carry = 0
    <3>1. Taken(j) = y
      BY <2>1, <1>1 DEF Taken
    <3>2. 0 * M ^ at = 0 /\ k * All \in Int
      BY <1>1, <1>6
    <3>3. res + k * All = t
      <4> HIDE DEF t, xy, u, at
      <4> QED
        BY <1>2, <1>5, <1>7, <2>1, <3>1, <3>2 DEF xy
    <3> QED
      BY <3>3, <1>2
  <2>2. CASE ~(j >= N /\ carry = 0) /\ request.op = "mul_full"
    <3>1. at = 2 * N /\ j >= N
      BY <2>2, <1>1, <1>4 DEF RowEnded
    <3>2. carry = 0
      BY <3>1, <1>1, <2>2, TopCarriesNothing
    <3> QED
      BY <3>1, <3>2, <2>2
  <2>3. CASE request.op # "mul_full" /\ ~(j >= N /\ carry = 0)
    <3>1. at = N /\ j \in 0 .. N /\ Width = N
      BY <2>3, <1>1, <1>4 DEF RowEnded
    <3> DEFINE q == M ^ j
               h == y \div q
               l == y % q
    <3>2. Taken(j) = l
      <4>1. CASE j < N
        BY <4>1 DEF Taken
      <4>2. CASE j = N
        BY <4>2, <1>1, Ends DEF Taken
      <4> QED
        BY <4>1, <4>2, <3>1, <1>1
    <3>3. q \in Nat /\ q > 0 /\ M ^ i * q = All /\ M ^ at = All
      <4>1. j \in 0 .. 2 * N
        BY <3>1, <1>1
      <4>2. M ^ (i + j) = M ^ i * M ^ j
        BY <1>1, <1>4, PlacesAdd
      <4> QED
        BY <4>1, <4>2, <3>1, LimbPlaces DEF TypeNumbers
    <3> HIDE DEF q
    <3>4. y = h * q + l /\ h \in Nat /\ l \in Nat
      <4>1. y = (y \div q) * q + (y % q) /\ y \div q \in Nat /\ y % q \in 0 .. q - 1
        BY <3>3, <1>1, DivideNat
      <4> QED
        BY <4>1, <3>3
    <3> HIDE DEF h, l, u, at
    <3>5. (u * M ^ i) * y = (u * h) * All + (u * M ^ i) * l
      <4> DEFINE um == u * M ^ i
                 hq == h * q
      <4>1. um \in Int /\ hq \in Int
        BY <1>6, <3>3, <3>4
      <4>2. um * (hq + l) = um * hq + um * l
        <5> HIDE DEF um, hq
        <5> QED
          BY <4>1, <3>4
      <4>3. um * hq = (u * h) * (M ^ i * q)
        <5> DEFINE mi == M ^ i
        <5>1. mi \in Int
          BY <1>6
        <5> HIDE DEF mi
        <5>2. (u * mi) * (h * q) = (u * h) * (mi * q)
          BY <5>1, <1>6, <3>3, <3>4
        <5> QED
          BY <5>2 DEF mi
      <4> QED
        BY <4>2, <4>3, <3>3, <3>4
    <3> DEFINE e == u * h
    <3>6. e \in Nat
      BY <1>6, <3>4
    <3>7. res + (k + carry + e) * All = t
      <4> DEFINE ul == (u * M ^ i) * l
                 ka == k * All
                 ca == carry * All
                 ea == e * All
      <4>1. /\ res + ca + ka = xy + ul /\ xy + (ea + ul) = t
        BY <1>2, <1>7, <3>2, <3>3, <3>5
      <4>2. ul \in Int /\ ka \in Int /\ ca \in Int /\ ea \in Int /\ xy \in Int /\ t \in Int
        <5>1. \A b, c \in Int : b * c \in Int
          OBVIOUS
        <5>2. t \in Int
          BY <1>7
        <5> HIDE DEF t, e
        <5> QED
          BY <5>1, <5>2, <1>1, <1>6, <3>4, <3>6
      <4>3. (k + carry + e) * All = ka + ca + ea
        <5> HIDE DEF e
        <5> QED
          BY <1>1, <3>6
      <4> HIDE DEF ul, ka, ca, ea, xy, t, e
      <4> QED
        BY <4>1, <4>2, <4>3, <1>5
    <3>8. k + carry + e \in Nat
      <4> HIDE DEF e
      <4> QED
        BY <3>6, <1>1
    <3> QED
      BY <3>7, <3>8, <2>3
  <2> QED
    BY <2>1, <2>2, <2>3
<1>9. PICK l \in Nat : (request.op = "mul_full" => l = 0) /\ res + l * All = t
  BY <1>8
<1>10. \E l1 \in Nat :
         /\ request.op = "mul_full" => l1 = 0
         /\ res' + carry' * M' ^ (i' + j') + l1 * All'
              = (x' % M' ^ i') * y' + (Part(x, i)' * M' ^ i') * Taken(j)'
  <2>1. Taken(j)' = 0
    <3>1. y % M ^ 0 = 0
      BY <1>1, Ends
    <3> QED
      BY <3>1, <1>1, <1>3 DEF Taken
  <2>2. Part(x, i)' * M' ^ i' \in Int /\ M' ^ (i' + j') \in Int
    <3>1. i + 1 \in 0 .. 2 * N - 1 /\ i + 1 \in 0 .. 2 * N /\ i' + j' = i + 1
      BY <1>1, <1>3
    <3>2. Part(x, i + 1) \in Int /\ M ^ (i + 1) \in Int
      BY <3>1, <1>1, Parts, LimbPlaces
    <3>3. Part(x, i)' = Part(x, i + 1)
      BY <1>3 DEF Part
    <3> QED
      BY <3>1, <3>2, <3>3, <1>3
  <2>3. carry' * M' ^ (i' + j') = 0 /\ (Part(x, i)' * M' ^ i') * Taken(j)' = 0
    BY <2>1, <2>2, <1>3
  <2>4. t \in Int /\ l * All \in Int
    <3> HIDE DEF t
    <3> QED
      BY <1>1, <1>7, <1>9
  <2> HIDE DEF t
  <2>5. res' + 0 + l * All' = t + 0
    BY <2>4, <1>3, <1>5, <1>9
  <2>6. (x' % M' ^ i') * y' = t
    BY <1>3 DEF t
  <2> QED
    BY <1>3, <1>9, <2>3, <2>5, <2>6
<1>11. i' + j' <= Width' /\ j' \in Nat /\ i' \in 0 .. N' /\ j' = 0 /\ carry' \in 0 .. M' - 1
  BY <1>1, <1>3, <1>4
<1> QED
  BY <1>1, <1>3, <1>10, <1>11 DEF Multiplying

\* At the end, the product is there, or what the type keeps of it.
LEMMA ProductDone ==
  ASSUME TypeNumbers, Multiplying, stage = "row", i = N
  PROVE  res = IF request.op = "mul" THEN (x * y) % All ELSE x * y
<1>1. /\ x \in Patterns /\ y \in Patterns /\ x \in Int /\ y \in Int /\ j = 0 /\ carry = 0
      /\ res \in 0 .. M ^ Width - 1 /\ N \in Nat /\ N >= 2 /\ All \in Nat /\ All = M ^ N
      /\ request.op \in {"mul", "mul_full"}
  BY DEF Multiplying, TypeNumbers, Patterns
<1>2. PICK k \in Nat :
        /\ request.op = "mul_full" => k = 0
        /\ res + carry * M ^ (i + j) + k * All = (x % M ^ i) * y + (Part(x, i) * M ^ i) * Taken(j)
  BY DEF Multiplying
<1>3. Taken(j) = 0 /\ x % M ^ i = x
  BY <1>1, Ends DEF Taken
<1>4. Part(x, i) * M ^ i \in Int /\ M ^ (i + j) \in Int
  <2>1. N \in 0 .. 2 * N /\ N \in 0 .. 2 * N - 1 /\ i + j = N /\ x \in Nat
    BY <1>1 DEF Patterns, TypeNumbers
  <2> QED
    BY <2>1, Parts, LimbPlaces
<1>5. carry * M ^ (i + j) = 0 /\ (Part(x, i) * M ^ i) * Taken(j) = 0
  BY <1>1, <1>3, <1>4
<1>6. Width \in 0 .. 2 * N /\ M ^ Width \in Nat /\ (request.op # "mul_full" => Width = N)
  BY Widths, LimbPlaces
<1>7. res + k * All = x * y /\ res \in Nat /\ x * y \in Int /\ k * All \in Int
  <2>1. res \in Nat /\ x * y \in Int /\ k * All \in Int
    BY <1>1, <1>6
  <2> DEFINE xy == x * y
             ka == k * All
  <2>2. res + 0 + ka = xy + 0
    BY <1>2, <1>3, <1>5
  <2> HIDE DEF xy, ka
  <2>3. res + ka = xy
    BY <2>1, <2>2 DEF xy, ka
  <2> QED
    BY <2>1, <2>3 DEF xy, ka
<1>8. CASE request.op = "mul_full"
  <2>1. k * All = 0
    BY <1>1, <1>2, <1>8
  <2> QED
    BY <2>1, <1>7, <1>8
<1>9. CASE request.op = "mul"
  <2>1. res \in 0 .. All - 1
    BY <1>1, <1>6, <1>9
  <2> DEFINE xy == x * y
  <2>2. xy = k * All + res /\ xy \in Int /\ All > 0 /\ All \in Int /\ k \in Int /\ res \in Int
        /\ 0 <= res /\ res < All
    BY <1>1, <1>7, <2>1
  <2> HIDE DEF xy
  <2>3. xy % All = res
    BY <2>2, DivUnique
  <2> QED
    BY <2>3, <1>9 DEF xy
<1> QED
  BY <1>1, <1>8, <1>9

\* The carries of the product loops, from what the loop keeps.
LEMMA ProductCarries ==
  ASSUME TypeNumbers, Multiplying
  PROVE  CarryFits
<1>1. ASSUME stage = "row", i < N, j < N, i + j < Width
      PROVE  (Part(res, i + j) + mul64x64(Part(x, i), Part(y, j)).lo + carry) \div M
               + mul64x64(Part(x, i), Part(y, j)).hi < M
  <2>1. /\ x \in Nat /\ y \in Nat /\ i \in 0 .. N - 1 /\ j \in 0 .. N - 1 /\ carry \in 0 .. M - 1
        /\ res \in 0 .. M ^ Width - 1 /\ N \in Nat
    BY <1>1 DEF Multiplying, Patterns, TypeNumbers
  <2>2. i \in 0 .. 2 * N - 1 /\ j \in 0 .. 2 * N - 1 /\ i + j \in 0 .. 2 * N - 1
        /\ Width \in 0 .. 2 * N
    BY <1>1, <2>1, Widths
  <2>3. M ^ Width \in Nat
    BY <2>2, LimbPlaces
  <2>4. res \in Nat
    BY <2>1, <2>3
  <2>5. Part(x, i) \in 0 .. M - 1 /\ Part(y, j) \in 0 .. M - 1 /\ Part(res, i + j) \in 0 .. M - 1
    BY <2>1, <2>2, <2>4, Parts
  <2> QED
    BY <2>1, <2>5, ProductCarry
<1>2. ASSUME stage = "row", request.op = "mul_full", i + j = Width
      PROVE  carry = 0
  <2>1. i \in 0 .. N /\ j \in Nat /\ N \in Nat /\ N >= 2 /\ Width = 2 * N
        /\ (i = N => j = 0)
    BY <1>2 DEF Multiplying, TypeNumbers, Width
  <2>2. i < N /\ j >= N
    BY <2>1, <1>2
  <2> QED
    BY <2>1, <2>2, <1>2, TopCarriesNothing
<1> QED
  BY <1>1, <1>2 DEF CarryFits

-----------------------------------------------------------------------------
(* Comparison, from the top limb down *)

LEMMA FloorGrows ==
  ASSUME NEW a \in Nat, NEW b \in Nat, a <= b, NEW p \in Nat, p > 0
  PROVE  a \div p <= b \div p
<1>1. a = (a \div p) * p + (a % p) /\ a \div p \in Nat /\ a % p \in 0 .. p - 1
  BY DivideNat
<1> DEFINE q == a \div p
<1>2. q * p \in Int /\ q \in Int /\ a = q * p + (a % p) /\ a % p \in Nat
  BY <1>1
<1> HIDE DEF q
<1>3. q * p <= b
  BY <1>2
<1>4. q <= b \div p
  BY <1>2, <1>3, FloorAtLeast
<1> QED
  BY <1>4 DEF q

\* Two numbers have the same limbs above place k.
SameAbove(u, v, k) == u \div M ^ k = v \div M ^ k

LEMMA LimbsBothWays ==
  ASSUME TypeNumbers, NEW u \in Patterns, NEW v \in Patterns, NEW k \in 0 .. N
  PROVE  SameAbove(u, v, k) <=> \A l \in k .. N - 1 : Part(u, l) = Part(v, l)
<1>1. u \in Nat /\ v \in Nat /\ N \in Nat /\ M \in Nat /\ k \in Nat
  BY DEF Patterns, TypeNumbers
<1>2. ASSUME NEW l \in 0 .. N - 1
      PROVE  /\ SameAbove(u, v, l + 1) /\ Part(u, l) = Part(v, l) => SameAbove(u, v, l)
             /\ SameAbove(u, v, l) => SameAbove(u, v, l + 1) /\ Part(u, l) = Part(v, l)
  <2>1. l \in 0 .. 2 * N - 1
    BY <1>1
  <2>2. /\ u \div M ^ (l + 1) = (u \div M ^ l) \div M /\ v \div M ^ (l + 1) = (v \div M ^ l) \div M
        /\ u \div M ^ l = (u \div M ^ (l + 1)) * M + Part(u, l)
        /\ v \div M ^ l = (v \div M ^ (l + 1)) * M + Part(v, l)
    BY <2>1, <1>1, Parts
  <2>3. Part(u, l) = (u \div M ^ l) % M /\ Part(v, l) = (v \div M ^ l) % M
    BY DEF Part
  <2> QED
    BY <2>2, <2>3 DEF SameAbove
<1>3. ASSUME \A l \in k .. N - 1 : Part(u, l) = Part(v, l)
      PROVE  SameAbove(u, v, k)
  <2> DEFINE Bad == {d \in 0 .. N - k : ~SameAbove(u, v, N - d)}
  <2>1. SUFFICES ASSUME Bad # {} PROVE FALSE
    <3>1. N - k \in 0 .. N - k /\ N - (N - k) = k
      BY <1>1
    <3> QED
      BY <3>1
  <2>2. PICK d \in Bad : \A e \in Bad : d <= e
    <3>1. Bad \in SUBSET Nat
      OBVIOUS
    <3> QED
      BY <3>1, <2>1, LeastNat
  <2>3. d # 0
    <3>1. u \div M ^ N = 0 /\ v \div M ^ N = 0
      BY Ends
    <3> QED
      BY <2>2, <3>1, <1>1 DEF SameAbove
  <2>4. d - 1 \in 0 .. N - k /\ d - 1 \notin Bad /\ N - (d - 1) = (N - d) + 1
        /\ N - d \in 0 .. N - 1 /\ N - d \in k .. N - 1
    BY <2>2, <2>3, <1>1
  <2>5. SameAbove(u, v, (N - d) + 1)
    BY <2>4
  <2> QED
    BY <2>2, <2>4, <2>5, <1>2, <1>3
<1>4. ASSUME SameAbove(u, v, k)
      PROVE  \A l \in k .. N : SameAbove(u, v, l)
  <2> DEFINE Bad == {l \in k .. N : ~SameAbove(u, v, l)}
  <2>1. SUFFICES ASSUME Bad # {} PROVE FALSE
    OBVIOUS
  <2>2. PICK l \in Bad : \A e \in Bad : l <= e
    <3>1. Bad \in SUBSET Nat
      BY <1>1
    <3> QED
      BY <3>1, <2>1, LeastNat
  <2>3. l # k
    BY <2>2, <1>4
  <2>4. l - 1 \in k .. N /\ l - 1 \notin Bad /\ l = (l - 1) + 1 /\ l - 1 \in 0 .. N - 1
    BY <2>2, <2>3, <1>1
  <2> QED
    BY <2>2, <2>4, <1>2
<1>5. ASSUME SameAbove(u, v, k), NEW l \in k .. N - 1
      PROVE  Part(u, l) = Part(v, l)
  <2>1. l \in k .. N /\ l \in 0 .. N - 1
    BY <1>1
  <2> QED
    BY <2>1, <1>2, <1>4, <1>5
<1> QED
  BY <1>3, <1>5

LEMMA BelowIsLess ==
  ASSUME TypeNumbers, NEW u \in Patterns, NEW v \in Patterns
  PROVE  Below(u, v) <=> u < v
<1>1. u \in Nat /\ v \in Nat /\ N \in Nat /\ N >= 2 /\ M \in Nat /\ M >= 4
  BY DEF Patterns, TypeNumbers
<1>2. ASSUME NEW k \in 0 .. N - 1, SameAbove(u, v, k + 1)
      PROVE  /\ Part(u, k) < Part(v, k) <=> u \div M ^ k < v \div M ^ k
             /\ Part(u, k) \in Nat /\ Part(v, k) \in Nat
             /\ u \div M ^ k \in Nat /\ v \div M ^ k \in Nat
  <2>1. k \in 0 .. 2 * N - 1 /\ k + 1 \in 0 .. 2 * N - 1
    BY <1>1
  <2>2. /\ u \div M ^ k = (u \div M ^ (k + 1)) * M + Part(u, k) /\ Part(u, k) \in 0 .. M - 1
        /\ v \div M ^ k = (v \div M ^ (k + 1)) * M + Part(v, k) /\ Part(v, k) \in 0 .. M - 1
        /\ u \div M ^ (k + 1) \in Nat
    BY <2>1, <1>1, Parts
  <2> DEFINE h == u \div M ^ (k + 1)
  <2>3. v \div M ^ (k + 1) = h
    BY <1>2 DEF SameAbove
  <2> HIDE DEF h
  <2>4. /\ u \div M ^ k = h * M + Part(u, k) /\ v \div M ^ k = h * M + Part(v, k) /\ h \in Nat
        /\ h * M \in Nat
    BY <2>2, <2>3, <1>1 DEF h
  <2> QED
    BY <2>2, <2>4, <1>1
<1>3. ASSUME Below(u, v) PROVE u < v
  <2>1. PICK k \in 0 .. N - 1 :
          Part(u, k) < Part(v, k) /\ \A l \in k + 1 .. N - 1 : Part(u, l) = Part(v, l)
    BY <1>3 DEF Below
  <2>2. k + 1 \in 0 .. N /\ k \in 0 .. 2 * N
    BY <1>1
  <2>3. SameAbove(u, v, k + 1)
    BY <2>1, <2>2, LimbsBothWays
  <2> DEFINE p == M ^ k
  <2>4. u \div p < v \div p /\ u \div p \in Nat /\ v \div p \in Nat
    BY <1>2, <2>1, <2>3
  <2>5. p \in Nat /\ p > 0
    BY <2>2, LimbPlaces
  <2> HIDE DEF p
  <2>6. v <= u => v \div p <= u \div p
    BY <1>1, <2>5, FloorGrows
  <2> QED
    BY <1>1, <2>4, <2>6
<1>4. ASSUME u < v PROVE Below(u, v)
  <2> DEFINE Same == {k \in 0 .. N : SameAbove(u, v, k)}
  <2>1. N \in Same
    <3>1. u \div M ^ N = 0 /\ v \div M ^ N = 0
      BY Ends
    <3> QED
      BY <3>1, <1>1 DEF SameAbove
  <2>2. PICK n \in Same : \A e \in Same : n <= e
    <3>1. Same \in SUBSET Nat /\ Same # {}
      BY <2>1
    <3> QED
      BY <3>1, LeastNat
  <2>3. n # 0
    <3>1. u \div M ^ 0 = u /\ v \div M ^ 0 = v
      BY <1>1, Ends
    <3> QED
      BY <3>1, <2>2, <1>1, <1>4 DEF SameAbove
  <2> DEFINE k == n - 1
  <2>4. k \in 0 .. N - 1 /\ k + 1 = n /\ k \in 0 .. N /\ k \in 0 .. 2 * N /\ k \notin Same
    BY <1>1, <2>2, <2>3
  <2> HIDE DEF k
  <2>5. SameAbove(u, v, k + 1) /\ u \div M ^ k # v \div M ^ k
    BY <2>2, <2>4 DEF SameAbove
  <2> DEFINE p == M ^ k
  <2>6. p \in Nat /\ p > 0
    BY <2>4, LimbPlaces
  <2>7. u \div p <= v \div p
    <3> HIDE DEF p
    <3> QED
      BY <1>1, <1>4, <2>6, FloorGrows
  <2>8. Part(u, k) < Part(v, k)
    BY <1>2, <2>4, <2>5, <2>7
  <2>9. \A l \in k + 1 .. N - 1 : Part(u, l) = Part(v, l)
    <3>1. k + 1 \in 0 .. N
      BY <1>1, <2>4
    <3> QED
      BY <2>5, <3>1, LimbsBothWays
  <2> QED
    BY <2>4, <2>8, <2>9 DEF Below
<1> QED
  BY <1>3, <1>4

-----------------------------------------------------------------------------
(* Division, bit by bit *)

\* Where a bit loop is: the quotient's bits down to k, and the remainder.
Halfway(k, v, d, q, r) ==
  q \in Nat /\ q % 2 ^ k = 0 /\ r \in 0 .. d - 1 /\ v \div 2 ^ k = (q \div 2 ^ k) * d + r

LEMMA BitPlaces ==
  ASSUME TypeNumbers
  PROVE  /\ \A k \in 0 .. Bits : 2 ^ k \in Nat /\ 2 ^ k > 0
         /\ \A k \in 0 .. Bits - 1 : 2 ^ (k + 1) = 2 * 2 ^ k
         /\ 2 ^ 0 = 1 /\ Bits \in Nat /\ W \in Nat /\ W <= Bits
<1>1. Bits \in Nat /\ W \in Nat /\ PowerLaws(2, Bits) /\ W <= Bits
  BY DEF TypeNumbers
<1>2. \A k \in 0 .. Bits : 2 ^ k \in Nat /\ 2 ^ k > 0
  BY <1>1, PowersPositive
<1> QED
  BY <1>1, <1>2 DEF PowerLaws

\* One more bit of the quotient.
LEMMA NextBit ==
  ASSUME TypeNumbers, NEW k \in 0 .. Bits - 1, NEW v \in Nat, NEW d \in Nat, d > 0,
         NEW q, NEW r, Halfway(k + 1, v, d, q, r)
  PROVE  LET s == 2 * r + Bit(v, k)
         IN /\ Bit(v, k) \in {0, 1} /\ s \in Nat /\ s <= v /\ s < 2 * d
            /\ s < d => Halfway(k, v, d, q, s)
            /\ s >= d => Halfway(k, v, d, q + 2 ^ k, s - d)
<1> DEFINE p == 2 ^ k
           h == v \div p
           b == h % 2
           s == 2 * r + b
           z == q \div 2 ^ (k + 1)
<1>1. p \in Nat /\ p > 0 /\ 2 ^ (k + 1) = 2 * p
  <2>1. k \in 0 .. Bits
    BY BitPlaces
  <2> QED
    BY <2>1, BitPlaces
<1>2. /\ q \in Nat /\ q % (2 * p) = 0 /\ r \in 0 .. d - 1 /\ v \div (2 * p) = z * d + r
      /\ z = q \div (2 * p)
  BY <1>1 DEF Halfway
<1>3. Bit(v, k) = b
  BY DEF Bit
<1> HIDE DEF p, z
<1>4. h \in Nat /\ v = h * p + (v % p) /\ v % p \in Nat
  <2>1. v = (v \div p) * p + (v % p) /\ v \div p \in Nat /\ v % p \in 0 .. p - 1
    BY <1>1, DivideNat
  <2> QED
    BY <2>1, <1>1
<1>5. v \div (2 * p) = h \div 2
  BY <1>1, SplitByProduct
<1>6. h <= v
  <2>1. h <= h * p /\ h * p \in Nat
    <3> HIDE DEF h
    <3>1. CASE h = 0
      BY <3>1, <1>1
    <3>2. CASE h > 0
      BY <3>2, <1>1, <1>4, PositiveProduct
    <3> QED
      BY <3>1, <3>2, <1>4
  <2> HIDE DEF h
  <2> QED
    BY <2>1, <1>4
<1> HIDE DEF h
<1>7. h = 2 * (h \div 2) + b /\ b \in {0, 1} /\ h \div 2 \in Nat
  BY <1>4
<1> HIDE DEF b
<1>8. q = z * (2 * p) /\ z \in Nat
  <2>1. 2 * p \in Nat /\ 2 * p > 0
    BY <1>1
  <2> DEFINE p2 == 2 * p
  <2> HIDE DEF p2
  <2>2. p2 \in Nat /\ p2 > 0 /\ q % p2 = 0 /\ z = q \div p2
    BY <2>1, <1>2 DEF p2
  <2>3. q = (q \div p2) * p2 + (q % p2) /\ q \div p2 \in Nat
    BY <2>2, <1>2, DivideNat
  <2>4. z \in Nat /\ q = z * p2 + 0
    BY <2>2, <2>3
  <2>5. z * p2 \in Nat
    BY <2>2, <2>4
  <2>6. q = z * p2
    BY <2>4, <2>5
  <2> QED
    BY <2>4, <2>6 DEF p2
<1>9. q = (2 * z) * p + 0 /\ q + p = (2 * z + 1) * p + 0
  BY <1>1, <1>8
<1>10. /\ q \div p = 2 * z /\ q % p = 0 /\ (q + p) \div p = 2 * z + 1 /\ (q + p) % p = 0
  <2>1. 2 * z \in Int /\ 2 * z + 1 \in Int /\ q \in Int /\ q + p \in Int
    BY <1>1, <1>2, <1>8
  <2> QED
    BY <2>1, <1>1, <1>9, DivUnique
<1>11. h = (2 * z) * d + s /\ z * d \in Nat /\ s \in Nat
  <2>1. z * d \in Nat /\ (2 * z) * d = 2 * (z * d)
    BY <1>8
  <2> DEFINE zd == z * d
  <2> HIDE DEF zd
  <2>2. zd \in Nat /\ (2 * z) * d = 2 * zd /\ h \div 2 = zd + r
    BY <2>1, <1>2, <1>5 DEF zd
  <2>3. h = 2 * zd + s /\ s \in Nat
    BY <2>2, <1>7, <1>2
  <2> QED
    BY <2>2, <2>3 DEF zd
<1>12. s <= h /\ s < 2 * d
  <2>1. (2 * z) * d = 2 * (z * d)
    BY <1>8
  <2> DEFINE zd == z * d
  <2>2. zd \in Nat /\ h = 2 * zd + s
    BY <2>1, <1>11
  <2> HIDE DEF zd
  <2> QED
    BY <2>2, <1>11, <1>2, <1>7
<1>13. ASSUME s < d PROVE Halfway(k, v, d, q, s)
  <2>1. s \in 0 .. d - 1
    BY <1>11, <1>13
  <2> HIDE DEF s
  <2> QED
    BY <2>1, <1>2, <1>10, <1>11 DEF Halfway, p, h
<1>14. ASSUME s >= d PROVE Halfway(k, v, d, q + p, s - d)
  <2>1. s - d \in 0 .. d - 1 /\ q + p \in Nat
    BY <1>1, <1>2, <1>11, <1>12, <1>14
  <2>2. h = (2 * z + 1) * d + (s - d)
    <3>1. (2 * z + 1) * d = (2 * z) * d + d /\ (2 * z) * d \in Int
      BY <1>8
    <3> HIDE DEF s
    <3> DEFINE zd == (2 * z) * d
    <3>2. (2 * z + 1) * d = zd + d /\ zd \in Int /\ h = zd + s
      BY <3>1, <1>11
    <3> HIDE DEF zd
    <3> QED
      BY <3>2, <1>11
  <2> HIDE DEF s
  <2> QED
    BY <2>1, <2>2, <1>10 DEF Halfway, p, h
<1> QED
  BY <1>3, <1>4, <1>6, <1>7, <1>11, <1>12, <1>13, <1>14 DEF p, s

Dividing ==
  stage = "bits" =>
    /\ request.op \in {"div", "mod"}
    /\ x \in Patterns /\ y \in Patterns /\ y > 0 /\ i \in 0 .. Bits
    /\ Halfway(i, x, y, res, rem)

LEMMA DivideBitDivides ==
  ASSUME TypeNumbers, Dividing, DivideBit
  PROVE  Dividing'
<1> DEFINE k == i - 1
           b == Bit(x, k)
           s == 2 * rem + b
<1>1. /\ stage = "bits" /\ request.op \in {"div", "mod"} /\ Bits \in Nat
      /\ x \in Patterns /\ y \in Patterns /\ y > 0 /\ i \in 1 .. Bits /\ All \in Nat
      /\ x \in Nat /\ y \in Nat /\ x < All /\ Halfway(k + 1, x, y, res, rem)
      /\ k \in 0 .. Bits - 1 /\ k \in 0 .. Bits
  <2>1. i > 0 /\ Bits \in Nat /\ stage = "bits" /\ All \in Nat
    BY DEF DivideBit, TypeNumbers
  <2>2. /\ request.op \in {"div", "mod"} /\ x \in Patterns /\ y \in Patterns /\ y > 0
        /\ i \in 0 .. Bits /\ Halfway(i, x, y, res, rem)
    BY <2>1 DEF Dividing
  <2>3. (i - 1) + 1 = i
    BY <2>2
  <2> QED
    BY <2>1, <2>2, <2>3 DEF Patterns
<1>2. /\ b \in {0, 1} /\ s \in Nat /\ s <= x /\ s < 2 * y
      /\ s < y => Halfway(k, x, y, res, s)
      /\ s >= y => Halfway(k, x, y, res + 2 ^ k, s - y)
  <2> HIDE DEF k
  <2> QED
    BY <1>1, NextBit
<1>3. rem \in Nat
  BY <1>1 DEF Halfway
<1> HIDE DEF b
<1>4. (2 * rem) % All = 2 * rem
  <2> DEFINE a == 2 * rem
  <2>1. a \in Nat /\ a < All /\ All \in Nat
    BY <1>1, <1>2, <1>3
  <2> HIDE DEF a
  <2>2. a % All = a
    BY <2>1, RemainderOfSmall
  <2> QED
    BY <2>2 DEF a
<1>5. s \in Patterns
  BY <1>1, <1>2 DEF Patterns
<1>6. Below(s, y) <=> s < y
  <2> HIDE DEF s
  <2> QED
    BY <1>1, <1>5, BelowIsLess
<1>7. /\ IF Below(s, y) THEN rem' = s /\ res' = res ELSE rem' = s - y /\ res' = res + 2 ^ k
      /\ x' = x /\ y' = y /\ i' = k /\ stage' = stage /\ request' = request
      /\ Bits' = Bits /\ Patterns' = Patterns
  BY <1>4 DEF DivideBit, type, Bits, Patterns, All, b
<1> HIDE DEF s, k
<1>8. Halfway(k, x, y, res', rem')
  BY <1>1, <1>2, <1>6, <1>7
<1>9. Halfway(i, x, y, res, rem)' <=> Halfway(k, x, y, res', rem')
  BY <1>7 DEF Halfway
<1> QED
  BY <1>1, <1>7, <1>8, <1>9 DEF Dividing

\* Where the division begins, and where it ends.
LEMMA DivisionBegins ==
  ASSUME TypeNumbers, NEW v \in Patterns, NEW d \in Nat, d > 0
  PROVE  Halfway(Bits, v, d, 0, 0)
<1>1. All \in Nat /\ All > 0 /\ v \in Int /\ 0 <= v /\ v < All /\ 2 ^ Bits = All
  BY DEF TypeNumbers, Patterns, All
<1> DEFINE a == 2 ^ Bits
<1> HIDE DEF a
<1>2. a \in Int /\ a > 0 /\ v = 0 * a + v /\ 0 = 0 * a + 0 /\ v < a
  BY <1>1 DEF a
<1>3. v \div a = 0 /\ 0 \div a = 0 /\ 0 % a = 0
  BY <1>1, <1>2, DivUnique
<1> QED
  BY <1>3 DEF Halfway, a

LEMMA DivisionEnds ==
  ASSUME NEW v \in Nat, NEW d \in Nat, d > 0, NEW q, NEW r, Halfway(0, v, d, q, r), 2 ^ 0 = 1
  PROVE  q = v \div d /\ r = v % d
<1>1. q \in Nat /\ r \in 0 .. d - 1 /\ v = q * d + r
  <2>1. q \in Nat /\ r \in 0 .. d - 1 /\ v \div 1 = (q \div 1) * d + r
    BY DEF Halfway
  <2>2. v \div 1 = v /\ q \div 1 = q
    BY <2>1
  <2> QED
    BY <2>1, <2>2
<1> QED
  BY <1>1, DivUnique

-----------------------------------------------------------------------------
(* Signs and magnitudes *)

\* Half the patterns of a type, and half those of a limb.
LEMMA HalfPatterns ==
  ASSUME TypeNumbers
  PROVE  /\ 2 ^ (Bits - 1) \in Nat /\ 2 ^ (Bits - 1) > 0 /\ All = 2 * 2 ^ (Bits - 1)
         /\ 2 ^ (W - 1) \in Nat /\ 2 ^ (W - 1) > 0 /\ M = 2 * 2 ^ (W - 1)
         /\ M \div 2 = 2 ^ (W - 1) /\ 2 ^ (Bits - 1) = (M \div 2) * M ^ (N - 1)
<1>1. /\ W \in Nat /\ W >= 2 /\ Bits \in Nat /\ Bits >= W /\ N \in Nat /\ N >= 2
      /\ M \in Nat /\ M >= 4 /\ All = M ^ N
  BY DEF TypeNumbers
<1>2. /\ Bits - 1 \in 0 .. Bits - 1 /\ Bits - 1 \in 0 .. Bits /\ (Bits - 1) + 1 = Bits
      /\ W - 1 \in 0 .. Bits - 1 /\ W - 1 \in 0 .. Bits /\ (W - 1) + 1 = W
      /\ N - 1 \in 0 .. 2 * N - 1 /\ N - 1 \in 0 .. 2 * N /\ (N - 1) + 1 = N
  BY <1>1
<1>3. /\ 2 ^ (Bits - 1) \in Nat /\ 2 ^ (Bits - 1) > 0 /\ 2 ^ ((Bits - 1) + 1) = 2 * 2 ^ (Bits - 1)
      /\ 2 ^ (W - 1) \in Nat /\ 2 ^ (W - 1) > 0 /\ 2 ^ ((W - 1) + 1) = 2 * 2 ^ (W - 1)
  BY <1>2, BitPlaces
<1>4. All = 2 * 2 ^ (Bits - 1) /\ M = 2 * 2 ^ (W - 1)
  BY <1>2, <1>3 DEF All, M
<1>5. M ^ ((N - 1) + 1) = M * M ^ (N - 1) /\ M ^ (N - 1) \in Nat
  BY <1>2, LimbPlaces
<1> DEFINE a == 2 ^ (Bits - 1)
           w == 2 ^ (W - 1)
           p == M ^ (N - 1)
<1>6. M \div 2 = w
  <2> HIDE DEF w
  <2>1. w \in Nat /\ M = 2 * w
    BY <1>3, <1>4 DEF w
  <2> QED
    BY <2>1
<1>7. 2 * a = (2 * w) * p
  BY <1>1, <1>2, <1>4, <1>5
<1>8. a = w * p
  <2> HIDE DEF a, w, p
  <2>1. a \in Nat /\ w \in Nat /\ p \in Nat /\ 2 * a = (2 * w) * p
    BY <1>3, <1>5, <1>7 DEF a, w, p
  <2>2. (2 * w) * p = 2 * (w * p) /\ w * p \in Nat
    BY <2>1
  <2> QED
    BY <2>1, <2>2
<1> QED
  BY <1>3, <1>4, <1>6, <1>8

\* The top limb tells the sign.
LEMMA NegativeTop ==
  ASSUME TypeNumbers, NEW v \in Patterns
  PROVE  /\ Negative(v) <=> v >= 2 ^ (Bits - 1)
         /\ Part(v, N - 1) = v \div M ^ (N - 1)
<1> DEFINE p == M ^ (N - 1)
           t == v \div p
           w == M \div 2
<1>1. /\ v \in Nat /\ v < All /\ M \in Nat /\ M >= 4 /\ All = M ^ N /\ N \in Nat /\ N >= 2
      /\ All \in Nat
  BY DEF Patterns, TypeNumbers
<1>2. p \in Nat /\ p > 0 /\ All = M * p /\ 2 ^ (Bits - 1) = w * p /\ w \in Nat
  <2>1. N - 1 \in 0 .. 2 * N - 1 /\ N - 1 \in 0 .. 2 * N /\ (N - 1) + 1 = N
    BY <1>1
  <2>2. M ^ ((N - 1) + 1) = M * M ^ (N - 1) /\ p \in Nat /\ p > 0
    BY <2>1, LimbPlaces
  <2>3. 2 ^ (Bits - 1) = w * p /\ w = 2 ^ (W - 1) /\ 2 ^ (W - 1) \in Nat
    BY HalfPatterns
  <2> QED
    BY <2>1, <2>2, <2>3, <1>1
<1> HIDE DEF p, w
<1>3. t \in Nat /\ t < M
  <2>1. v < M * p
    BY <1>1, <1>2
  <2> QED
    BY <2>1, <1>1, <1>2, QuotientBelow
<1>4. Part(v, N - 1) = t
  <2>1. Part(v, N - 1) = t % M
    BY DEF Part, p
  <2> HIDE DEF t
  <2> QED
    BY <2>1, <1>1, <1>3, RemainderOfSmall
<1>5. t >= w => v >= w * p
  <2>1. v = t * p + (v % p) /\ v % p \in 0 .. p - 1
    BY <1>1, <1>2, DivideNat
  <2> HIDE DEF t
  <2>2. t * p \in Int /\ w * p \in Int /\ v % p \in Nat /\ v = t * p + (v % p)
    BY <2>1, <1>2, <1>3
  <2>3. t >= w => w * p <= t * p
    BY <1>2, <1>3, ProductBelow
  <2> DEFINE tp == t * p  wp == w * p
  <2>4. tp \in Int /\ wp \in Int /\ v % p \in Nat /\ v = tp + (v % p) /\ (t >= w => wp <= tp)
    BY <2>2, <2>3
  <2> HIDE DEF tp, wp
  <2>5. t >= w => v >= wp
    BY <2>4, <1>1
  <2> QED
    BY <2>5 DEF wp
<1>6. v >= w * p => t >= w
  <2>1. w * p <= v => w <= t
    BY <1>1, <1>2, FloorAtLeast
  <2>2. w * p \in Int
    BY <1>2
  <2> HIDE DEF t
  <2> DEFINE wp == w * p
  <2>3. wp \in Int /\ (wp <= v => w <= t)
    BY <2>1, <2>2
  <2> HIDE DEF wp
  <2>4. v >= wp => t >= w
    BY <2>3, <1>1, <1>2, <1>3
  <2> QED
    BY <2>4 DEF wp
<1>7. Negative(v) <=> t >= w
  BY <1>4 DEF Negative, w
<1> QED
  BY <1>2, <1>4, <1>5, <1>6, <1>7 DEF p

\* Two's complement.
LEMMA TwosComplement ==
  ASSUME NEW n, NEW h \in Nat, h > 0, 2 ^ (n - 1) = h, 2 ^ n = 2 * h, NEW v \in 0 .. 2 ^ n - 1
  PROVE  /\ A!Signed(v, n) = IF v >= h THEN v - 2 ^ n ELSE v
         /\ A!Signed(v, n) \in Int /\ (A!Signed(v, n) < 0 <=> v >= h)
         /\ A!Magnitude(v, n) = IF v >= h THEN 2 ^ n - v ELSE v
         /\ A!Magnitude(v, n) \in 0 .. 2 ^ n - 1 /\ A!Magnitude(v, n) <= h
         /\ A!Magnitude(v, n) = IF A!Signed(v, n) < 0 THEN -A!Signed(v, n) ELSE A!Signed(v, n)
<1> DEFINE all == 2 ^ n
           s == A!Signed(v, n)
<1>1. all = 2 * h /\ all \in Nat /\ v \in Nat /\ v < all
  OBVIOUS
<1>2. s = IF v < h THEN v ELSE v - all
  BY DEF A!Signed
<1>3. A!Magnitude(v, n) = IF s < 0 THEN -s ELSE s
  BY DEF A!Magnitude
<1> HIDE DEF s, all
<1>4. /\ s = (IF v >= h THEN v - all ELSE v) /\ s \in Int /\ (s < 0 <=> v >= h)
  BY <1>1, <1>2
<1>5. A!Magnitude(v, n) = IF v >= h THEN all - v ELSE v
  BY <1>1, <1>3, <1>4
<1>6. A!Magnitude(v, n) \in 0 .. all - 1 /\ A!Magnitude(v, n) <= h
  BY <1>1, <1>5
<1> QED
  BY <1>3, <1>4, <1>5, <1>6 DEF s, all

\* A wide integer's sign and magnitude, and a word's.
LEMMA WideSign ==
  ASSUME TypeNumbers, NEW v \in Patterns
  PROVE  LET a == A!Magnitude(v, Bits)
         IN /\ a \in Patterns /\ a <= 2 ^ (Bits - 1)
            /\ a = IF Negative(v) THEN All - v ELSE v
            /\ A!Signed(v, Bits) \in Int /\ (A!Signed(v, Bits) < 0 <=> Negative(v))
            /\ A!Signed(v, Bits) = IF Negative(v) THEN -a ELSE a
            /\ A!Signed(v, Bits) = IF Negative(v) THEN v - All ELSE v
<1> DEFINE h == 2 ^ (Bits - 1)
           s == A!Signed(v, Bits)
           a == A!Magnitude(v, Bits)
<1>1. h \in Nat /\ h > 0 /\ 2 ^ Bits = 2 * h /\ All = 2 ^ Bits /\ v \in 0 .. 2 ^ Bits - 1
  BY HalfPatterns DEF All, Patterns
<1>2. Negative(v) <=> v >= h
  BY NegativeTop
<1>3. /\ s = (IF v >= h THEN v - 2 ^ Bits ELSE v) /\ s \in Int /\ (s < 0 <=> v >= h)
      /\ a = (IF v >= h THEN 2 ^ Bits - v ELSE v)
      /\ a \in 0 .. 2 ^ Bits - 1 /\ a <= h
      /\ a = IF s < 0 THEN -s ELSE s
  BY <1>1, TwosComplement
<1> HIDE DEF s, a, h
<1>4. v \in Int /\ All \in Int /\ a \in Int
  BY <1>1, <1>3
<1>5. s = IF Negative(v) THEN -a ELSE a
  BY <1>1, <1>2, <1>3, <1>4
<1> QED
  BY <1>1, <1>2, <1>3, <1>4, <1>5 DEF Patterns, a, s, h

LEMMA WordSign ==
  ASSUME TypeNumbers, NEW v \in 0 .. M - 1
  PROVE  LET a == A!Magnitude(v, W)
         IN /\ a \in 0 .. M - 1 /\ a <= M \div 2
            /\ a = IF NegativeWord(v) THEN M - v ELSE v
            /\ A!Signed(v, W) \in Int /\ (A!Signed(v, W) < 0 <=> NegativeWord(v))
            /\ A!Signed(v, W) = IF NegativeWord(v) THEN -a ELSE a
<1> DEFINE h == 2 ^ (W - 1)
           s == A!Signed(v, W)
           a == A!Magnitude(v, W)
<1>1. /\ h \in Nat /\ h > 0 /\ 2 ^ W = 2 * h /\ M = 2 ^ W /\ v \in 0 .. 2 ^ W - 1
      /\ M \div 2 = h
  BY HalfPatterns DEF M
<1>2. NegativeWord(v) <=> v >= h
  BY <1>1 DEF NegativeWord
<1>3. /\ s = (IF v >= h THEN v - 2 ^ W ELSE v) /\ s \in Int /\ (s < 0 <=> v >= h)
      /\ a = (IF v >= h THEN 2 ^ W - v ELSE v)
      /\ a \in 0 .. 2 ^ W - 1 /\ a <= h
  BY <1>1, TwosComplement
<1> HIDE DEF s, a, h
<1>4. v \in Int /\ M \in Int /\ a \in Int
  BY <1>1, <1>3
<1>5. s = IF NegativeWord(v) THEN -a ELSE a
  BY <1>1, <1>2, <1>3, <1>4
<1> QED
  BY <1>1, <1>2, <1>3, <1>4, <1>5 DEF a, s, h

\* Division that truncates divides magnitudes, and puts the sign back.
LEMMA TruncateMagnitudes ==
  ASSUME NEW a \in Nat, NEW b \in Nat, b > 0, NEW n \in Int, NEW d \in Int,
         n \in {a, -a}, d \in {b, -b}
  PROVE  A!H!Truncate(n, d) = IF (n < 0) # (d < 0) THEN -(a \div b) ELSE a \div b
<1>1. a \div b \in Nat /\ a = (a \div b) * b + (a % b) /\ a % b \in 0 .. b - 1
  BY DivideNat
<1>2. a > 0 => (-a) \div b < 0 /\ (-a) \div b \in Int
  <2> DEFINE q == (-a) \div b
  <2>1. -a = q * b + ((-a) % b) /\ q \in Int /\ 0 <= (-a) % b /\ (-a) % b < b /\ (-a) % b \in Int
    BY DivMod
  <2> HIDE DEF q
  <2>2. q >= 0 => q * b >= 0
    BY <2>1
  <2>3. q * b \in Int
    BY <2>1
  <2> QED
    BY <2>1, <2>2, <2>3 DEF q
<1>3. 0 \div b = 0
  <2>1. 0 = 0 * b + 0
    OBVIOUS
  <2> QED
    BY <2>1, DivUnique
<1>4. -(-a) = a /\ -(-b) = b
  OBVIOUS
<1>5. CASE d = b
  <2>1. A!H!Floor(n, d) = n \div b /\ A!H!Floor(-n, d) = (-n) \div b
    BY <1>5 DEF A!H!Floor
  <2>2. CASE n = a
    <3>1. A!H!Truncate(n, d) = a \div b
      BY <2>1, <2>2, <1>1 DEF A!H!Truncate
    <3> QED
      BY <3>1, <2>2, <1>5
  <2>3. CASE n = -a /\ a > 0
    <3>1. A!H!Truncate(n, d) = -(a \div b)
      BY <2>1, <2>3, <1>2, <1>4 DEF A!H!Truncate, A!H!Ceiling
    <3> QED
      BY <3>1, <2>3, <1>5
  <2>4. a = 0 => n = a
    OBVIOUS
  <2> QED
    BY <2>2, <2>3, <2>4
<1>6. CASE d = -b
  <2>1. A!H!Floor(n, d) = (-n) \div b /\ A!H!Floor(-n, d) = (-(-n)) \div b
    <3>1. ~(d > 0) /\ -d = b
      BY <1>6, <1>4
    <3> QED
      BY <3>1 DEF A!H!Floor
  <2>2. CASE n = -a /\ a > 0
    <3>1. A!H!Truncate(n, d) = a \div b
      BY <2>1, <2>2, <1>1, <1>4 DEF A!H!Truncate
    <3> QED
      BY <3>1, <2>2, <1>6
  <2>3. CASE n = a /\ a > 0
    <3>1. A!H!Truncate(n, d) = -(a \div b)
      BY <2>1, <2>3, <1>2, <1>4 DEF A!H!Truncate, A!H!Ceiling
    <3> QED
      BY <3>1, <2>3, <1>6
  <2>4. CASE a = 0
    <3>1. n = 0 /\ -n = 0 /\ a \div b = 0
      BY <2>4, <1>3
    <3>2. A!H!Truncate(n, d) = 0
      BY <2>1, <3>1, <1>3 DEF A!H!Truncate
    <3> QED
      BY <3>1, <3>2
  <2> QED
    BY <2>2, <2>3, <2>4
<1> QED
  BY <1>5, <1>6

-----------------------------------------------------------------------------
(* Division of two limbs by one *)

Dividend == A!Magnitude(request.a, Bits)

ByWords ==
  stage = "words" =>
    /\ N = 2 /\ request.a \in Patterns
    /\ x = Dividend % M /\ y \in 1 .. M - 1 /\ i \in 0 .. W
    /\ Halfway(i, Dividend, y, res, rem)

\* The low limb has the number's low bits.
LEMMA LowBits ==
  ASSUME TypeNumbers, NEW v \in Nat, NEW k \in 0 .. W - 1
  PROVE  Bit(v % M, k) = Bit(v, k)
<1> DEFINE p == 2 ^ k
           e == 2 ^ (W - k - 1)
           h == v \div p
<1>1. /\ W \in Nat /\ W <= Bits /\ Bits \in Nat /\ PowerLaws(2, Bits)
      /\ k \in 0 .. Bits /\ W \in 0 .. Bits /\ k <= W /\ W - k - 1 \in 0 .. Bits - 1
      /\ W - k - 1 \in 0 .. Bits /\ (W - k - 1) + 1 = W - k
  BY DEF TypeNumbers
<1>2. p \in Nat /\ p > 0 /\ e \in Nat /\ e > 0 /\ 2 ^ ((W - k - 1) + 1) = 2 * e
  BY <1>1, BitPlaces
<1>3. 2 ^ W = 2 ^ k * 2 ^ (W - k)
  BY <1>1, PowersOrder
<1>4. M = (e * 2) * p
  <2>1. M = p * (2 * e)
    BY <1>1, <1>2, <1>3 DEF M
  <2> HIDE DEF p, e
  <2>2. p * (2 * e) = (e * 2) * p
    BY <1>2
  <2> QED
    BY <2>1, <2>2
<1> HIDE DEF p, e
<1>5. v % p \in 0 .. p - 1 /\ h \in Nat
  BY <1>2, DivideNat
<1>6. v % ((e * 2) * p) = (v % p) + (h % (e * 2)) * p
  <2>1. e * 2 \in Nat /\ e * 2 > 0
    BY <1>2
  <2> DEFINE f == e * 2
  <2> HIDE DEF f
  <2>2. v % (f * p) = (v % p) + ((v \div p) % f) * p
    BY <2>1, <1>2, SplitByProduct DEF f
  <2> QED
    BY <2>2 DEF f
<1> HIDE DEF h
<1> DEFINE g == h % (e * 2)
<1>7. g = (h % 2) + ((h \div 2) % e) * 2
  <2> DEFINE c == 2
  <2>1. c \in Nat /\ c > 0
    OBVIOUS
  <2> HIDE DEF c
  <2>2. h % (e * c) = (h % c) + ((h \div c) % e) * c
    BY <2>1, <1>2, <1>5, SplitByProduct
  <2> QED
    BY <2>2 DEF c
<1>8. g \in Nat
  <2>1. e * 2 \in Nat /\ e * 2 > 0
    BY <1>2
  <2> DEFINE f == e * 2
  <2> HIDE DEF f
  <2>2. h % f \in 0 .. f - 1 /\ f \in Nat
    BY <2>1, <1>5, DivideNat DEF f
  <2>3. h % f \in Nat
    BY <2>2
  <2> QED
    BY <2>3 DEF f
<1> HIDE DEF g
<1>9. (v % M) \div p = g
  <2>1. v % M = g * p + (v % p)
    <3>1. g * p \in Int /\ v % p \in Int /\ v % M = (v % p) + g * p
      BY <1>2, <1>4, <1>5, <1>6, <1>8 DEF g
    <3> QED
      BY <3>1
  <2>2. v % M \in Int /\ g \in Int /\ v % p \in Int /\ 0 <= v % p /\ v % p < p /\ p \in Int /\ p > 0
    <3>1. g * p \in Int /\ v % p \in Int
      BY <1>2, <1>5, <1>8
    <3> QED
      BY <3>1, <2>1, <1>2, <1>5, <1>8
  <2> QED
    BY <2>1, <2>2, DivUnique
<1>10. g % 2 = h % 2
  <2> DEFINE q == (h \div 2) % e
  <2>1. h \div 2 \in Nat /\ h % 2 \in 0 .. 1
    BY <1>5
  <2>2. q \in 0 .. e - 1
    <3> DEFINE h2 == h \div 2
    <3> HIDE DEF h2
    <3>1. h2 \in Nat
      BY <2>1 DEF h2
    <3>2. h2 % e \in 0 .. e - 1
      BY <3>1, <1>2, DivideNat
    <3> QED
      BY <3>2 DEF h2
  <2>3. q \in Int
    BY <2>2, <1>2
  <2> HIDE DEF q
  <2>4. g = (h % 2) + q * 2
    BY <1>7 DEF q
  <2> QED
    BY <2>1, <2>3, <2>4
<1> QED
  BY <1>9, <1>10 DEF Bit, p, h

\* With the top bit of the remainder set the shift loses a bit, and the
\* subtraction takes it back.
LEMMA WordBitDivides ==
  ASSUME TypeNumbers, ByWords, WordBit
  PROVE  ByWords'
<1> DEFINE k == i - 1
           v == Dividend
           b == Bit(x, k)
           s == 2 * rem + b
           t == ((2 * rem) % M) + b
           w == M \div 2
<1>1. /\ stage = "words" /\ N = 2 /\ request.a \in Patterns /\ x = v % M /\ y \in 1 .. M - 1
      /\ i \in 1 .. W /\ k \in 0 .. W - 1 /\ k \in 0 .. Bits - 1 /\ k \in 0 .. W
      /\ Halfway(k + 1, v, y, res, rem) /\ W \in Nat /\ M \in Nat /\ M >= 4
  <2>1. stage = "words" /\ i > 0 /\ W \in Nat /\ Bits \in Nat /\ W <= Bits /\ M \in Nat /\ M >= 4
    BY DEF WordBit, TypeNumbers
  <2>2. /\ N = 2 /\ request.a \in Patterns /\ x = v % M /\ y \in 1 .. M - 1 /\ i \in 0 .. W
        /\ Halfway(i, v, y, res, rem)
    BY <2>1 DEF ByWords
  <2>3. k + 1 = i
    BY <2>2
  <2> HIDE DEF v
  <2> QED
    BY <2>1, <2>2, <2>3
<1>2. v \in Nat
  <2>1. v \in Patterns
    BY <1>1, WideSign DEF Dividend
  <2> HIDE DEF v
  <2> QED
    BY <2>1 DEF Patterns, TypeNumbers
<1>3. b = Bit(v, k)
  <2> HIDE DEF v, k
  <2> QED
    BY <1>1, <1>2, LowBits
<1>4. /\ b \in {0, 1} /\ s \in Nat /\ s < 2 * y
      /\ s < y => Halfway(k, v, y, res, s)
      /\ s >= y => Halfway(k, v, y, res + 2 ^ k, s - y)
  <2>1. y \in Nat /\ y > 0
    BY <1>1
  <2> HIDE DEF v, k, b
  <2> QED
    BY <2>1, <1>1, <1>2, <1>3, NextBit
<1>5. rem \in Nat /\ rem < y /\ y < M /\ y > 0 /\ y \in Nat
  <2>1. rem \in 0 .. y - 1
    BY <1>1 DEF Halfway
  <2> QED
    BY <2>1, <1>1
<1>6. M = 2 * w /\ w \in Nat /\ w = 2 ^ (W - 1) /\ w > 0
  BY HalfPatterns
<1> HIDE DEF b, w
<1>7. Bit(rem, W - 1) = 1 <=> rem >= w
  <2> DEFINE q == rem \div w
  <2>1. rem = q * w + (rem % w) /\ q \in Nat /\ rem % w \in 0 .. w - 1
    BY <1>5, <1>6, DivideNat
  <2>2. rem < 2 * w
    BY <1>5, <1>6, <1>1
  <2>3. q < 2
    BY <2>2, <1>5, <1>6, QuotientBelow
  <2>4. Bit(rem, W - 1) = q % 2
    BY <1>6 DEF Bit
  <2> HIDE DEF q
  <2>5. q = 0 \/ q = 1
    BY <2>1, <2>3
  <2>6. q = 0 => rem < w
    BY <2>1, <1>6
  <2>7. q = 1 => rem >= w
    BY <2>1, <1>6
  <2>8. 0 % 2 = 0 /\ 1 % 2 = 1
    OBVIOUS
  <2>9. CASE q = 0
    BY <2>4, <2>6, <2>8, <2>9, <1>5, <1>6
  <2>10. CASE q = 1
    BY <2>4, <2>7, <2>8, <2>10, <1>5, <1>6
  <2> QED
    BY <2>5, <2>9, <2>10
<1>8. t = s - (IF rem >= w THEN M ELSE 0)
  <2>1. CASE rem >= w
    <3> DEFINE a == 2 * rem
    <3>1. a \in Int /\ a = 1 * M + (a - M) /\ 0 <= a - M /\ a - M < M /\ a - M \in Int
      BY <2>1, <1>1, <1>5, <1>6
    <3> HIDE DEF a
    <3>2. a % M = a - M
      BY <3>1, <1>1, DivUnique
    <3> QED
      BY <2>1, <3>1, <3>2, <1>1, <1>4 DEF a
  <2>2. CASE rem < w
    <3> DEFINE a == 2 * rem
    <3>1. a \in Nat /\ a < M
      BY <2>2, <1>5, <1>6
    <3> HIDE DEF a
    <3>2. a % M = a
      BY <3>1, <1>1, RemainderOfSmall
    <3> QED
      BY <2>2, <3>1, <3>2, <1>4, <1>5, <1>6 DEF a
  <2> QED
    BY <2>1, <2>2, <1>5, <1>6
<1>9. s >= y => (t - y) % M = s - y
  <2> DEFINE a == t - y
             c == IF rem >= w THEN -1 ELSE 0
  <2>1. s >= y => a = c * M + (s - y) /\ a \in Int /\ c \in Int /\ 0 <= s - y /\ s - y < M
                  /\ s - y \in Int
    <3> HIDE DEF t, s
    <3> QED
      BY <1>1, <1>4, <1>5, <1>8
  <2> HIDE DEF a, c
  <2>2. s >= y => a % M = s - y
    <3> HIDE DEF s
    <3> DEFINE r == s - y
    <3> HIDE DEF r
    <3>1. ASSUME s >= y PROVE a % M = r
      <4>1. a = c * M + r /\ a \in Int /\ c \in Int /\ 0 <= r /\ r < M /\ r \in Int /\ M \in Int /\ M > 0
        BY <3>1, <2>1, <1>1 DEF r
      <4> QED
        BY <4>1, DivUnique
    <3> QED
      BY <3>1 DEF r
  <2> QED
    BY <2>2 DEF a
<1>10. /\ IF rem >= w \/ t >= y THEN rem' = (t - y) % M /\ res' = res + 2 ^ k
                              ELSE rem' = t /\ res' = res
  BY <1>7 DEF WordBit, b
<1>11. /\ x' = x /\ y' = y /\ i' = k /\ stage' = stage /\ request' = request /\ N' = N
       /\ Bits' = Bits /\ Patterns' = Patterns /\ W' = W /\ M' = M /\ Dividend' = v
  BY DEF WordBit, type, Bits, Patterns, All, M, Dividend, A!Magnitude, A!Signed
<1>12. rem >= w => s >= y
  BY <1>1, <1>4, <1>5, <1>6
<1>13. IF s >= y THEN rem' = s - y /\ res' = res + 2 ^ k ELSE rem' = s /\ res' = res
  <2> HIDE DEF s, t, k
  <2>1. CASE rem >= w
    BY <2>1, <1>9, <1>10, <1>12
  <2>2. CASE rem < w
    <3>1. t = s /\ ~(rem >= w)
      BY <2>2, <1>4, <1>5, <1>6, <1>8
    <3> QED
      BY <3>1, <1>9, <1>10
  <2> QED
    BY <2>1, <2>2, <1>5, <1>6
<1> HIDE DEF s, k, v
<1>14. Halfway(k, v, y, res', rem')
  <2>1. s < y \/ s >= y
    BY <1>4, <1>5
  <2> QED
    BY <2>1, <1>4, <1>5, <1>13
<1>15. Halfway(i, Dividend, y, res, rem)' <=> Halfway(k, v, y, res', rem')
  BY <1>11 DEF Halfway
<1> QED
  BY <1>1, <1>11, <1>14, <1>15 DEF ByWords, v

-----------------------------------------------------------------------------
(* The calls, and the invariant *)

\* The quotient of two limbs by one fits a word.
WordQuotient(a, b) ==
  A!H!Truncate(A!Signed(a, Bits), A!Signed(b, W)) \in -(M \div 2) .. M \div 2 - 1

\* What an operation is called with.
Operands ==
  LET op == request.op  a == request.a  b == request.b  c == request.c
  IN \/ op \in Unary \union Binary /\ a \in Patterns /\ b \in Patterns
     \/ op \in Shifts /\ a \in Patterns /\ b \in 0 .. Bits + 1
     \/ op = "extend" /\ b \in {1, N \div 2} /\ a \in 0 .. M ^ b - 1
     \/ op = "imul" /\ a \in 0 .. M - 1 /\ b \in 0 .. M - 1
     \/ op \in ByWord /\ N = 2 /\ a \in Patterns /\ b \in 1 .. M - 1
     \/ op = "div_signed64" /\ N = 2 /\ a \in Patterns /\ b \in 1 .. M - 1 /\ WordQuotient(a, b)
     \/ op \in Checked /\ a \in Patterns /\ b \in 0 .. HalfAll - 1
     \/ op = "divide_to_half" /\ a \in Patterns /\ b \in 0 .. HalfAll - 1 /\ request.rounding \in R!Modes
     \/ op = "mul_div" /\ a \in 0 .. HalfAll - 1 /\ b \in 0 .. HalfAll - 1 /\ c \in 0 .. HalfAll - 1
          /\ request.rounding \in R!Modes

Asking == IF stage = "idle" THEN request = A!NoRequest ELSE Operands

\* Between two calls, and before the operation begins, no loop has a state.
Resting ==
  stage \in {"idle", "dispatch"} =>
    x = 0 /\ y = 0 /\ i = 0 /\ j = 0 /\ carry = 0 /\ res = 0 /\ rem = 0

Loops == Summing /\ Differing /\ Multiplying /\ Dividing /\ ByWords

IInv == Chosen /\ Asking /\ Resting /\ Loops

LEMMA OutsideLoops ==
  ASSUME stage \in {"idle", "dispatch", "answered"}
  PROVE  Loops
BY DEF Loops, Summing, Differing, Multiplying, Dividing, ByWords

\* The operands stay while the operation works.
LEMMA OperandsStay ==
  ASSUME Operands, type' = type, request' = request
  PROVE  Operands'
<1>1. W' = W /\ N' = N /\ Bits' = Bits /\ M' = M /\ All' = All /\ Patterns' = Patterns
      /\ HalfAll' = HalfAll
  BY DEF type, Bits, M, All, Patterns, HalfAll, HalfBits
<1>2. WordQuotient(request.a, request.b)' <=> WordQuotient(request.a, request.b)
  BY <1>1 DEF WordQuotient, A!H!Truncate, A!H!Floor, A!H!Ceiling, A!Signed
<1> QED
  BY <1>1, <1>2 DEF Operands, R!Modes

\* The magnitude of a divisor of one limb.
LEMMA DivisorRight ==
  ASSUME TypeNumbers, request.b \in 1 .. M - 1
  PROVE  /\ DivisorMagnitude \in 1 .. M - 1
         /\ request.op # "div_unsigned_word" =>
              /\ DivisorMagnitude = A!Magnitude(request.b, W)
              /\ SignedDivisor <=> NegativeWord(request.b)
         /\ request.op = "div_unsigned_word" =>
              DivisorMagnitude = request.b /\ ~SignedDivisor
<1> DEFINE b == request.b
<1>1. M \in Nat /\ M >= 4 /\ b \in 1 .. M - 1 /\ b \in 0 .. M - 1 /\ 0 \in Nat
  BY DEF TypeNumbers
<1>2. A!Magnitude(b, W) = IF NegativeWord(b) THEN M - b ELSE b
  <2> HIDE DEF b
  <2> QED
    BY <1>1, WordSign
<1>3. SignedDivisor <=> request.op # "div_unsigned_word" /\ NegativeWord(b)
  BY DEF SignedDivisor
<1>4. DivisorMagnitude = IF SignedDivisor THEN M - b ELSE b
  <2> DEFINE a == M - b
  <2>1. a \in Nat /\ a < M
    BY <1>1
  <2> HIDE DEF a
  <2>2. a % M = a
    BY <2>1, <1>1, RemainderOfSmall
  <2>3. (M - b) % M = M - b
    BY <2>2 DEF a
  <2> QED
    BY <2>3 DEF DivisorMagnitude
<1>5. M - b \in 1 .. M - 1
  BY <1>1
<1> QED
  BY <1>1, <1>2, <1>3, <1>4, <1>5

\* An empty sum, a row of nothing, a quotient without bits.
LEMMA NothingYet ==
  ASSUME TypeNumbers
  PROVE  /\ M ^ 0 = 1 /\ 0 \in 0 .. M ^ 0 - 1 /\ \A v \in Int : v % M ^ 0 = 0
         /\ 0 \in Patterns /\ 1 \in Patterns /\ N \in Nat /\ Bits \in Nat /\ W \in Nat /\ 0 \in 0 .. N
         /\ Patterns \subseteq Int
         /\ \A v \in Patterns : All - 1 - v \in Patterns
<1>1. M ^ 0 = 1 /\ \A v \in Int : v % M ^ 0 = 0
  BY LimbPlaces, Ends
<1>2. All \in Nat /\ N \in Nat /\ Bits \in Nat /\ W \in Nat /\ All > 1
  BY HalfPatterns DEF TypeNumbers
<1> QED
  BY <1>1, <1>2 DEF Patterns

LEMMA SumEnters ==
  ASSUME TypeNumbers, Resting, stage = "dispatch", NEW u \in Patterns, NEW v \in Patterns,
         Enter("sum", u, v, 0) \/ Enter("difference", u, v, 0)
  PROVE  Loops'
<1>1. /\ x' = u /\ y' = v /\ i' = 0 /\ carry' = 0 /\ res' = 0 /\ stage' \in {"sum", "difference"}
      /\ N' = N /\ M' = M /\ Patterns' = Patterns
  BY DEF Enter, Resting, type, M, Patterns, All, Bits
<1>2. /\ M ^ 0 = 1 /\ 0 \in 0 .. M ^ 0 - 1 /\ u % M ^ 0 = 0 /\ v % M ^ 0 = 0 /\ 0 \in 0 .. N
      /\ 0 \in {0, 1}
  BY NothingYet
<1>3. 0 + 0 * 1 = 0 + 0 /\ 0 - 0 * 1 = 0 - 0
  OBVIOUS
<1>4. Summing'
  BY <1>1, <1>2, <1>3 DEF Summing
<1>5. Differing'
  BY <1>1, <1>2, <1>3 DEF Differing
<1> QED
  BY <1>1, <1>4, <1>5 DEF Loops, Multiplying, Dividing, ByWords

LEMMA RowEnters ==
  ASSUME TypeNumbers, Resting, stage = "dispatch", NEW u \in Patterns, NEW v \in Patterns,
         Enter("row", u, v, 0), request.op \in {"mul", "mul_full"}
  PROVE  Loops'
<1>1. /\ x' = u /\ y' = v /\ i' = 0 /\ j' = 0 /\ carry' = 0 /\ res' = 0 /\ stage' = "row"
      /\ N' = N /\ M' = M /\ Patterns' = Patterns /\ Width' = Width /\ All' = All
      /\ request' = request
  BY DEF Enter, Resting, type, M, Patterns, All, Bits, Width
<1>2. /\ M ^ 0 = 1 /\ u % M ^ 0 = 0 /\ v % M ^ 0 = 0 /\ 0 \in 0 .. N
      /\ u \in Int /\ v \in Int
  BY NothingYet
<1>3. N > 0 /\ N \in Nat /\ M \in Nat /\ M >= 4 /\ Width \in Nat /\ M ^ Width \in Nat
      /\ M ^ Width > 0 /\ All \in Nat
  BY Widths, LimbPlaces DEF TypeNumbers
<1>4. Taken(j)' = 0
  BY <1>1, <1>2, <1>3 DEF Taken
<1>5. Part(x, i)' = Part(u, 0) /\ Part(u, 0) \in Int
  <2>1. 0 \in 0 .. 2 * N - 1 /\ u \in Nat
    BY <1>3 DEF Patterns
  <2>2. Part(u, 0) \in 0 .. M - 1
    BY <2>1, Parts
  <2> QED
    BY <2>2, <1>1, <1>3 DEF Part
<1>6. 0 + 0 * M ^ (0 + 0) + 0 * All = 0 * v + (Part(u, 0) * 1) * 0
  <2>1. 0 * 1 = 0 /\ 0 * All = 0 /\ 0 * v = 0 /\ (Part(u, 0) * 1) * 0 = 0 /\ 0 + 0 = 0
    BY <1>2, <1>3, <1>5
  <2> QED
    BY <2>1, <1>2
<1>7. \E k \in Nat :
         /\ request.op = "mul_full" => k = 0
         /\ res' + carry' * M' ^ (i' + j') + k * All'
              = (x' % M' ^ i') * y' + (Part(x, i)' * M' ^ i') * Taken(j)'
  BY <1>1, <1>2, <1>4, <1>5, <1>6
<1>8. Multiplying'
  <2>1. /\ x' \in Patterns' /\ y' \in Patterns' /\ i' \in 0 .. N' /\ j' \in Nat
        /\ i' + j' <= Width' /\ carry' \in 0 .. M' - 1 /\ res' \in 0 .. M' ^ Width' - 1
        /\ (i' = N' => j' = 0 /\ carry' = 0)
    BY <1>1, <1>2, <1>3
  <2> QED
    BY <2>1, <1>1, <1>7 DEF Multiplying
<1> QED
  BY <1>1, <1>8 DEF Loops, Summing, Differing, Dividing, ByWords

LEMMA BitsEnter ==
  ASSUME TypeNumbers, Resting, stage = "dispatch", NEW u \in Patterns, NEW v \in Patterns, v # 0,
         Enter("bits", u, v, Bits), request.op \in {"div", "mod"}
  PROVE  Loops'
<1>1. /\ x' = u /\ y' = v /\ i' = Bits /\ res' = 0 /\ rem' = 0 /\ stage' = "bits"
      /\ Bits' = Bits /\ Patterns' = Patterns /\ request' = request
  BY DEF Enter, Resting, type, Patterns, All, Bits
<1>2. v \in Nat /\ v > 0 /\ Bits \in 0 .. Bits
  BY DEF Patterns, TypeNumbers
<1>3. Halfway(Bits, u, v, 0, 0)
  BY <1>2, DivisionBegins
<1>4. Halfway(i, x, y, res, rem)' <=> Halfway(Bits, u, v, 0, 0)
  BY <1>1 DEF Halfway
<1>5. Dividing'
  BY <1>1, <1>2, <1>3, <1>4 DEF Dividing
<1> QED
  BY <1>1, <1>5 DEF Loops, Summing, Differing, Multiplying, ByWords

\* Two limbs: the low one and the high one.
LEMMA TwoLimbs ==
  ASSUME TypeNumbers, N = 2, NEW v \in Patterns
  PROVE  /\ Part(v, 0) = v % M /\ Part(v, 1) = v \div M
         /\ v = (v \div M) * M + (v % M) /\ v \div M \in 0 .. M - 1 /\ v % M \in 0 .. M - 1
         /\ All = M * M
<1>1. M \in Nat /\ M >= 4 /\ v \in Nat /\ v < All /\ All = M ^ 2
  BY DEF Patterns, TypeNumbers
<1>2. M ^ 0 = 1 /\ M ^ 1 = M /\ M ^ 2 = M * M
  <2>1. /\ M ^ 0 = 1 /\ M ^ (0 + 1) = M * M ^ 0 /\ M ^ (1 + 1) = M * M ^ 1
    BY LimbPlaces
  <2> QED
    BY <2>1, <1>1
<1>3. v = (v \div M) * M + (v % M) /\ v \div M \in Nat /\ v % M \in 0 .. M - 1
  BY <1>1, DivideNat
<1>4. v < M * M
  BY <1>1, <1>2
<1>5. v \div M < M
  BY <1>1, <1>4, QuotientBelow
<1>6. v \div 1 = v /\ (v \div M) % M = v \div M
  <2> DEFINE h == v \div M
  <2>1. h \in Nat /\ h < M
    BY <1>3, <1>5
  <2> HIDE DEF h
  <2>2. h % M = h
    BY <2>1, <1>1, RemainderOfSmall
  <2> QED
    BY <2>2, <1>1 DEF h
<1>7. Part(v, 0) = v % M /\ Part(v, 1) = v \div M
  BY <1>2, <1>6 DEF Part
<1> QED
  BY <1>1, <1>2, <1>3, <1>5, <1>7

\* The high limb is divided at once, or is the first remainder.
LEMMA WordsEnter ==
  ASSUME TypeNumbers, N = 2, request.a \in Patterns, NEW d \in 1 .. M - 1, NEW q, NEW r, NEW s,
         EnterWords(Dividend % M, d, s, q, r), Halfway(W, Dividend, d, q, r)
  PROVE  Loops'
<1>1. /\ x' = Dividend % M /\ y' = d /\ i' = W /\ res' = q /\ rem' = r /\ stage' = "words"
      /\ Bits' = Bits /\ Patterns' = Patterns /\ request' = request /\ N' = N /\ M' = M /\ W' = W
      /\ Dividend' = Dividend
  BY DEF EnterWords, type, Patterns, All, Bits, M, Dividend, A!Magnitude, A!Signed
<1>2. W \in 0 .. W
  BY DEF TypeNumbers
<1>3. Halfway(i, Dividend, y, res, rem)' <=> Halfway(W, Dividend, d, q, r)
  BY <1>1 DEF Halfway
<1>4. ByWords'
  BY <1>1, <1>2, <1>3 DEF ByWords
<1> QED
  BY <1>1, <1>4 DEF Loops, Summing, Differing, Multiplying, Dividing

LEMMA DivideByWordEnters ==
  ASSUME TypeNumbers, N = 2, request.a \in Patterns, request.b \in 1 .. M - 1, DivideByWord
  PROVE  Loops'
<1> DEFINE v == Dividend
           d == DivisorMagnitude
           h == v \div M
           q == M * (h \div d)
           r == h % d
<1>1. M \in Nat /\ M >= 4 /\ d \in 1 .. M - 1 /\ 2 ^ W = M
  BY DivisorRight DEF TypeNumbers, M
<1>2. v \in Patterns
  BY WideSign DEF Dividend
<1> HIDE DEF v, d
<1>3. Part(v, 0) = v % M /\ Part(v, 1) = h /\ h \in 0 .. M - 1
  BY <1>2, TwoLimbs
<1>4. EnterWords(v % M, d, Negative(request.a) # SignedDivisor, q, r)
  BY <1>3 DEF DivideByWord, v, d, Dividend
<1> HIDE DEF h
<1>5. h = (h \div d) * d + r /\ h \div d \in Nat /\ r \in 0 .. d - 1
  <2>1. h \in Nat /\ d \in Nat /\ d > 0
    BY <1>1, <1>3
  <2> QED
    BY <2>1, DivideNat
<1>6. q \in Nat /\ q % M = 0 /\ q \div M = h \div d
  <2> DEFINE g == h \div d
  <2>1. g \in Nat
    BY <1>5
  <2> HIDE DEF g
  <2>2. M * g \in Int /\ M * g = g * M + 0 /\ M * g >= 0
    BY <2>1, <1>1
  <2>3. (M * g) \div M = g /\ (M * g) % M = 0
    BY <2>1, <2>2, <1>1, DivUnique
  <2> QED
    BY <2>2, <2>3 DEF g
<1>7. Halfway(W, v, d, q, r)
  <2>1. v \div M = (q \div M) * d + r
    BY <1>5, <1>6 DEF h
  <2> HIDE DEF q, r
  <2> QED
    BY <2>1, <1>1, <1>5, <1>6 DEF Halfway
<1> HIDE DEF q, r
<1> QED
  BY <1>1, <1>4, <1>7, WordsEnter DEF v

\* The numerator negated limb by limb, and a quotient that fits a word.
LEMMA DivideSigned64Enters ==
  ASSUME TypeNumbers, N = 2, request.a \in Patterns, request.b \in 1 .. M - 1,
         request.op = "div_signed64", WordQuotient(request.a, request.b), DivideSigned64
  PROVE  Loops'
<1> DEFINE a == request.a
           v == Dividend
           d == DivisorMagnitude
           a0 == a % M
           a1 == a \div M
           sign == Negative(a)
           lo == IF sign THEN (M - a0) % M ELSE a0
           hi == IF sign THEN (M - 1 - a1 + Indicator(lo = 0)) % M ELSE a1
           h == v \div M
<1>1. /\ M \in Nat /\ M >= 4 /\ d \in 1 .. M - 1 /\ 2 ^ W = M /\ M = 2 * (M \div 2)
      /\ d = A!Magnitude(request.b, W) /\ M \div 2 \in Nat /\ M \div 2 >= 2
  BY DivisorRight, HalfPatterns DEF TypeNumbers, M
<1>2. v \in Patterns /\ v = (IF sign THEN All - a ELSE a)
  BY WideSign DEF Dividend
<1>3. /\ Part(a, 0) = a0 /\ Part(a, 1) = a1 /\ a = a1 * M + a0 /\ a0 \in 0 .. M - 1
      /\ a1 \in 0 .. M - 1 /\ All = M * M
  BY TwoLimbs
<1>4. sign <=> a1 >= M \div 2
  BY <1>3 DEF Negative
<1>5. EnterWords(lo, d, sign # SignedDivisor, 0, hi)
  BY <1>3 DEF DivideSigned64
<1>6. v = h * M + (v % M) /\ h \in 0 .. M - 1 /\ v % M \in 0 .. M - 1
  <2> HIDE DEF v
  <2> QED
    BY <1>2, TwoLimbs
<1> HIDE DEF v, d, a0, a1, sign, h
<1>7. lo \in 0 .. M - 1 /\ hi \in 0 .. M - 1 /\ v = hi * M + lo
  <2>1. CASE ~sign
    BY <2>1, <1>2, <1>3
  <2>2. CASE sign /\ a0 = 0
    <3>1. M % M = 0
      <4>1. M = 1 * M + 0 /\ M \in Int /\ M > 0
        BY <1>1
      <4> QED
        BY <4>1, DivUnique
    <3>2. lo = 0
      BY <3>1, <2>2, <1>1
    <3>3. a1 >= M \div 2
      BY <2>2, <1>4
    <3> DEFINE g == M - 1 - a1 + 1
    <3>4. g \in Nat /\ g < M /\ g = M - a1
      BY <3>3, <1>1, <1>3
    <3>5. g % M = g
      <4> HIDE DEF g
      <4> QED
        BY <3>4, <1>1, RemainderOfSmall
    <3>6. hi = g
      BY <3>2, <3>5, <2>2 DEF Indicator
    <3>7. v = g * M
      <4>1. g * M = M * M - a1 * M /\ a1 * M \in Int /\ M * M \in Int
        <5> HIDE DEF g
        <5> QED
          BY <3>4, <1>1, <1>3
      <4>2. v = M * M - (a1 * M + 0)
        BY <2>2, <1>2, <1>3
      <4> QED
        BY <4>1, <4>2
    <3> HIDE DEF g
    <3>8. g * M \in Int
      BY <3>4, <1>1
    <3> HIDE DEF lo, hi
    <3> QED
      BY <3>2, <3>4, <3>6, <3>7, <3>8, <1>1
  <2>3. CASE sign /\ a0 # 0
    <3> DEFINE l == M - a0
               g == M - 1 - a1
    <3>1. l \in Nat /\ l < M /\ l # 0 /\ g \in Nat /\ g < M
      BY <2>3, <1>1, <1>3
    <3> HIDE DEF l, g
    <3>2. l % M = l /\ g % M = g
      BY <3>1, <1>1, RemainderOfSmall
    <3>3. lo = l
      BY <3>2, <2>3 DEF l
    <3>4. hi = (g + 0) % M
      BY <3>3, <3>1, <2>3 DEF Indicator, g
    <3>5. hi = g
      BY <3>1, <3>2, <3>4
    <3>6. v = g * M + l
      <4>1. g * M = M * M - M - a1 * M /\ a1 * M \in Int /\ M * M \in Int
        BY <1>1, <1>3 DEF g
      <4>2. v = M * M - (a1 * M + a0)
        BY <2>3, <1>2, <1>3
      <4>3. l = M - a0 /\ a0 \in Int /\ M \in Int
        BY <1>1, <1>3 DEF l
      <4> DEFINE gm == g * M  am == a1 * M  mm == M * M
      <4>4. gm = mm - M - am /\ am \in Int /\ mm \in Int /\ v = mm - (am + a0)
        BY <4>1, <4>2
      <4> HIDE DEF gm, am, mm
      <4>5. v = gm + l
        BY <4>3, <4>4
      <4> QED
        BY <4>5 DEF gm
    <3> HIDE DEF lo, hi
    <3> QED
      BY <3>1, <3>3, <3>5, <3>6, <1>1
  <2> QED
    BY <2>1, <2>2, <2>3
<1> HIDE DEF lo, hi
<1>8. hi = h /\ lo = v % M
  <2>1. v \in Int /\ lo \in Int /\ hi \in Int /\ 0 <= lo /\ lo < M /\ M > 0
    BY <1>1, <1>2, <1>7 DEF Patterns, TypeNumbers
  <2> QED
    BY <2>1, <1>1, <1>7, DivUnique DEF h
<1>9. v \div d <= M \div 2 /\ v \div d \in Nat
  <2> DEFINE n == A!Signed(a, Bits)
             e == A!Signed(request.b, W)
             g == v \div d
  <2>1. n \in Int /\ n \in {v, -v} /\ e \in Int /\ e \in {d, -d}
    <3>1. n \in Int /\ n = IF Negative(a) THEN -v ELSE v
      BY WideSign DEF v, Dividend
    <3>2. request.b \in 0 .. M - 1
      BY <1>1
    <3>3. e \in Int /\ e = IF NegativeWord(request.b) THEN -d ELSE d
      <4> HIDE DEF e
      <4> QED
        BY <3>2, <1>1, WordSign DEF e
    <3> HIDE DEF n, e
    <3> QED
      BY <3>1, <3>3
  <2>2. v \in Nat /\ d \in Nat /\ d > 0
    BY <1>1, <1>2 DEF Patterns, TypeNumbers
  <2> HIDE DEF n, e
  <2>3. A!H!Truncate(n, e) = IF (n < 0) # (e < 0) THEN -g ELSE g
    BY <2>1, <2>2, TruncateMagnitudes
  <2>4. A!H!Truncate(n, e) \in -(M \div 2) .. M \div 2 - 1
    BY DEF WordQuotient, n, e
  <2>5. g \in Nat
    BY <2>2, DivideNat
  <2> HIDE DEF g
  <2>6. g <= M \div 2
    BY <2>3, <2>4, <2>5, <1>1
  <2> QED
    BY <2>5, <2>6 DEF g
<1>10. h < d
  <2> DEFINE g == v \div d
             m == M \div 2
  <2>1. v = g * d + (v % d) /\ v % d \in 0 .. d - 1 /\ d \in Nat /\ d > 0 /\ v \in Nat
    <3>1. v \in Nat /\ d \in Nat /\ d > 0
      BY <1>1, <1>2 DEF Patterns, TypeNumbers
    <3> QED
      BY <3>1, DivideNat
  <2>2. g \in Nat /\ g <= m /\ m \in Nat /\ M = 2 * m /\ m >= 2
    BY <1>1, <1>9
  <2> HIDE DEF g, m
  <2>3. g * d <= m * d /\ g * d \in Int /\ m * d \in Int /\ 2 * (m * d) = M * d /\ M * d = d * M
        /\ d <= m * d
    <3>1. 0 <= g * d /\ g * d <= m * d
      BY <2>1, <2>2, ProductBelow
    <3>2. g * d \in Int /\ m * d \in Int /\ M * d = d * M /\ 2 * (m * d) = (2 * m) * d
      BY <2>1, <2>2, <1>1
    <3>3. d <= m * d
      BY <2>1, <2>2, PositiveProduct
    <3> QED
      BY <3>1, <3>2, <3>3, <2>2
  <2> DEFINE gd == g * d  md == m * d
  <2>4. gd <= md /\ gd \in Int /\ md \in Int /\ d * M = 2 * md /\ d <= md /\ v = gd + (v % d)
    BY <2>1, <2>3
  <2> HIDE DEF gd, md
  <2>5. v < d * M
    BY <2>1, <2>4
  <2> QED
    BY <2>1, <2>5, <1>1, QuotientBelow DEF h
<1>11. Halfway(W, v, d, 0, hi)
  <2>1. 0 % M = 0 /\ 0 \div M = 0
    <3>1. 0 = 0 * M + 0 /\ M \in Int /\ M > 0
      BY <1>1
    <3> QED
      BY <3>1, DivUnique
  <2>2. 0 * d + h = h
    BY <1>1, <1>6
  <2>3. h \in 0 .. d - 1
    BY <1>1, <1>6, <1>10
  <2> QED
    BY <2>1, <2>2, <2>3, <1>1, <1>8 DEF Halfway, h
<1>12. EnterWords(v % M, d, sign # SignedDivisor, 0, hi)
  BY <1>5, <1>8
<1> QED
  BY <1>1, <1>11, <1>12, WordsEnter DEF v

LEMMA PatternsSampled ==
  ASSUME Chosen
  PROVE  Samples[type] \subseteq Patterns
<1>1. PICK s \in Shapes : W = s[1] /\ N = s[2]
  BY DEF Chosen
<1>2. s \in Nat \X Nat
  BY <1>1, ShapesAssumption
<1>3. s = type /\ s[1] * s[2] = Bits
  BY <1>1, <1>2 DEF type, Bits
<1> QED
  BY <1>1, <1>3, SamplesAssumption DEF Patterns, All

\* A call is what an operation may be called with.
LEMMA BeginAsks ==
  ASSUME stage = "idle", Resting, NEW op, NEW a, NEW b, NEW c, NEW rounding,
         Begin(op, a, b, c, rounding),
         \/ op \in Unary \union Binary /\ a \in Patterns /\ b \in Patterns
         \/ op \in Shifts /\ a \in Patterns /\ b \in 0 .. Bits + 1
         \/ op = "extend" /\ b \in {1, N \div 2} /\ a \in 0 .. M ^ b - 1
         \/ op = "imul" /\ a \in 0 .. M - 1 /\ b \in 0 .. M - 1
         \/ op \in ByWord /\ N = 2 /\ a \in Patterns /\ b \in 1 .. M - 1
         \/ op = "div_signed64" /\ N = 2 /\ a \in Patterns /\ b \in 1 .. M - 1 /\ WordQuotient(a, b)
         \/ op \in Checked /\ a \in Patterns /\ b \in 0 .. HalfAll - 1
         \/ op = "divide_to_half" /\ a \in Patterns /\ b \in 0 .. HalfAll - 1 /\ rounding \in R!Modes
         \/ op = "mul_div" /\ a \in 0 .. HalfAll - 1 /\ b \in 0 .. HalfAll - 1
              /\ c \in 0 .. HalfAll - 1 /\ rounding \in R!Modes
  PROVE  stage' = "dispatch" /\ Operands' /\ Resting' /\ UNCHANGED <<type, answer, loop>>
<1>1. /\ stage' = "dispatch" /\ UNCHANGED <<type, answer, loop>>
      /\ request' = [op |-> op, a |-> a, b |-> b, c |-> c, rounding |-> rounding]
  BY DEF Begin, A!Request
<1>2. /\ request'.op = op /\ request'.a = a /\ request'.b = b /\ request'.c = c
      /\ request'.rounding = rounding
  BY <1>1
<1>3. W' = W /\ N' = N /\ Bits' = Bits /\ M' = M /\ All' = All /\ Patterns' = Patterns
      /\ HalfAll' = HalfAll
  BY <1>1 DEF type, Bits, M, All, Patterns, HalfAll, HalfBits
<1>4. WordQuotient(request.a, request.b)' <=> WordQuotient(a, b)
  BY <1>2, <1>3 DEF WordQuotient, A!H!Truncate, A!H!Floor, A!H!Ceiling, A!Signed
<1>5. Operands'
  BY <1>2, <1>3, <1>4 DEF Operands, R!Modes
<1>6. Resting'
  BY <1>1 DEF Resting, loop
<1> QED
  BY <1>1, <1>5, <1>6

LEMMA HalfTypes ==
  ASSUME TypeNumbers
  PROVE  /\ HalfBits \in Nat /\ HalfBits \in 0 .. Bits /\ HalfAll \in Nat /\ HalfAll > 0
         /\ \A v \in Int : v % HalfAll \in 0 .. HalfAll - 1
<1>1. HalfBits \in Nat /\ HalfBits \in 0 .. Bits
  BY DEF TypeNumbers, HalfBits
<1>2. HalfAll \in Nat /\ HalfAll > 0
  BY <1>1, BitPlaces DEF HalfAll
<1>3. \A v \in Int : v % HalfAll \in 0 .. HalfAll - 1
  BY <1>2, DivMod
<1> QED
  BY <1>1, <1>2, <1>3

LEMMA CallAsks ==
  ASSUME TypeNumbers, Chosen, Asking, Resting, Call \/ CheckedCall
  PROVE  stage' = "dispatch" /\ Operands' /\ Resting' /\ UNCHANGED <<type, answer, loop>>
<1>1. Samples[type] \subseteq Patterns /\ Patterns \subseteq Int /\ 0 \in Patterns
  BY PatternsSampled, NothingYet
<1>2. stage = "idle"
  BY DEF Call, CheckedCall
<1>3. CASE Call
  <2>1. PICK a \in Samples[type] :
       \/ \E op \in Binary, b \in Samples[type] : Begin(op, a, b, 0, "exact")
       \/ \E op \in Unary : Begin(op, a, 0, 0, "exact")
       \/ \E op \in Shifts, b \in 0 .. Bits + 1 : Begin(op, a, b, 0, "exact")
       \/ \E b \in {1, N \div 2} : Begin("extend", a % M ^ b, b, 0, "exact")
       \/ \E b \in 0 .. M - 1 : Begin("imul", a % M, b, 0, "exact")
       \/ N = 2 /\ \E op \in ByWord, b \in 1 .. M - 1 : Begin(op, a, b, 0, "exact")
       \/ /\ N = 2
          /\ \E b \in 1 .. M - 1 : WordQuotient(a, b) /\ Begin("div_signed64", a, b, 0, "exact")
    BY <1>3 DEF Call, WordQuotient
  <2>2. a \in Patterns /\ a \in Int
    BY <1>1
  <2>3. CASE \E op \in Binary, b \in Samples[type] : Begin(op, a, b, 0, "exact")
    BY <1>1, <1>2, <2>2, <2>3, BeginAsks
  <2>4. CASE \E op \in Unary : Begin(op, a, 0, 0, "exact")
    BY <1>1, <1>2, <2>2, <2>4, BeginAsks
  <2>5. CASE \E op \in Shifts, b \in 0 .. Bits + 1 : Begin(op, a, b, 0, "exact")
    BY <1>2, <2>2, <2>5, BeginAsks
  <2>6. CASE \E b \in {1, N \div 2} : Begin("extend", a % M ^ b, b, 0, "exact")
    <3>1. PICK b \in {1, N \div 2} : Begin("extend", a % M ^ b, b, 0, "exact")
      BY <2>6
    <3>2. b \in 0 .. 2 * N
      BY DEF TypeNumbers
    <3> DEFINE p == M ^ b
               v == a % p
    <3>3. p \in Nat /\ p > 0
      BY <3>2, LimbPlaces
    <3>4. v \in 0 .. p - 1
      <4> HIDE DEF p
      <4> QED
        BY <2>2, <3>3, DivMod
    <3> HIDE DEF v
    <3>5. Begin("extend", v, b, 0, "exact")
      BY <3>1 DEF v
    <3> QED
      BY <1>2, <3>1, <3>4, <3>5, BeginAsks
  <2>7. CASE \E b \in 0 .. M - 1 : Begin("imul", a % M, b, 0, "exact")
    <3>1. PICK b \in 0 .. M - 1 : Begin("imul", a % M, b, 0, "exact")
      BY <2>7
    <3> DEFINE v == a % M
    <3>2. v \in 0 .. M - 1
      <4>1. M \in Nat /\ M > 0
        BY DEF TypeNumbers
      <4> QED
        BY <2>2, <4>1, DivMod
    <3> HIDE DEF v
    <3>3. Begin("imul", v, b, 0, "exact")
      BY <3>1 DEF v
    <3> QED
      BY <1>2, <3>2, <3>3, BeginAsks
  <2>8. CASE N = 2 /\ \E op \in ByWord, b \in 1 .. M - 1 : Begin(op, a, b, 0, "exact")
    BY <1>2, <2>2, <2>8, BeginAsks
  <2>9. CASE N = 2 /\ \E b \in 1 .. M - 1 :
               WordQuotient(a, b) /\ Begin("div_signed64", a, b, 0, "exact")
    BY <1>2, <2>2, <2>9, BeginAsks
  <2> QED
    BY <2>1, <2>3, <2>4, <2>5, <2>6, <2>7, <2>8, <2>9
<1>4. CASE CheckedCall
  <2>1. Halves \subseteq 0 .. HalfAll - 1
    BY <1>1, HalfTypes DEF Halves
  <2>2. PICK b \in Halves :
       \/ \E op \in Checked, a \in Samples[type] : Begin(op, a, b, 0, "exact")
       \/ \E a \in Samples[type], mode \in R!Modes : Begin("divide_to_half", a, b, 0, mode)
       \/ \E a, c \in Halves, mode \in R!Modes : Begin("mul_div", a, b, c, mode)
    BY <1>4 DEF CheckedCall
  <2>3. CASE \E op \in Checked, a \in Samples[type] : Begin(op, a, b, 0, "exact")
    BY <1>1, <1>2, <2>1, <2>3, BeginAsks
  <2>4. CASE \E a \in Samples[type], mode \in R!Modes : Begin("divide_to_half", a, b, 0, mode)
    BY <1>1, <1>2, <2>1, <2>4, BeginAsks
  <2>5. CASE \E a, c \in Halves, mode \in R!Modes : Begin("mul_div", a, b, c, mode)
    BY <1>1, <1>2, <2>1, <2>5, BeginAsks
  <2> QED
    BY <2>2, <2>3, <2>4, <2>5
<1> QED
  BY <1>3, <1>4

-----------------------------------------------------------------------------
(* The invariant *)

LEMMA IntegerInit ==
  Init => IInv
<1> SUFFICES ASSUME Init PROVE IInv
  OBVIOUS
<1>1. Chosen
  BY DEF Init, Chosen
<1>2. Asking /\ Resting
  BY DEF Init, Asking, Resting
<1>3. Loops
  BY OutsideLoops DEF Init
<1> QED
  BY <1>1, <1>2, <1>3 DEF IInv

\* An operation that answers leaves the loops.
LEMMA Responds ==
  ASSUME stage # "idle", Operands, NEW a, Respond(a)
  PROVE  Asking' /\ Resting' /\ Loops' /\ UNCHANGED <<type, request>>
<1>1. stage' = "answered" /\ UNCHANGED <<type, request>>
  BY DEF Respond
<1>2. Operands'
  BY <1>1, OperandsStay
<1>3. Loops'
  BY <1>1 DEF Loops, Summing, Differing, Multiplying, Dividing, ByWords
<1> QED
  BY <1>1, <1>2, <1>3 DEF Asking, Resting

\* A step of a loop, or into one.
LEMMA Works ==
  ASSUME Operands, UNCHANGED <<type, request>>, stage' \notin {"idle", "dispatch"}
  PROVE  Asking' /\ Resting'
<1>1. Operands'
  BY OperandsStay
<1> QED
  BY <1>1 DEF Asking, Resting

\* What the operands of an operation with a loop are.
LEMMA OperandsOf ==
  ASSUME Operands
  PROVE  /\ request.op \in Unary \union Binary => request.a \in Patterns /\ request.b \in Patterns
         /\ request.op \in ByWord =>
              N = 2 /\ request.a \in Patterns /\ request.b \in 1 .. M - 1
         /\ request.op = "div_signed64" =>
              N = 2 /\ request.a \in Patterns /\ request.b \in 1 .. M - 1
                /\ WordQuotient(request.a, request.b)
BY DEF Operands, Unary, Binary, Shifts, ByWord, Checked

\* The operations that begin a loop of sums, products or divisions.
LEMMA LoopsBegin ==
  ASSUME TypeNumbers, IInv, NEW d,
         d \in {"sum", "difference", "row", "bits"},
         \E u, v \in Patterns : \E n :
           /\ Enter(d, u, v, n)
           /\ d \in {"sum", "difference", "row"} => n = 0
           /\ d = "row" => request.op \in {"mul", "mul_full"}
           /\ d = "bits" => n = Bits /\ v # 0 /\ request.op \in {"div", "mod"},
         stage = "dispatch"
  PROVE  Asking' /\ Resting' /\ Loops'
<1>1. PICK u \in Patterns, v \in Patterns : \E n :
           /\ Enter(d, u, v, n)
           /\ d \in {"sum", "difference", "row"} => n = 0
           /\ d = "row" => request.op \in {"mul", "mul_full"}
           /\ d = "bits" => n = Bits /\ v # 0 /\ request.op \in {"div", "mod"}
  OBVIOUS
<1>2. PICK n :
           /\ Enter(d, u, v, n)
           /\ d \in {"sum", "difference", "row"} => n = 0
           /\ d = "row" => request.op \in {"mul", "mul_full"}
           /\ d = "bits" => n = Bits /\ v # 0 /\ request.op \in {"div", "mod"}
  BY <1>1
<1>3. Resting /\ Operands
  BY DEF IInv, Asking
<1>4. Asking' /\ Resting'
  <2>1. UNCHANGED <<type, request>> /\ stage' = d
    BY <1>2 DEF Enter
  <2> QED
    BY <1>3, <2>1, Works
<1>5. CASE d \in {"sum", "difference"}
  BY <1>2, <1>3, <1>4, <1>5, SumEnters
<1>6. CASE d = "row"
  BY <1>2, <1>3, <1>4, <1>6, RowEnters
<1>7. CASE d = "bits"
  BY <1>2, <1>3, <1>4, <1>7, BitsEnter
<1> QED
  BY <1>5, <1>6, <1>7

LEMMA WorkKeeps ==
  ASSUME TypeNumbers, IInv, Work \/ CheckedWork \/ Call \/ CheckedCall \/ Return
  PROVE  Asking' /\ Resting' /\ Loops' /\ UNCHANGED type
<1> DEFINE Goal == Asking' /\ Resting' /\ Loops' /\ UNCHANGED type
           ra == request.a
           rb == request.b
<1> SUFFICES Goal
  OBVIOUS
<1>1. Chosen /\ Asking /\ Resting /\ Loops
  BY DEF IInv
<1>2. stage # "idle" => Operands
  BY <1>1 DEF Asking
<1>3. ASSUME stage # "idle", \E a : Respond(a) PROVE Goal
  BY <1>2, <1>3, Responds
<1>4. ASSUME \E d \in {"sum", "difference", "row", "bits"}, u, v \in Patterns, n \in Nat :
               /\ Enter(d, u, v, n)
               /\ d \in {"sum", "difference", "row"} => n = 0
               /\ d = "row" => request.op \in {"mul", "mul_full"}
               /\ d = "bits" => n = Bits /\ v # 0 /\ request.op \in {"div", "mod"},
             stage = "dispatch"
      PROVE  Goal
  <2>1. PICK d \in {"sum", "difference", "row", "bits"}, u \in Patterns, v \in Patterns, n \in Nat :
               /\ Enter(d, u, v, n)
               /\ d \in {"sum", "difference", "row"} => n = 0
               /\ d = "row" => request.op \in {"mul", "mul_full"}
               /\ d = "bits" => n = Bits /\ v # 0 /\ request.op \in {"div", "mod"}
    BY <1>4
  <2>2. UNCHANGED type
    BY <2>1 DEF Enter
  <2>3. Asking' /\ Resting' /\ Loops'
    BY <2>1, <1>4, LoopsBegin
  <2> QED
    BY <2>2, <2>3
<1>5. ASSUME stage # "idle", UNCHANGED <<type, request>>, stage' \notin {"idle", "dispatch"},
             Loops'
      PROVE  Goal
  BY <1>2, <1>5, Works
<1>6. stage = "dispatch" => Operands
  BY <1>2
<1>7. 0 \in Nat /\ Bits \in Nat /\ 1 \in Patterns /\ \A v \in Patterns : All - 1 - v \in Patterns
  BY NothingYet
<1>8. ASSUME stage = "dispatch", request.op \in Unary \union Binary
      PROVE  ra \in Patterns /\ rb \in Patterns
  BY <1>6, <1>8, OperandsOf
<1> HIDE DEF Goal
<1>10. CASE Add
  <2>1. stage = "dispatch" /\ request.op = "add" /\ Enter("sum", ra, rb, 0)
    BY <1>10 DEF Add, Op
  <2> QED
    BY <2>1, <1>4, <1>7, <1>8 DEF Binary
<1>11. CASE Sub
  <2>1. stage = "dispatch" /\ request.op = "sub" /\ Enter("difference", ra, rb, 0)
    BY <1>11 DEF Sub, Op
  <2> QED
    BY <2>1, <1>4, <1>7, <1>8 DEF Binary
<1>12. CASE Negate
  <2>1. stage = "dispatch" /\ request.op = "negate" /\ Enter("sum", All - 1 - ra, 1, 0)
    BY <1>12 DEF Negate, Op
  <2>2. All - 1 - ra \in Patterns
    BY <2>1, <1>7, <1>8 DEF Unary
  <2> QED
    BY <2>1, <2>2, <1>4, <1>7
<1>13. CASE Magnitude
  <2>1. stage = "dispatch" /\ request.op = "magnitude"
        /\ (Enter("sum", All - 1 - ra, 1, 0) \/ Respond(A!Value(<<ra>>)))
    BY <1>13 DEF Magnitude, Op, Reply
  <2>2. All - 1 - ra \in Patterns
    BY <2>1, <1>7, <1>8 DEF Unary
  <2> QED
    BY <2>1, <2>2, <1>3, <1>4, <1>7
<1>14. CASE SumLimb
  <2>1. Summing' /\ stage = "sum" /\ stage' = "sum" /\ UNCHANGED <<type, request>>
    BY <1>1, <1>14, SumLimbSums DEF SumLimb, Loops
  <2> QED
    BY <2>1, <1>5 DEF Loops, Differing, Multiplying, Dividing, ByWords
<1>15. CASE DifferenceLimb
  <2>1. Differing' /\ stage = "difference" /\ stage' = "difference" /\ UNCHANGED <<type, request>>
    BY <1>1, <1>15, DifferenceLimbDiffers DEF DifferenceLimb, Loops
  <2> QED
    BY <2>1, <1>5 DEF Loops, Summing, Multiplying, Dividing, ByWords
<1>16. CASE Summed \/ Less \/ Bitwise \/ Extend \/ BitWidth \/ ShiftLeft \/ ShiftRight
            \/ Multiplied \/ SignedWordProduct \/ Divided \/ WordsDivided \/ CheckedWork
  <2>1. stage # "idle" /\ \E a : Respond(a)
    BY <1>16 DEF Summed, Less, Bitwise, Extend, BitWidth, ShiftLeft, ShiftRight, Multiplied,
                 SignedWordProduct, Divided, WordsDivided, CheckedWork, RejectZero, Divmod,
                 SignedDivmod, DivideToHalf, MulDiv, Op, Reply
  <2> QED
    BY <2>1, <1>3
<1>17. CASE Mul \/ MulFull
  <2>1. /\ stage = "dispatch" /\ request.op \in {"mul", "mul_full"}
        /\ Enter("row", ra, rb, 0) \/ \E a : Respond(a)
    BY <1>17 DEF Mul, MulFull, Op, Reply
  <2>2. request.op \in Unary \union Binary
    BY <2>1 DEF Binary
  <2> QED
    BY <2>1, <2>2, <1>3, <1>4, <1>7, <1>8
<1>18. CASE ProductLimb
  <2>1. Multiplying' /\ stage = "row" /\ stage' = "row" /\ UNCHANGED <<type, request>>
    BY <1>1, <1>18, ProductLimbMultiplies DEF ProductLimb, Loops
  <2> QED
    BY <2>1, <1>5 DEF Loops, Summing, Differing, Dividing, ByWords
<1>19. CASE Propagate
  <2>1. stage = "row" /\ stage' = "row" /\ UNCHANGED <<type, request>> /\ carry # 0
    BY <1>19 DEF Propagate
  <2>2. i < N
    <3>1. i \in 0 .. N /\ (i = N => carry = 0)
      BY <2>1, <1>1 DEF Loops, Multiplying
    <3> QED
      BY <2>1, <3>1 DEF TypeNumbers
  <2>3. Multiplying'
    BY <1>1, <1>19, <2>2, PropagateMultiplies DEF Loops
  <2> QED
    BY <2>1, <2>3, <1>5 DEF Loops, Summing, Differing, Dividing, ByWords
<1>20. CASE NextRow
  <2>1. Multiplying' /\ stage = "row" /\ stage' = "row" /\ UNCHANGED <<type, request>>
    BY <1>1, <1>20, NextRowMultiplies DEF NextRow, Loops
  <2> QED
    BY <2>1, <1>5 DEF Loops, Summing, Differing, Dividing, ByWords
<1>21. CASE Divide
  <2>1. /\ stage = "dispatch" /\ request.op \in {"div", "mod"}
        /\ (rb # 0 /\ Enter("bits", ra, rb, Bits)) \/ \E a : Respond(a)
    BY <1>21 DEF Divide, Op, Reply
  <2>2. request.op \in Unary \union Binary
    BY <2>1 DEF Binary
  <2> QED
    BY <2>1, <2>2, <1>3, <1>4, <1>7, <1>8
<1>22. CASE DivideBit
  <2>1. Dividing' /\ stage = "bits" /\ stage' = "bits" /\ UNCHANGED <<type, request>>
    BY <1>1, <1>22, DivideBitDivides DEF DivideBit, Loops
  <2> QED
    BY <2>1, <1>5 DEF Loops, Summing, Differing, Multiplying, ByWords
<1>23. CASE DivideByWord
  <2>1. stage = "dispatch" /\ request.op \in ByWord
    BY <1>23 DEF DivideByWord, Op
  <2>2. N = 2 /\ ra \in Patterns /\ rb \in 1 .. M - 1
    BY <2>1, <1>6, OperandsOf
  <2>3. Loops'
    BY <2>2, <1>23, DivideByWordEnters
  <2>4. stage' = "words" /\ UNCHANGED <<type, request>>
    BY <1>23 DEF DivideByWord, EnterWords
  <2> QED
    BY <2>1, <2>3, <2>4, <1>5
<1>24. CASE DivideSigned64
  <2>1. stage = "dispatch" /\ request.op = "div_signed64"
    BY <1>24 DEF DivideSigned64, Op
  <2>2. N = 2 /\ ra \in Patterns /\ rb \in 1 .. M - 1 /\ WordQuotient(ra, rb)
    BY <2>1, <1>6, OperandsOf
  <2>3. Loops'
    BY <2>1, <2>2, <1>24, DivideSigned64Enters
  <2>4. stage' = "words" /\ UNCHANGED <<type, request>>
    BY <1>24 DEF DivideSigned64, EnterWords
  <2> QED
    BY <2>1, <2>3, <2>4, <1>5
<1>25. CASE WordBit
  <2>1. ByWords' /\ stage = "words" /\ stage' = "words" /\ UNCHANGED <<type, request>>
    BY <1>1, <1>25, WordBitDivides DEF WordBit, Loops
  <2> QED
    BY <2>1, <1>5 DEF Loops, Summing, Differing, Multiplying, Dividing
<1>26. CASE Call \/ CheckedCall
  <2>1. stage' = "dispatch" /\ Operands' /\ Resting' /\ UNCHANGED type
    BY <1>1, <1>26, CallAsks
  <2> QED
    BY <2>1 DEF Goal, Asking, Loops, Summing, Differing, Multiplying, Dividing, ByWords
<1>27. CASE Return
  <2>1. /\ stage' = "idle" /\ request' = A!NoRequest /\ UNCHANGED type
        /\ x' = 0 /\ y' = 0 /\ i' = 0 /\ j' = 0 /\ carry' = 0 /\ res' = 0 /\ rem' = 0
    BY <1>27 DEF Return
  <2>2. request' = A!NoRequest'
    BY <2>1 DEF A!NoRequest, A!Request
  <2> QED
    BY <2>1, <2>2 DEF Goal, Asking, Resting, Loops, Summing, Differing, Multiplying, Dividing,
                      ByWords
<1> QED
  BY <1>10, <1>11, <1>12, <1>13, <1>14, <1>15, <1>16, <1>17, <1>18, <1>19, <1>20, <1>21, <1>22,
     <1>23, <1>24, <1>25, <1>26, <1>27 DEF Work

LEMMA IntegerStep ==
  IInv /\ [IntegerNext]_vars => IInv'
<1> SUFFICES ASSUME IInv, [IntegerNext]_vars PROVE IInv'
  OBVIOUS
<1>1. TypeNumbers
  BY Numbers DEF IInv
<1>2. CASE UNCHANGED vars
  <2>1. /\ W' = W /\ N' = N /\ x' = x /\ y' = y /\ i' = i /\ j' = j /\ carry' = carry /\ res' = res
        /\ rem' = rem /\ request' = request /\ stage' = stage /\ type' = type
    BY <1>2 DEF vars, loop, type
  <2>2. /\ Bits' = Bits /\ M' = M /\ All' = All /\ Patterns' = Patterns /\ Width' = Width
        /\ Dividend' = Dividend /\ Part(x, i)' = Part(x, i) /\ Taken(j)' = Taken(j)
        /\ A!NoRequest' = A!NoRequest
    BY <2>1 DEF Bits, M, All, Patterns, Width, Dividend, A!Magnitude, A!Signed, Part, Taken,
                A!NoRequest, A!Request
  <2>3. Chosen' /\ Resting' /\ Asking'
    <3>1. Operands => Operands'
      BY <2>1, OperandsStay
    <3> QED
      BY <2>1, <2>2, <3>1 DEF IInv, Chosen, Resting, Asking
  <2>4. Summing' /\ Differing' /\ Multiplying'
    BY <2>1, <2>2 DEF IInv, Loops, Summing, Differing, Multiplying
  <2>5. /\ Halfway(i, x, y, res, rem)' <=> Halfway(i, x, y, res, rem)
        /\ Halfway(i, Dividend, y, res, rem)' <=> Halfway(i, Dividend, y, res, rem)
    BY <2>1, <2>2 DEF Halfway
  <2>6. Dividing' /\ ByWords'
    BY <2>1, <2>2, <2>5 DEF IInv, Loops, Dividing, ByWords
  <2> QED
    BY <2>3, <2>4, <2>6 DEF IInv, Loops
<1>3. CASE IntegerNext
  <2>1. Asking' /\ Resting' /\ Loops' /\ UNCHANGED type
    BY <1>1, <1>3, WorkKeeps DEF IntegerNext, Next
  <2>2. Chosen'
    BY <2>1 DEF IInv, Chosen, type
  <2> QED
    BY <2>1, <2>2 DEF IInv
<1> QED
  BY <1>2, <1>3

(* IInv is invariant: between any two steps of a call, the limbs, bits or words *)
(* a loop of wide.hpp or bigint.hpp has done so far stand for the number its     *)
(* caller is owed, whatever the limbs' size and number.                          *)
THEOREM IntegerInvariant ==
  IntegerSpec => []IInv
<1>1. Init => IInv
  BY IntegerInit
<1>2. IInv /\ [IntegerNext]_vars => IInv'
  BY IntegerStep
<1> QED
  BY <1>1, <1>2, PTL DEF IntegerSpec

LEMMA BitsAreConserved ==
  IInv => BitsConserved
<1> SUFFICES ASSUME IInv, stage \in {"bits", "words"}
             PROVE  LET dividend == IF stage = "bits" THEN x ELSE A!Magnitude(request.a, Bits)
                    IN dividend \div 2 ^ i = (res \div 2 ^ i) * y + rem /\ rem < y
  BY DEF BitsConserved
<1>1. CASE stage = "bits"
  <2>1. Halfway(i, x, y, res, rem) /\ y \in Nat
    <3>1. TypeNumbers
      BY Numbers DEF IInv
    <3> QED
      BY <1>1, <3>1 DEF IInv, Loops, Dividing, Patterns, TypeNumbers
  <2> QED
    BY <1>1, <2>1 DEF Halfway
<1>2. CASE stage = "words"
  <2>1. Halfway(i, Dividend, y, res, rem) /\ y \in Nat
    <3>1. TypeNumbers
      BY Numbers DEF IInv
    <3> QED
      BY <1>2, <3>1 DEF IInv, Loops, ByWords, TypeNumbers
  <2> QED
    BY <1>2, <2>1 DEF Halfway, Dividend
<1> QED
  BY <1>1, <1>2

\* Every division by bits conserves the dividend: the quotient's bits so far,
\* the remainder and the bits still to come are what was divided.
THEOREM NoBitLost ==
  IntegerSpec => []BitsConserved
<1>1. IInv => BitsConserved
  BY BitsAreConserved
<1> QED
  BY <1>1, IntegerInvariant, PTL

\* A carry of the product loops is one word, and a full product has none left.
THEOREM CarryIsOneWord ==
  IntegerSpec => []CarryFits
<1>1. IInv => CarryFits
  <2>1. IInv => TypeNumbers /\ Multiplying
    BY Numbers DEF IInv, Loops
  <2> QED
    BY <2>1, ProductCarries
<1> QED
  BY <1>1, IntegerInvariant, PTL

-----------------------------------------------------------------------------
(* What an operation owes *)

Owed(v) == A!RightAnswer(request) = A!Value(v)

LEMMA WrappingOwed ==
  ASSUME request.op \notin {"divmod", "signed_divmod", "divide_to_half", "mul_div"}
  PROVE  Owed(A!Wrapping(request))
BY DEF Owed, A!RightAnswer

LEMMA ArithmeticOwed ==
  LET a == request.a  b == request.b
  IN /\ request.op = "add" => Owed(<<(a + b) % All>>)
     /\ request.op = "sub" => Owed(<<(a - b) % All>>)
     /\ request.op = "mul" => Owed(<<(a * b) % All>>)
     /\ request.op = "mul_full" => Owed(<<a * b>>)
     /\ request.op = "negate" => Owed(<<(-a) % All>>)
     /\ request.op = "magnitude" => Owed(<<Dividend>>)
     /\ request.op = "imul" =>
          Owed(<<(A!Signed(a, W) * A!Signed(b, W)) % 2 ^ (2 * W)>>)
     /\ request.op = "div" => Owed(<<IF b = 0 THEN 0 ELSE a \div b>>)
     /\ request.op = "mod" => Owed(<<IF b = 0 THEN 0 ELSE a % b>>)
<1>1. 2 ^ (N * W) = All /\ N * W = Bits
  BY DEF All, Bits
<1>2. request.op \in {"add", "sub", "mul", "mul_full", "negate", "magnitude", "imul", "div", "mod"}
        => Owed(A!Wrapping(request))
  BY WrappingOwed
<1> QED
  BY <1>1, <1>2 DEF A!Wrapping, A!Pattern, Dividend

LEMMA BitsOwed ==
  LET a == request.a  b == request.b
  IN /\ request.op = "and" => Owed(<<A!Bitwise(a, b, {2})>>)
     /\ request.op = "or" => Owed(<<A!Bitwise(a, b, {1, 2})>>)
     /\ request.op = "xor" => Owed(<<A!Bitwise(a, b, {1})>>)
     /\ request.op = "less" => Owed(<<A!Truth(a < b)>>)
     /\ request.op = "signed_less" => Owed(<<A!Truth(A!Signed(a, Bits) < A!Signed(b, Bits))>>)
     /\ request.op = "bit_width" => Owed(<<A!BitWidth(a)>>)
     /\ request.op = "shl" => Owed(<<(a * 2 ^ b) % All>>)
     /\ request.op = "shr" => Owed(<<a \div 2 ^ b>>)
     /\ request.op = "sar" => Owed(<<(A!Signed(a, Bits) \div 2 ^ b) % All>>)
     /\ request.op = "extend" => Owed(<<A!Signed(a, b * W) % All>>)
<1>1. 2 ^ (N * W) = All /\ N * W = Bits
  BY DEF All, Bits
<1>2. request.op \in {"and", "or", "xor", "less", "signed_less", "bit_width", "shl", "shr", "sar",
                      "extend"}
        => Owed(A!Wrapping(request))
  BY WrappingOwed
<1> QED
  BY <1>1, <1>2 DEF A!Wrapping, A!Pattern

LEMMA WordsOwed ==
  LET s == A!Signed(request.a, Bits)
      t == A!Signed(request.b, W)
      q == A!H!Truncate(s, t)
  IN /\ request.op = "div_unsigned_word" => Owed(<<A!H!Truncate(s, request.b) % All>>)
     /\ request.op = "div_signed_word" => Owed(<<q % All>>)
     /\ request.op = "div_signed64" => Owed(<<q % M, (s - q * t) % M>>)
<1>1. 2 ^ (N * W) = All /\ N * W = Bits /\ 2 ^ W = M
  BY DEF All, Bits, M
<1>2. request.op \in {"div_unsigned_word", "div_signed_word", "div_signed64"}
        => Owed(A!Wrapping(request))
  BY WrappingOwed
<1> QED
  BY <1>1, <1>2 DEF A!Wrapping, A!Pattern

LEMMA CheckedOwed ==
  LET a == request.a  b == request.b  c == request.c
      sa == A!Signed(a, Bits)
      sb == A!Signed(b, HalfBits)
      sc == A!Signed(c, HalfBits)
      q == A!H!Truncate(sa, sb)
      right == A!RightAnswer(request)
  IN /\ request.op = "divmod" =>
          right = IF b = 0 THEN A!Failure("division_by_zero") ELSE A!Value(<<a \div b, a % b>>)
     /\ request.op = "signed_divmod" =>
          right = IF b = 0 THEN A!Failure("division_by_zero")
                  ELSE IF q >= 2 ^ (Bits - 1) THEN A!Failure("overflow")
                  ELSE A!Value(<<q % All, (sa - q * sb) % HalfAll>>)
     /\ request.op = "divide_to_half" => right = A!Rounded(sa, sb, request.rounding)
     /\ request.op = "mul_div" =>
          right = A!Rounded(A!Signed(a, HalfBits) * sb, sc, request.rounding)
<1>1. /\ N * W = Bits /\ 2 ^ (N * W) = All /\ A!Half = HalfBits /\ 2 ^ A!Half = HalfAll
      /\ 2 ^ (N * W - 1) = 2 ^ (Bits - 1)
  BY DEF All, Bits, A!Half, HalfBits, HalfAll
<1> QED
  BY <1>1 DEF A!RightAnswer, A!Pattern

LEMMA ModShift ==
  ASSUME NEW b \in Int, b > 0, NEW v \in Int, NEW k \in Int
  PROVE  (v + k * b) % b = v % b /\ (v - k * b) % b = v % b /\ v % b \in 0 .. b - 1
<1>1. v = (v \div b) * b + (v % b) /\ v \div b \in Int /\ v % b \in Int /\ 0 <= v % b /\ v % b < b
  BY DivMod
<1> DEFINE q == v \div b
           r == v % b
<1> HIDE DEF q, r
<1>2. v = q * b + r /\ q \in Int /\ r \in Int /\ 0 <= r /\ r < b
  BY <1>1 DEF q, r
<1>3. (q + k) * b = q * b + k * b /\ (q - k) * b = q * b - k * b /\ k * b \in Int /\ q * b \in Int
  BY <1>2
<1> DEFINE qb == q * b  kb == k * b
<1>4. /\ v = qb + r /\ (q + k) * b = qb + kb /\ (q - k) * b = qb - kb /\ kb \in Int /\ qb \in Int
  BY <1>2, <1>3
<1> HIDE DEF qb, kb
<1>5. /\ v + kb = (q + k) * b + r /\ v - kb = (q - k) * b + r /\ v + kb \in Int /\ v - kb \in Int
      /\ q + k \in Int /\ q - k \in Int
  BY <1>2, <1>4
<1>6. (v + kb) % b = r /\ (v - kb) % b = r
  BY <1>2, <1>5, DivUnique
<1> QED
  BY <1>1, <1>6 DEF kb, r

LEMMA AllIs ==
  ASSUME TypeNumbers
  PROVE  All \in Nat /\ All > 0 /\ Patterns \subseteq Nat /\ \A v \in Patterns : v < All /\ v % All = v
<1>1. All \in Nat /\ All > 0
  BY HalfPatterns DEF TypeNumbers
<1>2. Patterns \subseteq Nat /\ \A v \in Patterns : v < All
  BY <1>1 DEF Patterns
<1>3. \A v \in Patterns : v % All = v
  BY <1>1, <1>2, RemainderOfSmall
<1> QED
  BY <1>1, <1>2, <1>3

\* Two's complement: the complement and one.
LEMMA ComplementAndOne ==
  ASSUME TypeNumbers, NEW v \in Patterns
  PROVE  /\ ((All - 1 - v) + 1) % All = (-v) % All
         /\ Negative(v) => ((All - 1 - v) + 1) % All = A!Magnitude(v, Bits)
         /\ ~Negative(v) => v = A!Magnitude(v, Bits)
<1>1. All \in Int /\ All > 0 /\ v \in Nat /\ v < All
  BY AllIs
<1>2. (All - 1 - v) + 1 = -v + 1 * All /\ -v \in Int
  BY <1>1
<1>3. (-v + 1 * All) % All = (-v) % All
  BY <1>1, <1>2, ModShift
<1>4. A!Magnitude(v, Bits) = IF Negative(v) THEN All - v ELSE v
  BY WideSign
<1>5. Negative(v) => v > 0
  BY NegativeTop, HalfPatterns, <1>1
<1>6. Negative(v) => ((All - 1 - v) + 1) % All = All - v
  <2> DEFINE m == All - v
  <2>1. Negative(v) => m \in Nat /\ m < All
    BY <1>1, <1>5
  <2>2. (All - 1 - v) + 1 = m
    BY <1>1
  <2> HIDE DEF m
  <2>3. Negative(v) => m % All = m
    BY <2>1, <1>1, RemainderOfSmall
  <2> QED
    BY <2>2, <2>3 DEF m
<1> QED
  BY <1>2, <1>3, <1>4, <1>6

LEMMA LessRight ==
  ASSUME TypeNumbers, NEW u \in Patterns, NEW v \in Patterns
  PROVE  /\ Indicator(Below(u, v)) = A!Truth(u < v)
         /\ Indicator(SignedBelow(u, v)) = A!Truth(A!Signed(u, Bits) < A!Signed(v, Bits))
<1>1. Below(u, v) <=> u < v
  BY BelowIsLess
<1> DEFINE s == A!Signed(u, Bits)
           t == A!Signed(v, Bits)
<1>2. /\ s = (IF Negative(u) THEN u - All ELSE u) /\ s \in Int /\ (s < 0 <=> Negative(u))
      /\ t = (IF Negative(v) THEN v - All ELSE v) /\ t \in Int /\ (t < 0 <=> Negative(v))
  BY WideSign
<1>3. u \in Int /\ v \in Int /\ All \in Int
  BY AllIs
<1> HIDE DEF s, t
<1>4. SignedBelow(u, v) <=> s < t
  <2>1. CASE Negative(u) = Negative(v)
    <3>1. Negative(u) <=> Negative(v)
      BY <2>1
    <3>2. SignedBelow(u, v) <=> u < v
      BY <2>1, <1>1 DEF SignedBelow
    <3>3. u < v <=> s < t
      BY <3>1, <1>2, <1>3
    <3> QED
      BY <3>2, <3>3
  <2>2. CASE Negative(u) # Negative(v)
    <3>0. Negative(u) \in BOOLEAN /\ Negative(v) \in BOOLEAN
      BY DEF Negative
    <3>1. Negative(u) <=> ~Negative(v)
      BY <2>2, <3>0
    <3>2. SignedBelow(u, v) <=> Negative(u)
      BY <2>2 DEF SignedBelow
    <3>3. Negative(u) <=> s < t
      BY <3>1, <1>2
    <3> QED
      BY <3>2, <3>3
  <2> QED
    BY <2>1, <2>2
<1> QED
  BY <1>1, <1>4 DEF Indicator, A!Truth, s, t

\* What uint128 writes out: three products, the highest of them dropped.
LEMMA TwoLimbProduct ==
  ASSUME TypeNumbers, N = 2, NEW u \in Patterns, NEW v \in Patterns
  PROVE  LET low == mul64x64(Part(u, 0), Part(v, 0))
         IN low.lo + M * ((low.hi + Part(u, 0) * Part(v, 1) + Part(u, 1) * Part(v, 0)) % M)
              = (u * v) % All
<1> DEFINE a0 == u % M
           a1 == u \div M
           b0 == v % M
           b1 == v \div M
           low == mul64x64(a0, b0)
           lo == low.lo
           hi == low.hi
           t == hi + a0 * b1 + a1 * b0
           h == t % M
           g == t \div M
<1>1. /\ Part(u, 0) = a0 /\ Part(u, 1) = a1 /\ u = a1 * M + a0 /\ a0 \in 0 .. M - 1
      /\ a1 \in 0 .. M - 1 /\ All = M * M
      /\ Part(v, 0) = b0 /\ Part(v, 1) = b1 /\ v = b1 * M + b0 /\ b0 \in 0 .. M - 1
      /\ b1 \in 0 .. M - 1
  BY TwoLimbs
<1>2. M \in Nat /\ M >= 4
  BY DEF TypeNumbers
<1> HIDE DEF a0, a1, b0, b1
<1>3. hi \in 0 .. M - 1 /\ lo \in 0 .. M - 1 /\ hi * M + lo = a0 * b0
  BY <1>1, WordRight
<1> HIDE DEF low, lo, hi
<1>4. /\ a0 * b1 \in Nat /\ a1 * b0 \in Nat /\ a0 * b0 \in Nat /\ a1 * b1 \in Nat /\ t \in Nat
  <2>1. \A m, n \in Nat : m * n \in Nat
    OBVIOUS
  <2>2. a0 * b1 \in Nat /\ a1 * b0 \in Nat /\ a0 * b0 \in Nat /\ a1 * b1 \in Nat
    BY <2>1, <1>1, <1>2
  <2> QED
    BY <2>2, <1>2, <1>3
<1> DEFINE p01 == a0 * b1
           p10 == a1 * b0
           p00 == a0 * b0
           p11 == a1 * b1
<1>5. u * v = p11 * (M * M) + (p01 + p10) * M + p00
  BY <1>1, <1>2
<1>6. t = hi + p01 + p10
  OBVIOUS
<1> HIDE DEF p01, p10, p00, p11, t
<1>7. t = g * M + h /\ g \in Nat /\ h \in 0 .. M - 1
  BY <1>2, <1>4, DivideNat
<1> HIDE DEF g, h
<1>8. u * v = (p11 + g) * (M * M) + (h * M + lo)
  <2>1. t * M = hi * M + (p01 + p10) * M
    BY <1>2, <1>3, <1>4, <1>6 DEF p01, p10
  <2>2. t * M = g * (M * M) + h * M
    <3>1. (g * M + h) * M = g * (M * M) + h * M
      BY <1>2, <1>7
    <3> QED
      BY <3>1, <1>7
  <2>3. (p11 + g) * (M * M) = p11 * (M * M) + g * (M * M)
    BY <1>2, <1>4, <1>7 DEF p11
  <2> DEFINE hm == hi * M  pm == (p01 + p10) * M  gm == g * (M * M)  h2 == h * M
             pp == p11 * (M * M)
  <2>4. /\ u * v = pp + pm + p00 /\ hm + lo = p00 /\ gm + h2 = hm + pm
        /\ (p11 + g) * (M * M) = pp + gm
    BY <1>3, <1>5, <2>1, <2>2, <2>3 DEF p00
  <2>5. hm \in Int /\ pm \in Int /\ gm \in Int /\ h2 \in Int /\ pp \in Int /\ p00 \in Int
        /\ lo \in Int
    <3>1. \A m, n \in Int : m * n \in Int
      OBVIOUS
    <3>2. p01 + p10 \in Int /\ p11 \in Int /\ p00 \in Int
      BY <1>4 DEF p01, p10, p11, p00
    <3> QED
      BY <3>1, <3>2, <1>2, <1>3, <1>7
  <2> HIDE DEF hm, pm, gm, h2, pp
  <2>6. u * v = (pp + gm) + (h2 + lo)
    BY <2>4, <2>5
  <2> QED
    BY <2>4, <2>6 DEF h2
<1>9. h * M + lo \in 0 .. M * M - 1 /\ h * M \in Int
  <2>1. 0 <= h * M /\ h * M <= (M - 1) * M /\ h * M \in Int
    BY <1>2, <1>7, ProductBelow
  <2>2. (M - 1) * M = M * M - M /\ M * M \in Int
    BY <1>2
  <2> QED
    BY <2>1, <2>2, <1>2, <1>3
<1>10. (u * v) % (M * M) = h * M + lo
  <2> DEFINE mm == M * M
             uv == u * v
             r == h * M + lo
             q == p11 + g
  <2>1. mm \in Int /\ mm > 0
    <3>1. M * M > 0
      BY <1>2, PositiveProduct
    <3> QED
      BY <3>1, <1>2
  <2>2. q \in Int /\ r \in Int /\ 0 <= r /\ r < mm
    BY <1>2, <1>4, <1>7, <1>9, <2>1 DEF p11
  <2>3. uv = q * mm + r /\ uv \in Int
    <3>1. u \in Int /\ v \in Int
      BY AllIs
    <3> QED
      BY <3>1, <1>8
  <2> HIDE DEF mm, uv, r, q
  <2>4. uv % mm = r
    BY <2>1, <2>2, <2>3, DivUnique
  <2> QED
    BY <2>4 DEF mm, uv, r
<1>11. lo + M * h = h * M + lo
  BY <1>2, <1>3, <1>7, <1>9
<1> QED
  BY <1>1, <1>10, <1>11 DEF low, lo, hi, h, t

\* Two limbs negated: the low one, and the high one's complement with its carry.
LEMMA NegatedLimbs ==
  ASSUME NEW m \in Nat, m >= 4, NEW l \in 0 .. m - 1, NEW h \in 0 .. m - 1
  PROVE  LET lo == (m - l) % m
             hi == (m - 1 - h + Indicator(lo = 0)) % m
         IN lo + m * hi = (-(h * m + l)) % (m * m)
<1> DEFINE lo == (m - l) % m
           hi == (m - 1 - h + Indicator(lo = 0)) % m
           v == h * m + l
           mm == m * m
<1>1. mm \in Int /\ mm > 0 /\ h * m \in Int /\ v \in Int
  <2>1. m * m > 0
    BY PositiveProduct
  <2> QED
    BY <2>1
<1>2. CASE l = 0 /\ h = 0
  <2>1. m % m = 0 /\ 0 % mm = 0
    <3>1. m = 1 * m + 0 /\ 0 = 0 * mm + 0
      BY <1>1
    <3> HIDE DEF mm
    <3> QED
      BY <3>1, <1>1, DivUnique
  <2>2. lo = 0
    BY <2>1, <1>2
  <2>3. hi = 0
    BY <2>1, <2>2, <1>2 DEF Indicator
  <2>4. v = 0
    BY <1>2
  <2> HIDE DEF lo, hi, v
  <2>5. lo + m * hi = (-v) % mm
    BY <2>1, <2>2, <2>3, <2>4
  <2> QED
    BY <2>5 DEF v, lo, hi
<1>3. CASE ~(l = 0 /\ h = 0)
  <2>1. lo \in Int /\ hi \in Int /\ lo + m * hi = mm - v
    <3>1. CASE l = 0
      <4>1. m % m = 0
        <5>1. m = 1 * m + 0
          OBVIOUS
        <5> QED
          BY <5>1, DivUnique
      <4>2. lo = 0
        BY <4>1, <3>1
      <4> DEFINE g == m - h
      <4>3. g \in Nat /\ g < m /\ m - 1 - h + 1 = g
        BY <3>1, <1>3
      <4> HIDE DEF g
      <4>4. g % m = g
        BY <4>3, RemainderOfSmall
      <4>5. hi = g
        BY <4>2, <4>3, <4>4 DEF Indicator
      <4>6. m * g = mm - h * m
        BY DEF g
      <4> HIDE DEF lo, hi
      <4>7. lo + m * hi = mm - h * m
        BY <4>2, <4>5, <4>6, <1>1
      <4> QED
        BY <4>2, <4>3, <4>5, <4>7, <3>1, <1>1
    <3>2. CASE l # 0
      <4> DEFINE k == m - l
                 g == m - 1 - h
      <4>1. k \in Nat /\ k < m /\ k # 0 /\ g \in Nat /\ g < m
        BY <3>2
      <4> HIDE DEF k, g
      <4>2. k % m = k /\ g % m = g
        BY <4>1, RemainderOfSmall
      <4>3. lo = k
        BY <4>2 DEF k
      <4>4. hi = (g + 0) % m
        BY <4>1, <4>3 DEF Indicator, g
      <4>5. hi = g
        BY <4>1, <4>2, <4>4
      <4>6. m * g = mm - m - h * m
        BY DEF g
      <4>7. k = m - l
        BY DEF k
      <4> HIDE DEF lo, hi, mm
      <4> DEFINE mg == m * g  hm == h * m
      <4>8. mg = mm - m - hm /\ mg \in Int /\ hm \in Int /\ v = hm + l /\ lo + m * hi = lo + mg
        BY <4>1, <4>5, <4>6, <1>1
      <4> HIDE DEF mg, hm, v
      <4>9. lo + m * hi = mm - v
        BY <4>1, <4>3, <4>7, <4>8, <1>1
      <4> QED
        BY <4>1, <4>3, <4>5, <4>9
    <3> QED
      BY <3>1, <3>2
  <2>2. 0 < v /\ v < mm
    <3>1. h * m <= (m - 1) * m /\ 0 <= h * m
      BY ProductBelow
    <3>2. (m - 1) * m = mm - m
      OBVIOUS
    <3>3. h > 0 => h * m > 0
      BY PositiveProduct
    <3> DEFINE hm == h * m
    <3>4. hm \in Int /\ hm <= mm - m /\ 0 <= hm /\ (h > 0 => hm > 0) /\ v = hm + l
      BY <3>1, <3>2, <3>3, <1>1
    <3> HIDE DEF hm, v, mm
    <3> QED
      BY <3>4, <1>1, <1>3
  <2> HIDE DEF v, mm, lo, hi
  <2>3. -v = (-1) * mm + (mm - v) /\ 0 <= mm - v /\ mm - v < mm /\ mm - v \in Int /\ -v \in Int
    BY <1>1, <2>2
  <2>4. (-v) % mm = mm - v
    BY <1>1, <2>3, DivUnique
  <2> QED
    BY <2>1, <2>4 DEF v, mm, lo, hi
<1> QED
  BY <1>2, <1>3

\* The signed product of two words.
LEMMA SignedWordProductRight ==
  ASSUME TypeNumbers, NEW u \in 0 .. M - 1, NEW v \in 0 .. M - 1
  PROVE  LET p == mul64x64(A!Magnitude(u, W), A!Magnitude(v, W))
             lo == (M - p.lo) % M
             hi == (M - 1 - p.hi + Indicator(lo = 0)) % M
         IN (IF NegativeWord(u) = NegativeWord(v) THEN p.lo + M * p.hi ELSE lo + M * hi)
              = (A!Signed(u, W) * A!Signed(v, W)) % 2 ^ (2 * W)
<1> DEFINE a == A!Magnitude(u, W)
           b == A!Magnitude(v, W)
           s == A!Signed(u, W)
           t == A!Signed(v, W)
           p == mul64x64(a, b)
           l == p.lo
           h == p.hi
           lo == (M - l) % M
           hi == (M - 1 - h + Indicator(lo = 0)) % M
           mm == M * M
           ab == a * b
<1>1. M \in Nat /\ M >= 4
  BY DEF TypeNumbers
<1>2. /\ a \in 0 .. M - 1 /\ s = (IF NegativeWord(u) THEN -a ELSE a)
      /\ b \in 0 .. M - 1 /\ t = (IF NegativeWord(v) THEN -b ELSE b)
  BY WordSign
<1>3. 2 ^ (2 * W) = mm
  <2>1. W \in Nat /\ W + W <= Bits /\ Bits \in Nat /\ PowerLaws(2, Bits) /\ W \in 0 .. Bits
    <3>1. N * W \in Nat /\ 2 * W <= N * W
      <4>1. 0 <= 2 * W /\ 2 * W <= N * W
        BY ProductBelow DEF TypeNumbers
      <4> QED
        BY <4>1 DEF TypeNumbers
    <3> QED
      BY <3>1 DEF TypeNumbers, Bits
  <2>2. 2 ^ (W + W) = 2 ^ W * 2 ^ W
    BY <2>1, PowersTimes
  <2>3. W + W = 2 * W
    BY <2>1
  <2> QED
    BY <2>2, <2>3 DEF M
<1> HIDE DEF a, b, s, t
<1>4. h \in 0 .. M - 1 /\ l \in 0 .. M - 1 /\ h * M + l = ab
  BY <1>2, WordRight
<1> HIDE DEF p, l, h
<1>5. ab \in Nat /\ ab < mm
  <2>1. a * b \in Nat /\ a * b + 2 * (M - 1) < M * M /\ M * M \in Int
    BY <1>1, <1>2, WordAndTwo
  <2> HIDE DEF ab, mm
  <2> QED
    BY <2>1, <1>1 DEF ab, mm
<1>6. mm \in Nat
  BY <1>1
<1>7. NegativeWord(u) \in BOOLEAN /\ NegativeWord(v) \in BOOLEAN
  BY DEF NegativeWord
<1>8. CASE NegativeWord(u) = NegativeWord(v)
  <2>1. s * t = ab
    <3>1. (-a) * (-b) = a * b
      BY <1>1, <1>2
    <3> QED
      BY <3>1, <1>2, <1>8
  <2>2. ab % mm = ab
    <3> HIDE DEF ab, mm
    <3> QED
      BY <1>5, <1>6, RemainderOfSmall
  <2>3. l + M * h = ab
    <3>1. M * h = h * M /\ h * M \in Int
      BY <1>1, <1>4
    <3> HIDE DEF ab
    <3> QED
      BY <3>1, <1>4
  <2> QED
    BY <2>1, <2>2, <2>3, <1>3, <1>8 DEF l, h, p, a, b, s, t
<1>9. CASE NegativeWord(u) # NegativeWord(v)
  <2>1. s * t = -ab
    <3>1. (-a) * b = -(a * b) /\ a * (-b) = -(a * b)
      BY <1>1, <1>2
    <3> QED
      BY <3>1, <1>2, <1>7, <1>9
  <2>2. lo + M * hi = (-(h * M + l)) % mm
    BY <1>1, <1>4, NegatedLimbs
  <2>3. lo + M * hi = (s * t) % mm
    BY <2>1, <2>2, <1>4
  <2> QED
    BY <2>3, <1>3, <1>9 DEF l, h, p, a, b, s, t
<1> QED
  BY <1>8, <1>9

\* What a division leaves has the numerator's sign.
LEMMA TruncateLeaves ==
  ASSUME NEW a \in Nat, NEW b \in Nat, b > 0, NEW n \in Int, NEW d \in Int,
         n \in {a, -a}, d \in {b, -b}
  PROVE  n - A!H!Truncate(n, d) * d = IF n < 0 THEN -(a % b) ELSE a % b
<1> DEFINE q == a \div b
           r == a % b
           t == A!H!Truncate(n, d)
<1>1. a = q * b + r /\ q \in Nat /\ r \in 0 .. b - 1
  BY DivideNat
<1>2. t = IF (n < 0) # (d < 0) THEN -q ELSE q
  BY TruncateMagnitudes
<1> HIDE DEF q, r, t
<1>3. q * b \in Int /\ (-q) * (-b) = q * b /\ (-q) * b = -(q * b) /\ q * (-b) = -(q * b)
  BY <1>1
<1> DEFINE qb == q * b
<1>4. qb \in Int /\ a = qb + r
  BY <1>1, <1>3
<1>5. r \in Int
  BY <1>1
<1>6. CASE n < 0
  <2>1. n = -a /\ a > 0
    BY <1>6
  <2>2. t * d = -qb
    <3>1. CASE d < 0
      BY <3>1, <1>2, <1>3, <1>6
    <3>2. CASE ~(d < 0)
      BY <3>2, <1>2, <1>3, <1>6
    <3> QED
      BY <3>1, <3>2
  <2> HIDE DEF qb
  <2>3. n - t * d = -r
    BY <2>1, <2>2, <1>4, <1>5
  <2> QED
    BY <2>3, <1>6 DEF r, t
<1>7. CASE ~(n < 0)
  <2>1. n = a
    BY <1>7
  <2>2. t * d = qb
    <3>1. CASE d < 0
      BY <3>1, <1>2, <1>3, <1>7
    <3>2. CASE ~(d < 0)
      BY <3>2, <1>2, <1>3, <1>7
    <3> QED
      BY <3>1, <3>2
  <2> HIDE DEF qb
  <2>3. n - t * d = r
    BY <2>1, <2>2, <1>4, <1>5
  <2> QED
    BY <2>3, <1>7 DEF r, t
<1> QED
  BY <1>6, <1>7

\* The signs are put back on what the magnitudes give.
LEMMA WordsRight ==
  ASSUME TypeNumbers, N = 2, request.a \in Patterns, request.b \in 1 .. M - 1,
         request.op \in ByWord \union {"div_signed64"}
  PROVE  LET d == DivisorMagnitude
             s == Negative(request.a) # SignedDivisor
         IN Owed(IF request.op = "div_signed64"
                   THEN <<Signed(Dividend \div d, s, W), Signed(Dividend % d, Negative(request.a), W)>>
                   ELSE <<Signed(Dividend \div d, s, Bits)>>)
<1> DEFINE d == DivisorMagnitude
           s == Negative(request.a) # SignedDivisor
           v == Dividend
           n == A!Signed(request.a, Bits)
           e == IF request.op = "div_unsigned_word" THEN request.b ELSE A!Signed(request.b, W)
           q == A!H!Truncate(n, e)
<1>1. M \in Nat /\ M >= 4 /\ d \in 1 .. M - 1 /\ 2 ^ W = M /\ 2 ^ Bits = All
  BY DivisorRight DEF TypeNumbers, M, All
<1>2. v \in Nat /\ n \in Int /\ n = (IF Negative(request.a) THEN -v ELSE v)
      /\ (n < 0 <=> Negative(request.a))
  <2>1. v \in Patterns
    BY WideSign DEF Dividend
  <2>2. v \in Nat
    BY <2>1, AllIs
  <2> QED
    BY <2>2, WideSign DEF Dividend
<1>3. e \in Int /\ e \in {d, -d} /\ (e < 0 <=> SignedDivisor)
  <2>1. CASE request.op = "div_unsigned_word"
    <3>1. d = request.b /\ ~SignedDivisor
      BY <2>1, DivisorRight
    <3> QED
      BY <3>1, <2>1, <1>1
  <2>2. CASE request.op # "div_unsigned_word"
    <3>1. d = A!Magnitude(request.b, W) /\ (SignedDivisor <=> NegativeWord(request.b))
      BY <2>2, DivisorRight
    <3>2. request.b \in 0 .. M - 1
      BY <1>1
    <3>3. /\ e \in Int /\ (e < 0 <=> NegativeWord(request.b))
          /\ e = IF NegativeWord(request.b) THEN -d ELSE d
      BY <3>1, <3>2, <2>2, WordSign
    <3> QED
      BY <3>1, <3>3
  <2> QED
    BY <2>1, <2>2
<1> HIDE DEF n, e, v, d
<1>4. d \in Nat /\ d > 0 /\ n \in {v, -v}
  BY <1>1, <1>2
<1>5. (n < 0) # (e < 0) <=> s
  <2>1. (n < 0) = Negative(request.a) /\ (e < 0) = SignedDivisor
    <3>1. Negative(request.a) \in BOOLEAN /\ SignedDivisor \in BOOLEAN
      BY DEF Negative, SignedDivisor
    <3> QED
      BY <3>1, <1>2, <1>3
  <2> QED
    BY <2>1
<1>6. q = IF s THEN -(v \div d) ELSE v \div d
  <2>1. q = IF (n < 0) # (e < 0) THEN -(v \div d) ELSE v \div d
    BY <1>2, <1>3, <1>4, TruncateMagnitudes
  <2> HIDE DEF q, s
  <2> QED
    BY <2>1, <1>5
<1>7. n - q * e = IF n < 0 THEN -(v % d) ELSE v % d
  BY <1>2, <1>3, <1>4, TruncateLeaves
<1> HIDE DEF q, s
<1>8. q % M = Signed(v \div d, s, W) /\ q % All = Signed(v \div d, s, Bits)
  BY <1>1, <1>6 DEF Signed
<1>9. (n - q * e) % M = Signed(v % d, Negative(request.a), W)
  BY <1>1, <1>2, <1>7 DEF Signed
<1>10. CASE request.op = "div_signed64"
  <2>1. Owed(<<q % M, (n - q * e) % M>>)
    BY <1>10, WordsOwed DEF q, n, e
  <2> QED
    BY <2>1, <1>8, <1>9, <1>10 DEF d, v, s
<1>11. CASE request.op = "div_unsigned_word"
  <2>1. Owed(<<q % All>>)
    BY <1>11, WordsOwed DEF q, n, e
  <2> QED
    BY <2>1, <1>8, <1>11 DEF d, v, s
<1>12. CASE request.op = "div_signed_word"
  <2>1. Owed(<<q % All>>)
    BY <1>12, WordsOwed DEF q, n, e
  <2> QED
    BY <2>1, <1>8, <1>12 DEF d, v, s
<1> QED
  BY <1>10, <1>11, <1>12 DEF ByWord

-----------------------------------------------------------------------------
(* The checked divisions by half the width *)

\* Rounding is proved about in MachineWordProof, for words of any size.
P == INSTANCE MachineWordProof WITH Word <- Bits

LEMMA HalfNumbers ==
  ASSUME TypeNumbers, Chosen
  PROVE  /\ HalfBits \in Nat /\ HalfBits >= 1 /\ Bits = HalfBits + HalfBits
         /\ HalfAll \in Nat /\ HalfAll \div 2 \in Nat /\ HalfAll \div 2 > 0
         /\ HalfAll = 2 * (HalfAll \div 2) /\ HalfAll \div 2 = 2 ^ (HalfBits - 1)
         /\ All = HalfAll * HalfAll
         /\ 2 ^ (Bits - 1) = (HalfAll \div 2) * HalfAll
<1>1. PICK s \in Shapes : W = s[1] /\ N = s[2]
  BY DEF Chosen
<1>2. W \in Nat /\ W % 2 = 0 /\ W >= 2 /\ N \in Nat /\ N >= 2
  BY <1>1, ShapesAssumption DEF TypeNumbers
<1>3. HalfBits \in Nat /\ HalfBits >= 1 /\ Bits = HalfBits + HalfBits
  <2>1. W = (W \div 2) + (W \div 2) /\ W \div 2 \in Nat
    BY <1>2
  <2> DEFINE u == W \div 2
  <2>2. N * W = N * u + N * u /\ N * u \in Nat /\ u >= 1
    <3>1. u \in Nat /\ W = u + u /\ u >= 1
      BY <2>1, <1>2
    <3> HIDE DEF u
    <3> QED
      BY <3>1, <1>2
  <2>3. N * u >= 1
    <3> HIDE DEF u
    <3>1. u \in Nat /\ u > 0 /\ N > 0
      BY <2>1, <2>2, <1>2 DEF u
    <3> QED
      BY <3>1, <1>2, PositiveProduct
  <2> DEFINE n == N * u
  <2>4. Bits = n + n /\ n \in Nat /\ n >= 1
    BY <2>2, <2>3 DEF Bits
  <2> HIDE DEF n
  <2> QED
    BY <2>4 DEF HalfBits
<1> DEFINE k == HalfBits
           h == 2 ^ (k - 1)
<1>4. /\ k - 1 \in 0 .. Bits - 1 /\ k - 1 \in 0 .. Bits /\ k \in 0 .. Bits /\ (k - 1) + 1 = k
      /\ k + k = Bits /\ k \in Nat /\ k + (k - 1) = Bits - 1 /\ Bits \in Nat
      /\ k + (k - 1) <= Bits /\ k + k <= Bits
  BY <1>3
<1>5. h \in Nat /\ h > 0 /\ 2 ^ ((k - 1) + 1) = 2 * h
  BY <1>4, BitPlaces
<1>6. HalfAll = 2 * h
  BY <1>4, <1>5 DEF HalfAll
<1>7. 2 ^ (k + k) = 2 ^ k * 2 ^ k /\ 2 ^ (k + (k - 1)) = 2 ^ k * 2 ^ (k - 1)
  <2>1. PowerLaws(2, Bits)
    BY DEF TypeNumbers
  <2> HIDE DEF k
  <2> QED
    BY <1>4, <2>1, PowersTimes
<1>8. All = HalfAll * HalfAll /\ 2 ^ (Bits - 1) = HalfAll * h
  BY <1>4, <1>7 DEF All, HalfAll
<1> HIDE DEF h
<1>9. HalfAll \div 2 = h
  BY <1>5, <1>6
<1>10. HalfAll * h = h * HalfAll
  BY <1>5, <1>6
<1> QED
  BY <1>3, <1>5, <1>6, <1>8, <1>9, <1>10 DEF h

\* The sign of a pattern of half the width.
LEMMA HalfSign ==
  ASSUME TypeNumbers, Chosen, NEW v \in 0 .. HalfAll - 1
  PROVE  LET a == HalfMagnitude(v)
             s == A!Signed(v, HalfBits)
         IN /\ a \in Nat /\ a <= HalfAll \div 2
            /\ a = IF NegativeHalf(v) THEN HalfAll - v ELSE v
            /\ s \in Int /\ (s < 0 <=> NegativeHalf(v))
            /\ s = IF NegativeHalf(v) THEN -a ELSE a
            /\ a > 0 <=> v # 0
<1> DEFINE h == 2 ^ (HalfBits - 1)
           s == A!Signed(v, HalfBits)
           a == A!Magnitude(v, HalfBits)
<1>1. /\ h \in Nat /\ h > 0 /\ 2 ^ HalfBits = 2 * h /\ HalfAll = 2 ^ HalfBits
      /\ v \in 0 .. 2 ^ HalfBits - 1 /\ HalfAll \div 2 = h
  BY HalfNumbers DEF HalfAll
<1>2. NegativeHalf(v) <=> v >= h
  BY <1>1 DEF NegativeHalf
<1>3. /\ s = (IF v >= h THEN v - 2 ^ HalfBits ELSE v) /\ s \in Int /\ (s < 0 <=> v >= h)
      /\ a = (IF v >= h THEN 2 ^ HalfBits - v ELSE v)
      /\ a \in 0 .. 2 ^ HalfBits - 1 /\ a <= h
  BY <1>1, TwosComplement
<1> HIDE DEF s, a, h
<1>4. v \in Int /\ HalfAll \in Int /\ a \in Int /\ v < HalfAll /\ v >= 0
  BY <1>1, <1>3
<1>5. s = (IF NegativeHalf(v) THEN -a ELSE a) /\ (a > 0 <=> v # 0)
  BY <1>1, <1>2, <1>3, <1>4
<1> QED
  BY <1>1, <1>2, <1>3, <1>4, <1>5 DEF a, s, h, HalfMagnitude

LEMMA SameMagnitude ==
  ASSUME NEW q, NEW r, NEW d, NEW negative_, NEW rounding, NEW limit
  PROVE  /\ R!RoundMagnitude(q, r, d, negative_, rounding, limit)
              = P!RoundMagnitude(q, r, d, negative_, rounding, limit)
         /\ R!Modes = P!Modes
<1>1. P!M = 2 ^ Bits
  BY DEF P!M
<1>2. \A a, b : R!Tie(a, b) = P!Tie(a, b)
  BY DEF R!Tie, P!Tie, R!Indicator, P!Indicator
<1>3. \A a, b, c : R!NearestEvenIncrement(a, b, c) = P!NearestEvenIncrement(a, b, c)
  BY <1>1, <1>2 DEF R!NearestEvenIncrement, P!NearestEvenIncrement
<1>4. R!Increment(q, r, d, negative_, rounding) = P!Increment(q, r, d, negative_, rounding)
  BY <1>1, <1>3 DEF R!Increment, P!Increment
<1>5. R!RoundMagnitude(q, r, d, negative_, rounding, limit)
        = P!RoundMagnitude(q, r, d, negative_, rounding, limit)
  BY <1>4 DEF R!RoundMagnitude, P!RoundMagnitude, R!Failure, P!Failure, R!Value, P!Value
<1> QED
  BY <1>5 DEF R!Modes, P!Modes

LEMMA SameRounding ==
  ASSUME NEW n, NEW d, NEW rounding
  PROVE  A!H!Truncate(n, d) = P!Truncate(n, d) /\ A!H!Rounded(n, d, rounding) = P!Rounded(n, d, rounding)
<1>1. \A a, b : A!H!Floor(a, b) = P!Floor(a, b)
  BY DEF A!H!Floor, P!Floor
<1>2. \A a, b : A!H!Ceiling(a, b) = P!Ceiling(a, b)
  BY <1>1 DEF A!H!Ceiling, P!Ceiling
<1>3. \A a, b : A!H!Truncate(a, b) = P!Truncate(a, b)
  BY <1>1, <1>2 DEF A!H!Truncate, P!Truncate
<1>4. \A a, b, c : A!H!Distance(a, b, c) = P!Distance(a, b, c)
  BY DEF A!H!Distance, P!Distance
<1>5. \A a, b : A!H!NearestTo(a, b) = P!NearestTo(a, b)
  BY <1>1, <1>2, <1>4 DEF A!H!NearestTo, P!NearestTo
<1>6. A!H!Rounded(n, d, rounding) = P!Rounded(n, d, rounding)
  BY <1>1, <1>2, <1>3, <1>4, <1>5 DEF A!H!Rounded, P!Rounded
<1> QED
  BY <1>3, <1>6

\* q and r are the quotient and the remainder of a numerator n of that sign.
Parted(n, d, q, r, sign, rounding, limit) ==
  /\ P!WordWraps /\ n \in Int /\ q \in Nat /\ limit \in Nat /\ sign \in BOOLEAN
  /\ d \in 1 .. P!M - 1 /\ r \in 0 .. d - 1 /\ rounding \in P!Modes
  /\ n = IF sign THEN -(q * d + r) ELSE q * d + r

\* What round_magnitude() makes of them, and what is meant.
RoundedTogether(n, d, q, r, sign, rounding, limit) ==
  LET w == R!RoundMagnitude(q, r, d, sign, rounding, limit)
      t == IF sign THEN -q ELSE q
  IN /\ A!H!Truncate(n, d) = t
     /\ n = d * t <=> r = 0
     /\ q > limit => w = R!Failure("overflow")
     /\ q <= limit /\ rounding = "exact" /\ r # 0 => w = R!Failure("inexact")
     /\ q <= limit /\ ~(rounding = "exact" /\ r # 0) =>
          \E v \in {q, q + 1} :
            /\ A!H!Rounded(n, d, rounding) = IF sign THEN -v ELSE v
            /\ w = IF v > limit THEN R!Failure("overflow") ELSE R!Value(v)

\* round_magnitude() rounds the numerator its arguments come from.
LEMMA PartsRound ==
  ASSUME NEW n, NEW d, NEW q, NEW r, NEW sign, NEW rounding, NEW limit,
         Parted(n, d, q, r, sign, rounding, limit)
  PROVE  RoundedTogether(n, d, q, r, sign, rounding, limit)
<1> DEFINE t == IF sign THEN -q ELSE q
           e == R!RoundMagnitude(q, r, d, sign, rounding, limit)
<1>1. /\ P!WordWraps /\ n \in Int /\ q \in Nat /\ limit \in Nat /\ sign \in BOOLEAN
      /\ d \in 1 .. P!M - 1 /\ r \in 0 .. d - 1 /\ rounding \in P!Modes
      /\ n = IF sign THEN -(q * d + r) ELSE q * d + r
  BY DEF Parted
<1>2. LET w == P!RoundMagnitude(q, r, d, sign, rounding, limit)
      IN /\ P!Truncate(n, d) = t
         /\ n = d * t <=> r = 0
         /\ q > limit => w = P!Failure("overflow")
         /\ q <= limit /\ rounding = "exact" /\ r # 0 => w = P!Failure("inexact")
         /\ q <= limit /\ ~(rounding = "exact" /\ r # 0) =>
              \E v \in {q, q + 1} :
                /\ P!Rounded(n, d, rounding) = IF sign THEN -v ELSE v
                /\ w = IF v > limit THEN P!Failure("overflow") ELSE P!Value(v)
  BY <1>1, P!MagnitudeRounds
<1>3. e = P!RoundMagnitude(q, r, d, sign, rounding, limit)
  BY SameMagnitude
<1>4. A!H!Truncate(n, d) = P!Truncate(n, d) /\ A!H!Rounded(n, d, rounding) = P!Rounded(n, d, rounding)
  BY SameRounding
<1>5. \A k : P!Failure(k) = R!Failure(k) /\ P!Value(k) = R!Value(k)
  BY DEF P!Failure, R!Failure, P!Value, R!Value
<1> HIDE DEF e, t
<1> QED
  BY <1>2, <1>3, <1>4, <1>5 DEF RoundedTogether, e, t

LEMMA SignsAside ==
  ASSUME NEW n \in Int, NEW d \in Int, d # 0, NEW rounding
  PROVE  /\ A!H!Truncate(n, d) = A!H!Truncate(P!Righted(n, d), P!Absolute(d))
         /\ A!H!Rounded(n, d, rounding) = A!H!Rounded(P!Righted(n, d), P!Absolute(d), rounding)
         /\ \A k \in Int : n = d * k <=> P!Righted(n, d) = P!Absolute(d) * k
  BY SameRounding, P!SignsMove

\* What a rounded half is asked for, and given.
LEMMA HalfRounds ==
  ASSUME TypeNumbers, Chosen, NEW n \in Nat, NEW d \in Nat, d > 0, d <= HalfAll \div 2,
         NEW sign \in BOOLEAN, request.rounding \in R!Modes,
         NEW s \in Int, NEW t \in Int, t # 0, P!Absolute(t) = d,
         P!Righted(s, t) = IF sign THEN -n ELSE n
  PROVE  RoundedHalf(n, d, sign) = A!Rounded(s, t, request.rounding)
<1> DEFINE h == HalfAll \div 2
           rounding == request.rounding
           limit == h - 1 + Indicator(sign)
           q == n \div d
           r == n % d
           u == IF sign THEN -n ELSE n
           w == R!RoundMagnitude(q, r, d, sign, rounding, limit)
           T == A!H!Truncate(s, t)
           V == A!H!Rounded(s, t, rounding)
           g == A!H!OnGrid(s, t, 1, rounding)
<1>1. /\ h \in Nat /\ h > 0 /\ HalfAll = 2 * h /\ h = 2 ^ (HalfBits - 1)
      /\ A!H!Raws = (-h) .. (h - 1) /\ A!Half = HalfBits /\ 2 ^ HalfBits = HalfAll
      /\ 2 ^ Bits = All /\ HalfAll \in Nat
  BY HalfNumbers DEF A!H!Raws, A!Half, HalfBits, Bits, HalfAll, All
<1>2. P!M = All /\ P!WordWraps /\ d \in 1 .. P!M - 1
  <2>1. P!M = All
    BY DEF P!M, All
  <2>2. All = 2 * 2 ^ (Bits - 1) /\ 2 ^ (Bits - 1) \in Nat /\ 2 ^ (Bits - 1) = h * HalfAll
    BY HalfPatterns, HalfNumbers
  <2>3. h * HalfAll >= h /\ h * HalfAll >= HalfAll
    <3> HIDE DEF h
    <3>1. HalfAll > 0
      BY <1>1
    <3> QED
      BY <1>1, <3>1, PositiveProduct
  <2> DEFINE e == 2 ^ (Bits - 1)
  <2> HIDE DEF e, h
  <2>4. All = 2 * e /\ e \in Nat /\ e >= HalfAll /\ e >= h
    BY <2>2, <2>3 DEF e
  <2>5. All >= 4 /\ All % 2 = 0 /\ d < All /\ All \in Nat
    <3>1. All % 2 = 0
      BY <2>4
    <3> QED
      BY <2>4, <3>1, <1>1 DEF h
  <2> QED
    BY <2>1, <2>5 DEF P!WordWraps
<1>3. n = q * d + r /\ q \in Nat /\ r \in 0 .. d - 1
  BY DivideNat
<1>4. limit = (IF sign THEN h ELSE h - 1) /\ limit \in Nat
  <2> HIDE DEF h
  <2> QED
    BY <1>1 DEF Indicator
<1>5. u = (IF sign THEN -(q * d + r) ELSE q * d + r) /\ u \in Int /\ P!Righted(s, t) = u
  BY <1>3
<1> DEFINE z == IF sign THEN -q ELSE q
<1> HIDE DEF h, limit, q, r, u, w, z
<1>6. RoundedTogether(u, d, q, r, sign, rounding, limit)
  <2>1. rounding \in P!Modes
    BY SameMagnitude
  <2>2. Parted(u, d, q, r, sign, rounding, limit)
    <3> HIDE DEF rounding
    <3> QED
      BY <1>2, <1>3, <1>4, <1>5, <2>1 DEF Parted
  <2> HIDE DEF rounding
  <2> QED
    BY <2>2, PartsRound
<1>7. /\ T = A!H!Truncate(u, d) /\ V = A!H!Rounded(u, d, rounding)
      /\ \A k \in Int : s = t * k <=> u = d * k
  <2>1. /\ A!H!Truncate(s, t) = A!H!Truncate(P!Righted(s, t), P!Absolute(t))
        /\ A!H!Rounded(s, t, rounding) = A!H!Rounded(P!Righted(s, t), P!Absolute(t), rounding)
        /\ \A k \in Int : s = t * k <=> P!Righted(s, t) = P!Absolute(t) * k
    <3> HIDE DEF rounding
    <3> QED
      BY SignsAside
  <2>2. P!Righted(s, t) = u /\ P!Absolute(t) = d
    BY <1>5
  <2> QED
    BY <2>1, <2>2
<1>9. z \in Int
  BY <1>3 DEF z
<1>10. \A e : R!Failure(e).error = e /\ R!Value(e).error = "none" /\ R!Value(e).value = e
  BY DEF R!Failure, R!Value
<1>11. /\ T = z /\ (s = t * T <=> r = 0)
       /\ q > limit => w = R!Failure("overflow")
       /\ q <= limit /\ rounding = "exact" /\ r # 0 => w = R!Failure("inexact")
       /\ q <= limit /\ ~(rounding = "exact" /\ r # 0) =>
            \E v \in {q, q + 1} :
              /\ V = IF sign THEN -v ELSE v
              /\ w = IF v > limit THEN R!Failure("overflow") ELSE R!Value(v)
  <2> HIDE DEF T, V, rounding
  <2> QED
    BY <1>6, <1>7, <1>9 DEF RoundedTogether, w, z
<1>12. T \in Int /\ V \in Int
  <2>1. rounding \in P!Modes
    BY SameMagnitude
  <2>2. P!Truncate(s, t) \in Int /\ P!Rounded(s, t, rounding) \in Int
    BY <2>1, P!RoundedOutward
  <2> QED
    BY <2>2, SameRounding
<1>13. g = IF T \notin A!H!Raws THEN A!H!Error("overflow")
           ELSE IF rounding = "exact" /\ s # t * T THEN A!H!Error("inexact")
           ELSE IF V \notin A!H!Raws THEN A!H!Error("overflow") ELSE A!H!Result(V)
  <2>1. t * 1 = t /\ 1 * T = T /\ 1 * V = V /\ t * 1 * T = t * T
    <3> HIDE DEF T, V
    <3> QED
      BY <1>12
  <2> QED
    BY <2>1 DEF A!H!OnGrid
<1>14. A!Rounded(s, t, rounding) =
         IF g.error = "none" THEN A!Value(<<g.value % HalfAll>>) ELSE A!Failure(g.error)
  BY <1>1 DEF A!Rounded, A!Pattern
<1>15. \A v : Signed(v, sign, HalfBits) = (IF sign THEN -v ELSE v) % HalfAll
  BY <1>1 DEF Signed
<1>16. RoundedHalf(n, d, sign) =
         IF q > limit THEN A!Failure("overflow")
         ELSE IF w.error # "none" THEN A!Failure(w.error)
         ELSE A!Value(<<Signed(w.value, sign, HalfBits)>>)
  BY DEF RoundedHalf, q, r, w, limit, h
<1>17. \A e : /\ A!H!Error(e).error = e /\ A!H!Result(e).error = "none" /\ A!H!Result(e).value = e
  BY DEF A!H!Error, A!H!Result
<1> HIDE DEF T, V, g, rounding
<1>22. A!H!Raws = (-h) .. (h - 1) /\ h \in Nat /\ h > 0
  BY <1>1
<1>18. CASE q > limit
  <2>1. T \notin A!H!Raws
    BY <1>18, <1>22, <1>3, <1>4, <1>11 DEF z
  <2>2. g = A!H!Error("overflow")
    BY <2>1, <1>13
  <2> QED
    BY <2>2, <1>18, <1>14, <1>16, <1>17 DEF rounding
<1>19. CASE q <= limit /\ rounding = "exact" /\ r # 0
  <2>1. T \in A!H!Raws /\ ~(q > limit)
    BY <1>19, <1>22, <1>3, <1>4, <1>11 DEF z
  <2>2. g = A!H!Error("inexact") /\ w = R!Failure("inexact")
    BY <2>1, <1>19, <1>11, <1>13
  <2> QED
    BY <2>1, <2>2, <1>10, <1>14, <1>16, <1>17 DEF rounding
<1>20. CASE q <= limit /\ ~(rounding = "exact" /\ r # 0)
  <2>1. T \in A!H!Raws /\ ~(q > limit)
    BY <1>20, <1>22, <1>3, <1>4, <1>11 DEF z
  <2>2. PICK v \in {q, q + 1} :
              /\ V = IF sign THEN -v ELSE v
              /\ w = IF v > limit THEN R!Failure("overflow") ELSE R!Value(v)
    BY <1>20, <1>11
  <2>3. g = IF V \notin A!H!Raws THEN A!H!Error("overflow") ELSE A!H!Result(V)
    BY <2>1, <1>20, <1>11, <1>13
  <2>4. v \in Nat
    BY <1>3
  <2>5. V \in A!H!Raws <=> ~(v > limit)
    BY <2>2, <2>4, <1>22, <1>4
  <2>6. CASE v > limit
    <3>1. g = A!H!Error("overflow") /\ w = R!Failure("overflow")
      BY <2>2, <2>3, <2>5, <2>6
    <3> QED
      BY <3>1, <2>1, <1>10, <1>14, <1>16, <1>17 DEF rounding
  <2>7. CASE ~(v > limit)
    <3>1. g = A!H!Result(V) /\ w = R!Value(v)
      BY <2>2, <2>3, <2>5, <2>7
    <3>2. A!Rounded(s, t, rounding) = A!Value(<<V % HalfAll>>)
      BY <3>1, <1>14, <1>17
    <3>3. RoundedHalf(n, d, sign) = A!Value(<<Signed(v, sign, HalfBits)>>)
      BY <3>1, <2>1, <1>10, <1>16
    <3>4. Signed(v, sign, HalfBits) = V % HalfAll
      BY <1>15, <2>2
    <3> QED
      BY <3>2, <3>3, <3>4 DEF rounding
  <2> QED
    BY <2>6, <2>7
<1>21. q > limit \/ q <= limit
  BY <1>3, <1>4
<1> QED
  BY <1>18, <1>19, <1>20, <1>21

\* The quotient has no pattern just where min / -1 is asked for.
LEMMA OnlyMinOverflows ==
  ASSUME TypeNumbers, Chosen, NEW a \in Patterns, NEW b \in 0 .. HalfAll - 1, b # 0
  PROVE  A!H!Truncate(A!Signed(a, Bits), A!Signed(b, HalfBits)) >= 2 ^ (Bits - 1)
           <=> a = All \div 2 /\ b = HalfAll - 1
<1> DEFINE g == 2 ^ (Bits - 1)
           h == HalfAll \div 2
           n == MagnitudeOf(a)
           d == HalfMagnitude(b)
           s == A!Signed(a, Bits)
           t == A!Signed(b, HalfBits)
           q == n \div d
           z == A!H!Truncate(s, t)
<1>1. g \in Nat /\ g > 0 /\ All = 2 * g /\ a \in Nat /\ a < All /\ g > 1
  <2>1. g \in Nat /\ g > 0 /\ All = 2 * g /\ a \in Nat /\ a < All
    BY HalfPatterns, AllIs
  <2>2. g = h * HalfAll /\ h \in Nat /\ h > 0 /\ HalfAll = 2 * h
    BY HalfNumbers
  <2>3. h * HalfAll >= HalfAll
    <3> HIDE DEF h, g
    <3>1. HalfAll \in Nat /\ HalfAll > 0
      BY <2>2
    <3> QED
      BY <2>2, <3>1, PositiveProduct
  <2>4. g > 1
    <3> HIDE DEF h, g
    <3> QED
      BY <2>1, <2>2, <2>3
  <2> QED
    BY <2>1, <2>4
<1>2. /\ n \in Nat /\ n <= g /\ n = (IF Negative(a) THEN All - a ELSE a)
      /\ s \in Int /\ s = (IF Negative(a) THEN -n ELSE n) /\ (s < 0 <=> Negative(a))
      /\ (Negative(a) <=> a >= g)
  BY WideSign, NegativeTop, AllIs DEF MagnitudeOf
<1>3. /\ d \in Nat /\ d > 0 /\ d <= h /\ d = (IF NegativeHalf(b) THEN HalfAll - b ELSE b)
      /\ t \in Int /\ t = (IF NegativeHalf(b) THEN -d ELSE d) /\ (t < 0 <=> NegativeHalf(b))
      /\ (NegativeHalf(b) <=> b >= h) /\ h \in Nat /\ h > 0 /\ HalfAll = 2 * h
  BY HalfSign, HalfNumbers DEF NegativeHalf
<1> HIDE DEF n, d, s, t, g, h
<1>4. n \in Nat /\ d \in Nat /\ d > 0 /\ s \in Int /\ t \in Int /\ s \in {n, -n} /\ t \in {d, -d}
  BY <1>2, <1>3
<1>5. z = IF (s < 0) # (t < 0) THEN -q ELSE q
  BY <1>4, TruncateMagnitudes
<1>6. n = q * d + (n % d) /\ q \in Nat /\ n % d \in 0 .. d - 1
  BY <1>4, DivideNat
<1>7. q <= n /\ (d > 1 /\ n > 0 => q < n)
  <2> HIDE DEF q
  <2>1. CASE q = 0
    BY <2>1, <1>4
  <2>2. CASE q > 0
    <3>1. q * d >= q /\ q * d \in Nat
      BY <2>2, <1>4, <1>6, PositiveProduct
    <3>2. CASE d > 1
      <4>1. q * 2 <= q * d
        <5>1. 2 * q <= d * q
          BY <3>2, <1>4, <1>6, ProductBelow
        <5> QED
          BY <5>1, <1>4, <1>6
      <4> DEFINE p == q * d
      <4> HIDE DEF p
      <4>2. p >= q + q /\ n = p + (n % d) /\ p \in Nat
        BY <4>1, <3>1, <1>6 DEF p
      <4> QED
        BY <4>2, <2>2, <1>4, <1>6
    <3>3. CASE ~(d > 1)
      <4> DEFINE p == q * d
      <4> HIDE DEF p
      <4>1. p >= q /\ n = p + (n % d) /\ p \in Nat
        BY <3>1, <1>6 DEF p
      <4> QED
        BY <4>1, <3>3, <1>4, <1>6
    <3> QED
      BY <3>2, <3>3
  <2> QED
    BY <2>1, <2>2, <1>6
<1> HIDE DEF q, z
<1>8. ASSUME z >= g PROVE a = All \div 2 /\ b = HalfAll - 1
  <2>1. q = g /\ n = g /\ d = 1 /\ ((s < 0) <=> (t < 0))
    <3>1. (s < 0) = (t < 0) /\ z = q
      <4>1. CASE (s < 0) # (t < 0)
        <5>1. z = -q
          BY <4>1, <1>5
        <5> QED
          BY <5>1, <1>1, <1>6, <1>8
      <4>2. CASE (s < 0) = (t < 0)
        BY <4>2, <1>5
      <4> QED
        BY <4>1, <4>2
    <3>2. q = g /\ n = g
      BY <3>1, <1>8, <1>7, <1>2, <1>6, <1>1
    <3>3. d = 1
      BY <3>2, <1>7, <1>4, <1>1
    <3> QED
      BY <3>1, <3>2, <3>3
  <2>2. Negative(a) /\ a = g
    <3>1. CASE Negative(a)
      BY <3>1, <2>1, <1>1, <1>2
    <3>2. CASE ~Negative(a)
      BY <3>2, <2>1, <1>1, <1>2
    <3> QED
      BY <3>1, <3>2
  <2>3. NegativeHalf(b)
    BY <2>1, <2>2, <1>2, <1>3
  <2>4. b = HalfAll - 1
    BY <2>1, <2>3, <1>3
  <2>5. All \div 2 = g
    BY <1>1
  <2> QED
    BY <2>2, <2>4, <2>5
<1>9. ASSUME a = All \div 2, b = HalfAll - 1 PROVE z >= g
  <2>1. a = g
    BY <1>1, <1>9
  <2>2. Negative(a) /\ n = g
    BY <2>1, <1>1, <1>2
  <2>3. NegativeHalf(b) /\ d = 1
    BY <1>9, <1>3
  <2>4. q = n
    BY <2>3, <1>4 DEF q
  <2>5. s < 0 /\ t < 0
    BY <2>2, <2>3, <1>2, <1>3
  <2>6. z = q
    BY <2>5, <1>5
  <2> QED
    BY <2>2, <2>4, <2>6, <1>1
<1> QED
  BY <1>8, <1>9 DEF z, g, s, t

\* divmod of signed operands.
LEMMA SignedDivmodRight ==
  ASSUME TypeNumbers, Chosen, request.op = "signed_divmod", request.a \in Patterns,
         request.b \in 0 .. HalfAll - 1, request.b # 0
  PROVE  LET a == request.a  b == request.b
             n == MagnitudeOf(a)  d == HalfMagnitude(b)
         IN A!RightAnswer(request) =
              IF a = All \div 2 /\ b = HalfAll - 1 THEN A!Failure("overflow")
              ELSE A!Value(<<Signed(n \div d, Negative(a) # NegativeHalf(b), Bits),
                             Signed(n % d, Negative(a), HalfBits)>>)
<1> DEFINE a == request.a
           b == request.b
           n == MagnitudeOf(a)
           d == HalfMagnitude(b)
           s == A!Signed(a, Bits)
           t == A!Signed(b, HalfBits)
           q == A!H!Truncate(s, t)
           sign == Negative(a) # NegativeHalf(b)
<1>1. A!RightAnswer(request) =
        IF q >= 2 ^ (Bits - 1) THEN A!Failure("overflow")
        ELSE A!Value(<<q % All, (s - q * t) % HalfAll>>)
  BY CheckedOwed
<1>2. q >= 2 ^ (Bits - 1) <=> a = All \div 2 /\ b = HalfAll - 1
  BY OnlyMinOverflows
<1>3. /\ n \in Nat /\ s \in Int /\ s = (IF Negative(a) THEN -n ELSE n) /\ (s < 0 <=> Negative(a))
  BY WideSign, AllIs DEF MagnitudeOf
<1>4. /\ d \in Nat /\ d > 0 /\ t \in Int /\ t = (IF NegativeHalf(b) THEN -d ELSE d)
      /\ (t < 0 <=> NegativeHalf(b))
  BY HalfSign
<1>5. Negative(a) \in BOOLEAN /\ NegativeHalf(b) \in BOOLEAN
  BY DEF Negative, NegativeHalf
<1> HIDE DEF n, d, s, t, q
<1>6. n \in Nat /\ d \in Nat /\ d > 0 /\ s \in {n, -n} /\ t \in {d, -d}
  BY <1>3, <1>4
<1>7. q = IF (s < 0) # (t < 0) THEN -(n \div d) ELSE n \div d
  BY <1>3, <1>4, <1>6, TruncateMagnitudes DEF q
<1>8. s - q * t = IF s < 0 THEN -(n % d) ELSE n % d
  BY <1>3, <1>4, <1>6, TruncateLeaves DEF q
<1>9. (s < 0) = Negative(a) /\ (t < 0) = NegativeHalf(b)
  BY <1>3, <1>4, <1>5
<1>10. q % All = Signed(n \div d, sign, Bits)
  <2>1. q = IF sign THEN -(n \div d) ELSE n \div d
    BY <1>7, <1>9
  <2> HIDE DEF sign
  <2> QED
    BY <2>1 DEF Signed, All
<1>11. (s - q * t) % HalfAll = Signed(n % d, Negative(a), HalfBits)
  BY <1>8, <1>9 DEF Signed, HalfAll
<1> HIDE DEF sign
<1> QED
  BY <1>1, <1>2, <1>10, <1>11 DEF sign, n, d

\* Every checked division answers what it is asked.
LEMMA CheckedRight ==
  ASSUME TypeNumbers, Chosen, Operands, CheckedWork
  PROVE  stage' = "answered" /\ answer' = A!RightAnswer(request)
           /\ UNCHANGED <<type, request>>
<1> DEFINE a == request.a
           b == request.b
           c == request.c
<1>1. stage = "dispatch" /\ stage' = "answered" /\ UNCHANGED <<type, request>>
  BY DEF CheckedWork, RejectZero, Divmod, SignedDivmod, DivideToHalf, MulDiv, Op, Reply, Respond
<1>2. /\ request.op \in Checked => a \in Patterns /\ b \in 0 .. HalfAll - 1
      /\ request.op = "divide_to_half" =>
           a \in Patterns /\ b \in 0 .. HalfAll - 1 /\ request.rounding \in R!Modes
      /\ request.op = "mul_div" =>
           /\ a \in 0 .. HalfAll - 1 /\ b \in 0 .. HalfAll - 1 /\ c \in 0 .. HalfAll - 1
           /\ request.rounding \in R!Modes
  BY DEF Operands, Checked, Unary, Binary, Shifts, ByWord
<1>3. \A n, d, m : d = 0 => A!Rounded(n, d, m) = A!Failure("division_by_zero")
  BY DEF A!Rounded, A!H!OnGrid, A!H!Error, A!Failure
<1>4. A!Signed(0, HalfBits) = 0
  <2>1. HalfAll \div 2 = 2 ^ (HalfBits - 1) /\ HalfAll \div 2 > 0 /\ HalfAll \div 2 \in Nat
    BY HalfNumbers
  <2> QED
    BY <2>1 DEF A!Signed
<1>5. CASE RejectZero
  <2>1. answer' = A!Failure("division_by_zero")
    BY <1>5 DEF RejectZero, Respond
  <2>2. \/ request.op \in {"divmod", "signed_divmod", "divide_to_half"} /\ b = 0
        \/ request.op = "mul_div" /\ c = 0
    BY <1>5 DEF RejectZero, Op, Checked
  <2>3. CASE request.op \in {"divmod", "signed_divmod"}
    BY <2>1, <2>2, <2>3, <1>1, CheckedOwed
  <2>4. CASE request.op = "divide_to_half"
    <3>1. A!RightAnswer(request) = A!Rounded(A!Signed(a, Bits), A!Signed(b, HalfBits), request.rounding)
      BY <2>4, CheckedOwed
    <3> QED
      BY <3>1, <2>1, <2>2, <2>4, <1>1, <1>3, <1>4
  <2>5. CASE request.op = "mul_div"
    <3>1. A!RightAnswer(request) = A!Rounded(A!Signed(a, HalfBits) * A!Signed(b, HalfBits),
                                             A!Signed(c, HalfBits), request.rounding)
      BY <2>5, CheckedOwed
    <3> QED
      BY <3>1, <2>1, <2>2, <2>5, <1>1, <1>3, <1>4
  <2> QED
    BY <2>2, <2>3, <2>4, <2>5, <1>1
<1>6. CASE Divmod
  <2>1. request.op = "divmod" /\ b # 0 /\ answer' = A!Value(<<a \div b, a % b>>)
    BY <1>6 DEF Divmod, Op, Reply, Respond
  <2> QED
    BY <2>1, <1>1, CheckedOwed
<1>7. CASE SignedDivmod
  <2>1. request.op = "signed_divmod" /\ b # 0
        /\ answer' = IF a = All \div 2 /\ b = HalfAll - 1 THEN A!Failure("overflow")
                     ELSE A!Value(<<Signed(MagnitudeOf(a) \div HalfMagnitude(b),
                                           Negative(a) # NegativeHalf(b), Bits),
                                    Signed(MagnitudeOf(a) % HalfMagnitude(b), Negative(a), HalfBits)>>)
    BY <1>7 DEF SignedDivmod, Op, Reply, Respond
  <2>2. a \in Patterns /\ b \in 0 .. HalfAll - 1
    BY <2>1, <1>2 DEF Checked
  <2> QED
    BY <2>1, <2>2, <1>1, SignedDivmodRight
<1>8. CASE DivideToHalf
  <2> DEFINE n == MagnitudeOf(a)
             d == HalfMagnitude(b)
             s == A!Signed(a, Bits)
             t == A!Signed(b, HalfBits)
             sign == Negative(a) # NegativeHalf(b)
  <2>1. request.op = "divide_to_half" /\ b # 0 /\ answer' = RoundedHalf(n, d, sign)
    BY <1>8 DEF DivideToHalf, Op, Respond
  <2>2. a \in Patterns /\ b \in 0 .. HalfAll - 1 /\ request.rounding \in R!Modes
    BY <2>1, <1>2
  <2>3. /\ n \in Nat /\ s \in Int /\ s = (IF Negative(a) THEN -n ELSE n) /\ (s < 0 <=> Negative(a))
    BY <2>2, WideSign, AllIs DEF MagnitudeOf
  <2>4. /\ d \in Nat /\ d > 0 /\ t \in Int /\ t = (IF NegativeHalf(b) THEN -d ELSE d)
        /\ (t < 0 <=> NegativeHalf(b)) /\ d <= HalfAll \div 2
    BY <2>1, <2>2, HalfSign
  <2>5. Negative(a) \in BOOLEAN /\ NegativeHalf(b) \in BOOLEAN /\ sign \in BOOLEAN
    BY DEF Negative, NegativeHalf
  <2>10. sign <=> (Negative(a) /\ ~NegativeHalf(b)) \/ (~Negative(a) /\ NegativeHalf(b))
    BY <2>5
  <2>6. A!RightAnswer(request) = A!Rounded(s, t, request.rounding)
    BY <2>1, CheckedOwed
  <2> HIDE DEF n, d, s, t, sign
  <2>7. t # 0 /\ P!Absolute(t) = d
    BY <2>4 DEF P!Absolute
  <2>8. P!Righted(s, t) = IF sign THEN -n ELSE n
    <3>1. CASE NegativeHalf(b)
      BY <3>1, <2>3, <2>4, <2>10 DEF P!Righted
    <3>2. CASE ~NegativeHalf(b)
      BY <3>2, <2>3, <2>4, <2>10 DEF P!Righted
    <3> QED
      BY <3>1, <3>2
  <2>9. RoundedHalf(n, d, sign) = A!Rounded(s, t, request.rounding)
    BY <2>2, <2>3, <2>4, <2>5, <2>7, <2>8, HalfRounds
  <2> QED
    BY <2>1, <2>6, <2>9, <1>1 DEF n, d, s, t, sign
<1>9. CASE MulDiv
  <2> DEFINE na == HalfMagnitude(a)
             nb == HalfMagnitude(b)
             d == HalfMagnitude(c)
             sa == A!Signed(a, HalfBits)
             sb == A!Signed(b, HalfBits)
             t == A!Signed(c, HalfBits)
             inner == NegativeHalf(a) # NegativeHalf(b)
             sign == inner # NegativeHalf(c)
  <2>1. request.op = "mul_div" /\ c # 0 /\ answer' = RoundedHalf(na * nb, d, sign)
    BY <1>9 DEF MulDiv, Op, Respond
  <2>2. a \in 0 .. HalfAll - 1 /\ b \in 0 .. HalfAll - 1 /\ c \in 0 .. HalfAll - 1
        /\ request.rounding \in R!Modes
    BY <2>1, <1>2
  <2>3. /\ na \in Nat /\ sa \in Int /\ sa = (IF NegativeHalf(a) THEN -na ELSE na)
        /\ nb \in Nat /\ sb \in Int /\ sb = (IF NegativeHalf(b) THEN -nb ELSE nb)
    BY <2>2, HalfSign
  <2>4. /\ d \in Nat /\ d > 0 /\ t \in Int /\ t = (IF NegativeHalf(c) THEN -d ELSE d)
        /\ (t < 0 <=> NegativeHalf(c)) /\ d <= HalfAll \div 2
    BY <2>1, <2>2, HalfSign
  <2>5. /\ NegativeHalf(a) \in BOOLEAN /\ NegativeHalf(b) \in BOOLEAN /\ NegativeHalf(c) \in BOOLEAN
        /\ inner \in BOOLEAN /\ sign \in BOOLEAN
    BY DEF NegativeHalf
  <2>11. /\ inner <=> (NegativeHalf(a) /\ ~NegativeHalf(b)) \/ (~NegativeHalf(a) /\ NegativeHalf(b))
         /\ sign <=> (inner /\ ~NegativeHalf(c)) \/ (~inner /\ NegativeHalf(c))
    BY <2>5
  <2>6. A!RightAnswer(request) = A!Rounded(sa * sb, t, request.rounding)
    BY <2>1, CheckedOwed
  <2> HIDE DEF na, nb, d, sa, sb, t, sign, inner
  <2> DEFINE n == na * nb
             s == sa * sb
  <2>7. n \in Nat /\ s \in Int /\ s = IF inner THEN -n ELSE n
    <3>1. na * nb \in Nat /\ (-na) * (-nb) = na * nb /\ (-na) * nb = -(na * nb)
          /\ na * (-nb) = -(na * nb)
      BY <2>3
    <3>2. CASE NegativeHalf(a) /\ NegativeHalf(b)
      BY <3>1, <3>2, <2>3, <2>11
    <3>3. CASE NegativeHalf(a) /\ ~NegativeHalf(b)
      BY <3>1, <3>3, <2>3, <2>11
    <3>4. CASE ~NegativeHalf(a) /\ NegativeHalf(b)
      BY <3>1, <3>4, <2>3, <2>11
    <3>5. CASE ~NegativeHalf(a) /\ ~NegativeHalf(b)
      BY <3>1, <3>5, <2>3, <2>11
    <3> QED
      BY <3>2, <3>3, <3>4, <3>5
  <2> HIDE DEF n, s
  <2>8. t # 0 /\ P!Absolute(t) = d
    BY <2>4 DEF P!Absolute
  <2>9. P!Righted(s, t) = IF sign THEN -n ELSE n
    <3>1. CASE NegativeHalf(c)
      BY <3>1, <2>4, <2>7, <2>11 DEF P!Righted
    <3>2. CASE ~NegativeHalf(c)
      BY <3>2, <2>4, <2>7, <2>11 DEF P!Righted
    <3> QED
      BY <3>1, <3>2
  <2>10. RoundedHalf(n, d, sign) = A!Rounded(s, t, request.rounding)
    BY <2>2, <2>4, <2>5, <2>7, <2>8, <2>9, HalfRounds
  <2> QED
    BY <2>1, <2>6, <2>10, <1>1 DEF n, s, inner, sign, na, nb, d, sa, sb, t
<1> QED
  BY <1>5, <1>6, <1>7, <1>8, <1>9 DEF CheckedWork

-----------------------------------------------------------------------------
(* Values written limb by limb *)

LEMMA LimbSums ==
  ASSUME NEW f
  PROVE  \E g : /\ g[0] = 0
                /\ \A k \in Nat : g[k + 1] = g[k] + f[k] * M ^ k
                /\ Sum(f) = g[N]
<1> DEFINE e == [k \in Nat |-> f[k] * M ^ k]
           g == CHOOSE b : b = [k \in Nat |-> IF k = 0 THEN 0
                                              ELSE b[k - 1] + f[k - 1] * M ^ (k - 1)]
<1>1. \E b : b = [k \in Nat |-> IF k = 0 THEN 0 ELSE b[k - 1] + e[k - 1]]
  <2> HIDE DEF e
  <2> QED
    BY SumsExist
<1>2. PICK b : b = [k \in Nat |-> IF k = 0 THEN 0 ELSE b[k - 1] + e[k - 1]]
  BY <1>1
<1>3. ASSUME NEW k \in Nat PROVE k # 0 => e[k - 1] = f[k - 1] * M ^ (k - 1)
  OBVIOUS
<1>4. [k \in Nat |-> IF k = 0 THEN 0 ELSE b[k - 1] + e[k - 1]]
        = [k \in Nat |-> IF k = 0 THEN 0 ELSE b[k - 1] + f[k - 1] * M ^ (k - 1)]
  BY <1>3
<1>5. b = [k \in Nat |-> IF k = 0 THEN 0 ELSE b[k - 1] + f[k - 1] * M ^ (k - 1)]
  BY <1>2, <1>4
<1>6. g = [k \in Nat |-> IF k = 0 THEN 0 ELSE g[k - 1] + f[k - 1] * M ^ (k - 1)]
  BY <1>5
<1>7. Sum(f) = g[N]
  BY DEF Sum
<1> HIDE DEF g
<1>8. g[0] = 0
  BY <1>6
<1>9. ASSUME NEW k \in Nat PROVE g[k + 1] = g[k] + f[k] * M ^ k
  <2>1. k + 1 \in Nat /\ k + 1 # 0 /\ (k + 1) - 1 = k
    OBVIOUS
  <2>2. g[k + 1] = g[(k + 1) - 1] + f[(k + 1) - 1] * M ^ ((k + 1) - 1)
    BY <2>1, <1>6
  <2> QED
    BY <2>1, <2>2
<1> QED
  BY <1>7, <1>8, <1>9

\* A pattern is the sum of its limbs.
LEMMA SumOfLimbs ==
  ASSUME TypeNumbers, NEW v \in Patterns, NEW f, \A k \in 0 .. N - 1 : f[k] = Part(v, k)
  PROVE  Sum(f) = v
<1>1. PICK g : /\ g[0] = 0
               /\ \A k \in Nat : g[k + 1] = g[k] + f[k] * M ^ k
               /\ Sum(f) = g[N]
  BY LimbSums
<1>2. N \in Nat /\ v \in Nat /\ v % M ^ 0 = 0 /\ v % M ^ N = v
  BY Ends, AllIs DEF TypeNumbers
<1>3. \A k \in 0 .. N : g[k] = v % M ^ k
  <2> DEFINE T == {k \in Nat : k <= N /\ g[k] # v % M ^ k}
  <2> SUFFICES T = {}
    OBVIOUS
  <2> SUFFICES ASSUME T # {} PROVE FALSE
    OBVIOUS
  <2>1. PICK k \in T : \A l \in T : k <= l
    BY LeastNat
  <2>2. k \in Nat /\ k <= N /\ g[k] # v % M ^ k /\ k # 0
    BY <1>1, <1>2, <2>1
  <2> DEFINE p == k - 1
  <2>3. p \in Nat /\ p + 1 = k /\ p \notin T /\ p \in 0 .. N - 1 /\ p \in 0 .. 2 * N - 1
    BY <2>1, <2>2, <1>2
  <2>4. g[p] = v % M ^ p
    BY <2>3, <1>2
  <2> HIDE DEF p
  <2>5. g[p + 1] = (v % M ^ p) + Part(v, p) * M ^ p
    BY <2>3, <2>4, <1>1
  <2>6. v % M ^ (p + 1) = (v % M ^ p) + Part(v, p) * M ^ p
    BY <2>3, <1>2, Parts
  <2> QED
    BY <2>2, <2>3, <2>5, <2>6
<1>4. g[N] = v % M ^ N
  BY <1>2, <1>3
<1> QED
  BY <1>1, <1>2, <1>4

LEMMA LimbPowersAdd ==
  ASSUME TypeNumbers, NEW k \in Nat, NEW l \in Nat, k + l <= 2 * N
  PROVE  M ^ (k + l) = M ^ k * M ^ l /\ M ^ k \in Nat /\ M ^ k > 0 /\ M ^ l \in Nat /\ M ^ l > 0
<1>1. M \in Nat /\ M > 0 /\ PowerLaws(M, 2 * N) /\ 2 * N \in Nat
  BY DEF TypeNumbers
<1>2. l \in 0 .. 2 * N /\ k \in 0 .. 2 * N
  BY <1>1
<1>3. M ^ (k + l) = M ^ k * M ^ l
  BY <1>1, <1>2, PowersTimes
<1> QED
  BY <1>2, <1>3, LimbPlaces

\* What is added above a limb leaves it.
LEMMA PartBelow ==
  ASSUME TypeNumbers, NEW v \in Nat, NEW u \in Nat, NEW t \in Int, NEW k \in 0 .. 2 * N - 1,
         v = u + t * M ^ (k + 1)
  PROVE  Part(v, k) = Part(u, k)
<1> DEFINE p == M ^ k
           q == u \div p
           r == u % p
           m == M
<1>1. k + 1 <= 2 * N /\ k \in Nat /\ 1 \in Nat /\ M \in Nat /\ M >= 4 /\ M ^ (k + 1) = M * p
      /\ p \in Nat /\ p > 0
  BY LimbPlaces DEF TypeNumbers
<1>2. u = q * p + r /\ q \in Nat /\ r \in 0 .. p - 1
  BY <1>1, DivideNat
<1> HIDE DEF p, q, r, m
<1>3. m \in Nat /\ m > 0 /\ M = m
  BY <1>1 DEF m
<1>4. v = (q + t * m) * p + r
  <2>1. (q + t * m) * p = q * p + (t * m) * p /\ (t * m) * p = t * (m * p)
    BY <1>1, <1>2, <1>3
  <2> QED
    BY <2>1, <1>1, <1>2, <1>3
<1>5. v \div p = q + t * m
  <2> DEFINE s == q + t * m
  <2>1. s \in Int /\ v = s * p + r /\ v \in Int /\ r \in Int /\ 0 <= r /\ r < p
    BY <1>1, <1>2, <1>3, <1>4
  <2> HIDE DEF s
  <2>2. v \div p = s
    BY <2>1, <1>1, DivUnique
  <2> QED
    BY <2>2 DEF s
<1>6. (q + t * m) % m = q % m
  <2>1. m \in Int /\ m > 0 /\ q \in Int /\ t \in Int
    BY <1>2, <1>3
  <2> QED
    BY ONLY <2>1, ModShift
<1> QED
  BY <1>3, <1>5, <1>6 DEF Part, p, q

\* A number below a place has no limb there or above.
LEMMA NothingAbove ==
  ASSUME TypeNumbers, NEW l \in Nat, NEW k \in Nat, l <= k, k <= 2 * N, NEW v \in 0 .. M ^ l - 1
  PROVE  Part(v, k) = 0 /\ v \div M ^ k = 0 /\ v \in Nat
<1>1. M \in Nat /\ M >= 4 /\ PowerLaws(M, 2 * N) /\ 2 * N \in Nat /\ l \in 0 .. 2 * N /\ k \in 0 .. 2 * N
  BY DEF TypeNumbers
<1>2. M ^ l <= M ^ k
  BY <1>1, PowersOrder
<1>3. M ^ k \in Nat /\ M ^ l \in Nat /\ M ^ k > 0
  BY <1>1, LimbPlaces
<1> DEFINE p == M ^ k
<1>4. v \in Nat /\ v < p /\ p \in Nat /\ p > 0
  BY <1>2, <1>3
<1> HIDE DEF p
<1>5. v = 0 * p + v
  BY <1>4
<1>6. v \div p = 0
  <2>1. v \in Int /\ 0 \in Int /\ 0 <= v
    BY <1>4
  <2> QED
    BY <2>1, <1>4, <1>5, DivUnique
<1>7. 0 % M = 0
  BY <1>1
<1> QED
  BY <1>4, <1>6, <1>7 DEF Part, p

\* A sign in front: the limbs above are those of -1.
LEMMA SignInFront ==
  ASSUME TypeNumbers, NEW n \in 0 .. 2 * N, NEW l \in 0 .. n, NEW u \in 0 .. M ^ l - 1,
         NEW v, v = u + (M ^ n - M ^ l)
  PROVE  /\ v \in 0 .. M ^ n - 1
         /\ \A k \in 0 .. n - 1 : Part(v, k) = IF k < l THEN Part(u, k) ELSE M - 1
<1>1. M \in Nat /\ M >= 4 /\ N \in Nat /\ l \in Nat /\ n \in Nat /\ l <= n /\ n <= 2 * N
  BY DEF TypeNumbers
<1>2. n - l \in Nat /\ l + (n - l) = n /\ l + (n - l) <= 2 * N
  BY <1>1
<1>3. /\ M ^ n = M ^ l * M ^ (n - l) /\ M ^ l \in Nat /\ M ^ l > 0
      /\ M ^ (n - l) \in Nat /\ M ^ (n - l) > 0
  <2> DEFINE e == n - l
  <2>1. e \in Nat /\ l + e <= 2 * N /\ l + e = n
    BY <1>2
  <2> HIDE DEF e
  <2>2. M ^ (l + e) = M ^ l * M ^ e /\ M ^ l \in Nat /\ M ^ l > 0 /\ M ^ e \in Nat /\ M ^ e > 0
    BY <2>1, <1>1, LimbPowersAdd
  <2> QED
    BY <2>1, <2>2 DEF e
<1>4. v \in 0 .. M ^ n - 1 /\ u \in Nat /\ v \in Nat
  <2> DEFINE p == M ^ l
             q == M ^ (n - l)
             s == M ^ n
  <2>1. p \in Nat /\ p > 0 /\ q \in Nat /\ q > 0 /\ s = p * q
    BY <1>3
  <2> HIDE DEF p, q, s
  <2>2. p <= p * q /\ p * q \in Nat
    BY <2>1, PositiveProduct
  <2>3. s \in Nat /\ p <= s
    BY <2>1, <2>2
  <2>4. u \in 0 .. p - 1 /\ v = u + (s - p)
    BY DEF p, s
  <2>5. v \in 0 .. s - 1 /\ u \in Nat /\ v \in Nat
    BY <2>3, <2>4, <2>1
  <2> QED
    BY <2>5 DEF s
<1>5. ASSUME NEW k \in 0 .. n - 1, k < l PROVE Part(v, k) = Part(u, k)
  <2> DEFINE e == l - (k + 1)
             t == M ^ e * (M ^ (n - l) - 1)
  <2>1. e \in Nat /\ k + 1 \in Nat /\ (k + 1) + e = l /\ (k + 1) + e <= 2 * N /\ k \in 0 .. 2 * N - 1
    BY <1>1, <1>5
  <2>2. M ^ l = M ^ (k + 1) * M ^ e /\ M ^ (k + 1) \in Nat /\ M ^ e \in Nat
    <3> HIDE DEF e
    <3>1. M ^ ((k + 1) + e) = M ^ (k + 1) * M ^ e /\ M ^ (k + 1) \in Nat /\ M ^ e \in Nat
      BY <2>1, LimbPowersAdd
    <3> QED
      BY <3>1, <2>1
  <2>3. t \in Int /\ v = u + t * M ^ (k + 1)
    <3> DEFINE a == M ^ (k + 1)
               b == M ^ e
               c == M ^ (n - l)
    <3>1. a \in Nat /\ b \in Nat /\ c \in Nat /\ M ^ l = a * b /\ M ^ n = (a * b) * c
      BY <2>2, <1>3
    <3>2. t = b * (c - 1) /\ v = u + ((a * b) * c - a * b)
      BY <3>1
    <3> HIDE DEF a, b, c, t
    <3>3. (b * (c - 1)) * a = (a * b) * c - a * b /\ b * (c - 1) \in Int
      <4>1. (b * (c - 1)) * a = (a * b) * (c - 1) /\ a * b \in Int
        BY <3>1
      <4> DEFINE f == a * b
      <4> HIDE DEF f
      <4>2. f * (c - 1) = f * c - f
        BY <4>1, <3>1 DEF f
      <4>3. b * (c - 1) \in Int
        BY <3>1
      <4> QED
        BY <4>1, <4>2, <4>3 DEF f
    <3> QED
      BY <3>2, <3>3 DEF a
  <2> HIDE DEF t
  <2> QED
    BY <2>1, <2>3, <1>4, PartBelow
<1>6. ASSUME NEW k \in 0 .. n - 1, ~(k < l) PROVE Part(v, k) = M - 1
  <2> DEFINE e == n - (k + 1)
             g == k - l
             a == M ^ k
             b == M ^ e
             d == M ^ l - u
             q == M * b - 1
  <2>1. /\ e \in Nat /\ k + 1 \in Nat /\ (k + 1) + e = n /\ (k + 1) + e <= 2 * N
        /\ k \in 0 .. 2 * N - 1 /\ k \in Nat /\ l \in 0 .. 2 * N /\ k \in 0 .. 2 * N /\ l <= k
        /\ 2 * N \in Nat
    BY <1>1, <1>6
  <2>2. M ^ n = (M * a) * b /\ a \in Nat /\ a > 0 /\ b \in Nat /\ b > 0
    <3> HIDE DEF e
    <3>1. M ^ ((k + 1) + e) = M ^ (k + 1) * M ^ e /\ M ^ e \in Nat /\ M ^ e > 0
      BY <2>1, LimbPowersAdd
    <3>2. M ^ (k + 1) = M * M ^ k /\ M ^ k \in Nat /\ M ^ k > 0
      BY <2>1, LimbPlaces
    <3> QED
      BY <3>1, <3>2, <2>1
  <2>3. M ^ l <= a
    <3>1. PowerLaws(M, 2 * N) /\ M > 0
      BY <1>1 DEF TypeNumbers
    <3> QED
      BY <3>1, <2>1, <1>1, PowersOrder
  <2>4. d \in Nat /\ 1 <= d /\ d <= a /\ v = M ^ n - d
    <3> DEFINE p == M ^ l
               s == M ^ n
    <3>1. p \in Nat /\ u \in 0 .. p - 1 /\ v = u + (s - p) /\ s \in Int /\ p <= a
      <4>1. M ^ n \in Int
        BY <2>2, <1>1
      <4> QED
        BY <4>1, <1>3, <2>3
    <3> HIDE DEF p, s, a
    <3>2. d = p - u
      BY DEF p
    <3> HIDE DEF d
    <3>3. d \in Nat /\ 1 <= d /\ d <= a /\ v = s - d
      BY <3>1, <3>2, <2>2
    <3> QED
      BY <3>3 DEF s
  <2> HIDE DEF a, b, d
  <2>5. v = q * a + (a - d) /\ q \in Int /\ 0 <= a - d /\ a - d < a /\ a - d \in Int
    <3>1. (M * b - 1) * a = (M * a) * b - a
      <4> DEFINE f == M * b
      <4>1. f \in Int /\ f * a = (M * a) * b
        BY <1>1, <2>2
      <4> HIDE DEF f
      <4>2. (f - 1) * a = f * a - a
        BY <4>1, <2>2
      <4> QED
        BY <4>1, <4>2 DEF f
    <3>2. M * b - 1 \in Int /\ M ^ n \in Int /\ (M * b - 1) * a \in Int
      BY <1>1, <2>2
    <3> DEFINE z == (M * b - 1) * a
    <3> HIDE DEF z
    <3>3. v = z + (a - d)
      <4>1. z = M ^ n - a /\ z \in Int /\ M ^ n \in Int
        BY <3>1, <3>2, <2>2 DEF z
      <4> HIDE DEF q
      <4> QED
        BY <4>1, <2>2, <2>4
    <3> QED
      BY <3>2, <3>3, <2>2, <2>4 DEF z
  <2>6. v \div a = q
    <3>1. v \in Int /\ a > 0 /\ a \in Int
      BY <1>4, <2>2
    <3> HIDE DEF q
    <3> QED
      BY <3>1, <2>5, DivUnique
  <2>7. q = (b - 1) * M + (M - 1) /\ b - 1 \in Int
    BY <1>1, <2>2
  <2>8. q % M = M - 1
    <3>1. q \in Int /\ M \in Int /\ M > 0 /\ M - 1 \in Int /\ 0 <= M - 1 /\ M - 1 < M
      BY <1>1, <2>5
    <3> HIDE DEF q
    <3> QED
      BY <3>1, <2>7, DivUnique
  <2> QED
    BY <2>6, <2>8 DEF Part, a
<1> QED
  BY <1>4, <1>5, <1>6

\* The top limb of a narrower integer tells its sign.
LEMMA NarrowSign ==
  ASSUME TypeNumbers, NEW l \in 1 .. N, NEW a \in 0 .. M ^ l - 1
  PROVE  A!Signed(a, l * W) = IF Part(a, l - 1) >= M \div 2 THEN a - M ^ l ELSE a
<1> DEFINE q == M ^ (l - 1)
           h == M \div 2
           t == a \div q
           e == l * W
           z == 2 ^ (e - 1)
<1>1. /\ M \in Nat /\ M >= 4 /\ N \in Nat /\ W \in Nat /\ W >= 2 /\ Bits = N * W /\ Bits \in Nat
      /\ PowerLaws(2, Bits) /\ PowerLaws(M, 2 * N)
  BY DEF TypeNumbers, Bits
<1>2. PowerLaws(M, N)
  BY <1>1 DEF PowerLaws
<1>3. e \in 0 .. Bits /\ 2 ^ e = M ^ l
  <2>1. PowerLaws(2, N * W) /\ PowerLaws(2 ^ W, N) /\ W > 0 /\ l \in 0 .. N
    BY <1>1, <1>2 DEF M
  <2>2. l * W \in 0 .. N * W /\ 2 ^ (l * W) = (2 ^ W) ^ l
    BY <2>1, <1>1, LimbsArePowers
  <2> QED
    BY <2>2, <1>1 DEF M
<1>4. e >= 2
  <2>1. 1 * W <= l * W
    BY <1>1, ProductBelow
  <2> QED
    BY <2>1, <1>1
<1> HIDE DEF e
<1>5. 2 ^ e = 2 * z /\ z \in Nat /\ z > 0
  <2>1. e - 1 \in 0 .. Bits - 1 /\ (e - 1) + 1 = e /\ e - 1 \in 0 .. Bits
    BY <1>1, <1>3, <1>4
  <2>2. 2 ^ ((e - 1) + 1) = 2 * 2 ^ (e - 1) /\ 2 ^ (e - 1) \in Nat /\ 2 ^ (e - 1) > 0
    BY <2>1, BitPlaces
  <2> QED
    BY <2>1, <2>2
<1>6. M ^ l = M * q /\ q \in Nat /\ q > 0
  <2>1. l - 1 \in 0 .. 2 * N - 1 /\ l - 1 \in 0 .. 2 * N /\ (l - 1) + 1 = l
    BY <1>1
  <2>2. M ^ ((l - 1) + 1) = M * M ^ (l - 1) /\ q \in Nat /\ q > 0
    BY <2>1, LimbPlaces
  <2> QED
    BY <2>1, <2>2
<1>7. M = 2 * h /\ h \in Nat
  <2>1. M = 2 * 2 ^ (W - 1) /\ h = 2 ^ (W - 1) /\ 2 ^ (W - 1) \in Nat
    BY HalfPatterns
  <2> QED
    BY <2>1
<1> HIDE DEF h, q
<1>8. z = h * q
  <2>1. 2 * z = (2 * h) * q
    BY <1>3, <1>5, <1>6, <1>7
  <2>2. (2 * h) * q = 2 * (h * q) /\ h * q \in Nat
    BY <1>6, <1>7
  <2> HIDE DEF z
  <2> QED
    BY <2>1, <2>2, <1>5
<1> HIDE DEF z
<1>9. a \in Nat /\ a < M * q
  BY <1>1, <1>6
<1>10. t \in Nat /\ t < M
  BY <1>1, <1>6, <1>9, QuotientBelow
<1>11. Part(a, l - 1) = t
  <2>1. Part(a, l - 1) = t % M
    BY DEF Part, q
  <2> HIDE DEF t
  <2> QED
    BY <2>1, <1>1, <1>10, RemainderOfSmall
<1>12. t >= h <=> a >= z
  <2>1. z <= a => h <= t
    BY <1>6, <1>7, <1>8, <1>9, FloorAtLeast
  <2>2. a = t * q + (a % q) /\ a % q \in 0 .. q - 1
    BY <1>6, <1>9, DivideNat
  <2> HIDE DEF t
  <2>3. h <= t => h * q <= t * q
    BY <1>6, <1>7, <1>10, ProductBelow
  <2> DEFINE tq == t * q
  <2>4. tq \in Int /\ (h <= t => z <= tq) /\ a = tq + (a % q) /\ a % q \in Nat
    BY <2>2, <2>3, <1>6, <1>8, <1>10
  <2> HIDE DEF tq
  <2> QED
    BY <2>1, <2>4, <1>5, <1>7, <1>9, <1>10
<1>13. A!Signed(a, l * W) = IF a < z THEN a ELSE a - 2 ^ e
  BY DEF A!Signed, z, e
<1> HIDE DEF t
<1> QED
  BY <1>3, <1>5, <1>9, <1>11, <1>12, <1>13 DEF h

\* The limbs of a narrower integer and its sign are those of the same integer.
LEMMA ExtendRight ==
  ASSUME TypeNumbers, NEW l \in 1 .. N, NEW a \in 0 .. M ^ l - 1
  PROVE  LET sign == IF Part(a, l - 1) >= M \div 2 THEN M - 1 ELSE 0
         IN Sum([k \in 0 .. N - 1 |-> IF k < l THEN Part(a, k) ELSE sign])
              = A!Signed(a, l * W) % All
<1> DEFINE negative_ == Part(a, l - 1) >= M \div 2
           sign == IF negative_ THEN M - 1 ELSE 0
           f == [k \in 0 .. N - 1 |-> IF k < l THEN Part(a, k) ELSE sign]
           v == IF negative_ THEN a + (M ^ N - M ^ l) ELSE a
<1>1. A!Signed(a, l * W) = IF negative_ THEN a - M ^ l ELSE a
  BY NarrowSign
<1>2. /\ M \in Nat /\ M >= 4 /\ N \in Nat /\ N >= 2 /\ All = M ^ N /\ All \in Nat /\ All > 0
      /\ Patterns = 0 .. All - 1
  BY AllIs DEF TypeNumbers, Patterns
<1>3. M ^ l \in Nat /\ M ^ l > 0 /\ M ^ l <= M ^ N
  <2>1. l \in 0 .. 2 * N /\ N \in 0 .. 2 * N /\ l <= N /\ PowerLaws(M, 2 * N) /\ M > 0 /\ 2 * N \in Nat
    BY <1>2 DEF TypeNumbers
  <2> QED
    BY <2>1, <1>2, LimbPlaces, PowersOrder
<1>4. v \in Patterns /\ \A k \in 0 .. N - 1 : f[k] = Part(v, k)
  <2>1. CASE negative_
    <3>1. N \in 0 .. 2 * N /\ l \in 0 .. N
      BY <1>2
    <3>2. v = a + (M ^ N - M ^ l) /\ sign = M - 1
      BY <2>1
    <3> HIDE DEF v, sign
    <3>3. v \in 0 .. M ^ N - 1
          /\ \A k \in 0 .. N - 1 : Part(v, k) = IF k < l THEN Part(a, k) ELSE M - 1
      BY <3>1, <3>2, SignInFront
    <3> QED
      BY <3>2, <3>3, <1>2
  <2>2. CASE ~negative_
    <3>1. v = a /\ sign = 0
      BY <2>2
    <3>2. a \in Patterns
      <4>1. a < All /\ a \in Nat
        BY <1>2, <1>3
      <4> QED
        BY <4>1, <1>2
    <3>3. ASSUME NEW k \in 0 .. N - 1, ~(k < l) PROVE Part(a, k) = 0
      <4>1. l \in Nat /\ k \in Nat /\ l <= k /\ k <= 2 * N
        BY <3>3, <1>2
      <4> QED
        BY <4>1, NothingAbove
    <3> HIDE DEF v, sign, negative_
    <3> QED
      BY <3>1, <3>2, <3>3
  <2> QED
    BY <2>1, <2>2
<1>5. Sum(f) = v
  <2> HIDE DEF f, v
  <2> QED
    BY <1>4, SumOfLimbs
<1>6. (IF negative_ THEN a - M ^ l ELSE a) % All = v
  <2> DEFINE p == M ^ l
  <2>0. p \in Int /\ a \in Int
    BY <1>3
  <2>1. v % All = v /\ v \in Int
    BY <1>4, AllIs
  <2>2. CASE negative_
    <3>1. v = (a - p) + 1 * All /\ a - p \in Int
      BY <2>2, <1>2, <1>3
    <3>2. All \in Int /\ All > 0 /\ 1 \in Int
      BY <1>2
    <3> DEFINE u == a - p
    <3>3. u \in Int /\ v = u + 1 * All
      BY <3>1
    <3> HIDE DEF u, v, p
    <3>4. (u + 1 * All) % All = u % All
      BY ONLY <3>2, <3>3, ModShift
    <3>5. u % All = v
      BY <3>3, <3>4, <2>1
    <3> QED
      BY <3>5, <2>2 DEF u, p
  <2>3. CASE ~negative_
    BY <2>1, <2>3
  <2> QED
    BY <2>2, <2>3
<1> HIDE DEF v, negative_
<1> QED
  BY <1>1, <1>5, <1>6 DEF negative_

-----------------------------------------------------------------------------
(* Shifts *)

\* A shift is one by whole limbs and one by less than a limb.
LEMMA ShiftParts ==
  ASSUME TypeNumbers, NEW s \in 0 .. Bits - 1
  PROVE  /\ s \div W \in 0 .. N - 1 /\ s % W \in 0 .. W - 1
         /\ 2 ^ s = M ^ (s \div W) * 2 ^ (s % W) /\ 2 ^ s \in Nat /\ 2 ^ s > 0
         /\ 2 ^ (s % W) \in Nat /\ 2 ^ (s % W) > 0
         /\ 2 ^ (W - (s % W)) \in Nat /\ 2 ^ (W - (s % W)) > 0
         /\ M = 2 ^ (s % W) * 2 ^ (W - (s % W))
         /\ s % W = 0 => 2 ^ (s % W) = 1 /\ 2 ^ (W - (s % W)) = M
<1> DEFINE l == s \div W
           t == s % W
<1>1. /\ M \in Nat /\ M >= 4 /\ N \in Nat /\ N >= 2 /\ W \in Nat /\ W >= 2 /\ Bits = N * W
      /\ Bits \in Nat /\ PowerLaws(2, Bits) /\ PowerLaws(M, 2 * N) /\ Bits >= W
  BY DEF TypeNumbers, Bits
<1>2. s = l * W + t /\ l \in Nat /\ t \in 0 .. W - 1
  BY <1>1, DivideNat
<1>3. l < N
  <2>1. s < N * W
    BY <1>1
  <2> QED
    BY <2>1, <1>1, QuotientBelow
<1> HIDE DEF l, t
<1>4. PowerLaws(M, N)
  BY <1>1 DEF PowerLaws
<1> DEFINE e == l * W
<1>5. e \in 0 .. N * W /\ 2 ^ e = M ^ l
  <2>1. PowerLaws(2, N * W) /\ PowerLaws(2 ^ W, N) /\ W > 0 /\ l \in 0 .. N
    BY <1>1, <1>2, <1>3, <1>4 DEF M
  <2>2. l * W \in 0 .. N * W /\ 2 ^ (l * W) = (2 ^ W) ^ l
    BY <2>1, <1>1, LimbsArePowers
  <2> QED
    BY <2>2 DEF M
<1> HIDE DEF e
<1>6. e \in Nat /\ t \in 0 .. Bits /\ e + t <= Bits /\ s = e + t
  BY <1>1, <1>2, <1>5 DEF e
<1>7. 2 ^ (e + t) = 2 ^ e * 2 ^ t
  BY <1>1, <1>6, PowersTimes
<1>8. /\ 2 ^ t \in Nat /\ 2 ^ t > 0 /\ 2 ^ s \in Nat /\ 2 ^ s > 0
      /\ 2 ^ (W - t) \in Nat /\ 2 ^ (W - t) > 0
  <2>1. t \in 0 .. Bits /\ s \in 0 .. Bits /\ W - t \in 0 .. Bits
    BY <1>1, <1>2, <1>6
  <2> QED
    BY <2>1, BitPlaces
<1>9. M = 2 ^ t * 2 ^ (W - t)
  <2>1. t \in 0 .. Bits /\ W \in 0 .. Bits /\ t <= W
    BY <1>1, <1>2
  <2>2. 2 ^ W = 2 ^ t * 2 ^ (W - t)
    BY <2>1, <1>1, PowersOrder
  <2> QED
    BY <2>2 DEF M
<1>10. t = 0 => 2 ^ t = 1 /\ 2 ^ (W - t) = M
  <2>1. 2 ^ 0 = 1 /\ W - 0 = W
    BY <1>1 DEF PowerLaws
  <2> QED
    BY <2>1 DEF M
<1>11. 2 ^ s = M ^ l * 2 ^ t
  BY <1>5, <1>6, <1>7
<1>12. l \in 0 .. N - 1 /\ t \in 0 .. W - 1
  BY <1>1, <1>2, <1>3
<1> QED
  BY <1>8, <1>9, <1>10, <1>11, <1>12 DEF l, t

\* What is shifted in below leaves what is shifted.
LEMMA ShiftedIn ==
  ASSUME NEW m, NEW p \in Nat, p > 0, NEW c \in Nat, c > 0, m = p * c, NEW t \in Nat, NEW h \in 0 .. p - 1
  PROVE  (t * p + h) % m = (((t % m) * p) % m) + h
<1>1. m \in Nat /\ m > 0
  BY PositiveProduct
<1> DEFINE u == t \div m
           d == t % m
<1>2. t = u * m + d /\ u \in Nat /\ d \in 0 .. m - 1
  BY <1>1, DivideNat
<1> HIDE DEF u, d
<1> DEFINE v == d \div c
           g == d % c
<1>3. d = v * c + g /\ v \in Nat /\ g \in 0 .. c - 1
  BY <1>2, <1>1, DivideNat
<1> HIDE DEF v, g
<1>4. d * p = v * m + g * p /\ g * p \in Nat
  <2>1. (v * c + g) * p = (v * c) * p + g * p
    BY <1>3
  <2>2. (v * c) * p = v * (p * c)
    BY <1>3
  <2> QED
    BY <2>1, <2>2, <1>3
<1>5. g * p + p <= m
  <2>1. g * p + p <= c * p
    BY <1>3, MultipleOrder
  <2> QED
    BY <2>1
<1>6. t * p = (u * p) * m + d * p
  <2>1. (u * m + d) * p = (u * m) * p + d * p
    BY <1>1, <1>2
  <2>2. (u * m) * p = (u * p) * m
    BY <1>1, <1>2
  <2> QED
    BY <2>1, <2>2, <1>2
<1> DEFINE f == g * p
<1>7. f \in Nat /\ f + p <= m
  BY <1>4, <1>5
<1>8. d * p = v * m + f
  BY <1>4
<1> HIDE DEF f
<1>9. (d * p) % m = f
  <2> DEFINE w == d * p
  <2>1. w \in Int /\ w = v * m + f /\ v \in Int /\ f \in Int /\ 0 <= f /\ f < m /\ m \in Int
    BY <1>1, <1>2, <1>3, <1>7, <1>8
  <2> HIDE DEF w
  <2>2. w % m = f
    BY <2>1, <1>1, DivUnique
  <2> QED
    BY <2>2 DEF w
<1>10. (t * p + h) % m = f + h
  <2> DEFINE z == u * p + v
             w == t * p + h
  <2>1. z \in Int /\ u * p \in Int
    BY <1>2, <1>3
  <2>2. w = z * m + (f + h)
    <3>1. (u * p + v) * m = (u * p) * m + v * m
      BY <2>1, <1>1, <1>3
    <3>2. (u * p) * m \in Int /\ v * m \in Int /\ h \in Int
      BY <2>1, <1>1, <1>3
    <3> DEFINE um == (u * p) * m  vm == v * m  tp == t * p
    <3>3. z * m = um + vm /\ tp = um + (vm + f) /\ w = tp + h /\ um \in Int /\ vm \in Int
      BY <3>1, <3>2, <1>6, <1>8
    <3> HIDE DEF um, vm, tp, z, w
    <3> QED
      BY <3>2, <3>3, <1>7
  <2> HIDE DEF z
  <2>3. w \in Int /\ f + h \in Int /\ 0 <= f + h /\ f + h < m /\ m \in Int
    BY <1>1, <1>7
  <2> HIDE DEF w
  <2>4. w % m = f + h
    BY <2>1, <2>2, <2>3, <1>1, DivUnique
  <2> QED
    BY <2>4 DEF w
<1> QED
  BY <1>9, <1>10 DEF d

\* Limbs of a remainder are those of the number.
LEMMA PartOfPattern ==
  ASSUME TypeNumbers, NEW v \in Nat, NEW k \in 0 .. N - 1
  PROVE  v % All \in Patterns /\ Part(v % All, k) = Part(v, k)
<1> DEFINE u == v % All
           q == v \div All
           e == N - (k + 1)
<1>1. /\ All \in Nat /\ All > 0 /\ All = M ^ N /\ N \in Nat /\ k + 1 \in Nat /\ e \in Nat
      /\ (k + 1) + e = N /\ (k + 1) + e <= 2 * N /\ k \in 0 .. 2 * N - 1 /\ Patterns = 0 .. All - 1
  BY AllIs DEF TypeNumbers, Patterns
<1>2. v = q * All + u /\ q \in Nat /\ u \in 0 .. All - 1
  BY <1>1, DivideNat
<1> HIDE DEF u, q, e
<1>3. All = M ^ (k + 1) * M ^ e /\ M ^ (k + 1) \in Nat /\ M ^ e \in Nat
  <2>1. M ^ ((k + 1) + e) = M ^ (k + 1) * M ^ e /\ M ^ (k + 1) \in Nat /\ M ^ e \in Nat
    BY <1>1, LimbPowersAdd
  <2> QED
    BY <2>1, <1>1
<1> DEFINE t == q * M ^ e
<1>4. t \in Int /\ v = u + t * M ^ (k + 1)
  <2> DEFINE a == M ^ (k + 1)
             b == M ^ e
  <2>1. a \in Nat /\ b \in Nat /\ All = a * b /\ t = q * b
    BY <1>3
  <2> HIDE DEF a, b, t
  <2>2. q * (a * b) = (q * b) * a /\ q * b \in Int /\ (q * b) * a \in Int
    BY <2>1, <1>2
  <2>3. v = (q * b) * a + u
    BY <2>1, <2>2, <1>2
  <2>4. v = u + (q * b) * a
    <3> DEFINE w == (q * b) * a
    <3>1. w \in Int /\ v = w + u /\ u \in Int
      BY <2>2, <2>3, <1>2
    <3> HIDE DEF w
    <3>2. v = u + w
      BY <3>1
    <3> QED
      BY <3>2 DEF w
  <2> QED
    BY <2>1, <2>2, <2>4 DEF a
<1> HIDE DEF t
<1>5. Part(v, k) = Part(u, k)
  <2>1. u \in Nat
    BY <1>1, <1>2
  <2> QED
    BY <2>1, <1>1, <1>4, PartBelow
<1> QED
  BY <1>1, <1>2, <1>5 DEF u

\* A limb of a number moved up by whole limbs.
LEMMA MovedUp ==
  ASSUME TypeNumbers, NEW u \in Nat, NEW l \in 0 .. N - 1, NEW k \in 0 .. N - 1
  PROVE  Part(u * M ^ l, k) = IF k < l THEN 0 ELSE Part(u, k - l)
<1> DEFINE g == M ^ l
           v == u * g
<1>1. /\ N \in Nat /\ M \in Nat /\ M >= 4 /\ l \in Nat /\ k \in Nat /\ l \in 0 .. 2 * N
      /\ k \in 0 .. 2 * N /\ g \in Nat /\ g > 0 /\ M ^ k \in Nat /\ M ^ k > 0
  BY LimbPlaces DEF TypeNumbers
<1>2. CASE k < l
  <2> DEFINE e == l - (k + 1)
             p == M ^ k
             h == M ^ e
  <2>1. e \in Nat /\ k + 1 \in Nat /\ (k + 1) + e = l /\ (k + 1) + e <= 2 * N /\ k \in 0 .. 2 * N - 1
    BY <1>1, <1>2
  <2> HIDE DEF e
  <2>2. g = (M * p) * h /\ h \in Nat
    <3>1. M ^ ((k + 1) + e) = M ^ (k + 1) * M ^ e /\ M ^ e \in Nat
      BY <2>1, LimbPowersAdd
    <3>2. M ^ (k + 1) = M * M ^ k
      BY <2>1, LimbPlaces
    <3> QED
      BY <3>1, <3>2, <2>1
  <2> DEFINE t == u * h
             q == t * M
  <2>3. t \in Int /\ q \in Int /\ p \in Nat /\ p > 0
    BY <1>1, <2>2
  <2> HIDE DEF g, h, p
  <2>4. v = q * p + 0
    <3>1. u * ((M * p) * h) = ((u * h) * M) * p
      BY <1>1, <2>2, <2>3
    <3>2. ((u * h) * M) * p \in Int
      BY <1>1, <2>2, <2>3
    <3> QED
      BY <3>1, <3>2, <2>2
  <2>5. v \div p = q
    <3>1. v \in Int /\ 0 \in Int /\ 0 <= 0 /\ 0 < p
      BY <1>1, <2>3
    <3> HIDE DEF v, q
    <3> QED
      BY <3>1, <2>3, <2>4, DivUnique
  <2>6. q % M = 0
    <3>1. q = t * M + 0 /\ 0 < M /\ 0 \in Int
      BY <1>1, <2>3
    <3> HIDE DEF q, t
    <3> QED
      BY <3>1, <2>3, <1>1, DivUnique
  <2> QED
    BY <2>5, <2>6, <1>2 DEF Part, p, g
<1>3. CASE ~(k < l)
  <2> DEFINE e == k - l
             h == M ^ e
  <2>1. e \in Nat /\ l + e = k /\ l + e <= 2 * N
    BY <1>1, <1>3
  <2> HIDE DEF e
  <2>2. M ^ k = g * h /\ h \in Nat /\ h > 0
    <3>1. M ^ (l + e) = M ^ l * M ^ e /\ M ^ e \in Nat /\ M ^ e > 0
      BY <2>1, <1>1, LimbPowersAdd
    <3> QED
      BY <3>1, <2>1
  <2> HIDE DEF g, h
  <2>3. v \div (h * g) = (v \div g) \div h
    <3>1. v \in Nat
      BY <1>1
    <3> HIDE DEF v
    <3> QED
      BY <3>1, <1>1, <2>2, SplitByProduct
  <2>4. v \div g = u
    <3>1. v = u * g + 0 /\ v \in Int /\ 0 \in Int /\ 0 < g
      BY <1>1
    <3> HIDE DEF v
    <3> QED
      BY <3>1, <1>1, DivUnique
  <2>5. g * h = h * g
    BY <1>1, <2>2
  <2>6. v \div M ^ k = u \div h
    BY <2>2, <2>3, <2>4, <2>5
  <2> QED
    BY <2>6, <1>3 DEF Part, g, h, e
<1> QED
  BY <1>2, <1>3

\* A limb of a number moved up by less than a limb takes from the one below.
LEMMA MovedByBits ==
  ASSUME TypeNumbers, NEW p \in Nat, p > 0, NEW c \in Nat, c > 0, M = p * c, NEW a \in Nat,
         NEW k \in 0 .. N - 1
  PROVE  Part(a * p, k) = ((Part(a, k) * p) % M) + (IF k = 0 THEN 0 ELSE Part(a, k - 1) \div c)
<1> DEFINE q == M ^ k
           t == a \div q
           r == a % q
           w == a * p
           h == IF k = 0 THEN 0 ELSE Part(a, k - 1) \div c
<1>1. N \in Nat /\ M \in Nat /\ M >= 4 /\ q \in Nat /\ q > 0 /\ k \in 0 .. 2 * N - 1
  BY LimbPlaces DEF TypeNumbers
<1>2. a = t * q + r /\ t \in Nat /\ r \in 0 .. q - 1
  <2> HIDE DEF q
  <2> QED
    BY <1>1, DivideNat
<1>3. Part(a, k) = t % M
  BY DEF Part
<1> DEFINE z == r * p
<1>4. z \in Nat /\ z \div q = h /\ h \in 0 .. p - 1
  <2>1. CASE k = 0
    <3>1. q = 1
      BY <2>1, LimbPlaces
    <3>2. r = 0 /\ h = 0
      BY <3>1, <1>2, <2>1
    <3> HIDE DEF r, h, q
    <3>3. z = 0
      BY <3>2
    <3> HIDE DEF z
    <3>4. z \div q = 0
      BY <3>1, <3>3
    <3> QED
      BY <3>2, <3>3, <3>4
  <2>2. CASE k # 0
    <3> DEFINE l == k - 1
               g == M ^ l
               d == Part(a, l)
               f == a % g
    <3>1. l \in 0 .. 2 * N - 1 /\ l + 1 = k
      BY <2>2, <1>1
    <3> HIDE DEF l
    <3>2. q = M * g /\ g \in Nat /\ g > 0
      <4>1. M ^ (l + 1) = M * M ^ l /\ l \in 0 .. 2 * N
        BY <3>1, <1>1, LimbPlaces
      <4> QED
        BY <3>1, <4>1, LimbPlaces
    <3>3. r = f + d * g /\ d \in 0 .. M - 1 /\ f \in 0 .. g - 1
      <4>1. a % M ^ (l + 1) = (a % M ^ l) + Part(a, l) * M ^ l /\ Part(a, l) \in 0 .. M - 1
            /\ a % M ^ l \in 0 .. M ^ l - 1
        BY <3>1, Parts
      <4> QED
        BY <4>1, <3>1
    <3>4. h = d \div c
      BY <2>2 DEF l
    <3> HIDE DEF f, d, g, q, r, h
    <3>5. r \div g = d /\ r \in Nat
      <4>1. r = d * g + f /\ d * g \in Nat
        BY <3>2, <3>3, <1>1
      <4> DEFINE dg == d * g
      <4>2. r = dg + f /\ dg \in Nat
        BY <4>1
      <4> HIDE DEF dg
      <4>3. r \in Int /\ r \in Nat /\ d \in Int /\ f \in Int /\ 0 <= f /\ f < g /\ g \in Int
        BY <4>2, <3>2, <3>3, <1>1
      <4> QED
        BY <4>1, <4>3, <3>2, DivUnique
    <3>6. q = (c * g) * p /\ c * g \in Nat /\ c * g > 0
      <4>1. (p * c) * g = (c * g) * p
        BY <3>2
      <4>2. c * g \in Nat /\ c * g > 0
        BY <3>2, PositiveProduct
      <4> QED
        BY <4>1, <4>2, <3>2
    <3> DEFINE cg == c * g
    <3>7. z \div (cg * p) = (z \div p) \div cg
      <4>1. z \in Nat /\ cg \in Nat /\ cg > 0
        BY <3>5, <3>6
      <4> HIDE DEF z, cg
      <4> QED
        BY <4>1, SplitByProduct
    <3>8. z \div p = r
      <4>1. z = r * p + 0 /\ z \in Int /\ r \in Int /\ 0 \in Int /\ 0 < p
        BY <3>5
      <4> HIDE DEF z
      <4> QED
        BY <4>1, DivUnique
    <3>9. r \div (c * g) = (r \div g) \div c
      BY <3>2, <3>5, SplitByProduct
    <3>10. z \div q = d \div c
      BY <3>5, <3>6, <3>7, <3>8, <3>9
    <3>11. d \div c \in Nat /\ d \div c < p
      <4>1. d < p * c /\ d \in Nat
        BY <3>3, <1>1
      <4> QED
        BY <4>1, QuotientBelow
    <3>12. z \in Nat
      BY <3>5
    <3> HIDE DEF z
    <3> QED
      BY <3>4, <3>10, <3>11, <3>12
  <2> QED
    BY <2>1, <2>2
<1> HIDE DEF h
<1>5. w \div q = t * p + h
  <2> DEFINE y_ == z % q
             tp == t * p
  <2> HIDE DEF q, t, r
  <2>1. z = h * q + y_ /\ y_ \in 0 .. q - 1
    <3> HIDE DEF z
    <3>1. z = (z \div q) * q + (z % q) /\ z % q \in 0 .. q - 1
      BY <1>1, <1>4, DivideNat
    <3> QED
      BY <3>1, <1>4
  <2>2. w = tp * q + z /\ tp \in Nat /\ tp * q \in Nat
    <3>1. (t * q + r) * p = (t * q) * p + r * p /\ (t * q) * p = (t * p) * q
      BY <1>1, <1>2
    <3>2. t * p \in Nat /\ (t * p) * q \in Nat
      BY <1>1, <1>2
    <3> QED
      BY <3>1, <3>2, <1>2
  <2> HIDE DEF w, z, y_, tp
  <2>3. w = (tp + h) * q + y_
    <3>1. (tp + h) * q = tp * q + h * q /\ h * q \in Int
      BY <2>2, <1>1, <1>4
    <3> DEFINE tq == tp * q  hq == h * q
    <3>2. w = tq + z /\ z = hq + y_ /\ (tp + h) * q = tq + hq /\ tq \in Int /\ hq \in Int
      BY <3>1, <2>1, <2>2
    <3> HIDE DEF tq, hq
    <3>3. y_ \in Int
      BY <2>1, <1>1
    <3> QED
      BY <3>2, <3>3
  <2>4. w \in Int /\ tp + h \in Int /\ y_ \in Int /\ 0 <= y_ /\ y_ < q
    <3>1. w \in Int
      BY <2>2, <1>4
    <3> QED
      BY <3>1, <2>1, <2>2, <1>1, <1>4
  <2> DEFINE s == tp + h
  <2> HIDE DEF s
  <2>5. w \div q = s
    <3>1. w = s * q + y_ /\ s \in Int
      BY <2>3, <2>4 DEF s
    <3> QED
      BY <3>1, <2>4, <1>1, DivUnique
  <2> QED
    BY <2>5 DEF s, tp
<1> HIDE DEF t, q
<1>6. (t * p + h) % M = (((t % M) * p) % M) + h
  BY <1>2, <1>4, ShiftedIn
<1>7. Part(w, k) = (w \div q) % M
  BY DEF Part, q
<1> QED
  BY <1>3, <1>5, <1>6, <1>7 DEF h

\* All the bits leave the type.
LEMMA WholeShifts ==
  ASSUME TypeNumbers, NEW s \in Bits .. Bits + 1
  PROVE  \E t \in Nat : t > 0 /\ 2 ^ s = t * All
<1>1. PowerLaws(2, Bits + 1) /\ Bits \in Nat /\ All \in Nat /\ All = 2 ^ Bits
  BY DEF TypeNumbers, All
<1>2. 2 ^ (Bits + 1) = 2 * 2 ^ Bits
  BY <1>1 DEF PowerLaws
<1>3. CASE s = Bits
  <2>1. 2 ^ s = 1 * All
    BY <1>1, <1>3
  <2> QED
    BY <2>1
<1>4. CASE s = Bits + 1
  <2>1. 2 ^ s = 2 * All
    BY <1>1, <1>2, <1>4
  <2> QED
    BY <2>1
<1> QED
  BY <1>1, <1>3, <1>4

LEMMA ShiftLeftRight ==
  ASSUME TypeNumbers, NEW a \in Patterns, NEW s \in 0 .. Bits + 1
  PROVE  LET l == s \div W
             t == s % W
             limb(k) == IF k < 0 THEN 0 ELSE Part(a, k)
         IN (IF s >= Bits THEN 0
             ELSE Sum([k \in 0 .. N - 1 |->
                    ((limb(k - l) * 2 ^ t) % M)
                      + (IF t = 0 THEN 0 ELSE limb(k - l - 1) \div 2 ^ (W - t))]))
              = (a * 2 ^ s) % All
<1> DEFINE l == s \div W
           t == s % W
           p == 2 ^ t
           c == 2 ^ (W - t)
           limb(k) == IF k < 0 THEN 0 ELSE Part(a, k)
           F(k) == ((limb(k - l) * p) % M) + (IF t = 0 THEN 0 ELSE limb(k - l - 1) \div c)
           f == [k \in 0 .. N - 1 |-> F(k)]
           v == a * 2 ^ s
<1>1. /\ N \in Nat /\ M \in Nat /\ M >= 4 /\ All \in Nat /\ All > 0 /\ a \in Nat /\ Bits \in Nat
  BY AllIs DEF TypeNumbers
<1>2. CASE s >= Bits
  <2>1. s \in Bits .. Bits + 1
    BY <1>1, <1>2
  <2>2. PICK u \in Nat : u > 0 /\ 2 ^ s = u * All
    BY <2>1, WholeShifts
  <2> DEFINE q == a * u
  <2>3. q \in Int /\ v = q * All
    <3>1. a * (u * All) = (a * u) * All
      BY <1>1
    <3> QED
      BY <3>1, <2>2, <1>1
  <2>4. (q * All) % All = 0
    <3> DEFINE w == q * All
    <3>1. w = q * All + 0 /\ w \in Int /\ 0 \in Int /\ 0 <= 0 /\ 0 < All /\ All \in Int
      BY <2>3, <1>1
    <3> HIDE DEF w, q
    <3>2. w % All = 0
      BY <3>1, <2>3, DivUnique
    <3> QED
      BY <3>2 DEF w
  <2> HIDE DEF v, q
  <2>5. v % All = 0
    BY <2>3, <2>4
  <2> QED
    BY <2>5, <1>2 DEF v
<1>3. CASE ~(s >= Bits)
  <2>1. s \in 0 .. Bits - 1
    BY <1>1, <1>3
  <2>2. /\ l \in 0 .. N - 1 /\ t \in 0 .. W - 1 /\ 2 ^ s = M ^ l * p /\ p \in Nat /\ p > 0
        /\ c \in Nat /\ c > 0 /\ M = p * c /\ (t = 0 => p = 1 /\ c = M) /\ 2 ^ s \in Nat
    BY <2>1, ShiftParts
  <2> HIDE DEF p, c, l, t
  <2> DEFINE u == a * p
             g == M ^ l
  <2>3. u \in Nat /\ v = u * g /\ v \in Nat
    <3>1. l \in 0 .. 2 * N
      BY <2>2, <1>1
    <3>2. g \in Nat
      BY <3>1, LimbPlaces
    <3>3. a * (g * p) = (a * p) * g /\ a * p \in Nat /\ (a * p) * g \in Nat
      BY <3>2, <2>2, <1>1
    <3> QED
      BY <3>3, <2>2
  <2>4. ASSUME NEW k \in 0 .. N - 1 PROVE F(k) = Part(v % All, k)
    <3>1. Part(v % All, k) = Part(v, k)
      <4> HIDE DEF v
      <4> QED
        BY <2>3, PartOfPattern
    <3>2. Part(v, k) = IF k < l THEN 0 ELSE Part(u, k - l)
      <4> HIDE DEF v, u
      <4>0. u \in Nat /\ l \in 0 .. N - 1
        BY <2>2, <2>3
      <4>1. Part(u * M ^ l, k) = IF k < l THEN 0 ELSE Part(u, k - l)
        BY ONLY <4>0, <2>4, TypeNumbers, MovedUp
      <4> QED
        BY <4>1, <2>3
    <3>3. CASE k < l
      <4>1. k - l < 0 /\ k - l - 1 < 0
        BY <3>3, <2>2
      <4>2. limb(k - l) = 0 /\ limb(k - l - 1) = 0
        BY <4>1
      <4>3. (0 * p) % M = 0 /\ 0 \div c = 0
        <5>1. 0 * p = 0 /\ 0 % M = 0
          BY <1>1, <2>2
        <5> QED
          BY <5>1, <2>2
      <4>4. F(k) = 0
        BY <4>2, <4>3
      <4> HIDE DEF F
      <4> QED
        BY <4>4, <3>1, <3>2, <3>3
    <3>4. CASE ~(k < l)
      <4> DEFINE e == k - l
      <4>1. e \in 0 .. N - 1 /\ ~(e < 0) /\ k - l - 1 = e - 1 /\ (e - 1 < 0 <=> e = 0)
            /\ (e # 0 => e - 1 \in Nat /\ e - 1 \in 0 .. 2 * N - 1)
        BY <3>4, <2>2, <1>1
      <4>2. limb(k - l) = Part(a, e) /\ limb(k - l - 1) = IF e = 0 THEN 0 ELSE Part(a, e - 1)
        BY <4>1
      <4> HIDE DEF e
      <4>3. Part(u, e) = ((Part(a, e) * p) % M) + (IF e = 0 THEN 0 ELSE Part(a, e - 1) \div c)
        <5>1. p \in Nat /\ p > 0 /\ c \in Nat /\ c > 0 /\ M = p * c /\ a \in Nat /\ e \in 0 .. N - 1
          BY <4>1, <2>2, <1>1
        <5>2. Part(a * p, e)
                = ((Part(a, e) * p) % M) + (IF e = 0 THEN 0 ELSE Part(a, e - 1) \div c)
          BY ONLY <5>1, TypeNumbers, MovedByBits
        <5> QED
          BY <5>2
      <4>4. t = 0 /\ e # 0 => Part(a, e - 1) \div c = 0
        <5> SUFFICES ASSUME t = 0, e # 0 PROVE Part(a, e - 1) \div c = 0
          OBVIOUS
        <5> DEFINE d == Part(a, e - 1)
        <5>1. d \in 0 .. M - 1 /\ c = M
          BY <2>2, <4>1, <1>1, Parts
        <5> HIDE DEF d
        <5>2. d = 0 * M + d /\ d \in Int /\ 0 \in Int /\ 0 <= d /\ d < M /\ M \in Int /\ M > 0
          BY <5>1, <1>1
        <5>3. d \div M = 0
          BY ONLY <5>2, DivUnique
        <5> QED
          BY <5>1, <5>3 DEF d
      <4>5. 0 \div c = 0
        BY <2>2
      <4>6. (IF t = 0 THEN 0 ELSE limb(k - l - 1) \div c)
              = IF e = 0 THEN 0 ELSE Part(a, e - 1) \div c
        <5> DEFINE below == limb(k - l - 1)
        <5>1. below = IF e = 0 THEN 0 ELSE Part(a, e - 1)
          BY <4>2
        <5> HIDE DEF below
        <5>2. (IF t = 0 THEN 0 ELSE below \div c)
                = IF e = 0 THEN 0 ELSE Part(a, e - 1) \div c
          BY <5>1, <4>4, <4>5
        <5> QED
          BY <5>2 DEF below
      <4> DEFINE d == limb(k - l)
                 z == IF t = 0 THEN 0 ELSE limb(k - l - 1) \div c
      <4>7. F(k) = ((d * p) % M) + z
        OBVIOUS
      <4>8. d = Part(a, e) /\ z = IF e = 0 THEN 0 ELSE Part(a, e - 1) \div c
        BY <4>2, <4>6
      <4> HIDE DEF d, z, F
      <4>9. F(k) = Part(u, e)
        BY <4>3, <4>7, <4>8
      <4> QED
        BY <4>9, <3>1, <3>2, <3>4 DEF e
    <3> QED
      BY <3>3, <3>4
  <2> DEFINE w == v % All
  <2>5. w \in Patterns
    <3>1. 0 \in 0 .. N - 1
      BY <1>1 DEF TypeNumbers
    <3> HIDE DEF v
    <3> QED
      BY <3>1, <2>3, PartOfPattern
  <2>6. \A k \in 0 .. N - 1 : f[k] = Part(w, k)
    <3> HIDE DEF F, v
    <3> QED
      BY <2>4
  <2>7. Sum(f) = w
    <3> HIDE DEF f, w
    <3> QED
      BY <2>5, <2>6, SumOfLimbs
  <2> QED
    BY <2>7, <1>3 DEF p, c, l, t
<1> QED
  BY <1>2, <1>3

\* A limb of a number moved down takes from the one above.
LEMMA MovedDown ==
  ASSUME TypeNumbers, NEW p \in Nat, p > 0, NEW c \in Nat, c > 0, M = p * c, NEW e \in Nat,
         NEW l \in 0 .. N - 1, NEW k \in 0 .. N - 1
  PROVE  Part(e \div (M ^ l * p), k)
           = (Part(e, k + l) \div p) + ((Part(e, k + l + 1) * c) % M)
<1> DEFINE g == M ^ l
           q == M ^ k
           n == k + l
           t == e \div M ^ n
           d == t % M
           h == d \div p
           u == t \div M
<1>1. /\ N \in Nat /\ M \in Nat /\ M >= 4 /\ l \in Nat /\ k \in Nat /\ n \in 0 .. 2 * N - 1
      /\ n \in 0 .. 2 * N /\ n <= 2 * N /\ k + l <= 2 * N
  BY DEF TypeNumbers
<1>2. M ^ n = q * g /\ q \in Nat /\ q > 0 /\ g \in Nat /\ g > 0
  BY <1>1, LimbPowersAdd
<1>3. M ^ n \in Nat /\ M ^ n > 0 /\ M ^ (n + 1) = M * M ^ n
  BY <1>1, LimbPlaces
<1>4. t \in Nat /\ Part(e, n) = d /\ e \div M ^ (n + 1) = u /\ d \in 0 .. M - 1
      /\ t = u * M + d /\ u \in Nat
  <2>1. e \div M ^ n \in Nat /\ e \div M ^ (n + 1) = (e \div M ^ n) \div M
    BY <1>1, Parts
  <2>2. Part(e, n) = d
    BY DEF Part
  <2>3. t = u * M + d /\ u \in Nat /\ d \in 0 .. M - 1
    <3>1. t \in Nat /\ M > 0
      BY <2>1, <1>1
    <3> HIDE DEF t
    <3> QED
      BY <3>1, <1>1, DivideNat
  <2> QED
    BY <2>1, <2>2, <2>3
<1>5. Part(e, n + 1) = u % M
  BY <1>4 DEF Part
<1>6. (e \div (g * p)) \div q = t \div p
  <2> HIDE DEF g, q
  <2>1. e \div (p * g) = (e \div g) \div p
    BY <1>2, SplitByProduct
  <2> DEFINE f == e \div g
  <2>2. f \in Nat
    BY <1>2, DivideNat
  <2>3. e \div (q * g) = f \div q
    BY <1>2, SplitByProduct
  <2> HIDE DEF f
  <2>4. (f \div p) \div q = (f \div q) \div p
    BY <2>2, <1>2, DivisionsCommute
  <2>5. g * p = p * g
    BY <1>2
  <2> QED
    BY <2>1, <2>3, <2>4, <2>5, <1>2 DEF f
<1> HIDE DEF t
<1>7. h \in 0 .. c - 1 /\ t \div p = u * c + h
  <2> HIDE DEF d, u
  <2>1. d = h * p + (d % p) /\ h \in Nat /\ d % p \in 0 .. p - 1
    BY <1>4, <1>1, DivideNat
  <2>2. h < c
    <3>1. d < c * p /\ d \in Nat
      <4>1. p * c = c * p
        OBVIOUS
      <4> QED
        BY <4>1, <1>1, <1>4
    <3> QED
      BY <3>1, QuotientBelow
  <2> HIDE DEF h
  <2> DEFINE w == u * c + h
  <2>3. t = w * p + (d % p) /\ w \in Int
    <3>1. (u * c + h) * p = (u * c) * p + h * p /\ (u * c) * p = u * (p * c)
          /\ u * c \in Nat /\ u * (p * c) \in Nat
      BY <2>1, <1>4
    <3> DEFINE um == u * M  hp == h * p
    <3>2. w * p = um + hp /\ t = um + d /\ d = hp + (d % p) /\ um \in Int /\ hp \in Int
      BY <3>1, <2>1, <1>1, <1>4
    <3>3. w \in Int /\ d % p \in Int
      BY <3>1, <2>1
    <3> HIDE DEF um, hp, w
    <3> QED
      BY <3>2, <3>3
  <2> HIDE DEF w
  <2>4. t \div p = w
    <3>1. t \in Int /\ d % p \in Int /\ 0 <= d % p /\ d % p < p
      BY <2>1, <1>4
    <3> QED
      BY <3>1, <2>3, DivUnique
  <2> QED
    BY <2>1, <2>2, <2>4 DEF w
<1>8. (u * c + h) % M = (((u % M) * c) % M) + h
  <2> HIDE DEF h, u
  <2>1. M = c * p
    OBVIOUS
  <2> QED
    BY <2>1, <1>4, <1>7, ShiftedIn
<1>9. (((u % M) * c) % M) + h = h + (((u % M) * c) % M)
  <2> DEFINE z == ((u % M) * c) % M
  <2>1. z \in Int /\ h \in Int
    <3> DEFINE y_ == u % M
    <3>1. y_ \in Nat
      <4> HIDE DEF u
      <4> QED
        BY <1>1, <1>4, DivideNat
    <3> HIDE DEF y_
    <3>2. y_ * c \in Int
      BY <3>1
    <3> DEFINE yc == y_ * c
    <3> HIDE DEF yc
    <3>3. yc % M \in Int
      BY <3>2, <1>1, DivMod DEF yc
    <3> QED
      BY <3>3, <1>7 DEF yc, y_
  <2> HIDE DEF z, h
  <2>2. z + h = h + z
    BY <2>1
  <2> QED
    BY <2>2 DEF z
<1> HIDE DEF h, u, d
<1> QED
  BY <1>4, <1>5, <1>6, <1>7, <1>8, <1>9 DEF Part, h, d, g, q

\* A negative number has its sign in front of its limbs, as far as a shift looks.
LEMMA SignsInFront ==
  ASSUME TypeNumbers, NEW a \in Patterns, NEW fill, NEW v,
         \/ fill = 0 /\ v = a
         \/ fill = M - 1 /\ v = a - All
  PROVE  \E e \in Nat :
           /\ \A k \in 0 .. 2 * N - 1 : Part(e, k) = IF k < N THEN Part(a, k) ELSE fill
           /\ \/ e = v \/ e = v + All * All
<1>1. /\ N \in Nat /\ N >= 2 /\ M \in Nat /\ M >= 4 /\ All \in Nat /\ All > 0 /\ All = M ^ N
      /\ a \in 0 .. M ^ N - 1 /\ a \in Nat
  BY AllIs DEF TypeNumbers, Patterns
<1>2. M ^ (2 * N) = All * All
  <2>1. N + N <= 2 * N /\ N + N = 2 * N
    BY <1>1
  <2>2. M ^ (N + N) = M ^ N * M ^ N
    BY <2>1, <1>1, LimbPowersAdd
  <2> QED
    BY <2>1, <2>2, <1>1
<1>3. CASE fill = 0 /\ v = a
  <2>1. ASSUME NEW k \in 0 .. 2 * N - 1, ~(k < N) PROVE Part(a, k) = 0
    <3>1. N <= k /\ k <= 2 * N /\ k \in Nat
      BY <2>1, <1>1
    <3> QED
      BY <3>1, <1>1, NothingAbove
  <2> QED
    BY <2>1, <1>1, <1>3
<1>4. CASE fill = M - 1 /\ v = a - All
  <2> DEFINE e == a + (M ^ (2 * N) - M ^ N)
  <2>1. 2 * N \in 0 .. 2 * N /\ N \in 0 .. 2 * N
    BY <1>1
  <2>2. /\ e \in 0 .. M ^ (2 * N) - 1
        /\ \A k \in 0 .. 2 * N - 1 : Part(e, k) = IF k < N THEN Part(a, k) ELSE M - 1
    <3>1. e = a + (M ^ (2 * N) - M ^ N)
      OBVIOUS
    <3> HIDE DEF e
    <3> QED
      BY <3>1, <2>1, <1>1, SignInFront
  <2>3. e = v + All * All
    <3> DEFINE z == All * All
    <3>1. z \in Int /\ e = a + (z - All) /\ v = a - All
      BY <1>1, <1>2, <1>4
    <3> HIDE DEF z, e
    <3>2. e = v + z
      BY <3>1, <1>1
    <3> QED
      BY <3>2 DEF z
  <2>4. e \in Nat
    BY <2>2
  <2> HIDE DEF e
  <2> QED
    BY <2>2, <2>3, <2>4, <1>4
<1> QED
  BY <1>3, <1>4

\* What is in front of the limbs is shifted out of the type.
LEMMA FrontShiftsOut ==
  ASSUME TypeNumbers, NEW s \in 0 .. Bits - 1, NEW v \in Int, NEW e \in Int,
         e = v \/ e = v + All * All
  PROVE  (e \div 2 ^ s) % All = (v \div 2 ^ s) % All
<1> DEFINE p == 2 ^ s
           c == 2 ^ (Bits - s)
           q == v \div p
           r == v % p
<1>1. /\ All \in Nat /\ All > 0 /\ Bits \in Nat
  BY AllIs DEF TypeNumbers
<1>2. p \in Nat /\ p > 0 /\ c \in Nat /\ All = p * c
  <2>1. s \in 0 .. Bits /\ Bits - s \in 0 .. Bits /\ Bits \in 0 .. Bits /\ s <= Bits
        /\ PowerLaws(2, Bits)
    BY <1>1 DEF TypeNumbers
  <2>2. 2 ^ Bits = 2 ^ s * 2 ^ (Bits - s)
    BY <2>1, <1>1, PowersOrder
  <2> QED
    BY <2>1, <2>2, BitPlaces DEF All
<1> HIDE DEF p, c
<1>3. v = q * p + r /\ q \in Int /\ r \in Int /\ 0 <= r /\ r < p
  BY <1>2, DivMod
<1> HIDE DEF q, r
<1>4. CASE e = v
  BY <1>4
<1>5. CASE e = v + All * All
  <2> DEFINE t == c * All
             w == q + t
  <2>1. t \in Int /\ All * All = t * p
    <3>1. (p * c) * All = (c * All) * p
      BY <1>1, <1>2
    <3> QED
      BY <3>1, <1>1, <1>2
  <2> HIDE DEF t
  <2>2. e = w * p + r /\ w \in Int
    <3>1. (q + t) * p = q * p + t * p
      BY <2>1, <1>2, <1>3
    <3> DEFINE qp == q * p  tp == t * p
    <3>2. w * p = qp + tp /\ e = v + tp /\ v = qp + r /\ qp \in Int /\ tp \in Int /\ w \in Int
      BY <3>1, <2>1, <1>2, <1>3, <1>5
    <3> HIDE DEF qp, tp, w
    <3> QED
      BY <3>2, <1>3
  <2> HIDE DEF w
  <2>3. e \div p = w
    BY <2>2, <1>2, <1>3, DivUnique
  <2>4. (q + c * All) % All = q % All
    <3>1. q \in Int /\ c \in Int /\ All \in Int /\ All > 0
      BY <1>1, <1>2, <1>3
    <3> QED
      BY ONLY <3>1, ModShift
  <2> QED
    BY <2>3, <2>4 DEF w, t, q, p
<1> QED
  BY <1>4, <1>5

\* Nothing but the sign is left.
LEMMA OnlySignLeft ==
  ASSUME TypeNumbers, NEW a \in Patterns, NEW s \in Bits .. Bits + 1, NEW fill, NEW v,
         \/ fill = 0 /\ v = a
         \/ fill = M - 1 /\ v = a - All
  PROVE  Sum([k \in 0 .. N - 1 |-> fill]) = (v \div 2 ^ s) % All
<1>1. /\ N \in Nat /\ N >= 2 /\ M \in Nat /\ M >= 4 /\ All \in Nat /\ All > 0 /\ All = M ^ N
      /\ a \in Nat /\ a < All /\ M ^ 0 = 1 /\ Patterns = 0 .. All - 1
  BY AllIs, LimbPlaces DEF TypeNumbers, Patterns
<1> DEFINE p == 2 ^ s
           f == [k \in 0 .. N - 1 |-> fill]
<1>2. p \in Nat /\ All <= p
  <2>1. PICK t \in Nat : t > 0 /\ 2 ^ s = t * All
    BY WholeShifts
  <2>2. All <= All * t /\ All * t \in Nat
    BY <2>1, <1>1, PositiveProduct
  <2>3. All * t = t * All
    BY <2>1, <1>1
  <2> QED
    BY <2>1, <2>2, <2>3
<1> HIDE DEF p
<1>3. CASE fill = 0 /\ v = a
  <2>1. v = 0 * p + v /\ v \in Int /\ 0 \in Int /\ 0 <= v /\ v < p /\ p \in Int /\ p > 0
    BY <1>1, <1>2, <1>3
  <2>2. v \div p = 0
    BY ONLY <2>1, DivUnique
  <2>3. 0 % All = 0
    BY <1>1
  <2>4. 0 \in Patterns /\ \A k \in 0 .. N - 1 : f[k] = Part(0, k)
    <3>1. 0 \in 0 .. M ^ 0 - 1 /\ 0 \in Nat
      BY <1>1
    <3>2. ASSUME NEW k \in 0 .. N - 1 PROVE Part(0, k) = 0
      <4>1. 0 <= k /\ k <= 2 * N /\ k \in Nat
        BY <1>1
      <4> QED
        BY <4>1, <3>1, NothingAbove
    <3> QED
      BY <3>2, <1>1, <1>3
  <2>5. Sum(f) = 0
    <3> HIDE DEF f
    <3> QED
      BY <2>4, SumOfLimbs
  <2> QED
    BY <2>2, <2>3, <2>5 DEF p
<1>4. CASE fill = M - 1 /\ v = a - All
  <2>1. v = (-1) * p + (v + p) /\ v \in Int /\ -1 \in Int /\ v + p \in Int /\ 0 <= v + p
        /\ v + p < p /\ p \in Int /\ p > 0
    BY <1>1, <1>2, <1>4
  <2>2. v \div p = -1
    BY ONLY <2>1, DivUnique
  <2> DEFINE u == All - 1
  <2>3. (-1) % All = u
    <3>1. -1 = (-1) * All + u /\ u \in Int /\ 0 <= u /\ u < All /\ -1 \in Int /\ All \in Int /\ All > 0
      BY <1>1
    <3> HIDE DEF u
    <3> QED
      BY ONLY <3>1, DivUnique
  <2>4. u \in Patterns /\ \A k \in 0 .. N - 1 : f[k] = Part(u, k)
    <3>1. 0 \in 0 .. M ^ 0 - 1 /\ N \in 0 .. 2 * N /\ 0 \in 0 .. N /\ u = 0 + (M ^ N - M ^ 0)
      BY <1>1
    <3> HIDE DEF u
    <3>2. u \in 0 .. M ^ N - 1 /\ \A k \in 0 .. N - 1 : Part(u, k) = IF k < 0 THEN Part(0, k) ELSE M - 1
      BY <3>1, SignInFront
    <3>3. ASSUME NEW k \in 0 .. N - 1 PROVE f[k] = Part(u, k)
      BY <3>2, <1>1, <1>4
    <3> QED
      BY <3>2, <3>3, <1>1
  <2>5. Sum(f) = u
    <3> HIDE DEF f, u
    <3> QED
      BY <2>4, SumOfLimbs
  <2> QED
    BY <2>2, <2>3, <2>5 DEF p
<1> QED
  BY <1>3, <1>4

LEMMA ShiftRightRight ==
  ASSUME TypeNumbers, NEW a \in Patterns, NEW s \in 0 .. Bits + 1, NEW fill, NEW v,
         \/ fill = 0 /\ v = a
         \/ fill = M - 1 /\ v = a - All
  PROVE  LET l == s \div W
             t == s % W
             limb(k) == IF k < N THEN Part(a, k) ELSE fill
         IN (IF s >= Bits THEN Sum([k \in 0 .. N - 1 |-> fill])
             ELSE Sum([k \in 0 .. N - 1 |->
                    (limb(k + l) \div 2 ^ t)
                      + (IF t = 0 THEN 0 ELSE (limb(k + l + 1) * 2 ^ (W - t)) % M)]))
              = (v \div 2 ^ s) % All
<1> DEFINE l == s \div W
           t == s % W
           p == 2 ^ t
           c == 2 ^ (W - t)
           limb(k) == IF k < N THEN Part(a, k) ELSE fill
           F(k) == (limb(k + l) \div p) + (IF t = 0 THEN 0 ELSE (limb(k + l + 1) * c) % M)
           f == [k \in 0 .. N - 1 |-> F(k)]
<1>1. /\ N \in Nat /\ N >= 2 /\ M \in Nat /\ M >= 4 /\ All \in Nat /\ All > 0 /\ a \in Nat
      /\ Bits \in Nat
  BY AllIs DEF TypeNumbers
<1>2. CASE s >= Bits
  <2>1. s \in Bits .. Bits + 1
    BY <1>1, <1>2
  <2>2. Sum([k \in 0 .. N - 1 |-> fill]) = (v \div 2 ^ s) % All
    BY <2>1, OnlySignLeft
  <2> QED
    BY <2>2, <1>2
<1>3. CASE ~(s >= Bits)
  <2>1. s \in 0 .. Bits - 1
    BY <1>1, <1>3
  <2>2. /\ l \in 0 .. N - 1 /\ t \in 0 .. W - 1 /\ 2 ^ s = M ^ l * p /\ p \in Nat /\ p > 0
        /\ c \in Nat /\ c > 0 /\ M = p * c /\ (t = 0 => p = 1 /\ c = M) /\ 2 ^ s \in Nat /\ 2 ^ s > 0
    BY <2>1, ShiftParts
  <2> HIDE DEF p, c, l, t
  <2>3. PICK e \in Nat :
           /\ \A k \in 0 .. 2 * N - 1 : Part(e, k) = IF k < N THEN Part(a, k) ELSE fill
           /\ \/ e = v \/ e = v + All * All
    BY SignsInFront
  <2> DEFINE u == e \div 2 ^ s
             w == u % All
  <2>4. u \in Nat /\ w = (v \div 2 ^ s) % All
    <3>1. u \in Nat
      BY <2>2, DivideNat
    <3>2. v \in Int /\ e \in Int /\ (e = v \/ e = v + All * All)
      BY <2>3, <1>1
    <3>3. w = (v \div 2 ^ s) % All
      BY ONLY <3>2, <2>1, TypeNumbers, FrontShiftsOut
    <3> QED
      BY <3>1, <3>3
  <2>5. ASSUME NEW k \in 0 .. N - 1 PROVE F(k) = Part(w, k)
    <3>1. Part(w, k) = Part(u, k)
      <4> HIDE DEF u
      <4> QED
        BY <2>4, PartOfPattern
    <3>2. Part(u, k) = (Part(e, k + l) \div p) + ((Part(e, k + l + 1) * c) % M)
      <4>1. p \in Nat /\ p > 0 /\ c \in Nat /\ c > 0 /\ M = p * c /\ e \in Nat /\ l \in 0 .. N - 1
            /\ k \in 0 .. N - 1
        BY <2>2
      <4>2. Part(e \div (M ^ l * p), k)
              = (Part(e, k + l) \div p) + ((Part(e, k + l + 1) * c) % M)
        BY ONLY <4>1, TypeNumbers, MovedDown
      <4> QED
        BY <4>2, <2>2
    <3>3. k + l \in 0 .. 2 * N - 1 /\ k + l + 1 \in 0 .. 2 * N - 1
      BY <1>1, <2>2
    <3>4. Part(e, k + l) = limb(k + l) /\ Part(e, k + l + 1) = limb(k + l + 1)
      BY <3>3, <2>3
    <3> DEFINE d == Part(e, k + l + 1)
               z == IF t = 0 THEN 0 ELSE (limb(k + l + 1) * c) % M
    <3>5. (d * c) % M = z
      <4>1. d \in 0 .. M - 1 /\ d = limb(k + l + 1)
        BY <3>3, <3>4, Parts
      <4>2. t = 0 => (d * c) % M = 0
        <5> HIDE DEF d
        <5>1. d * M = d * M + 0 /\ d * M \in Int /\ d \in Int /\ 0 \in Int /\ 0 <= 0 /\ 0 < M /\ M \in Int /\ M > 0
          BY <4>1, <1>1
        <5> DEFINE y_ == d * M
        <5>2. y_ = d * M + 0 /\ y_ \in Int
          BY <5>1
        <5> HIDE DEF y_
        <5>3. y_ % M = 0
          BY ONLY <5>1, <5>2, DivUnique
        <5> QED
          BY <5>3, <2>2 DEF y_
      <4> HIDE DEF d
      <4> QED
        BY <4>1, <4>2
    <3> DEFINE g == Part(e, k + l)
    <3>6. F(k) = (limb(k + l) \div p) + z /\ g = limb(k + l)
      BY <3>4
    <3>7. Part(u, k) = (g \div p) + ((d * c) % M)
      BY <3>2
    <3> HIDE DEF F, z, g, d, limb, u
    <3> QED
      BY <3>1, <3>5, <3>6, <3>7
  <2>6. w \in Patterns
    <3>1. 0 \in 0 .. N - 1
      BY <1>1
    <3> HIDE DEF u
    <3> QED
      BY <3>1, <2>4, PartOfPattern
  <2>7. \A k \in 0 .. N - 1 : f[k] = Part(w, k)
    <3> HIDE DEF F, w
    <3> QED
      BY <2>5
  <2>8. Sum(f) = w
    <3> HIDE DEF f, w
    <3> QED
      BY <2>6, <2>7, SumOfLimbs
  <2> QED
    BY <2>4, <2>8, <1>3 DEF p, c, l, t
<1> QED
  BY <1>2, <1>3

-----------------------------------------------------------------------------
(* Bits of limbs *)

\* g sums up the bits of u and v that count.
BitSums(g, u, v, ones) ==
  /\ g[0] = 0
  /\ \A n \in Nat : g[n + 1] = g[n] + (IF A!Bit(u, n) + A!Bit(v, n) \in ones THEN 2 ^ n ELSE 0)

LEMMA BitSumsExist ==
  ASSUME NEW u, NEW v, NEW ones
  PROVE  \E g : BitSums(g, u, v, ones) /\ A!Bitwise(u, v, ones) = g[Bits]
<1> DEFINE at(k) == IF A!Bit(u, k) + A!Bit(v, k) \in ones THEN 2 ^ k ELSE 0
           e == [k \in Nat |-> at(k)]
           g == CHOOSE b : b = [k \in Nat |-> IF k = 0 THEN 0 ELSE b[k - 1] + at(k - 1)]
<1>1. \E b : b = [k \in Nat |-> IF k = 0 THEN 0 ELSE b[k - 1] + e[k - 1]]
  <2> HIDE DEF e
  <2> QED
    BY SumsExist
<1>2. PICK b : b = [k \in Nat |-> IF k = 0 THEN 0 ELSE b[k - 1] + e[k - 1]]
  BY <1>1
<1>3. ASSUME NEW k \in Nat PROVE k # 0 => e[k - 1] = at(k - 1)
  <2> HIDE DEF at
  <2> QED
    OBVIOUS
<1>4. [k \in Nat |-> IF k = 0 THEN 0 ELSE b[k - 1] + e[k - 1]]
        = [k \in Nat |-> IF k = 0 THEN 0 ELSE b[k - 1] + at(k - 1)]
  <2> HIDE DEF at, e
  <2> QED
    BY <1>3
<1>5. b = [k \in Nat |-> IF k = 0 THEN 0 ELSE b[k - 1] + at(k - 1)]
  BY <1>2, <1>4
<1>6. g = [k \in Nat |-> IF k = 0 THEN 0 ELSE g[k - 1] + at(k - 1)]
  <2> HIDE DEF at
  <2> QED
    BY <1>5
<1>7. A!Bitwise(u, v, ones) = g[Bits]
  BY DEF A!Bitwise, Bits
<1> HIDE DEF g
<1>8. g[0] = 0
  BY <1>6
<1>9. ASSUME NEW k \in Nat PROVE g[k + 1] = g[k] + at(k)
  <2>1. k + 1 \in Nat /\ k + 1 # 0 /\ (k + 1) - 1 = k
    OBVIOUS
  <2> HIDE DEF at
  <2>2. g[k + 1] = g[(k + 1) - 1] + at((k + 1) - 1)
    BY <2>1, <1>6
  <2> QED
    BY <2>1, <2>2
<1>10. BitSums(g, u, v, ones)
  BY <1>8, <1>9 DEF BitSums
<1> QED
  BY <1>7, <1>10

\* Sums of bits are natural numbers.
LEMMA BitSumsNat ==
  ASSUME TypeNumbers, NEW g, NEW u, NEW v, NEW ones, BitSums(g, u, v, ones)
  PROVE  \A n \in 0 .. Bits : g[n] \in Nat
<1> DEFINE T == {n \in Nat : n <= Bits /\ g[n] \notin Nat}
<1>1. Bits \in Nat
  BY DEF TypeNumbers
<1> SUFFICES ASSUME T # {} PROVE FALSE
  BY <1>1
<1>2. PICK n \in T : \A l \in T : n <= l
  BY LeastNat
<1>3. n # 0 /\ n \in Nat /\ n <= Bits
  BY DEF BitSums
<1> DEFINE k == n - 1
<1>4. k \in Nat /\ k + 1 = n /\ k \notin T /\ k <= Bits /\ k \in 0 .. Bits
  BY <1>1, <1>2, <1>3
<1>5. g[k] \in Nat
  BY <1>4
<1> HIDE DEF k
<1>6. 2 ^ k \in Nat
  BY <1>4, BitPlaces
<1>7. g[k + 1] \in Nat
  BY <1>4, <1>5, <1>6 DEF BitSums
<1> QED
  BY <1>2, <1>4, <1>7

\* A bit of a limb is a bit of the number.
LEMMA BitOfLimb ==
  ASSUME TypeNumbers, NEW a \in Nat, NEW k \in 0 .. N - 1, NEW t_ \in 0 .. W - 1
  PROVE  A!Bit(a, k * W + t_) = A!Bit(Part(a, k), t_)
<1> DEFINE s == k * W + t_
           q == M ^ k
           p == 2 ^ t_
           c == 2 ^ (W - (t_ + 1))
           t == a \div q
           d == t % M
           u == t \div M
<1>1. /\ N \in Nat /\ W \in Nat /\ W >= 2 /\ M \in Nat /\ M >= 4 /\ Bits = N * W /\ Bits \in Nat
      /\ PowerLaws(2, Bits) /\ PowerLaws(M, 2 * N) /\ W <= Bits
  BY DEF TypeNumbers, Bits
<1>2. s \in 0 .. Bits - 1 /\ s \div W = k /\ s % W = t_
  <2>1. k * W + W <= N * W /\ 0 <= k * W /\ k * W \in Int
    BY <1>1, MultipleOrder, ProductBelow
  <2>2. s \in Int /\ s \in 0 .. Bits - 1
    BY <2>1, <1>1
  <2>3. s = k * W + t_ /\ k \in Int /\ t_ \in Int /\ 0 <= t_ /\ t_ < W
    BY <1>1
  <2> HIDE DEF s
  <2> QED
    BY <2>2, <2>3, <1>1, DivUnique
<1> HIDE DEF s
<1>3. 2 ^ s = q * p /\ p \in Nat /\ p > 0
  BY <1>2, ShiftParts
<1>4. q \in Nat /\ q > 0
  BY <1>1, LimbPlaces
<1>5. M = (2 * c) * p /\ c \in Nat
  <2>1. t_ \in 0 .. Bits /\ W \in 0 .. Bits /\ t_ <= W /\ W - (t_ + 1) \in 0 .. Bits
        /\ W - (t_ + 1) \in 0 .. Bits - 1 /\ (W - (t_ + 1)) + 1 = W - t_
    BY <1>1
  <2>2. 2 ^ W = 2 ^ t_ * 2 ^ (W - t_)
    BY <2>1, <1>1, PowersOrder
  <2>3. 2 ^ ((W - (t_ + 1)) + 1) = 2 * c /\ c \in Nat
    BY <2>1, BitPlaces
  <2>4. p * (2 * c) = (2 * c) * p
    BY <2>3, <1>3
  <2> QED
    BY <2>1, <2>2, <2>3, <2>4 DEF M
<1> HIDE DEF q, p, c
<1>6. t \in Nat
  BY <1>4, DivideNat
<1>7. (t \div p) % 2 = (d \div p) % 2
  <2> HIDE DEF t
  <2>1. t = u * M + d /\ u \in Nat /\ d \in 0 .. M - 1
    BY <1>1, <1>6, DivideNat
  <2> HIDE DEF u, d
  <2> DEFINE h == d \div p
             r == d % p
             w == u * (2 * c) + h
  <2>2. d = h * p + r /\ h \in Nat /\ r \in 0 .. p - 1
    BY <2>1, <1>1, <1>3, DivideNat
  <2> HIDE DEF h, r
  <2>3. t = w * p + r /\ w \in Int
    <3>1. (u * (2 * c) + h) * p = u * ((2 * c) * p) + h * p
      BY <2>1, <2>2, <1>3, <1>5
    <3> DEFINE um == u * M  hp == h * p
    <3>2. w * p = um + hp /\ t = um + d /\ d = hp + r /\ um \in Int /\ hp \in Int /\ w \in Int
      BY <3>1, <2>1, <2>2, <1>1, <1>3, <1>5
    <3> HIDE DEF um, hp, w
    <3> QED
      BY <3>2, <2>2, <1>3
  <2> DEFINE z == u * c
  <2>4. w = h + z * 2 /\ z \in Int
    BY <2>1, <2>2, <1>5
  <2> HIDE DEF w, z
  <2>5. t \div p = w
    <3>1. t \in Int /\ w \in Int /\ r \in Int /\ 0 <= r /\ r < p /\ p \in Int /\ p > 0 /\ t = w * p + r
      BY <2>2, <2>3, <1>3, <1>6
    <3> QED
      BY ONLY <3>1, DivUnique
  <2>6. (h + z * 2) % 2 = h % 2
    BY <2>2, <2>4
  <2> QED
    BY <2>4, <2>5, <2>6 DEF h
<1>8. (a \div 2 ^ s) = t \div p
  <2>1. a \div (p * q) = (a \div q) \div p
    BY <1>3, <1>4, SplitByProduct
  <2>2. q * p = p * q
    BY <1>3, <1>4
  <2> QED
    BY <2>1, <2>2, <1>3
<1> HIDE DEF t
<1> QED
  BY <1>7, <1>8 DEF A!Bit, Part, s, t, d, p, q

\* A limb has no more bits than its own.
LEMMA BitAboveLimb ==
  ASSUME TypeNumbers, NEW d \in 0 .. M - 1, NEW n \in W .. Bits
  PROVE  A!Bit(d, n) = 0
<1>1. /\ W \in Nat /\ M \in Nat /\ M > 0 /\ Bits \in Nat /\ W <= Bits /\ PowerLaws(2, Bits)
  BY DEF TypeNumbers
<1>2. W \in 0 .. Bits /\ n \in 0 .. Bits /\ W <= n
  BY <1>1
<1> DEFINE p == 2 ^ n
<1>3. M <= p
  BY <1>1, <1>2, PowersOrder DEF M
<1>4. p \in Nat /\ p > 0
  BY <1>2, BitPlaces
<1> HIDE DEF p
<1>5. d = 0 * p + d /\ d \in Int /\ 0 \in Int /\ 0 <= d /\ d < p /\ p \in Int /\ p > 0
  BY <1>1, <1>3, <1>4
<1>6. d \div p = 0
  BY ONLY <1>5, DivUnique
<1>7. d \div 2 ^ n = 0
  BY <1>6 DEF p
<1>8. 0 % 2 = 0
  OBVIOUS
<1>9. A!Bit(d, n) = (d \div 2 ^ n) % 2
  BY DEF A!Bit
<1> QED
  BY <1>7, <1>8, <1>9

\* The bits of a limb, at its place in the number.
LEMMA LimbOfBits ==
  ASSUME TypeNumbers, NEW ones, 0 \notin ones, NEW a \in Nat, NEW b \in Nat, NEW k \in 0 .. N - 1,
         NEW g, BitSums(g, a, b, ones), NEW f, BitSums(f, Part(a, k), Part(b, k), ones)
  PROVE  g[(k + 1) * W] = g[k * W] + f[Bits] * M ^ k
<1> DEFINE c == k * W
           q == M ^ k
           T == {n \in Nat : n <= W /\ g[c + n] # g[c] + f[n] * q}
           H == {n \in Nat : n <= Bits /\ n >= W /\ f[n] # f[W]}
<1>1. /\ N \in Nat /\ W \in Nat /\ W >= 2 /\ M \in Nat /\ M >= 4 /\ Bits = N * W /\ Bits \in Nat
      /\ W <= Bits /\ q \in Nat /\ q > 0
  BY LimbPlaces DEF TypeNumbers, Bits
<1>2. c \in Nat /\ c + W <= Bits /\ (k + 1) * W = c + W
  <2>1. k * W + W <= N * W /\ k * W \in Int /\ 0 <= k * W
    BY <1>1, MultipleOrder, ProductBelow
  <2>2. (k + 1) * W = k * W + W
    BY <1>1
  <2> QED
    BY <2>1, <2>2, <1>1
<1>3. \A n \in 0 .. Bits : g[n] \in Nat /\ f[n] \in Nat
  BY BitSumsNat
<1> HIDE DEF q
<1>4. T = {}
  <2> SUFFICES ASSUME T # {} PROVE FALSE
    OBVIOUS
  <2>1. PICK n \in T : \A l \in T : n <= l
    BY LeastNat
  <2>2. n \in Nat /\ n <= W /\ g[c + n] # g[c] + f[n] * q
    OBVIOUS
  <2>3. n # 0
    <3> SUFFICES ASSUME n = 0 PROVE FALSE
      OBVIOUS
    <3>1. f[0] = 0 /\ c + 0 = c /\ 0 * q = 0 /\ g[c] \in Nat
      BY <1>1, <1>2, <1>3 DEF BitSums
    <3>2. g[c] + 0 = g[c]
      BY <3>1
    <3> QED
      BY <2>2, <3>1, <3>2
  <2> DEFINE m == n - 1
  <2>4. m \in Nat /\ m + 1 = n /\ m \in 0 .. W - 1 /\ m \notin T /\ m <= W /\ m \in 0 .. Bits
    BY <2>1, <2>2, <2>3, <1>1
  <2>5. g[c + m] = g[c] + f[m] * q
    BY <2>4
  <2> DEFINE z == IF A!Bit(a, c + m) + A!Bit(b, c + m) \in ones THEN 2 ^ (c + m) ELSE 0
             w == IF A!Bit(Part(a, k), m) + A!Bit(Part(b, k), m) \in ones THEN 2 ^ m ELSE 0
  <2> HIDE DEF m, T
  <2>6. A!Bit(a, c + m) = A!Bit(Part(a, k), m) /\ A!Bit(b, c + m) = A!Bit(Part(b, k), m)
    <3> HIDE DEF c
    <3> QED
      BY <2>4, BitOfLimb DEF c
  <2>7. 2 ^ (c + m) = q * 2 ^ m /\ 2 ^ m \in Nat
    <3>1. c + m \in 0 .. Bits - 1 /\ (c + m) \div W = k /\ (c + m) % W = m
      <4>1. c + m \in 0 .. Bits - 1 /\ c + m \in Int
        BY <1>1, <1>2, <2>4
      <4> DEFINE s == c + m
      <4>2. s = k * W + m /\ k \in Int /\ m \in Int /\ 0 <= m /\ m < W /\ W \in Int /\ W > 0 /\ s \in Int
        BY <1>1, <2>4, <4>1
      <4> HIDE DEF s
      <4>3. s \div W = k /\ s % W = m
        BY ONLY <4>2, DivUnique
      <4> QED
        BY <4>1, <4>3 DEF s
    <3> HIDE DEF c
    <3>2. 2 ^ (c + m) = M ^ ((c + m) \div W) * 2 ^ ((c + m) % W) /\ 2 ^ ((c + m) % W) \in Nat
      BY <3>1, ShiftParts
    <3> QED
      BY <3>1, <3>2 DEF q
  <2>8. z = w * q /\ w \in Nat
    <3>1. q * 2 ^ m = 2 ^ m * q /\ 0 * q = 0
      BY <2>7, <1>1
    <3> HIDE DEF c
    <3> QED
      BY <2>6, <2>7, <3>1
  <2>9. g[(c + m) + 1] = g[c + m] + z /\ f[m + 1] = f[m] + w
    <3>1. c + m \in Nat
      BY <1>2, <2>4
    <3> HIDE DEF c
    <3> QED
      BY <2>4, <3>1 DEF BitSums
  <2> HIDE DEF z, w
  <2>10. (c + m) + 1 = c + n
    <3> HIDE DEF c
    <3> QED
      BY <1>2, <2>4
  <2>11. g[c + n] = (g[c] + f[m] * q) + w * q /\ f[n] = f[m] + w
    BY <2>4, <2>5, <2>8, <2>9, <2>10
  <2>12. (f[m] + w) * q = f[m] * q + w * q /\ f[m] * q \in Nat /\ w * q \in Nat /\ g[c] \in Nat
    <3>1. f[m] \in Nat /\ g[c] \in Nat
      <4>1. c \in 0 .. Bits
        BY <1>1, <1>2
      <4> QED
        BY <1>3, <2>4, <4>1
    <3> QED
      BY <3>1, <2>8, <1>1
  <2> DEFINE fq == f[m] * q  wq == w * q  gc == g[c]
  <2>13. g[c + n] = (gc + fq) + wq /\ f[n] * q = fq + wq /\ gc \in Nat /\ fq \in Nat /\ wq \in Nat
    BY <2>11, <2>12
  <2> HIDE DEF fq, wq, gc
  <2>14. (gc + fq) + wq = gc + (fq + wq)
    BY <2>13
  <2>15. g[c + n] = gc + f[n] * q
    BY <2>13, <2>14
  <2> QED
    BY <2>2, <2>15 DEF gc
<1>5. H = {}
  <2> SUFFICES ASSUME H # {} PROVE FALSE
    OBVIOUS
  <2>1. PICK n \in H : \A l \in H : n <= l
    BY LeastNat
  <2>2. n \in Nat /\ n <= Bits /\ n >= W /\ f[n] # f[W] /\ n # W
    OBVIOUS
  <2> DEFINE m == n - 1
  <2>3. m \in Nat /\ m + 1 = n /\ m \in W .. Bits /\ m \notin H /\ m <= Bits /\ m >= W /\ m \in 0 .. Bits
    BY <2>1, <2>2, <1>1
  <2>4. f[m] = f[W]
    BY <2>3
  <2> HIDE DEF m, H
  <2>5. A!Bit(Part(a, k), m) = 0 /\ A!Bit(Part(b, k), m) = 0
    <3>1. Part(a, k) \in 0 .. M - 1 /\ Part(b, k) \in 0 .. M - 1
      <4>1. k \in 0 .. 2 * N - 1
        BY <1>1
      <4> QED
        BY <4>1, Parts
    <3> QED
      BY <3>1, <2>3, BitAboveLimb
  <2>6. f[m + 1] = f[m] + 0
    BY <2>3, <2>5 DEF BitSums
  <2>7. f[m] + 0 = f[m]
    BY <2>3, <1>3
  <2> QED
    BY <2>2, <2>3, <2>4, <2>6, <2>7
<1>6. g[c + W] = g[c] + f[W] * q
  <2>1. W \in Nat /\ W <= W /\ W \notin T
    BY <1>1, <1>4
  <2> QED
    BY <2>1
<1>7. f[Bits] = f[W]
  <2>1. Bits \in Nat /\ Bits <= Bits /\ Bits >= W /\ Bits \notin H
    BY <1>1, <1>5
  <2> QED
    BY <2>1
<1> QED
  BY <1>2, <1>6, <1>7 DEF q

\* The limbs' bits are the number's.
LEMMA BitwiseRight ==
  ASSUME TypeNumbers, NEW ones, 0 \notin ones, NEW a \in Nat, NEW b \in Nat, NEW f,
         \A k \in 0 .. N - 1 : f[k] = A!Bitwise(Part(a, k), Part(b, k), ones)
  PROVE  Sum(f) = A!Bitwise(a, b, ones)
<1>1. PICK g : BitSums(g, a, b, ones) /\ A!Bitwise(a, b, ones) = g[Bits]
  BY BitSumsExist
<1>2. PICK s : /\ s[0] = 0
               /\ \A k \in Nat : s[k + 1] = s[k] + f[k] * M ^ k
               /\ Sum(f) = s[N]
  BY LimbSums
<1>3. ASSUME NEW k \in 0 .. N - 1 PROVE g[(k + 1) * W] = g[k * W] + f[k] * M ^ k
  <2>1. PICK h : BitSums(h, Part(a, k), Part(b, k), ones)
                 /\ A!Bitwise(Part(a, k), Part(b, k), ones) = h[Bits]
    BY BitSumsExist
  <2>2. g[(k + 1) * W] = g[k * W] + h[Bits] * M ^ k
    BY <1>1, <2>1, LimbOfBits
  <2> QED
    BY <2>1, <2>2
<1>4. N \in Nat /\ W \in Nat /\ 0 * W = 0 /\ N * W = Bits
  BY DEF TypeNumbers, Bits
<1> DEFINE T == {k \in Nat : k <= N /\ s[k] # g[k * W]}
<1>5. T = {}
  <2> SUFFICES ASSUME T # {} PROVE FALSE
    OBVIOUS
  <2>1. PICK k \in T : \A l \in T : k <= l
    BY LeastNat
  <2>2. k \in Nat /\ k <= N /\ s[k] # g[k * W] /\ k # 0
    BY <1>1, <1>2, <1>4 DEF BitSums
  <2> DEFINE p == k - 1
  <2>3. p \in Nat /\ p + 1 = k /\ p \notin T /\ p <= N /\ p \in 0 .. N - 1
    BY <2>1, <2>2, <1>4
  <2>4. s[p] = g[p * W]
    BY <2>3
  <2> HIDE DEF p
  <2>5. s[p + 1] = g[(p + 1) * W]
    BY <2>3, <2>4, <1>2, <1>3
  <2> QED
    BY <2>2, <2>3, <2>5
<1>6. s[N] = g[N * W]
  <2>1. N \notin T /\ N <= N
    BY <1>4, <1>5
  <2> QED
    BY <2>1, <1>4
<1> QED
  BY <1>1, <1>2, <1>4, <1>6

-----------------------------------------------------------------------------
(* Width *)

LEMMA BitWidthIs ==
  ASSUME TypeNumbers, NEW a \in Nat, NEW e \in 0 .. Bits, a < 2 ^ e, e # 0 => 2 ^ (e - 1) <= a
  PROVE  A!BitWidth(a) = e
<1>1. Bits \in Nat /\ PowerLaws(2, Bits) /\ \A k \in 0 .. Bits : 2 ^ k \in Nat
  BY BitPlaces DEF TypeNumbers
<1>2. ASSUME NEW k \in 0 .. Bits, NEW l \in 0 .. Bits, k <= l PROVE 2 ^ k <= 2 ^ l
  <2>1. 2 \in Nat /\ 2 > 0
    OBVIOUS
  <2> QED
    BY <2>1, <1>1, <1>2, PowersOrder
<1> DEFINE Good(k) == a < 2 ^ k /\ \A l \in 0 .. k - 1 : a >= 2 ^ l
<1>3. Good(e)
  <2> SUFFICES ASSUME NEW l \in 0 .. e - 1 PROVE a >= 2 ^ l
    OBVIOUS
  <2>1. e # 0 /\ l \in 0 .. Bits /\ e - 1 \in 0 .. Bits /\ l <= e - 1
    BY <1>1
  <2>2. 2 ^ l <= 2 ^ (e - 1) /\ 2 ^ (e - 1) <= a /\ 2 ^ l \in Nat /\ 2 ^ (e - 1) \in Nat
    BY <2>1, <1>1, <1>2
  <2> QED
    BY <2>2
<1>4. ASSUME NEW k \in 0 .. Bits, Good(k) PROVE k = e
  <2>1. CASE k < e
    <3>1. e # 0 /\ k <= e - 1 /\ e - 1 \in 0 .. Bits
      BY <2>1, <1>1
    <3>2. 2 ^ k <= 2 ^ (e - 1) /\ 2 ^ (e - 1) <= a /\ 2 ^ k \in Nat /\ 2 ^ (e - 1) \in Nat
      BY <3>1, <1>1, <1>2
    <3>3. a < 2 ^ k
      BY <1>4
    <3> QED
      BY <3>2, <3>3
  <2>2. CASE e < k
    <3>1. e \in 0 .. k - 1
      BY <2>2
    <3>2. a >= 2 ^ e /\ 2 ^ e \in Nat
      BY <3>1, <1>1, <1>4
    <3> QED
      BY <3>2
  <2> QED
    BY <2>1, <2>2
<1>5. A!BitWidth(a) = CHOOSE k \in 0 .. N * W : Good(k)
  BY DEF A!BitWidth
<1>6. N * W = Bits
  BY DEF Bits
<1> HIDE DEF Good
<1> QED
  BY <1>3, <1>4, <1>5, <1>6

\* The leading zeros of a limb.
LEMMA LeadingZeros ==
  ASSUME TypeNumbers, NEW d \in 1 .. M - 1
  PROVE  LET z == countl_zero64(d)
         IN z \in 0 .. W - 1 /\ d < 2 ^ (W - z) /\ 2 ^ (W - z - 1) <= d
<1>1. /\ W \in Nat /\ W > 0 /\ W >= 2 /\ Bits \in Nat /\ W <= Bits /\ PowerLaws(2, Bits) /\ M \in Nat
      /\ \A k \in 0 .. Bits : 2 ^ k \in Nat /\ 2 ^ k > 0
  BY BitPlaces DEF TypeNumbers
<1>2. PowerLaws(2, W)
  BY <1>1 DEF PowerLaws
<1> DEFINE Good(z) == d < 2 ^ (W - z) /\ (z = W \/ d >= 2 ^ (W - z - 1))
<1>3. \E z \in 0 .. W : Good(z)
  <2>1. d \in 1 .. 2 ^ W - 1
    BY DEF M
  <2>2. PICK s \in 0 .. W - 1 : ShiftsUp(2 ^ W, W, d, s)
    BY <2>1, <1>1, <1>2, ShiftFound
  <2> DEFINE p == 2 ^ s
             c == 2 ^ (W - s)
             h == 2 ^ (W - s - 1)
  <2>3. M <= 2 * d * p /\ d * p < M
    BY <2>2 DEF ShiftsUp, M
  <2>4. M = c * p /\ c = 2 * h /\ p \in Nat /\ p > 0 /\ c \in Nat /\ h \in Nat
    <3>1. s \in 0 .. Bits /\ W \in 0 .. Bits /\ s <= W /\ W - s - 1 \in 0 .. Bits - 1
          /\ W - s - 1 \in 0 .. Bits /\ (W - s - 1) + 1 = W - s /\ W - s \in 0 .. Bits
      BY <1>1
    <3>2. 2 ^ W = 2 ^ s * 2 ^ (W - s)
      BY <3>1, <1>1, PowersOrder
    <3>3. 2 ^ ((W - s - 1) + 1) = 2 * 2 ^ (W - s - 1)
      BY <3>1, BitPlaces
    <3>4. p * c = c * p
      BY <3>1, <1>1
    <3> QED
      BY <3>1, <3>2, <3>3, <3>4, <1>1 DEF M
  <2> HIDE DEF p, c, h
  <2>5. d < c
    <3>1. d * p < c * p /\ d \in Int
      BY <2>3, <2>4
    <3> QED
      BY <3>1, <2>4, CancelFactor
  <2>6. h <= d
    <3> SUFFICES ASSUME d < h PROVE FALSE
      BY <2>4
    <3>1. d * p + p <= h * p
      BY <2>4, MultipleOrder
    <3>2. (2 * h) * p = 2 * (h * p) /\ 2 * d * p = 2 * (d * p) /\ h * p \in Int /\ d * p \in Int
      BY <2>4
    <3> DEFINE hp == h * p  dp == d * p
    <3>3. dp + p <= hp /\ M = 2 * hp /\ M <= 2 * dp /\ hp \in Int /\ dp \in Int
      BY <3>1, <3>2, <2>3, <2>4
    <3> HIDE DEF hp, dp
    <3> QED
      BY <3>3, <2>4
  <2>7. Good(s)
    BY <2>4, <2>5, <2>6 DEF c, h
  <2> HIDE DEF Good
  <2> QED
    BY <2>7, <1>1
<1> DEFINE z == countl_zero64(d)
<1>4. z = CHOOSE k \in 0 .. W : Good(k)
  BY DEF countl_zero64
<1>5. z \in 0 .. W /\ Good(z)
  <2> HIDE DEF Good, z
  <2> QED
    BY <1>3, <1>4
<1> HIDE DEF z
<1>6. z # W
  <2> SUFFICES ASSUME z = W PROVE FALSE
    OBVIOUS
  <2>1. W - z = 0 /\ 2 ^ 0 = 1
    BY <1>1 DEF PowerLaws
  <2> QED
    BY <2>1, <1>5
<1>7. d >= 2 ^ (W - z - 1) /\ W - z - 1 \in 0 .. Bits
  BY <1>1, <1>5, <1>6
<1> QED
  BY <1>1, <1>5, <1>6, <1>7 DEF z

\* The limbs above the last one that is not zero do not count.
LEMMA LastLimb ==
  ASSUME TypeNumbers, NEW a \in Patterns, NEW m \in 0 .. N - 1,
         \A k \in m + 1 .. N - 1 : Part(a, k) = 0
  PROVE  a \div M ^ m = Part(a, m)
<1>1. N \in Nat /\ M \in Nat /\ M > 0 /\ a \in Nat /\ a \div M ^ N = 0
  BY AllIs, Ends DEF TypeNumbers
<1> DEFINE T == {n \in Nat : n <= N - (m + 1) /\ a \div M ^ (N - n) # 0}
<1>2. T = {}
  <2> SUFFICES ASSUME T # {} PROVE FALSE
    OBVIOUS
  <2>1. PICK n \in T : \A l \in T : n <= l
    BY LeastNat
  <2>2. n \in Nat /\ n <= N - (m + 1) /\ a \div M ^ (N - n) # 0 /\ n # 0
    BY <1>1
  <2> DEFINE p == n - 1
             k == N - n
  <2>3. p \in Nat /\ p \notin T /\ p <= N - (m + 1) /\ N - p = k + 1 /\ k \in m + 1 .. N - 1
        /\ k \in 0 .. 2 * N - 1
    <3> HIDE DEF T
    <3>1. p \in Nat /\ p <= N - (m + 1) /\ N - p = k + 1 /\ k \in m + 1 .. N - 1
          /\ k \in 0 .. 2 * N - 1 /\ ~(n <= p)
      BY <2>2, <1>1
    <3>2. p \notin T
      BY <2>1, <3>1
    <3> QED
      BY <3>1, <3>2
  <2>4. a \div M ^ (k + 1) = 0
    BY <2>3
  <2>5. Part(a, k) = 0
    BY <2>3
  <2> HIDE DEF k
  <2>6. a \div M ^ k = (a \div M ^ (k + 1)) * M + Part(a, k)
    BY <2>3, <1>1, Parts
  <2>7. 0 * M + 0 = 0
    BY <1>1
  <2> QED
    BY <2>2, <2>4, <2>5, <2>6, <2>7 DEF k
<1> DEFINE n == N - (m + 1)
<1>3. n \in Nat /\ n <= N - (m + 1) /\ n \notin T /\ N - n = m + 1 /\ m \in 0 .. 2 * N - 1
  <2> HIDE DEF T
  <2> QED
    BY <1>1, <1>2
<1>4. a \div M ^ (m + 1) = 0
  BY <1>3
<1>5. a \div M ^ m = (a \div M ^ (m + 1)) * M + Part(a, m) /\ Part(a, m) \in 0 .. M - 1
  BY <1>1, <1>3, Parts
<1>6. 0 * M + Part(a, m) = Part(a, m)
  BY <1>1, <1>5
<1> QED
  BY <1>4, <1>5, <1>6

LEMMA BitWidthRight ==
  ASSUME TypeNumbers, NEW a \in Patterns
  PROVE  LET active == {k \in 0 .. N - 1 : Part(a, k) # 0}
         IN (IF active = {} THEN 0
             ELSE (Max(active) + 1) * W - countl_zero64(Part(a, Max(active)))) = A!BitWidth(a)
<1> DEFINE active == {k \in 0 .. N - 1 : Part(a, k) # 0}
           m == Max(active)
           d == Part(a, m)
           z == countl_zero64(d)
<1>1. /\ N \in Nat /\ N >= 2 /\ M \in Nat /\ M >= 4 /\ W \in Nat /\ W >= 2 /\ Bits = N * W
      /\ Bits \in Nat /\ W <= Bits /\ PowerLaws(2, Bits) /\ PowerLaws(M, 2 * N) /\ a \in Nat
      /\ a < All /\ 0 \in Patterns /\ 2 ^ 0 = 1 /\ M ^ 0 = 1
  BY AllIs, NothingYet, BitPlaces DEF TypeNumbers, Bits
<1>2. CASE active = {}
  <2> DEFINE f == [k \in 0 .. N - 1 |-> 0]
  <2>1. \A k \in 0 .. N - 1 : f[k] = Part(a, k)
    BY <1>2
  <2>2. ASSUME NEW k \in 0 .. N - 1 PROVE f[k] = Part(0, k)
    <3>1. 0 <= k /\ k <= 2 * N /\ k \in Nat /\ 0 \in 0 .. M ^ 0 - 1 /\ 0 \in Nat
      BY <1>1
    <3>2. Part(0, k) = 0
      BY <3>1, NothingAbove
    <3> QED
      BY <3>2
  <2> HIDE DEF f
  <2>3. Sum(f) = a
    BY <2>1, SumOfLimbs
  <2>4. Sum(f) = 0
    BY <2>2, <1>1, SumOfLimbs
  <2>5. a < 2 ^ 0 /\ 0 \in 0 .. Bits
    BY <2>3, <2>4, <1>1
  <2>6. A!BitWidth(a) = 0
    BY <2>5, <1>1, BitWidthIs
  <2> QED
    BY <2>6, <1>2
<1>3. CASE active # {}
  <2>1. m \in active /\ \A k \in active : m >= k
    <3> DEFINE T == {n \in Nat : n <= N /\ N - n \in active}
    <3>1. T # {} /\ T \in SUBSET Nat
      <4>1. PICK k \in active : TRUE
        BY <1>3
      <4>2. k \in 0 .. N - 1
        OBVIOUS
      <4> HIDE DEF active
      <4>3. N - k \in Nat /\ N - k <= N /\ N - (N - k) = k
        BY <4>2, <1>1
      <4> QED
        BY <4>1, <4>3
    <3>2. PICK n \in T : \A l \in T : n <= l
      BY <3>1, LeastNat
    <3>3. N - n \in active /\ n \in Nat
      OBVIOUS
    <3>4. ASSUME NEW k \in active PROVE N - n >= k
      <4>1. k \in 0 .. N - 1
        OBVIOUS
      <4> HIDE DEF active
      <4>2. N - k \in Nat /\ N - k <= N /\ N - (N - k) = k
        BY <4>1, <1>1
      <4>3. N - k \in T
        BY <4>2
      <4>4. n <= N - k
        BY <4>3, <3>2
      <4> QED
        BY <4>1, <4>4, <3>3, <1>1
    <3>5. \E k \in active : \A l \in active : k >= l
      BY <3>3, <3>4
    <3> HIDE DEF active, T
    <3> QED
      BY <3>5 DEF Max
  <2> HIDE DEF m
  <2>2. m \in 0 .. N - 1 /\ d # 0
    BY <2>1
  <2>3. \A k \in m + 1 .. N - 1 : Part(a, k) = 0
    <3> SUFFICES ASSUME NEW k \in m + 1 .. N - 1, Part(a, k) # 0 PROVE FALSE
      OBVIOUS
    <3>1. k \in 0 .. N - 1 /\ ~(m >= k)
      BY <2>2, <1>1
    <3> QED
      BY <3>1, <2>1
  <2>4. a \div M ^ m = d
    BY <2>2, <2>3, LastLimb
  <2>5. d \in 1 .. M - 1
    <3>1. m \in 0 .. 2 * N - 1
      BY <2>2, <1>1
    <3>2. d \in 0 .. M - 1
      BY <3>1, <1>1, Parts
    <3> QED
      BY <3>2, <2>2, <1>1
  <2> HIDE DEF d, active
  <2>6. z \in 0 .. W - 1 /\ d < 2 ^ (W - z) /\ 2 ^ (W - z - 1) <= d
    BY <2>5, LeadingZeros
  <2> HIDE DEF z
  <2> DEFINE q == M ^ m
             c == m * W
             g == W - z
             e == c + g
  <2>7. /\ q \in Nat /\ q > 0 /\ q = 2 ^ c /\ c \in 0 .. Bits /\ c + W <= Bits /\ g \in 1 .. W
        /\ (m + 1) * W - z = e
    <3>1. PowerLaws(M, N) /\ m \in 0 .. N /\ m \in 0 .. 2 * N
      BY <1>1, <2>2 DEF PowerLaws
    <3>2. PowerLaws(2, N * W) /\ PowerLaws(2 ^ W, N) /\ W > 0
      BY <3>1, <1>1 DEF M
    <3>3. m * W \in 0 .. N * W /\ 2 ^ (m * W) = (2 ^ W) ^ m
      BY <3>1, <3>2, <1>1, LimbsArePowers
    <3>4. m * W + W <= N * W /\ (m + 1) * W = m * W + W
      BY <2>2, <1>1, MultipleOrder
    <3>5. q \in Nat /\ q > 0
      BY <3>1, LimbPlaces
    <3>6. q = 2 ^ c /\ c \in 0 .. Bits
      BY <3>3, <1>1 DEF M
    <3> HIDE DEF q
    <3> QED
      BY <3>4, <3>5, <3>6, <2>6, <1>1
  <2> HIDE DEF q, c
  <2> DEFINE u == 2 ^ g
             v == 2 ^ (g - 1)
  <2>8. 2 ^ e = q * u /\ 2 ^ (e - 1) = q * v /\ u \in Nat /\ v \in Nat /\ v > 0
        /\ e \in 0 .. Bits /\ e # 0 /\ e \in Int
    <3>1. c \in Nat /\ g \in 0 .. Bits /\ g - 1 \in 0 .. Bits /\ c + g <= Bits /\ c + (g - 1) <= Bits
          /\ c + (g - 1) = e - 1 /\ e \in 0 .. Bits /\ e # 0
      BY <2>7, <1>1
    <3> HIDE DEF g
    <3>2. 2 ^ (c + g) = 2 ^ c * 2 ^ g
      BY <3>1, <1>1, PowersTimes
    <3>3. 2 ^ (c + (g - 1)) = 2 ^ c * 2 ^ (g - 1)
      <4> DEFINE h == g - 1
      <4>1. h \in 0 .. Bits /\ c + h <= Bits
        BY <3>1
      <4> HIDE DEF h
      <4>2. 2 ^ (c + h) = 2 ^ c * 2 ^ h
        BY <4>1, <3>1, <1>1, PowersTimes
      <4> QED
        BY <4>2 DEF h
    <3>4. u \in Nat /\ v \in Nat /\ v > 0
      BY <3>1, BitPlaces
    <3> QED
      BY <3>1, <3>2, <3>3, <3>4, <2>7
  <2>9. d < u /\ v <= d
    <3>1. W - z - 1 = g - 1
      BY <2>6, <1>1
    <3> QED
      BY <2>6, <3>1
  <2> HIDE DEF u, v, e, g
  <2>10. a = d * q + (a % q) /\ a % q \in 0 .. q - 1
    <3>1. a = (a \div q) * q + (a % q) /\ a % q \in 0 .. q - 1
      BY <1>1, <2>7, DivideNat
    <3> QED
      BY <3>1, <2>4 DEF q
  <2>11. a < 2 ^ e /\ 2 ^ (e - 1) <= a
    <3>1. d * q + q <= u * q
      BY <2>5, <2>7, <2>8, <2>9, MultipleOrder
    <3>2. v * q <= d * q
      BY <2>5, <2>7, <2>8, <2>9, ProductBelow
    <3>3. u * q = q * u /\ v * q = q * v /\ d * q \in Int /\ u * q \in Int /\ v * q \in Int
      BY <2>5, <2>7, <2>8
    <3> DEFINE dq == d * q  uq == u * q  vq == v * q
    <3>4. /\ dq + q <= uq /\ vq <= dq /\ dq \in Int /\ uq \in Int /\ vq \in Int
          /\ 2 ^ e = uq /\ 2 ^ (e - 1) = vq /\ a = dq + (a % q) /\ a % q \in 0 .. q - 1
      BY <3>1, <3>2, <3>3, <2>8, <2>10
    <3> HIDE DEF dq, uq, vq
    <3>5. a < uq /\ vq <= a
      BY <3>4, <2>7, <1>1
    <3> QED
      BY <3>4, <3>5
  <2>12. A!BitWidth(a) = e
    BY <2>8, <2>11, <1>1, BitWidthIs
  <2>13. (m + 1) * W - z = e
    BY <2>7 DEF e, g
  <2> QED
    BY <2>12, <2>13, <1>3 DEF z, d, m, active
<1> QED
  BY <1>2, <1>3

-----------------------------------------------------------------------------
(* Every operation answers with the integer it stands for *)

\* What a loop works on, and what for.
Working ==
  LET a == request.a  b == request.b
  IN /\ stage = "sum" =>
          \/ request.op = "add" /\ x = a /\ y = b
          \/ request.op = "negate" /\ x = All - 1 - a /\ y = 1
          \/ request.op = "magnitude" /\ Negative(a) /\ x = All - 1 - a /\ y = 1
     /\ stage = "difference" => request.op = "sub" /\ x = a /\ y = b
     /\ stage = "row" => request.op \in {"mul", "mul_full"} /\ x = a /\ y = b
     /\ stage = "bits" => request.op \in {"div", "mod"} /\ x = a /\ y = b
     /\ stage = "words" =>
          /\ request.op \in ByWord \union {"div_signed64"}
          /\ y = DivisorMagnitude /\ (negative <=> (Negative(a) # SignedDivisor))

\* An operation is answered once.
Answering == IF stage = "answered" THEN answer # A!NoAnswer ELSE answer = A!NoAnswer

LEMMA OperandsAre ==
  ASSUME Operands
  PROVE  /\ request.op \in Unary \union Binary => request.a \in Patterns /\ request.b \in Patterns
         /\ request.op \in Shifts => request.a \in Patterns /\ request.b \in 0 .. Bits + 1
         /\ request.op = "extend" => request.b \in {1, N \div 2} /\ request.a \in 0 .. M ^ request.b - 1
         /\ request.op = "imul" => request.a \in 0 .. M - 1 /\ request.b \in 0 .. M - 1
         /\ request.op \in ByWord \union {"div_signed64"} =>
              N = 2 /\ request.a \in Patterns /\ request.b \in 1 .. M - 1
         /\ request.op # "none"
BY DEF Operands, Unary, Binary, Shifts, ByWord, Checked

LEMMA SummedRight ==
  ASSUME TypeNumbers, Operands, Loops, Working, Summed
  PROVE  answer' = A!RightAnswer(request)
<1> DEFINE a == request.a
           b == request.b
<1>1. i = N /\ answer' = A!Value(<<res>>) /\ stage \in {"sum", "difference"}
  BY DEF Summed, Reply, Respond
<1>2. request.op \in Unary \union Binary => a \in Patterns /\ b \in Patterns
  BY OperandsAre
<1>3. CASE stage = "sum"
  <2>1. res = (x + y) % All
    BY <1>1, <1>3, SumDone DEF Loops
  <2>2. CASE request.op = "add" /\ x = a /\ y = b
    BY <2>1, <2>2, <1>1, ArithmeticOwed DEF Owed
  <2>3. CASE request.op = "negate" /\ x = All - 1 - a /\ y = 1
    <3>1. res = (-a) % All
      BY <2>1, <2>3, <1>2, ComplementAndOne DEF Unary
    <3> QED
      BY <3>1, <2>3, <1>1, ArithmeticOwed DEF Owed
  <2>4. CASE request.op = "magnitude" /\ Negative(a) /\ x = All - 1 - a /\ y = 1
    <3>1. res = Dividend
      BY <2>1, <2>4, <1>2, ComplementAndOne DEF Unary, Dividend
    <3> QED
      BY <3>1, <2>4, <1>1, ArithmeticOwed DEF Owed
  <2> QED
    BY <2>2, <2>3, <2>4, <1>3 DEF Working
<1>4. CASE stage = "difference"
  <2>1. res = (x - y) % All
    BY <1>1, <1>4, DifferenceDone DEF Loops
  <2>2. request.op = "sub" /\ x = a /\ y = b
    BY <1>4 DEF Working
  <2> QED
    BY <2>1, <2>2, <1>1, ArithmeticOwed DEF Owed
<1> QED
  BY <1>1, <1>3, <1>4

LEMMA MultipliedRight ==
  ASSUME TypeNumbers, Operands, Loops, Working, Multiplied
  PROVE  answer' = A!RightAnswer(request)
<1>1. i = N /\ answer' = A!Value(<<res>>) /\ stage = "row"
  BY DEF Multiplied, Reply, Respond
<1>2. res = IF request.op = "mul" THEN (x * y) % All ELSE x * y
  BY <1>1, ProductDone DEF Loops
<1>3. request.op \in {"mul", "mul_full"} /\ x = request.a /\ y = request.b
  BY <1>1 DEF Working
<1>4. CASE request.op = "mul"
  <2>1. res = (request.a * request.b) % All
    BY <1>2, <1>3, <1>4
  <2> QED
    BY <2>1, <1>1, <1>4, ArithmeticOwed DEF Owed
<1>5. CASE request.op = "mul_full"
  <2>1. res = request.a * request.b
    BY <1>2, <1>3, <1>5
  <2> QED
    BY <2>1, <1>1, <1>5, ArithmeticOwed DEF Owed
<1> QED
  BY <1>3, <1>4, <1>5

LEMMA DividedRight ==
  ASSUME TypeNumbers, Operands, Loops, Working, Divided
  PROVE  answer' = A!RightAnswer(request)
<1>1. i = 0 /\ answer' = A!Value(<<IF request.op = "div" THEN res ELSE rem>>) /\ stage = "bits"
  BY DEF Divided, Reply, Respond
<1>2. x \in Nat /\ y \in Nat /\ y > 0 /\ Halfway(0, x, y, res, rem) /\ 2 ^ 0 = 1
  <2>1. x \in Patterns /\ y \in Patterns /\ y > 0 /\ Halfway(0, x, y, res, rem)
    BY <1>1 DEF Loops, Dividing
  <2> QED
    BY <2>1, AllIs, BitPlaces
<1>3. res = x \div y /\ rem = x % y
  BY <1>2, DivisionEnds
<1>4. request.op \in {"div", "mod"} /\ x = request.a /\ y = request.b
  BY <1>1 DEF Working
<1>5. request.b # 0
  BY <1>2, <1>4
<1>6. CASE request.op = "div"
  BY <1>1, <1>3, <1>4, <1>5, <1>6, ArithmeticOwed DEF Owed
<1>7. CASE request.op = "mod"
  BY <1>1, <1>3, <1>4, <1>5, <1>7, ArithmeticOwed DEF Owed
<1> QED
  BY <1>4, <1>6, <1>7

LEMMA WordsDividedRight ==
  ASSUME TypeNumbers, Operands, Loops, Working, WordsDivided
  PROVE  answer' = A!RightAnswer(request)
<1> DEFINE s == Negative(request.a) # SignedDivisor
<1>1. /\ i = 0 /\ stage = "words"
      /\ answer' = A!Value(IF request.op = "div_signed64"
                             THEN <<Signed(res, negative, W), Signed(rem, Negative(request.a), W)>>
                             ELSE <<Signed(res, negative, Bits)>>)
  BY DEF WordsDivided, Reply, Respond
<1>2. Dividend \in Nat /\ y \in Nat /\ y > 0 /\ Halfway(0, Dividend, y, res, rem) /\ 2 ^ 0 = 1
      /\ N = 2 /\ request.a \in Patterns
  <2>1. N = 2 /\ request.a \in Patterns /\ y \in 1 .. M - 1 /\ Halfway(0, Dividend, y, res, rem)
    BY <1>1 DEF Loops, ByWords
  <2>2. Dividend \in Patterns /\ M \in Nat
    BY <2>1, WideSign DEF Dividend, TypeNumbers
  <2> QED
    BY <2>1, <2>2, AllIs, BitPlaces
<1>3. res = Dividend \div y /\ rem = Dividend % y
  BY <1>2, DivisionEnds
<1>4. /\ request.op \in ByWord \union {"div_signed64"} /\ y = DivisorMagnitude
      /\ (negative <=> s)
  BY <1>1 DEF Working
<1>5. request.b \in 1 .. M - 1
  BY <1>4, OperandsAre
<1>6. Owed(IF request.op = "div_signed64"
             THEN <<Signed(Dividend \div y, s, W), Signed(Dividend % y, Negative(request.a), W)>>
             ELSE <<Signed(Dividend \div y, s, Bits)>>)
  BY <1>2, <1>4, <1>5, WordsRight
<1>7. \A v, n : Signed(v, negative, n) = Signed(v, s, n)
  BY <1>4 DEF Signed
<1> HIDE DEF s
<1> QED
  BY <1>1, <1>3, <1>6, <1>7 DEF Owed

LEMMA ComparedRight ==
  ASSUME TypeNumbers, Operands, Less
  PROVE  answer' = A!RightAnswer(request)
<1>1. /\ request.op \in {"less", "signed_less"}
      /\ request.op = "less" => answer' = A!Value(<<Indicator(Below(request.a, request.b))>>)
      /\ request.op = "signed_less" =>
           answer' = A!Value(<<Indicator(SignedBelow(request.a, request.b))>>)
  BY DEF Less, Op, Reply, Respond
<1>2. request.a \in Patterns /\ request.b \in Patterns
  BY <1>1, OperandsAre DEF Binary
<1> QED
  BY <1>1, <1>2, LessRight, BitsOwed DEF Owed

LEMMA BitwiseAnswer ==
  ASSUME TypeNumbers, Operands, Bitwise
  PROVE  answer' = A!RightAnswer(request)
<1> DEFINE a == request.a
           b == request.b
           f(ones) == [k \in 0 .. N - 1 |-> A!Bitwise(Part(a, k), Part(b, k), ones)]
<1>1. request.op \in {"and", "or", "xor"}
  BY DEF Bitwise, Op
<1>2. a \in Nat /\ b \in Nat
  BY <1>1, OperandsAre, AllIs DEF Binary
<1>3. ASSUME NEW ones, 0 \notin ones
      PROVE  Sum(f(ones)) = A!Bitwise(a, b, ones)
  <2> DEFINE g == f(ones)
  <2>1. \A k \in 0 .. N - 1 : g[k] = A!Bitwise(Part(a, k), Part(b, k), ones)
    OBVIOUS
  <2> HIDE DEF g
  <2>2. Sum(g) = A!Bitwise(a, b, ones)
    BY <1>2, <1>3, <2>1, BitwiseRight
  <2> QED
    BY <2>2 DEF g
<1>4. /\ request.op = "and" => answer' = A!Value(<<Sum(f({2}))>>)
      /\ request.op = "or" => answer' = A!Value(<<Sum(f({1, 2}))>>)
      /\ request.op = "xor" => answer' = A!Value(<<Sum(f({1}))>>)
  BY DEF Bitwise, Op, Reply, Respond
<1>5. 0 \notin {2} /\ 0 \notin {1, 2} /\ 0 \notin {1}
  OBVIOUS
<1> HIDE DEF f
<1>6. /\ Sum(f({2})) = A!Bitwise(a, b, {2}) /\ Sum(f({1, 2})) = A!Bitwise(a, b, {1, 2})
      /\ Sum(f({1})) = A!Bitwise(a, b, {1})
  BY <1>3, <1>5
<1> QED
  BY <1>1, <1>4, <1>6, BitsOwed DEF Owed

LEMMA ExtendAnswer ==
  ASSUME TypeNumbers, Operands, Extend
  PROVE  answer' = A!RightAnswer(request)
<1> DEFINE a == request.a
           l == request.b
           sign == IF Part(a, l - 1) >= M \div 2 THEN M - 1 ELSE 0
           s == Sum([k \in 0 .. N - 1 |-> IF k < l THEN Part(a, k) ELSE sign])
<1>1. request.op = "extend" /\ answer' = A!Value(<<s>>)
  BY DEF Extend, Op, Reply, Respond
<1>2. l \in 1 .. N /\ a \in 0 .. M ^ l - 1
  <2>1. l \in {1, N \div 2} /\ a \in 0 .. M ^ l - 1
    BY <1>1, OperandsAre
  <2>2. N \in Nat /\ N >= 2
    BY DEF TypeNumbers
  <2>3. 1 \in 1 .. N /\ N \div 2 \in 1 .. N
    BY <2>2
  <2> QED
    BY <2>1, <2>3
<1>3. s = A!Signed(a, l * W) % All
  BY <1>2, ExtendRight
<1> HIDE DEF s
<1> QED
  BY <1>1, <1>3, BitsOwed DEF Owed

LEMMA BitWidthAnswer ==
  ASSUME TypeNumbers, Operands, BitWidth
  PROVE  answer' = A!RightAnswer(request)
<1> DEFINE a == request.a
           active == {k \in 0 .. N - 1 : Part(a, k) # 0}
           s == IF active = {} THEN 0
                ELSE (Max(active) + 1) * W - countl_zero64(Part(a, Max(active)))
<1>1. request.op = "bit_width" /\ answer' = A!Value(<<s>>)
  BY DEF BitWidth, Op, Reply, Respond
<1>2. a \in Patterns
  BY <1>1, OperandsAre DEF Unary
<1>3. s = A!BitWidth(a)
  BY <1>2, BitWidthRight
<1> HIDE DEF s
<1> QED
  BY <1>1, <1>3, BitsOwed DEF Owed

LEMMA ShiftLeftAnswer ==
  ASSUME TypeNumbers, Operands, ShiftLeft
  PROVE  answer' = A!RightAnswer(request)
<1> DEFINE a == request.a
           b == request.b
           l == b \div W
           t == b % W
           limb(k) == IF k < 0 THEN 0 ELSE Part(a, k)
           s == IF b >= Bits THEN 0
                ELSE Sum([k \in 0 .. N - 1 |->
                       ((limb(k - l) * 2 ^ t) % M)
                         + (IF t = 0 THEN 0 ELSE limb(k - l - 1) \div 2 ^ (W - t))])
<1>1. request.op = "shl" /\ answer' = A!Value(<<s>>)
  BY DEF ShiftLeft, Op, Reply, Respond, LimbShift, BitShift
<1>2. a \in Patterns /\ b \in 0 .. Bits + 1
  BY <1>1, OperandsAre DEF Shifts
<1>3. s = (a * 2 ^ b) % All
  BY <1>2, ShiftLeftRight
<1> HIDE DEF s
<1> QED
  BY <1>1, <1>3, BitsOwed DEF Owed

LEMMA ShiftRightAnswer ==
  ASSUME TypeNumbers, Operands, ShiftRight
  PROVE  answer' = A!RightAnswer(request)
<1> DEFINE a == request.a
           b == request.b
           l == b \div W
           t == b % W
           fill == Fill
           limb(k) == IF k < N THEN Part(a, k) ELSE fill
           s == IF b >= Bits THEN Sum([k \in 0 .. N - 1 |-> fill])
                ELSE Sum([k \in 0 .. N - 1 |->
                       (limb(k + l) \div 2 ^ t)
                         + (IF t = 0 THEN 0 ELSE (limb(k + l + 1) * 2 ^ (W - t)) % M)])
           v == IF request.op = "sar" THEN A!Signed(a, Bits) ELSE a
<1>1. request.op \in {"shr", "sar"} /\ answer' = A!Value(<<s>>)
  BY DEF ShiftRight, Op, Reply, Respond, LimbShift, BitShift
<1>2. a \in Patterns /\ b \in 0 .. Bits + 1
  BY <1>1, OperandsAre DEF Shifts
<1>3. \/ fill = 0 /\ v = a
      \/ fill = M - 1 /\ v = a - All
  <2>1. A!Signed(a, Bits) = IF Negative(a) THEN a - All ELSE a
    BY <1>2, WideSign
  <2> QED
    BY <2>1 DEF Fill
<1> HIDE DEF v, fill, a, b
<1>4. s = (v \div 2 ^ b) % All
  BY ONLY TypeNumbers, <1>2, <1>3, ShiftRightRight
<1> HIDE DEF s
<1>5. CASE request.op = "sar"
  BY <1>1, <1>4, <1>5, BitsOwed DEF Owed, v, a, b
<1>6. CASE request.op = "shr"
  <2> DEFINE p == 2 ^ b
             q == a \div p
  <2>1. a \in Nat /\ a < All /\ All \in Nat /\ Bits \in Nat
    BY <1>2, AllIs DEF TypeNumbers
  <2>2. p \in Nat /\ p > 0
    <3>1. CASE b <= Bits
      BY <3>1, <1>2, <2>1, BitPlaces
    <3>2. CASE ~(b <= Bits)
      <4>1. b \in Bits .. Bits + 1
        BY <3>2, <1>2, <2>1
      <4>2. PICK u \in Nat : u > 0 /\ 2 ^ b = u * All
        BY <4>1, WholeShifts
      <4>3. u * All \in Nat /\ u * All > 0
        BY <4>2, <2>1, PositiveProduct
      <4> QED
        BY <4>2, <4>3
    <3> QED
      BY <3>1, <3>2
  <2> HIDE DEF p
  <2>3. q \in Nat /\ q <= a
    <3>1. a = q * p + (a % p) /\ q \in Nat /\ a % p \in 0 .. p - 1
      BY <2>1, <2>2, DivideNat
    <3> HIDE DEF q
    <3>2. q <= q * p /\ q * p \in Nat
      <4>1. CASE q = 0
        BY <4>1, <2>2
      <4>2. CASE q > 0
        BY <4>2, <3>1, <2>2, PositiveProduct
      <4> QED
        BY <4>1, <4>2, <3>1
    <3> DEFINE qp == q * p
    <3>3. qp \in Nat /\ q <= qp /\ a = qp + (a % p) /\ a % p \in Nat
      BY <3>1, <3>2
    <3> HIDE DEF qp
    <3> QED
      BY <3>1, <3>3
  <2> HIDE DEF q
  <2>4. q % All = q
    <3>1. q < All
      BY <2>1, <2>3
    <3> QED
      BY <3>1, <2>1, <2>3, RemainderOfSmall
  <2>5. s = a \div 2 ^ b
    BY <2>4, <1>4, <1>6 DEF p, q, v
  <2> QED
    BY <2>5, <1>1, <1>6, BitsOwed DEF Owed, a, b
<1> QED
  BY <1>1, <1>5, <1>6

\* What is answered without a loop by the operations that have one.
LEMMA AtOnceRight ==
  ASSUME TypeNumbers, Operands, Magnitude \/ Mul \/ Divide, stage' = "answered"
  PROVE  answer' = A!RightAnswer(request)
<1> DEFINE a == request.a
           b == request.b
<1>1. \A d, u, v, n : d \in {"sum", "row", "bits"} => ~Enter(d, u, v, n)
  BY DEF Enter
<1>2. request.op \in Unary \union Binary => a \in Patterns /\ b \in Patterns
  BY OperandsAre
<1>3. CASE Magnitude
  <2>1. request.op = "magnitude" /\ ~Negative(a) /\ answer' = A!Value(<<a>>)
    BY <1>1, <1>3 DEF Magnitude, Op, Reply, Respond
  <2>2. a = Dividend
    BY <2>1, <1>2, ComplementAndOne DEF Dividend, Unary
  <2> QED
    BY <2>1, <2>2, ArithmeticOwed DEF Owed
<1>4. CASE Mul
  <2> DEFINE low == mul64x64(Part(a, 0), Part(b, 0))
             s == low.lo + M * ((low.hi + Part(a, 0) * Part(b, 1) + Part(a, 1) * Part(b, 0)) % M)
  <2>1. request.op = "mul" /\ N = 2 /\ answer' = A!Value(<<s>>)
    BY <1>1, <1>4 DEF Mul, Op, Reply, Respond
  <2>2. s = (a * b) % All
    BY <2>1, <1>2, TwoLimbProduct DEF Binary
  <2> HIDE DEF s
  <2> QED
    BY <2>1, <2>2, ArithmeticOwed DEF Owed
<1>5. CASE Divide
  <2>1. /\ request.op \in {"div", "mod"}
        /\ \/ b = 0 /\ answer' = A!Value(<<0>>)
           \/ b # 0 /\ Below(a, b) /\ answer' = A!Value(<<IF request.op = "div" THEN 0 ELSE a>>)
    BY <1>1, <1>5 DEF Divide, Op, Reply, Respond
  <2>2. a \in Patterns /\ b \in Patterns
    BY <2>1, <1>2 DEF Binary
  <2>3. a \in Nat /\ b \in Nat
    BY <2>2, AllIs
  <2>4. b # 0 /\ Below(a, b) => a \div b = 0 /\ a % b = a
    <3> SUFFICES ASSUME b # 0, Below(a, b) PROVE a \div b = 0 /\ a % b = a
      OBVIOUS
    <3>1. a < b
      BY <2>2, BelowIsLess
    <3>2. a = 0 * b + a /\ a \in Int /\ 0 \in Int /\ 0 <= a /\ b \in Int /\ b > 0
      BY <2>3, <3>1
    <3> HIDE DEF a, b
    <3> QED
      BY ONLY <3>1, <3>2, DivUnique
  <2>5. CASE request.op = "div"
    BY <2>1, <2>4, <2>5, ArithmeticOwed DEF Owed
  <2>6. CASE request.op = "mod"
    BY <2>1, <2>4, <2>6, ArithmeticOwed DEF Owed
  <2> QED
    BY <2>1, <2>5, <2>6
<1> QED
  BY <1>3, <1>4, <1>5

LEMMA SignedWordProductAnswer ==
  ASSUME TypeNumbers, Operands, SignedWordProduct
  PROVE  answer' = A!RightAnswer(request)
<1> DEFINE a == request.a
           b == request.b
           p == mul64x64(A!Magnitude(a, W), A!Magnitude(b, W))
           lo == (M - p.lo) % M
           hi == (M - 1 - p.hi + Indicator(lo = 0)) % M
           s == IF NegativeWord(a) = NegativeWord(b) THEN p.lo + M * p.hi ELSE lo + M * hi
<1>1. request.op = "imul" /\ answer' = A!Value(<<s>>)
  BY DEF SignedWordProduct, Op, Reply, Respond
<1>2. a \in 0 .. M - 1 /\ b \in 0 .. M - 1
  BY <1>1, OperandsAre
<1>3. s = (A!Signed(a, W) * A!Signed(b, W)) % 2 ^ (2 * W)
  BY <1>2, SignedWordProductRight
<1> HIDE DEF s
<1> QED
  BY <1>1, <1>3, ArithmeticOwed DEF Owed

\* Before it is answered a call has no answer, and every answer is one.
LEMMA AnswersAreGiven ==
  ASSUME NEW r
  PROVE  A!RightAnswer(r) # A!NoAnswer
<1> DEFINE given(e) == e.error # "none yet"
<1>1. \A v : given(A!Value(v))
  BY DEF A!Value
<1>2. given(A!Failure("division_by_zero")) /\ given(A!Failure("overflow"))
  BY DEF A!Failure
<1>3. \A n, d, m : given(A!Rounded(n, d, m))
  <2> SUFFICES ASSUME NEW n, NEW d, NEW m PROVE given(A!Rounded(n, d, m))
    OBVIOUS
  <2> DEFINE e == A!H!OnGrid(n, d, 1, m)
  <2>1. e.error \in {"none", "division_by_zero", "overflow", "inexact"}
    BY DEF A!H!OnGrid, A!H!Error, A!H!Result
  <2>2. A!Rounded(n, d, m) = IF e.error = "none" THEN A!Value(<<A!Pattern(e.value, A!Half)>>)
                             ELSE A!Failure(e.error)
    BY DEF A!Rounded
  <2> HIDE DEF e
  <2>3. CASE e.error = "none"
    BY <2>2, <2>3, <1>1
  <2>4. CASE e.error # "none"
    <3>1. A!Rounded(n, d, m) = A!Failure(e.error) /\ e.error # "none yet"
      BY <2>1, <2>2, <2>4
    <3>2. \A t : t # "none yet" => given(A!Failure(t))
      BY DEF A!Failure
    <3> QED
      BY <3>1, <3>2
  <2> QED
    BY <2>3, <2>4
<1>4. given(A!RightAnswer(r))
  <2> HIDE DEF given
  <2> QED
    BY <1>1, <1>2, <1>3 DEF A!RightAnswer
<1>5. ~given(A!NoAnswer)
  BY DEF A!NoAnswer, A!Failure
<1> QED
  BY <1>4, <1>5

\* An operation answers at once, or begins a loop, or a loop goes on.
Responded ==
  /\ stage \notin {"idle", "answered"} /\ stage' = "answered"
  /\ answer' = A!RightAnswer(request) /\ UNCHANGED <<type, request>>
GoesOn ==
  /\ stage \notin {"idle", "answered"} /\ stage' \notin {"idle", "answered"}
  /\ UNCHANGED <<type, request, answer>> /\ Working'

\* What a step of a loop leaves alone.
LEMMA LoopGoesOn ==
  ASSUME Working, stage \in {"sum", "difference", "row", "bits", "words"}, stage' = stage,
         UNCHANGED <<type, request, answer, x, y, negative>>
  PROVE  GoesOn
<1>1. /\ W' = W /\ N' = N /\ request' = request /\ x' = x /\ y' = y /\ negative' = negative
      /\ stage' = stage
  BY DEF type
<1>2. M' = M /\ All' = All
  BY <1>1 DEF M, All, Bits
<1>3. /\ Negative(request.a)' = Negative(request.a)
      /\ SignedDivisor' = SignedDivisor /\ DivisorMagnitude' = DivisorMagnitude
  BY <1>1, <1>2 DEF Negative, Part, SignedDivisor, DivisorMagnitude, NegativeWord
<1>4. Working'
  BY <1>1, <1>2, <1>3 DEF Working
<1> QED
  BY <1>4 DEF GoesOn

\* A loop begins with what the operation gives it.
LEMMA LoopBegins ==
  ASSUME stage = "dispatch", NEW d, NEW u, NEW v, NEW n, Enter(d, u, v, n),
         d \in {"sum", "difference", "row", "bits"},
         LET a == request.a  b == request.b
         IN \/ request.op = "add" /\ d = "sum" /\ u = a /\ v = b
            \/ request.op = "negate" /\ d = "sum" /\ u = All - 1 - a /\ v = 1
            \/ request.op = "magnitude" /\ Negative(a) /\ d = "sum" /\ u = All - 1 - a /\ v = 1
            \/ request.op = "sub" /\ d = "difference" /\ u = a /\ v = b
            \/ request.op \in {"mul", "mul_full"} /\ d = "row" /\ u = a /\ v = b
            \/ request.op \in {"div", "mod"} /\ d = "bits" /\ u = a /\ v = b
  PROVE  GoesOn
<1>1. /\ W' = W /\ N' = N /\ request' = request /\ x' = u /\ y' = v /\ stage' = d
      /\ UNCHANGED <<type, request, answer>>
  BY DEF Enter, type
<1>2. M' = M /\ All' = All
  BY <1>1 DEF M, All, Bits
<1>3. Negative(request.a)' = Negative(request.a)
  BY <1>1, <1>2 DEF Negative, Part
<1>4. Working'
  BY <1>1, <1>2, <1>3 DEF Working
<1> QED
  BY <1>1, <1>4 DEF GoesOn

\* So does the division of two limbs by one.
LEMMA WordsBegin ==
  ASSUME stage = "dispatch", request.op \in ByWord \union {"div_signed64"},
         NEW u, NEW q, NEW t,
         EnterWords(u, DivisorMagnitude, Negative(request.a) # SignedDivisor, q, t)
  PROVE  GoesOn
<1> DEFINE s == Negative(request.a) # SignedDivisor
<1>1. /\ W' = W /\ N' = N /\ request' = request /\ y' = DivisorMagnitude /\ negative' = s
      /\ stage' = "words" /\ UNCHANGED <<type, request, answer>>
  BY DEF EnterWords, type
<1>2. M' = M /\ All' = All
  BY <1>1 DEF M, All, Bits
<1>3. /\ Negative(request.a)' = Negative(request.a)
      /\ SignedDivisor' = SignedDivisor /\ DivisorMagnitude' = DivisorMagnitude
  BY <1>1, <1>2 DEF Negative, Part, SignedDivisor, DivisorMagnitude, NegativeWord
<1>4. ByWord' = ByWord
  BY DEF ByWord
<1>5. Working'
  BY <1>1, <1>2, <1>3, <1>4 DEF Working
<1> QED
  BY <1>1, <1>5 DEF GoesOn

LEMMA WorkAnswers ==
  ASSUME TypeNumbers, IInv, Working, Work \/ CheckedWork
  PROVE  Responded \/ GoesOn
<1> DEFINE a == request.a
           b == request.b
<1>1. Chosen /\ Asking /\ Loops
  BY DEF IInv
<1>2. ASSUME stage # "answered", stage # "idle", NEW v, Respond(v),
             answer' = A!RightAnswer(request)
      PROVE  Responded
  BY <1>2 DEF Respond, Responded
<1>3. stage # "idle" => Operands
  BY <1>1 DEF Asking
<1>4. CASE Add \/ Sub \/ Negate \/ MulFull
  BY <1>4, LoopBegins DEF Add, Sub, Negate, MulFull, Op
<1>5. CASE Magnitude
  <2>1. CASE Negative(a)
    BY <2>1, <1>5, LoopBegins DEF Magnitude, Op
  <2>2. CASE ~Negative(a)
    <3>1. stage = "dispatch" /\ stage' = "answered" /\ Respond(A!Value(<<a>>))
      BY <2>2, <1>5 DEF Magnitude, Op, Reply, Respond
    <3> QED
      BY <3>1, <1>2, <1>3, <1>5, AtOnceRight
  <2> QED
    BY <2>1, <2>2
<1>6. CASE Mul
  <2>1. CASE Enter("row", a, b, 0)
    BY <2>1, <1>6, LoopBegins DEF Mul, Op
  <2>2. CASE ~Enter("row", a, b, 0)
    <3>1. stage = "dispatch" /\ \E v : Respond(v)
      BY <2>2, <1>6 DEF Mul, Op, Reply
    <3>2. stage' = "answered"
      BY <3>1 DEF Respond
    <3> QED
      BY <3>1, <3>2, <1>2, <1>3, <1>6, AtOnceRight
  <2> QED
    BY <2>1, <2>2
<1>7. CASE Divide
  <2>1. CASE Enter("bits", a, b, Bits)
    BY <2>1, <1>7, LoopBegins DEF Divide, Op
  <2>2. CASE ~Enter("bits", a, b, Bits)
    <3>1. stage = "dispatch" /\ \E v : Respond(v)
      BY <2>2, <1>7 DEF Divide, Op, Reply
    <3>2. stage' = "answered"
      BY <3>1 DEF Respond
    <3> QED
      BY <3>1, <3>2, <1>2, <1>3, <1>7, AtOnceRight
  <2> QED
    BY <2>1, <2>2
<1>8. CASE DivideByWord
  BY <1>8, WordsBegin DEF DivideByWord, Op
<1>9. CASE DivideSigned64
  BY <1>9, WordsBegin DEF DivideSigned64, Op
<1>10. CASE SumLimb
  BY <1>10, LoopGoesOn DEF SumLimb
<1>11. CASE DifferenceLimb
  BY <1>11, LoopGoesOn DEF DifferenceLimb
<1>12. CASE ProductLimb
  BY <1>12, LoopGoesOn DEF ProductLimb
<1>13. CASE Propagate
  BY <1>13, LoopGoesOn DEF Propagate
<1>14. CASE NextRow
  BY <1>14, LoopGoesOn DEF NextRow
<1>15. CASE DivideBit
  BY <1>15, LoopGoesOn DEF DivideBit
<1>16. CASE WordBit
  BY <1>16, LoopGoesOn DEF WordBit
<1>17. CASE Summed \/ Multiplied \/ Divided \/ WordsDivided
  <2>1. stage # "answered" /\ stage # "idle" /\ \E v : Respond(v)
    BY <1>17 DEF Summed, Multiplied, Divided, WordsDivided, Reply
  <2>2. answer' = A!RightAnswer(request)
    BY <2>1, <1>1, <1>3, <1>17, SummedRight, MultipliedRight, DividedRight, WordsDividedRight
  <2> QED
    BY <2>1, <2>2, <1>2
<1>18. CASE Less \/ Bitwise \/ Extend \/ BitWidth \/ ShiftLeft \/ ShiftRight \/ SignedWordProduct
  <2>1. stage = "dispatch" /\ \E v : Respond(v)
    BY <1>18 DEF Less, Bitwise, Extend, BitWidth, ShiftLeft, ShiftRight, SignedWordProduct, Op,
                 Reply
  <2>2. answer' = A!RightAnswer(request)
    BY <2>1, <1>3, <1>18, ComparedRight, BitwiseAnswer, ExtendAnswer, BitWidthAnswer,
       ShiftLeftAnswer, ShiftRightAnswer, SignedWordProductAnswer
  <2> QED
    BY <2>1, <2>2, <1>2
<1>19. CASE CheckedWork
  <2>1. stage = "dispatch"
    BY <1>19 DEF CheckedWork, RejectZero, Divmod, SignedDivmod, DivideToHalf, MulDiv, Op
  <2>2. stage' = "answered" /\ answer' = A!RightAnswer(request) /\ UNCHANGED <<type, request>>
    BY <2>1, <1>1, <1>3, <1>19, CheckedRight
  <2> QED
    BY <2>1, <2>2 DEF Responded
<1> QED
  BY <1>4, <1>5, <1>6, <1>7, <1>8, <1>9, <1>10, <1>11, <1>12, <1>13, <1>14, <1>15, <1>16, <1>17,
     <1>18, <1>19 DEF Work

\* What the refinement needs beyond the invariant of the loops.
Meant == Working /\ Answering

LEMMA IntegerStepImplements ==
  ASSUME IInv, Meant, [IntegerNext]_vars
  PROVE  Meant' /\ [A!Next]_(A!vars)
<1>1. TypeNumbers /\ Chosen /\ Asking
  BY Numbers DEF IInv
<1>2. CASE UNCHANGED vars
  <2>1. /\ W' = W /\ N' = N /\ request' = request /\ answer' = answer /\ stage' = stage
        /\ x' = x /\ y' = y /\ negative' = negative
    BY <1>2 DEF vars, type, loop
  <2>2. M' = M /\ All' = All
    BY <2>1 DEF M, All, Bits
  <2>3. /\ Negative(request.a)' = Negative(request.a)
        /\ SignedDivisor' = SignedDivisor /\ DivisorMagnitude' = DivisorMagnitude
    BY <2>1, <2>2 DEF Negative, Part, SignedDivisor, DivisorMagnitude, NegativeWord
  <2>4. Working' /\ Answering'
    <3>1. ByWord' = ByWord /\ A!NoAnswer' = A!NoAnswer
      BY DEF ByWord, A!NoAnswer, A!Failure
    <3> QED
      BY <2>1, <2>2, <2>3, <3>1 DEF Working, Answering, Meant
  <2>5. UNCHANGED A!vars
    BY <2>1 DEF A!vars
  <2> QED
    BY <2>4, <2>5 DEF Meant
<1>3. A!NoAnswer' = A!NoAnswer /\ A!NoRequest' = A!NoRequest
  BY DEF A!NoAnswer, A!Failure, A!NoRequest, A!Request
<1>4. stage # "idle" => request # A!NoRequest
  <2> SUFFICES ASSUME stage # "idle" PROVE request # A!NoRequest
    OBVIOUS
  <2>1. request.op # "none"
    BY <1>1, OperandsAre DEF Asking
  <2> QED
    BY <2>1 DEF A!NoRequest, A!Request
<1>5. CASE Responded
  <2>1. /\ stage \notin {"idle", "answered"} /\ answer = A!NoAnswer /\ stage' = "answered"
        /\ answer' = A!RightAnswer(request) /\ UNCHANGED <<type, request>>
    BY <1>5 DEF Responded, Meant, Answering
  <2>2. answer' # A!NoAnswer
    BY <2>1, AnswersAreGiven
  <2>3. Meant'
    BY <2>1, <2>2, <1>3 DEF Meant, Working, Answering
  <2>4. A!Respond
    BY <2>1, <1>4 DEF A!Respond, type
  <2> QED
    BY <2>3, <2>4 DEF A!Next
<1>6. CASE GoesOn
  <2>1. /\ stage # "answered" /\ stage' # "answered" /\ answer = A!NoAnswer /\ Working'
        /\ UNCHANGED <<type, request, answer>>
    BY <1>6 DEF GoesOn, Meant, Answering
  <2>2. Meant'
    BY <2>1, <1>3 DEF Meant, Answering
  <2>3. UNCHANGED A!vars
    BY <2>1 DEF A!vars, type
  <2> QED
    BY <2>2, <2>3
<1>7. CASE Call \/ CheckedCall
  <2>1. /\ stage = "idle" /\ stage' = "dispatch" /\ UNCHANGED <<type, answer>>
    BY <1>7 DEF Call, CheckedCall, Begin
  <2>2. request = A!NoRequest /\ answer = A!NoAnswer
    BY <2>1, <1>1 DEF Asking, Meant, Answering
  <2>3. request' # A!NoRequest
    <3>1. Operands'
      BY <1>1, <1>7, CallAsks DEF IInv
    <3>2. request'.op # "none"
      BY <3>1 DEF Operands, Unary, Binary, Shifts, ByWord, Checked
    <3> QED
      BY <3>2 DEF A!NoRequest, A!Request
  <2>4. Meant'
    BY <2>1, <2>2, <1>3 DEF Meant, Working, Answering
  <2>5. A!Call
    BY <2>1, <2>2, <2>3 DEF A!Call, type
  <2> QED
    BY <2>4, <2>5 DEF A!Next
<1>8. CASE Return
  <2>1. /\ stage = "answered" /\ stage' = "idle" /\ UNCHANGED type
        /\ request' = A!NoRequest /\ answer' = A!NoAnswer
    BY <1>8 DEF Return
  <2>2. answer # A!NoAnswer
    BY <2>1 DEF Meant, Answering
  <2>3. Meant'
    BY <2>1, <1>3 DEF Meant, Working, Answering
  <2>4. A!Return
    BY <2>1, <2>2 DEF A!Return, type
  <2> QED
    BY <2>3, <2>4 DEF A!Next
<1>9. CASE Work \/ CheckedWork
  BY <1>1, <1>5, <1>6, <1>9, WorkAnswers DEF Meant
<1> QED
  BY <1>2, <1>7, <1>8, <1>9 DEF IntegerNext, Next

\* Every operation of the wide integers, loops and all, answers once and with
\* the integer it stands for: what the runs check as the abstract specification,
\* here without its fairness.
THEOREM IntegersAreModular ==
  IntegerSpec => A!Init /\ [][A!Next]_(A!vars)
<1>1. Init => IInv /\ Meant /\ A!Init
  <2> SUFFICES ASSUME Init PROVE IInv /\ Meant /\ A!Init
    OBVIOUS
  <2>1. IInv
    BY IntegerInit
  <2>2. W \in Nat /\ N * W \in Nat
    BY <2>1, Numbers DEF IInv, TypeNumbers
  <2>3. Meant
    BY DEF Init, Meant, Working, Answering
  <2> QED
    BY <2>1, <2>2, <2>3 DEF Init, A!Init
<1>2. IInv /\ Meant /\ [IntegerNext]_vars => IInv' /\ Meant' /\ [A!Next]_(A!vars)
  BY IntegerStep, IntegerStepImplements
<1> QED
  BY <1>1, <1>2, PTL DEF IntegerSpec
=============================================================================
