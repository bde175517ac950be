---------------------------- MODULE IntegerLemmas ----------------------------
(***************************************************************************)
(* Facts about integers that the proofs cite.  \div rounds towards minus   *)
(* infinity and % is never negative, for a positive divisor.  The provers  *)
(* know nothing of b ^ k: what is said of powers here follows from the     *)
(* equations that define them, up to some exponent m, which a module that  *)
(* uses powers assumes of its constants and TLC evaluates.  The last       *)
(* sections are the arithmetic of a limb and of one digit of a long        *)
(* division, for a radix b of any size.                                    *)
(***************************************************************************)
EXTENDS Integers, TLAPS, WellFoundedInduction

\* Division with remainder, as the provers know it.
LEMMA DivMod ==
  ASSUME NEW a \in Int, NEW b \in Int, b > 0
  PROVE  /\ a \div b \in Int /\ a % b \in Int
         /\ a = (a \div b) * b + (a % b)
         /\ 0 <= a % b /\ a % b < b
  OBVIOUS

\* The order of two multiples of a positive number is that of the factors.
LEMMA MultipleOrder ==
  ASSUME NEW x \in Int, NEW y \in Int, NEW b \in Int, b > 0, x < y
  PROVE  x * b + b <= y * b
  OBVIOUS

\* Quotient and remainder are unique.
LEMMA DivUnique ==
  ASSUME NEW a \in Int, NEW b \in Int, b > 0,
         NEW q \in Int, NEW r \in Int, a = q * b + r, 0 <= r, r < b
  PROVE  a \div b = q /\ a % b = r
<1> DEFINE p == a \div b
<1> DEFINE s == a % b
<1>1. /\ p \in Int /\ s \in Int
      /\ a = p * b + s /\ 0 <= s /\ s < b
  BY DivMod
<1> HIDE DEF p, s
<1>2. ~(p < q)
  <2> SUFFICES ASSUME p < q PROVE FALSE
    OBVIOUS
  <2>1. p * b + b <= q * b
    BY MultipleOrder, <1>1
  <2> QED
    BY <2>1, <1>1
<1>3. ~(q < p)
  <2> SUFFICES ASSUME q < p PROVE FALSE
    OBVIOUS
  <2>1. q * b + b <= p * b
    BY MultipleOrder, <1>1
  <2> QED
    BY <2>1, <1>1
<1>4. p = q
  BY <1>1, <1>2, <1>3
<1>5. s = r
  BY <1>1, <1>4
<1> QED
  BY <1>4, <1>5 DEF p, s

\* A positive factor may be taken away from both sides.
LEMMA CancelFactor ==
  ASSUME NEW x \in Int, NEW y \in Int, NEW b \in Int, b > 0, x * b < y * b
  PROVE  x < y
<1> SUFFICES ASSUME ~(x < y) PROVE FALSE
  OBVIOUS
<1>1. CASE x = y
  BY <1>1
<1>2. CASE y < x
  <2>1. y * b + b <= x * b
    BY <1>2, MultipleOrder
  <2>2. x * b \in Int /\ y * b \in Int
    OBVIOUS
  <2> QED
    BY <2>1, <2>2
<1> QED
  BY <1>1, <1>2

\* A product of naturals is a natural, and grows with its factors.
LEMMA ProductBelow ==
  ASSUME NEW x \in Int, NEW y \in Int, NEW b \in Int, 0 <= x, x <= y, 0 <= b
  PROVE  0 <= x * b /\ x * b <= y * b
OBVIOUS

\* A product of positive numbers is positive.
LEMMA PositiveProduct ==
  ASSUME NEW x \in Nat, NEW y \in Nat, x > 0, y > 0
  PROVE  x * y \in Nat /\ x * y > 0 /\ x <= x * y /\ y <= x * y
OBVIOUS

\* The floor of a quotient, from either side.
LEMMA FloorAtMost ==
  ASSUME NEW n \in Int, NEW d \in Int, d > 0, NEW k \in Int, n < (k + 1) * d
  PROVE  n \div d <= k
<1> DEFINE e == n \div d
           r == n % d
<1>1. e \in Int /\ r \in Int /\ n = e * d + r /\ 0 <= r /\ r < d
  BY DivMod
<1> HIDE DEF e, r
<1>2. e * d \in Int /\ (k + 1) * d \in Int /\ k + 1 \in Int
  BY <1>1
<1>3. e * d < (k + 1) * d
  BY <1>1, <1>2
<1>4. e < k + 1
  BY <1>1, <1>2, <1>3, CancelFactor
<1> QED
  BY <1>1, <1>4 DEF e

LEMMA FloorAtLeast ==
  ASSUME NEW n \in Int, NEW d \in Int, d > 0, NEW k \in Int, k * d <= n
  PROVE  k <= n \div d
<1> DEFINE e == n \div d
           r == n % d
<1>1. e \in Int /\ r \in Int /\ n = e * d + r /\ 0 <= r /\ r < d
  BY DivMod
<1> HIDE DEF e, r
<1>2. e * d \in Int /\ (e + 1) * d = e * d + d /\ k * d \in Int /\ e + 1 \in Int
  BY <1>1
<1>3. k * d < (e + 1) * d
  BY <1>1, <1>2
<1>4. k < e + 1
  BY <1>2, <1>3, CancelFactor
<1> QED
  BY <1>1, <1>4 DEF e

\* A quotient of naturals is below k if the numerator is below k divisors.
LEMMA QuotientBelow ==
  ASSUME NEW x \in Int, NEW d \in Int, NEW k \in Int, 0 <= x, d > 0, x < k * d
  PROVE  x \div d \in Int /\ 0 <= x \div d /\ x \div d < k
<1>1. x \div d \in Int
  BY DivMod
<1>2. x < ((k - 1) + 1) * d /\ k - 1 \in Int
  OBVIOUS
<1>3. x \div d <= k - 1
  BY <1>2, FloorAtMost
<1>4. 0 * d <= x /\ 0 \in Int
  OBVIOUS
<1>5. 0 <= x \div d
  BY <1>4, FloorAtLeast
<1> QED
  BY <1>1, <1>3, <1>5

\* Dividing twice is dividing by the square.
LEMMA DividedTwice ==
  ASSUME NEW a \in Int, NEW b \in Int, b > 0
  PROVE  a \div (b * b) = (a \div b) \div b
<1> DEFINE h == a \div b
           l == a % b
           t == h \div b
           m == h % b
           bb == b * b
<1>1. h \in Int /\ l \in Int /\ a = h * b + l /\ 0 <= l /\ l < b
  BY DivMod
<1> HIDE DEF h, l
<1>2. t \in Int /\ m \in Int /\ h = t * b + m /\ 0 <= m /\ m < b
  BY <1>1, DivMod
<1> HIDE DEF t, m
<1>3. h * b = t * bb + m * b /\ bb \in Int /\ bb > 0
  BY <1>1, <1>2
<1>4. m * b + b <= bb /\ 0 <= m * b /\ m * b \in Int
  BY <1>2, MultipleOrder
<1> HIDE DEF bb
<1> DEFINE r == m * b + l
<1>5. a = t * bb + r /\ 0 <= r /\ r < bb /\ r \in Int
  BY <1>1, <1>2, <1>3, <1>4
<1> HIDE DEF r
<1>6. a \div bb = t
  BY <1>2, <1>3, <1>5, DivUnique
<1> QED
  BY <1>6 DEF bb, t, h

-----------------------------------------------------------------------------
(* Induction, in the form the provers can use: a set of naturals that has  *)
(* a member has a least one.                                               *)

\* A nonempty set of naturals has a least member.
LEMMA LeastNat ==
  ASSUME NEW T \in SUBSET Nat, T # {}
  PROVE  \E x \in T : \A y \in T : x <= y
<1> DEFINE R == OpToRel(<, Nat)
<1>1. IsWellFoundedOn(R, Nat)
  BY NatLessThanWellFounded
<1>2. \A y \in Nat : \A x \in Nat : y < x => <<y, x>> \in R
  BY DEF OpToRel
<1> HIDE DEF R
<1>3. PICK x \in T : \A y \in T : ~(<<y, x>> \in R)
  BY <1>1, WFMin
<1>4. ASSUME NEW y \in T PROVE x <= y
  <2>1. x \in Nat /\ y \in Nat /\ ~(<<y, x>> \in R)
    BY <1>3
  <2>2. ~(y < x)
    BY <2>1, <1>2
  <2> QED
    BY <2>1, <2>2
<1> QED
  BY <1>3, <1>4

-----------------------------------------------------------------------------
(* Powers, from the two equations that define them.                        *)

\* The equations, up to the exponent m.
PowerLaws(b, m) == b ^ 0 = 1 /\ \A k \in 0 .. m - 1 : b ^ (k + 1) = b * b ^ k

\* Powers of a positive number are positive.
LEMMA PowersPositive ==
  ASSUME NEW b \in Nat, b > 0, NEW m \in Nat, PowerLaws(b, m)
  PROVE  \A k \in 0 .. m : b ^ k \in Nat /\ b ^ k > 0
<1> DEFINE Bad == {k \in 0 .. m : ~(b ^ k \in Nat /\ b ^ k > 0)}
<1> SUFFICES ASSUME Bad # {} PROVE FALSE
  OBVIOUS
<1>1. PICK x \in Bad : \A y \in Bad : x <= y
  <2>1. Bad \in SUBSET Nat
    OBVIOUS
  <2> QED
    BY <2>1, LeastNat
<1>2. x \in 0 .. m /\ x # 0
  BY DEF PowerLaws
<1>3. x - 1 \in 0 .. m - 1 /\ x - 1 \notin Bad /\ (x - 1) + 1 = x
  BY <1>1, <1>2
<1>4. b ^ (x - 1) \in Nat /\ b ^ (x - 1) > 0
  BY <1>3
<1>5. b ^ x = b * b ^ (x - 1)
  BY <1>3 DEF PowerLaws
<1>6. b ^ x \in Nat /\ b ^ x > 0
  BY <1>4, <1>5, PositiveProduct
<1> QED
  BY <1>6

\* Exponents add.
LEMMA PowersTimes ==
  ASSUME NEW b \in Nat, b > 0, NEW m \in Nat,
         PowerLaws(b, m), NEW i \in Nat
  PROVE  \A j \in 0 .. m : i + j <= m => b ^ (i + j) = b ^ i * b ^ j
<1>0. \A k \in 0 .. m : b ^ k \in Nat /\ b ^ k > 0
  BY PowersPositive
<1> DEFINE Bad == {j \in 0 .. m : i + j <= m /\ b ^ (i + j) # b ^ i * b ^ j}
<1> SUFFICES ASSUME Bad # {} PROVE FALSE
  OBVIOUS
<1>1. PICK x \in Bad : \A y \in Bad : x <= y
  <2>1. Bad \in SUBSET Nat
    OBVIOUS
  <2> QED
    BY <2>1, LeastNat
<1>2. x \in 0 .. m /\ i + x <= m /\ b ^ (i + x) # b ^ i * b ^ x
  OBVIOUS
<1>3. x # 0
  <2>1. i \in 0 .. m /\ i + 0 = i
    BY <1>2
  <2>2. b ^ i \in Nat /\ b ^ 0 = 1
    BY <1>0, <2>1 DEF PowerLaws
  <2>3. b ^ i * 1 = b ^ i
    BY <2>2
  <2> QED
    BY <1>2, <2>1, <2>2, <2>3
<1>4. /\ x - 1 \in 0 .. m - 1 /\ x - 1 \notin Bad /\ (x - 1) + 1 = x
      /\ i + (x - 1) \in 0 .. m - 1 /\ (i + (x - 1)) + 1 = i + x /\ i \in 0 .. m
  BY <1>1, <1>2, <1>3
<1>5. b ^ (i + (x - 1)) = b ^ i * b ^ (x - 1)
  BY <1>4
<1>6. b ^ (i + x) = b * b ^ (i + (x - 1)) /\ b ^ x = b * b ^ (x - 1)
  BY <1>4 DEF PowerLaws
<1>7. b ^ i \in Nat /\ b ^ (x - 1) \in Nat
  BY <1>4, <1>0
<1>8. ASSUME NEW p \in Nat, NEW q \in Nat PROVE b * (p * q) = p * (b * q)
  OBVIOUS
<1>9. b * (b ^ i * b ^ (x - 1)) = b ^ i * (b * b ^ (x - 1))
  BY <1>7, <1>8
<1> QED
  BY <1>2, <1>5, <1>6, <1>9

\* Powers grow with the exponent.
LEMMA PowersOrder ==
  ASSUME NEW b \in Nat, b > 0, NEW m \in Nat, PowerLaws(b, m),
         NEW i \in 0 .. m, NEW j \in 0 .. m, i <= j
  PROVE  /\ b ^ j = b ^ i * b ^ (j - i)
         /\ b ^ i <= b ^ j
<1>1. j - i \in 0 .. m /\ i + (j - i) = j
  OBVIOUS
<1>2. b ^ j = b ^ i * b ^ (j - i)
  BY <1>1, PowersTimes
<1>3. /\ b ^ i \in Nat /\ b ^ i > 0
      /\ b ^ (j - i) \in Nat /\ b ^ (j - i) > 0
  BY <1>1, PowersPositive
<1> QED
  BY <1>2, <1>3, PositiveProduct

-----------------------------------------------------------------------------
(* Sums: f[k] is the sum of the first k members of e.                      *)

\* The equations of the partial sums of e, up to the m-th.
SumsUpTo(e, f, m) == f[0] = 0 /\ \A k \in 0 .. m - 1 : f[k + 1] = f[k] + e[k]

\* There are partial sums of any length.
LEMMA SumsExtend ==
  ASSUME NEW e
  PROVE  \A m \in Nat : \E f : SumsUpTo(e, f, m)
<1> DEFINE Bad == {m \in Nat : ~\E f : SumsUpTo(e, f, m)}
<1> SUFFICES ASSUME Bad # {} PROVE FALSE
  OBVIOUS
<1>1. PICK x \in Bad : \A y \in Bad : x <= y
  <2>1. Bad \in SUBSET Nat
    OBVIOUS
  <2> QED
    BY <2>1, LeastNat
<1>2. x # 0
  <2> DEFINE zero == [k \in Nat |-> 0]
  <2>1. SumsUpTo(e, zero, 0)
    BY DEF SumsUpTo
  <2> QED
    BY <1>1, <2>1
<1>3. x \in Nat /\ x - 1 \in Nat /\ x - 1 \notin Bad
  BY <1>1, <1>2
<1>4. PICK f : SumsUpTo(e, f, x - 1)
  BY <1>3
<1> DEFINE g == [k \in Nat |-> IF k = x THEN f[x - 1] + e[x - 1] ELSE f[k]]
<1>5. g[0] = 0
  BY <1>2, <1>3, <1>4 DEF SumsUpTo
<1>6. ASSUME NEW k \in 0 .. x - 1 PROVE g[k + 1] = g[k] + e[k]
  <2>1. CASE k = x - 1
    BY <2>1, <1>3
  <2>2. CASE k # x - 1
    BY <2>2, <1>3, <1>4 DEF SumsUpTo
  <2> QED
    BY <2>1, <2>2
<1>7. SumsUpTo(e, g, x)
  BY <1>5, <1>6 DEF SumsUpTo
<1> QED
  BY <1>1, <1>7

\* Partial sums of any two lengths agree where both are.
LEMMA SumsAgree ==
  ASSUME NEW e, NEW f, NEW g, NEW m \in Nat, NEW l \in Nat,
         SumsUpTo(e, f, m), SumsUpTo(e, g, l), NEW x \in Nat, x <= m, x <= l
  PROVE  f[x] = g[x]
<1> DEFINE Bad == {k \in 0 .. x : f[k] # g[k]}
<1> SUFFICES ASSUME Bad # {} PROVE FALSE
  OBVIOUS
<1>1. PICK y \in Bad : \A z \in Bad : y <= z
  <2>1. Bad \in SUBSET Nat
    OBVIOUS
  <2> QED
    BY <2>1, LeastNat
<1>2. y # 0
  BY DEF SumsUpTo
<1>3. /\ y - 1 \in 0 .. m - 1 /\ y - 1 \in 0 .. l - 1 /\ (y - 1) + 1 = y
      /\ y - 1 \notin Bad /\ y - 1 \in 0 .. x
  BY <1>1, <1>2
<1>4. f[y - 1] = g[y - 1]
  BY <1>3
<1>5. f[y] = f[y - 1] + e[y - 1] /\ g[y] = g[y - 1] + e[y - 1]
  BY <1>3 DEF SumsUpTo
<1> QED
  BY <1>1, <1>4, <1>5

\* The recursive definition of partial sums defines a function.
LEMMA SumsExist ==
  ASSUME NEW e
  PROVE  \E f : f = [k \in Nat |-> IF k = 0 THEN 0 ELSE f[k - 1] + e[k - 1]]
<1> DEFINE F(m) == CHOOSE f : SumsUpTo(e, f, m)
           G == [m \in Nat |-> F(m)[m]]
<1>1. \A m \in Nat : SumsUpTo(e, F(m), m)
  BY SumsExtend
<1> HIDE DEF F
<1>2. G[0] = 0
  BY <1>1 DEF SumsUpTo
<1>3. ASSUME NEW k \in Nat, k # 0 PROVE G[k] = G[k - 1] + e[k - 1]
  <2>1. k - 1 \in Nat /\ k - 1 \in 0 .. k - 1 /\ (k - 1) + 1 = k /\ k - 1 <= k
    BY <1>3
  <2>2. F(k)[k] = F(k)[k - 1] + e[k - 1]
    BY <2>1, <1>1 DEF SumsUpTo
  <2>3. F(k)[k - 1] = F(k - 1)[k - 1]
    BY <2>1, <1>1, SumsAgree
  <2> QED
    BY <2>1, <2>2, <2>3
<1>4. ASSUME NEW k \in Nat PROVE F(k)[k] = IF k = 0 THEN 0 ELSE G[k - 1] + e[k - 1]
  BY <1>2, <1>3, <1>4
<1> DEFINE H == [k \in Nat |-> IF k = 0 THEN 0 ELSE G[k - 1] + e[k - 1]]
<1>5. G = H
  <2> DEFINE Fk(k) == F(k)[k]
             Hk(k) == IF k = 0 THEN 0 ELSE G[k - 1] + e[k - 1]
  <2>1. \A k \in Nat : Fk(k) = Hk(k)
    BY <1>4
  <2>2. G = [k \in Nat |-> Fk(k)] /\ H = [k \in Nat |-> Hk(k)]
    OBVIOUS
  <2> HIDE DEF Fk, Hk, G, H
  <2> QED
    BY <2>1, <2>2
<1> QED
  BY <1>5

-----------------------------------------------------------------------------
(* Limbs of w bits, and the shift that normalises a divisor                *)

\* s shifts the limb x until its top bit is set, and not beyond.
ShiftsUp(b, w, x, s) == s \in 0 .. w - 1 /\ b <= 2 * x * 2 ^ s /\ x * 2 ^ s < b

\* A limb holds b values, and p is a power of two that divides b / 2.
LimbAndShift(b, p) == b \in Nat /\ b > 1 /\ p \in Nat /\ p > 0 /\ \E c \in Nat : c > 1 /\ b = p * c

\* Two to the number of bits is a radix, and every shift by less divides it.
LEMMA LimbPowers ==
  ASSUME NEW w \in Nat, w > 0, PowerLaws(2, w)
  PROVE  \A s \in 0 .. w - 1 : LimbAndShift(2 ^ w, 2 ^ s)
<1> SUFFICES ASSUME NEW s \in 0 .. w - 1 PROVE LimbAndShift(2 ^ w, 2 ^ s)
  OBVIOUS
<1> DEFINE two == 2
<1>1. two \in Nat /\ two > 0 /\ PowerLaws(two, w)
  OBVIOUS
<1>2. two ^ 0 = 1 /\ \A k \in 0 .. w - 1 : two ^ (k + 1) = two * two ^ k
  BY <1>1 DEF PowerLaws
<1>3. two > 1
  OBVIOUS
<1> HIDE DEF two
<1>4. \A k \in 0 .. w : two ^ k \in Nat /\ two ^ k > 0
  BY <1>1, PowersPositive
<1> DEFINE c == two ^ (w - s)
           p == two ^ s
           b == two ^ w
<1>5. s \in 0 .. w /\ w \in 0 .. w /\ s <= w /\ w - s \in 0 .. w
  OBVIOUS
<1>6. b = p * c
  BY <1>1, <1>5, PowersOrder
<1>7. c > 1
  <2>1. w - s - 1 \in 0 .. w - 1 /\ (w - s - 1) + 1 = w - s
    OBVIOUS
  <2>2. c = two * two ^ (w - s - 1)
    BY <2>1, <1>2
  <2>3. two ^ (w - s - 1) \in Nat /\ two ^ (w - s - 1) > 0
    BY <2>1, <1>4
  <2> HIDE DEF c
  <2> QED
    BY <2>2, <2>3, <1>1, <1>3, PositiveProduct
<1>8. c \in Nat /\ p \in Nat /\ p > 0 /\ b \in Nat
  BY <1>4, <1>5
<1>9. LimbAndShift(b, p)
  <2> HIDE DEF b, p, c
  <2>1. b > 1
    BY <1>6, <1>7, <1>8, PositiveProduct
  <2> QED
    BY <2>1, <1>6, <1>7, <1>8 DEF LimbAndShift
<1> QED
  BY <1>9 DEF b, p, two

\* A nonzero limb can be normalised.
LEMMA ShiftFound ==
  ASSUME NEW w \in Nat, w > 0, PowerLaws(2, w), NEW x \in 1 .. 2 ^ w - 1
  PROVE  \E s \in 0 .. w - 1 : ShiftsUp(2 ^ w, w, x, s)
<1> DEFINE T == {s \in 0 .. w - 1 : 2 ^ w <= 2 * x * 2 ^ s}
<1>1. \A s \in 0 .. w - 1 : 2 ^ s \in Nat /\ 2 ^ s > 0 /\ 2 ^ w \in Nat
  BY LimbPowers DEF LimbAndShift
<1>2. 2 ^ 0 = 1 /\ \A k \in 0 .. w - 1 : 2 ^ (k + 1) = 2 * 2 ^ k
  BY DEF PowerLaws
<1>3. x \in Nat /\ x > 0 /\ 0 \in 0 .. w - 1 /\ w - 1 \in 0 .. w - 1 /\ (w - 1) + 1 = w
  BY <1>1
<1>4. w - 1 \in T
  <2>1. 2 ^ w = 2 * 2 ^ (w - 1)
    BY <1>2, <1>3
  <2> DEFINE h == 2 ^ (w - 1)
  <2>2. h \in Nat
    BY <1>1, <1>3
  <2> HIDE DEF h
  <2>3. 2 * h <= 2 * x * h
    BY <2>2, <1>3
  <2> QED
    BY <2>1, <2>3, <1>3 DEF h
<1>5. PICK s \in T : \A y \in T : s <= y
  <2>1. \A y \in T : y \in Nat
    OBVIOUS
  <2> HIDE DEF T
  <2>2. T \in SUBSET Nat /\ T # {}
    BY <2>1, <1>4
  <2> QED
    BY <2>2, LeastNat
<1>6. s \in 0 .. w - 1 /\ 2 ^ w <= 2 * x * 2 ^ s
  OBVIOUS
<1>7. x * 2 ^ s < 2 ^ w
  <2>1. CASE s = 0
    <3>1. x * 2 ^ s = x
      BY <2>1, <1>2, <1>3
    <3>2. x < 2 ^ w
      BY <1>1, <1>3
    <3> QED
      BY <3>1, <3>2
  <2>2. CASE s # 0
    <3>1. s - 1 \in 0 .. w - 1 /\ ~(s - 1 \in T) /\ (s - 1) + 1 = s
      BY <1>5, <1>6, <2>2
    <3>2. ~(2 ^ w <= 2 * x * 2 ^ (s - 1)) /\ 2 ^ s = 2 * 2 ^ (s - 1)
      BY <3>1, <1>2
    <3> DEFINE h == 2 ^ (s - 1)
               b == 2 ^ w
    <3>3. h \in Nat /\ b \in Nat /\ ~(b <= 2 * x * h)
      BY <3>1, <3>2, <1>1
    <3>4. x * 2 ^ s = x * (2 * h)
      BY <3>2
    <3> HIDE DEF h, b
    <3>5. x * (2 * h) < b
      BY <3>3, <1>3
    <3> QED
      BY <3>4, <3>5 DEF b
  <2> QED
    BY <2>1, <2>2
<1> QED
  BY <1>6, <1>7 DEF ShiftsUp

\* A number of more than one limb's place can be shifted as its top limb is.
LEMMA WholeShift ==
  ASSUME NEW b, NEW p, LimbAndShift(b, p), NEW c \in Nat, c > 0,
         NEW d \in Nat, b <= 2 * (d \div c) * p, (d \div c) * p < b
  PROVE  b * c <= 2 * d * p /\ d * p < b * c
<1> DEFINE x == d \div c
           r == d % c
<1>1. x \in Int /\ r \in Int /\ d = x * c + r /\ 0 <= r /\ r < c
  BY DivMod
<1> HIDE DEF x, r
<1>2. PICK e \in Nat : e > 1 /\ b = p * e
  BY DEF LimbAndShift
<1>3. b \in Nat /\ b > 1 /\ p \in Nat /\ p > 0
  BY DEF LimbAndShift
<1>4. b <= 2 * x * p /\ x * p < b
  BY DEF x
<1>5. x + 1 <= e
  <2>1. x * p < e * p
    BY <1>1, <1>2, <1>3, <1>4
  <2>2. x < e
    BY <2>1, <1>1, <1>2, <1>3, CancelFactor
  <2> QED
    BY <2>2, <1>1, <1>2
<1>6. (x + 1) * p <= b
  <2>1. x + 1 \in Int
    BY <1>1
  <2>2. CASE x + 1 >= 0
    <3>1. (x + 1) * p <= e * p
      BY <2>1, <2>2, <1>2, <1>3, <1>5, ProductBelow
    <3> QED
      BY <3>1, <1>2, <1>3
  <2>3. CASE x + 1 < 0
    <3>1. (x + 1) * p + p <= 0 * p
      BY <2>1, <2>3, <1>3, MultipleOrder
    <3> QED
      BY <3>1, <2>1, <1>3
  <2> QED
    BY <2>1, <2>2, <2>3
<1>7. d * p < b * c
  <2>1. d + 1 <= (x + 1) * c
    BY <1>1
  <2> DEFINE y == (x + 1) * c
             w == (x + 1) * p
  <2>2. y \in Int /\ w \in Int /\ y * p = w * c /\ w <= b
    <3>1. y \in Int /\ w \in Int
      BY <1>1, <1>3
    <3>2. y * p = w * c
      BY <1>1, <1>3
    <3> QED
      BY <3>1, <3>2, <1>6
  <2>3. d < y
    BY <2>1, <2>2
  <2> HIDE DEF y, w
  <2>4. d * p + p <= y * p
    BY <2>2, <2>3, <1>3, MultipleOrder
  <2>5. w * c <= b * c
    <3>1. CASE w = b
      BY <3>1, <1>3
    <3>2. CASE w < b
      <4>1. w * c + c <= b * c
        BY <3>2, <2>2, <1>3, MultipleOrder
      <4>2. w * c \in Int /\ b * c \in Int
        BY <2>2, <1>3
      <4> QED
        BY <4>1, <4>2
    <3> QED
      BY <3>1, <3>2, <2>2, <1>3
  <2>6. d * p \in Int /\ y * p \in Int /\ w * c \in Int /\ b * c \in Int
    BY <2>2, <1>3
  <2> QED
    BY <2>2, <2>4, <2>5, <2>6, <1>3
<1>8. b * c <= 2 * d * p
  <2> DEFINE t == 2 * x * p
             y == x * c
  <2>1. t \in Int /\ b <= t /\ y \in Int /\ t * c = 2 * y * p /\ y <= d
    <3>1. t \in Int /\ y \in Int
      BY <1>1, <1>3
    <3>2. t * c = 2 * y * p
      BY <1>1, <1>3
    <3> QED
      BY <3>1, <3>2, <1>1, <1>4
  <2> HIDE DEF t, y
  <2>2. b * c <= t * c
    BY <2>1, <1>3, ProductBelow
  <2>3. y * p <= d * p
    <3>1. CASE y = d
      BY <3>1, <1>3
    <3>2. CASE y < d
      <4>1. y * p + p <= d * p
        BY <3>2, <2>1, <1>3, MultipleOrder
      <4>2. y * p \in Int /\ d * p \in Int
        BY <2>1, <1>3
      <4> QED
        BY <4>1, <4>2, <1>3
    <3> QED
      BY <3>1, <3>2, <2>1
  <2>4. /\ y * p \in Int /\ d * p \in Int /\ b * c \in Int /\ t * c \in Int
        /\ 2 * y * p = 2 * (y * p) /\ 2 * d * p = 2 * (d * p)
    BY <2>1, <1>3
  <2> QED
    BY <2>1, <2>2, <2>3, <2>4
<1> QED
  BY <1>7, <1>8

-----------------------------------------------------------------------------
(* Limbs and shifts                                                        *)

\* The remainder of a larger power has one limb more.
LEMMA SplitByProduct ==
  ASSUME NEW a \in Nat, NEW p \in Nat, p > 0, NEW b \in Nat, b > 0
  PROVE  /\ a % (b * p) = (a % p) + ((a \div p) % b) * p
         /\ a \div (b * p) = (a \div p) \div b
<1> DEFINE h == a \div p
           r == a % p
           t == h \div b
           d == h % b
           m == b * p
<1>1. h \in Int /\ r \in Int /\ a = h * p + r /\ 0 <= r /\ r < p
  BY DivMod
<1> HIDE DEF h, r
<1>2. t \in Int /\ d \in Int /\ h = t * b + d /\ 0 <= d /\ d < b
  BY <1>1, DivMod
<1> HIDE DEF t, d
<1>3. h * p = t * m + d * p /\ m \in Int /\ m > 0
  <2>1. h * p = (t * b) * p + d * p
    BY <1>1, <1>2
  <2>2. (t * b) * p = t * (b * p)
    BY <1>2
  <2>3. b * p \in Int /\ b * p > 0
    BY PositiveProduct
  <2> QED
    BY <2>1, <2>2, <2>3
<1>4. d * p + p <= m /\ 0 <= d * p /\ d * p \in Int
  BY <1>2, MultipleOrder
<1> HIDE DEF m
<1> DEFINE e == d * p + r
<1>5. a = t * m + e /\ e \in Int /\ 0 <= e /\ e < m
  <2>1. t * m \in Int
    BY <1>2, <1>3
  <2> QED
    BY <2>1, <1>1, <1>3, <1>4
<1> HIDE DEF e
<1>6. a \div m = t /\ a % m = e
  BY <1>2, <1>3, <1>5, DivUnique
<1> QED
  BY <1>1, <1>4, <1>6 DEF m, e, d, t, h, r

\* A number below the power has no more to it than its remainder.
LEMMA RemainderOfSmall ==
  ASSUME NEW a \in Nat, NEW m \in Nat, a < m
  PROVE  a % m = a
<1>1. a = 0 * m + a
  OBVIOUS
<1> QED
  BY <1>1, DivUnique

LEMMA DivisionsCommute ==
  ASSUME NEW a \in Nat, NEW p \in Nat, p > 0, NEW b \in Nat, b > 0
  PROVE  (a \div p) \div b = (a \div b) \div p
<1>1. a \div (b * p) = (a \div p) \div b
  BY SplitByProduct
<1>2. a \div (p * b) = (a \div b) \div p
  BY SplitByProduct
<1>3. b * p = p * b
  OBVIOUS
<1> QED
  BY <1>1, <1>2, <1>3

\* A shift by less than a limb needs two limbs to give one.
LEMMA ShiftedLimb ==
  ASSUME NEW b, NEW p, LimbAndShift(b, p), NEW a \in Nat
  PROVE  ((a % (b * b)) \div p) % b = (a \div p) % b
<1> DEFINE bb == b * b
           h == a \div bb
           r == a % bb
           s == r \div p
           t == r % p
           k == s \div b
           z == s % b
<1>1. PICK c \in Nat : c > 1 /\ b = p * c
  BY DEF LimbAndShift
<1>2. b \in Nat /\ b > 1 /\ p \in Nat /\ p > 0
  BY DEF LimbAndShift
<1>3. bb \in Nat /\ bb > 0
  BY <1>2, PositiveProduct
<1>4. h \in Int /\ r \in Int /\ a = h * bb + r
  <2> HIDE DEF bb
  <2> QED
    BY <1>3, DivMod
<1> HIDE DEF h, r
<1>5. s \in Int /\ t \in Int /\ r = s * p + t /\ 0 <= t /\ t < p
  BY <1>2, <1>4, DivMod
<1> HIDE DEF s, t
<1>6. k \in Int /\ z \in Int /\ s = k * b + z /\ 0 <= z /\ z < b
  BY <1>2, <1>5, DivMod
<1> HIDE DEF k, z
<1> DEFINE e == (h * c) * b + s
<1>7. a = e * p + t /\ e \in Int
  <2>1. h * bb = ((h * c) * b) * p
    BY <1>1, <1>2, <1>4
  <2>2. ((h * c) * b + s) * p = ((h * c) * b) * p + s * p
    BY <1>1, <1>2, <1>4, <1>5
  <2> DEFINE x == ((h * c) * b) * p
             y == s * p
  <2>3. x \in Int /\ y \in Int /\ a = x + r /\ r = y + t
    BY <2>1, <1>1, <1>2, <1>4, <1>5
  <2>4. (h * c) * b + s \in Int
    BY <1>1, <1>2, <1>4, <1>5
  <2> HIDE DEF x, y
  <2>5. a = (x + y) + t
    BY <2>3, <1>5
  <2> QED
    BY <2>2, <2>4, <2>5 DEF x, y
<1>8. e = (h * c + k) * b + z /\ h * c + k \in Int
  BY <1>1, <1>2, <1>4, <1>5, <1>6
<1> HIDE DEF e
<1>9. a \div p = e
  BY <1>2, <1>5, <1>7, DivUnique
<1>10. e % b = z
  <2> DEFINE y == h * c + k
  <2>1. /\ e = y * b + z /\ y \in Int /\ e \in Int /\ b \in Int /\ b > 0
        /\ z \in Int /\ 0 <= z /\ z < b
    BY <1>2, <1>6, <1>7, <1>8
  <2> HIDE DEF y
  <2> QED
    BY <2>1, DivUnique
<1> QED
  BY <1>9, <1>10 DEF z, s, r, bb

\* What is left is the shifted remainder.
LEMMA ShiftedBack ==
  ASSUME NEW a \in Nat, NEW d \in Nat, NEW k \in Nat, NEW p \in Nat, p > 0, NEW U \in Nat,
         U = a * p - k * (d * p), U < d * p
  PROVE  /\ U \div p \in Nat /\ U \div p < d /\ a = k * d + U \div p
<1> DEFINE r == a - k * d
<1>1. r \in Int /\ a = k * d + r
  OBVIOUS
<1>2. U = r * p
  OBVIOUS
<1> HIDE DEF r
<1>3. r < d
  BY <1>1, <1>2, CancelFactor
<1>4. r >= 0
  <2> SUFFICES ASSUME r < 0 PROVE FALSE
    BY <1>1
  <2>1. r * p + p <= 0 * p
    BY <1>1, MultipleOrder
  <2> QED
    BY <2>1, <1>1, <1>2
<1>5. U \div p = r
  <2>1. U = r * p + 0
    BY <1>1, <1>2
  <2> QED
    BY <2>1, <1>1, DivUnique
<1> QED
  BY <1>1, <1>3, <1>4, <1>5

-----------------------------------------------------------------------------
(* The estimate of one digit of a long division, from the divisor's top   *)
(* two limbs and the three limbs above the digit's place                   *)

\* c is the place of the lowest limb the estimate looks at: R is the number to
\* divide and w the divisor at the digit's place.
Window(b, c, d1, d0, t2, t1, t0, R, w) ==
  /\ b \in Nat /\ b > 1 /\ c \in Nat /\ c > 0
  /\ d1 \in 1 .. b - 1 /\ d0 \in 0 .. b - 1
  /\ t2 \in 0 .. b - 1 /\ t1 \in 0 .. b - 1 /\ t0 \in 0 .. b - 1
  /\ R \in Nat /\ w \in Nat /\ R < w * b
  /\ \E lo \in Nat : lo < c /\ R = ((t2 * b + t1) * b + t0) * c + lo
  /\ \E lo \in Nat : lo < c /\ w = (d1 * b + d0) * c + lo

\* The divisor at its place is more than the places below.
LEMMA WindowPlace ==
  ASSUME NEW b, NEW c, NEW d1, NEW d0, NEW t2, NEW t1, NEW t0, NEW R, NEW w,
         Window(b, c, d1, d0, t2, t1, t0, R, w)
  PROVE  b * c <= w /\ w > 0
<1>1. /\ b \in Nat /\ b > 1 /\ c \in Nat /\ c > 0 /\ d1 \in Nat /\ d1 >= 1 /\ d0 \in Nat
  BY DEF Window
<1>2. PICK lo \in Nat : lo < c /\ w = (d1 * b + d0) * c + lo
  BY DEF Window
<1> DEFINE e == d1 * b + d0
<1>3. e \in Nat /\ b <= e
  <2>1. 1 * b <= d1 * b /\ d1 * b \in Nat
    BY <1>1, ProductBelow
  <2> QED
    BY <2>1, <1>1
<1> HIDE DEF e
<1>4. b * c <= e * c /\ e * c \in Nat
  BY <1>1, <1>3, ProductBelow
<1>5. b * c \in Nat /\ b * c > 0
  BY <1>1, PositiveProduct
<1> QED
  BY <1>2, <1>4, <1>5 DEF e

\* The leading limb is at most the divisor's.
LEMMA WindowLead ==
  ASSUME NEW b, NEW c, NEW d1, NEW d0, NEW t2, NEW t1, NEW t0, NEW R, NEW w,
         Window(b, c, d1, d0, t2, t1, t0, R, w)
  PROVE  t2 <= d1
<1>1. /\ b \in Nat /\ b > 1 /\ c \in Nat /\ c > 0 /\ d1 \in Nat /\ d0 \in 0 .. b - 1
      /\ t2 \in Nat /\ t1 \in Nat /\ t0 \in Nat /\ R \in Nat /\ w \in Nat /\ R < w * b
  BY DEF Window
<1>2. PICK lo \in Nat : lo < c /\ R = ((t2 * b + t1) * b + t0) * c + lo
  BY DEF Window
<1>3. PICK l \in Nat : l < c /\ w = (d1 * b + d0) * c + l
  BY DEF Window
<1> DEFINE e == d1 * b + d0
           m == (d1 + 1) * b
           g == (t2 * b + t1) * b + t0
           h == t2 * b
<1>4. e \in Nat /\ m \in Nat /\ e + 1 <= m
  <2>1. (d1 + 1) * b = d1 * b + b /\ d1 * b \in Nat
    BY <1>1
  <2> QED
    BY <2>1, <1>1
<1>5. w < m * c
  <2> HIDE DEF e, m
  <2>1. e * c + c <= m * c
    BY <1>1, <1>4, MultipleOrder
  <2>2. e * c \in Int /\ m * c \in Int /\ w = e * c + l
    BY <1>1, <1>3, <1>4 DEF e
  <2>3. l < c /\ l \in Nat /\ c \in Nat
    BY <1>1, <1>3
  <2> QED
    BY <2>1, <2>2, <2>3
<1>6. R < (m * c) * b
  <2> DEFINE y == m * c
  <2>1. y \in Nat
    BY <1>1, <1>4
  <2>2. w < y
    BY <1>5
  <2> HIDE DEF y
  <2>3. w * b + b <= y * b /\ w * b \in Int /\ y * b \in Int
    BY <2>1, <2>2, <1>1, MultipleOrder
  <2> QED
    BY <2>3, <1>1 DEF y
<1>7. h * b <= g /\ h \in Nat /\ g \in Nat
  <2>1. h \in Nat /\ h <= h + t1
    BY <1>1
  <2> HIDE DEF h
  <2>2. h * b <= (h + t1) * b /\ (h + t1) * b \in Nat /\ h * b \in Nat
    BY <2>1, <1>1, ProductBelow
  <2> QED
    BY <2>1, <2>2, <1>1 DEF h
<1>8. (h * b) * c <= R
  <2> DEFINE y == h * b
  <2>1. y \in Nat /\ y <= g
    BY <1>1, <1>7
  <2>2. R = g * c + lo
    BY <1>2
  <2> HIDE DEF y, g, h
  <2>3. y * c <= g * c /\ g * c \in Nat /\ y * c \in Nat
    BY <2>1, <1>1, <1>7, ProductBelow
  <2> QED
    BY <2>2, <2>3 DEF y
<1>9. t2 < d1 + 1
  <2> SUFFICES ASSUME ~(t2 < d1 + 1) PROVE FALSE
    OBVIOUS
  <2>1. m <= h
    BY <1>1, ProductBelow
  <2> HIDE DEF m, h
  <2> DEFINE bc == b * c
  <2>2. bc \in Nat
    BY <1>1
  <2>3. (m * c) * b = m * bc /\ (h * b) * c = h * bc
    BY <1>1, <1>4, <1>7
  <2> HIDE DEF bc
  <2>4. m * bc <= h * bc /\ m * bc \in Nat /\ h * bc \in Nat
    BY <2>1, <2>2, <1>4, <1>7, ProductBelow
  <2> QED
    BY <2>3, <2>4, <1>1, <1>6, <1>8
<1> QED
  BY <1>1, <1>9

\* Whatever fits the number fits its two leading limbs: dividing these never
\* estimates too low.
LEMMA WindowNeverLow ==
  ASSUME NEW b, NEW c, NEW d1, NEW d0, NEW t2, NEW t1, NEW t0, NEW R, NEW w,
         Window(b, c, d1, d0, t2, t1, t0, R, w), NEW k \in Nat, k * w <= R
  PROVE  k * d1 <= t2 * b + t1
<1>1. /\ b \in Nat /\ b > 1 /\ c \in Nat /\ c > 0 /\ d1 \in Nat /\ d0 \in Nat
      /\ t2 \in Nat /\ t1 \in Nat /\ t0 \in 0 .. b - 1 /\ R \in Nat /\ w \in Nat
  BY DEF Window
<1>2. PICK lo \in Nat : lo < c /\ R = ((t2 * b + t1) * b + t0) * c + lo
  BY DEF Window
<1>3. PICK l \in Nat : l < c /\ w = (d1 * b + d0) * c + l
  BY DEF Window
<1> DEFINE t == t2 * b + t1
           m == b * c
           e == d1 * m
           r == t0 * c + lo
<1>4. t \in Nat /\ m \in Nat /\ m > 0
  BY <1>1, PositiveProduct
<1>5. R = t * m + r /\ r \in Nat /\ r < m
  <2> HIDE DEF t
  <2>1. (t * b + t0) * c = t * (b * c) + t0 * c
    BY <1>1, <1>4
  <2>2. t0 * c + c <= b * c /\ t0 * c \in Nat
    BY <1>1, MultipleOrder
  <2>3. t * (b * c) \in Nat
    BY <1>1, <1>4
  <2> QED
    BY <2>1, <2>2, <2>3, <1>1, <1>2 DEF t
<1>6. e \in Nat /\ e <= w
  <2>1. (d1 * b + d0) * c = d1 * (b * c) + d0 * c /\ d0 * c \in Nat /\ d1 * (b * c) \in Nat
    BY <1>1
  <2> QED
    BY <2>1, <1>3
<1> HIDE DEF t, m, r
<1>7. k * e <= R
  <2> HIDE DEF e
  <2>1. e * k <= w * k /\ e * k = k * e /\ w * k = k * w /\ k * e \in Nat /\ k * w \in Nat
    BY <1>1, <1>6, ProductBelow
  <2> QED
    BY <2>1, <1>1
<1> DEFINE z == k * d1
<1>8. z \in Nat /\ k * e = z * m
  BY <1>1, <1>4
<1> HIDE DEF z, e
<1>9. z * m < (t + 1) * m
  <2>1. (t + 1) * m = t * m + m /\ t * m \in Nat /\ z * m \in Nat
    BY <1>4, <1>8
  <2> QED
    BY <2>1, <1>4, <1>5, <1>7, <1>8
<1>10. z < t + 1
  <2>1. t + 1 \in Int
    BY <1>4
  <2> QED
    BY <2>1, <1>4, <1>8, <1>9, CancelFactor
<1> QED
  BY <1>4, <1>8, <1>10 DEF z, t

\* When the estimate's product exceeds what is left, the estimate is too large.
LEMMA WindowTooLarge ==
  ASSUME NEW b, NEW c, NEW d1, NEW d0, NEW t2, NEW t1, NEW t0, NEW R, NEW w,
         Window(b, c, d1, d0, t2, t1, t0, R, w), NEW k \in Nat, NEW r \in Nat,
         k * d1 + r = t2 * b + t1, k * d0 > r * b + t0
  PROVE  R < k * w
<1>1. /\ b \in Nat /\ b > 1 /\ c \in Nat /\ c > 0 /\ d1 \in Nat /\ d0 \in Nat
      /\ t2 \in Nat /\ t1 \in Nat /\ t0 \in Nat /\ R \in Nat /\ w \in Nat
  BY DEF Window
<1>2. PICK lo \in Nat : lo < c /\ R = ((t2 * b + t1) * b + t0) * c + lo
  BY DEF Window
<1>3. PICK l \in Nat : l < c /\ w = (d1 * b + d0) * c + l
  BY DEF Window
<1> DEFINE t == t2 * b + t1
           z == t * b + t0
           f == k * d1
           g == k * d0
           e == d1 * b + d0
<1>4. f \in Nat /\ g \in Nat /\ t \in Nat /\ e \in Nat /\ f + r = t /\ g > r * b + t0
  BY <1>1
<1>5. k * e = f * b + g
  BY <1>1
<1>6. R = z * c + lo /\ w = e * c + l
  BY <1>2, <1>3
<1> HIDE DEF f, g, t, e
<1>7. z \in Nat /\ k * e \in Nat /\ z + 1 <= k * e
  <2>1. t * b = f * b + r * b /\ f * b \in Nat /\ r * b \in Nat
    BY <1>1, <1>4
  <2> QED
    BY <2>1, <1>1, <1>4, <1>5
<1> DEFINE y == k * e
<1>8. k * w = y * c + k * l /\ k * l \in Nat
  BY <1>1, <1>4, <1>6
<1>9. y \in Nat /\ z + 1 <= y /\ z \in Nat
  BY <1>7
<1> HIDE DEF y, z
<1>10. z * c + c <= y * c /\ z * c \in Nat /\ y * c \in Nat
  BY <1>1, <1>9, MultipleOrder
<1> DEFINE kw == k * w
           kl == k * l
<1>11. kw = y * c + kl /\ kl \in Nat
  BY <1>8
<1> HIDE DEF kw, kl
<1>12. R < kw
  <2>1. lo < c /\ lo \in Nat /\ c \in Nat
    BY <1>1, <1>2
  <2> QED
    BY <2>1, <1>6, <1>10, <1>11
<1> QED
  BY <1>12 DEF kw

\* When it does not, the estimate is at most one too large.
LEMMA WindowClose ==
  ASSUME NEW b, NEW c, NEW d1, NEW d0, NEW t2, NEW t1, NEW t0, NEW R, NEW w,
         Window(b, c, d1, d0, t2, t1, t0, R, w), NEW k \in 0 .. b - 1, NEW r \in Nat,
         k * d1 + r = t2 * b + t1, r >= b \/ k * d0 <= r * b + t0
  PROVE  k * w < R + w
<1>1. /\ b \in Nat /\ b > 1 /\ c \in Nat /\ c > 0 /\ d1 \in Nat /\ d0 \in 0 .. b - 1
      /\ t2 \in Nat /\ t1 \in Nat /\ t0 \in Nat /\ R \in Nat /\ w \in Nat /\ k \in Nat
  BY DEF Window
<1>2. PICK lo \in Nat : lo < c /\ R = ((t2 * b + t1) * b + t0) * c + lo
  BY DEF Window
<1>3. PICK l \in Nat : l < c /\ w = (d1 * b + d0) * c + l
  BY DEF Window
<1> DEFINE t == t2 * b + t1
           z == t * b + t0
           f == k * d1
           g == k * d0
           e == d1 * b + d0
<1>4. g <= r * b + t0
  <2>1. CASE r >= b
    <3>1. g <= b * d0 /\ g \in Nat /\ b * d0 \in Nat
      BY <1>1, ProductBelow
    <3>2. d0 * b <= b * b /\ b * b <= r * b /\ b * b \in Nat /\ r * b \in Nat
      BY <2>1, <1>1, ProductBelow
    <3>3. b * d0 = d0 * b
      BY <1>1
    <3> HIDE DEF g
    <3> QED
      BY <3>1, <3>2, <3>3, <1>1
  <2> QED
    BY <2>1
<1>5. f \in Nat /\ g \in Nat /\ t \in Nat /\ e \in Nat /\ f + r = t
  BY <1>1
<1>6. k * e = f * b + g
  BY <1>1
<1>7. R = z * c + lo /\ w = e * c + l
  BY <1>2, <1>3
<1> HIDE DEF f, g, t, e
<1> DEFINE y == k * e
<1>8. y \in Nat /\ z \in Nat /\ y <= z
  <2>1. t * b = f * b + r * b /\ f * b \in Nat /\ r * b \in Nat
    BY <1>1, <1>5
  <2> QED
    BY <2>1, <1>1, <1>4, <1>5, <1>6
<1>9. k * w = y * c + k * l /\ k * l \in Nat
  BY <1>1, <1>5, <1>7
<1> HIDE DEF y, z
<1>10. y * c <= z * c /\ y * c \in Nat /\ z * c \in Nat
  BY <1>1, <1>8, ProductBelow
<1> DEFINE kw == k * w
           kl == k * l
           bc == b * c
<1>11. kl < bc
  <2>1. l * k <= c * k /\ k * c + c <= b * c /\ k * c \in Nat /\ b * c \in Nat
    BY <1>1, <1>3, ProductBelow, MultipleOrder
  <2>2. l * k = k * l /\ c * k = k * c
    BY <1>1
  <2> QED
    BY <2>1, <2>2, <1>1, <1>9
<1>12. bc <= w /\ bc \in Nat
  BY <1>1, WindowPlace
<1>13. kw = y * c + kl /\ kl \in Nat
  BY <1>9
<1> HIDE DEF kw, kl, bc
<1>14. kw < R + w
  BY <1>1, <1>2, <1>7, <1>10, <1>11, <1>12, <1>13
<1> QED
  BY <1>14 DEF kw

\* The first estimate: exact in the two leading limbs, or all ones.
LEMMA WindowEstimate ==
  ASSUME NEW b, NEW c, NEW d1, NEW d0, NEW t2, NEW t1, NEW t0, NEW R, NEW w,
         Window(b, c, d1, d0, t2, t1, t0, R, w)
  PROVE  LET t == t2 * b + t1
         IN  /\ R \div w \in 0 .. b - 1
             /\ t2 = d1 => (b - 1) * d1 + (t1 + d1) = t
             /\ t2 # d1 => /\ t \div d1 \in 0 .. b - 1 /\ t % d1 \in 0 .. b - 1
                           /\ R \div w <= t \div d1
                           /\ (t \div d1) * d1 + (t % d1) = t
<1>1. /\ b \in Nat /\ b > 1 /\ d1 \in 1 .. b - 1 /\ d1 \in Nat
      /\ t2 \in Nat /\ t1 \in 0 .. b - 1 /\ t1 \in Nat /\ R \in Nat /\ w \in Nat /\ R < w * b
  BY DEF Window
<1> DEFINE t == t2 * b + t1
           k == R \div w
<1>2. w > 0 /\ t2 <= d1
  BY WindowPlace, WindowLead
<1>3. k \in Nat /\ k < b /\ k * w <= R
  <2>1. R < b * w
    BY <1>1
  <2>2. k \in Int /\ 0 <= k /\ k < b
    BY <2>1, <1>1, <1>2, QuotientBelow
  <2> DEFINE x == R % w
  <2>3. R = k * w + x /\ x >= 0 /\ x \in Int
    BY <1>1, <1>2, DivMod
  <2> HIDE DEF k, x
  <2> QED
    BY <2>2, <2>3, <1>1
<1> HIDE DEF k
<1>4. t \in Nat
  BY <1>1
<1>5. t2 = d1 => (b - 1) * d1 + (t1 + d1) = t
  BY <1>1
<1>6. ASSUME t2 # d1
      PROVE  /\ t \div d1 \in 0 .. b - 1 /\ t % d1 \in 0 .. b - 1
             /\ k <= t \div d1
             /\ (t \div d1) * d1 + (t % d1) = t
  <2>1. t < b * d1
    <3>1. t2 * b + b <= d1 * b /\ t2 * b \in Nat /\ d1 * b = b * d1
      BY <1>1, <1>2, <1>6, MultipleOrder
    <3> QED
      BY <3>1, <1>1
  <2>2. k * d1 <= t
    BY <1>3, WindowNeverLow
  <2> HIDE DEF t
  <2>3. t \div d1 \in Int /\ 0 <= t \div d1 /\ t \div d1 < b
    BY <2>1, <1>1, <1>4, QuotientBelow
  <2>4. k <= t \div d1
    BY <2>2, <1>1, <1>3, <1>4, FloorAtLeast
  <2> DEFINE x == t % d1
             y == t \div d1
  <2>5. x \in Int /\ 0 <= x /\ x < d1 /\ t = y * d1 + x
    BY <1>1, <1>4, DivMod
  <2> HIDE DEF x
  <2>6. x \in 0 .. b - 1
    BY <2>5, <1>1
  <2>7. y * d1 + x = t
    BY <2>5
  <2> QED
    BY <2>3, <2>4, <2>6, <2>7, <1>1 DEF x
<1>7. k \in 0 .. b - 1
  BY <1>1, <1>3
<1> QED
  BY <1>5, <1>6, <1>7 DEF k

-----------------------------------------------------------------------------
(* One limb of a multiply-subtract and of an add-back                      *)

\* What borrowing leaves of a sum that may wrap.
LEMMA WrapsOnce ==
  ASSUME NEW b \in Nat, b > 0, NEW x \in 0 .. b - 1, NEW y \in 0 .. b - 1
  PROVE  /\ (x + y) % b = x + y - (IF (x + y) % b < x THEN b ELSE 0)
         /\ (x - y) % b = x - y + (IF x < y THEN b ELSE 0)
         /\ (x + y) % b \in 0 .. b - 1 /\ (x - y) % b \in 0 .. b - 1
<1>1. CASE x + y < b
  <2>1. x + y = 0 * b + (x + y) /\ x + y \in Int /\ 0 <= x + y
    OBVIOUS
  <2>2. (x + y) % b = x + y
    BY <2>1, <1>1, DivUnique
  <2> QED
    BY <2>2
<1>2. CASE x + y >= b
  <2>1. x + y = 1 * b + (x + y - b) /\ x + y \in Int /\ 0 <= x + y - b /\ x + y - b < b
    BY <1>2
  <2>2. (x + y) % b = x + y - b
    BY <2>1, DivUnique
  <2> QED
    BY <2>2
<1>3. /\ (x + y) % b = x + y - (IF (x + y) % b < x THEN b ELSE 0)
      /\ (x + y) % b \in 0 .. b - 1
  <2>1. (x + y) % b \in 0 .. b - 1
    OBVIOUS
  <2> QED
    BY <2>1, <1>1, <1>2
<1>4. CASE x >= y
  <2>1. x - y = 0 * b + (x - y) /\ x - y \in Int /\ 0 <= x - y /\ x - y < b
    BY <1>4
  <2>2. (x - y) % b = x - y
    BY <2>1, DivUnique
  <2> QED
    BY <2>2, <1>3, <1>4
<1>5. CASE x < y
  <2>1. x - y = (-1) * b + (x - y + b) /\ x - y \in Int /\ 0 <= x - y + b /\ x - y + b < b
    BY <1>5
  <2>2. (x - y) % b = x - y + b
    BY <2>1, DivUnique
  <2> QED
    BY <2>2, <1>3, <1>5
<1> QED
  BY <1>4, <1>5

\* What the multiply-subtract takes from a limb, and the borrow it hands on.
TakenLimb(b, k, d, w) == (((k * d) % b) + w) % b

LimbBorrow(b, x, k, d, w) ==
  ((IF TakenLimb(b, k, d, w) < (k * d) % b THEN 1 ELSE 0) + (k * d) \div b
     + (IF x < TakenLimb(b, k, d, w) THEN 1 ELSE 0)) % b

\* The borrow is a limb, and nothing is lost.
LEMMA SubtractOneLimb ==
  ASSUME NEW b \in Nat, b > 1, NEW x \in 0 .. b - 1, NEW k \in 0 .. b - 1,
         NEW d \in 0 .. b - 1, NEW w \in 0 .. b - 1
  PROVE  LET out == LimbBorrow(b, x, k, d, w)
             y == (x - TakenLimb(b, k, d, w)) % b
         IN  /\ out \in 0 .. b - 1 /\ y \in 0 .. b - 1
             /\ y - x = b * out - k * d - w
<1> DEFINE p == k * d
           low0 == p % b
           high == p \div b
           sub == (low0 + w) % b
           wrapped == IF sub < low0 THEN 1 ELSE 0
           below == IF x < sub THEN 1 ELSE 0
           sum == wrapped + high + below
           y == (x - sub) % b
<1>0. TakenLimb(b, k, d, w) = sub /\ LimbBorrow(b, x, k, d, w) = sum % b
  BY DEF TakenLimb, LimbBorrow
<1>1. p \in Nat /\ p <= (b - 1) * (b - 1)
  <2>1. k * d <= (b - 1) * d /\ d * (b - 1) <= (b - 1) * (b - 1) /\ k * d \in Nat
    BY ProductBelow
  <2>2. (b - 1) * d = d * (b - 1) /\ d * (b - 1) \in Nat /\ (b - 1) * (b - 1) \in Nat
    OBVIOUS
  <2> QED
    BY <2>1, <2>2
<1> HIDE DEF p
<1>2. low0 \in Int /\ high \in Int /\ p = high * b + low0 /\ 0 <= low0 /\ low0 < b
  BY <1>1, DivMod
<1>3. 0 <= high
  BY <1>1, FloorAtLeast, 0 * b = 0
<1> HIDE DEF low0, high
<1>4. low0 \in 0 .. b - 1
  BY <1>2
<1>5. /\ sub = low0 + w - (IF sub < low0 THEN b ELSE 0) /\ sub \in 0 .. b - 1
  BY <1>4, WrapsOnce
<1> HIDE DEF sub
<1>6. y = x - sub + (IF x < sub THEN b ELSE 0) /\ y \in 0 .. b - 1
  BY <1>5, WrapsOnce
<1> HIDE DEF y
<1>7. sub = low0 + w - b * wrapped /\ wrapped \in {0, 1}
  BY <1>5
<1>8. y = x - sub + b * below /\ below \in {0, 1} /\ (sub = 0 => below = 0)
  BY <1>6
<1> HIDE DEF wrapped, below
<1> DEFINE h == high + wrapped
<1>9. p + w = h * b + sub /\ h \in Nat
  <2>1. (high + wrapped) * b = high * b + b * wrapped /\ high * b \in Int /\ b * wrapped \in Int
    BY <1>2, <1>7
  <2> QED
    BY <2>1, <1>2, <1>3, <1>7
<1>10. h <= b - 1 /\ (h = b - 1 => sub = 0)
  <2>1. p + w <= (b - 1) * b
    <3>1. (b - 1) * b = (b - 1) * (b - 1) + (b - 1) /\ (b - 1) * (b - 1) \in Nat
      OBVIOUS
    <3> QED
      BY <3>1, <1>1
  <2> HIDE DEF h
  <2>2. ASSUME h >= b PROVE FALSE
    <3>1. (b - 1) * b + b <= h * b
      BY <2>2, <1>9, MultipleOrder
    <3>2. h * b \in Int /\ (b - 1) * b \in Int
      BY <1>9
    <3> QED
      BY <3>1, <3>2, <2>1, <1>1, <1>5, <1>9
  <2>3. ASSUME h = b - 1 PROVE sub = 0
    <3>1. h * b = (b - 1) * b /\ h * b \in Int
      BY <2>3
    <3> QED
      BY <3>1, <2>1, <1>1, <1>5, <1>9
  <2> QED
    BY <2>2, <2>3, <1>9
<1>11. sum = h + below /\ sum \in 0 .. b - 1
  BY <1>2, <1>7, <1>8, <1>9, <1>10
<1>12. sum % b = sum
  <2> HIDE DEF sum
  <2> QED
    BY <1>11, RemainderOfSmall
<1>13. y - x = b * sum - p - w
  <2>1. b * sum = h * b + b * below /\ h * b \in Int /\ b * below \in Int
    BY <1>8, <1>9, <1>11
  <2> HIDE DEF sum, h
  <2> QED
    BY <2>1, <1>1, <1>5, <1>6, <1>8, <1>9
<1> QED
  BY <1>0, <1>6, <1>11, <1>12, <1>13 DEF p, y

\* A limb of the add-back, and the carry it hands on.
AddedLimb(b, x, d, w) == (x + d + w) % b

LimbCarry(b, x, d, w) ==
  IF AddedLimb(b, x, d, w) < x \/ (w = 1 /\ AddedLimb(b, x, d, w) = x) THEN 1 ELSE 0

\* The carry is one exactly when the sum wraps.
LEMMA AddOneLimb ==
  ASSUME NEW b \in Nat, b > 1, NEW x \in 0 .. b - 1, NEW d \in 0 .. b - 1, NEW w \in {0, 1}
  PROVE  /\ AddedLimb(b, x, d, w) \in 0 .. b - 1 /\ LimbCarry(b, x, d, w) \in {0, 1}
         /\ AddedLimb(b, x, d, w) - x = d + w - b * LimbCarry(b, x, d, w)
<1> DEFINE total == x + d + w
           sum == total % b
           out == IF sum < x \/ (w = 1 /\ sum = x) THEN 1 ELSE 0
<1>0. AddedLimb(b, x, d, w) = sum /\ LimbCarry(b, x, d, w) = out
  BY DEF AddedLimb, LimbCarry
<1>1. total \in Nat /\ total = x + d + w
  OBVIOUS
<1> HIDE DEF total
<1>2. CASE total < b
  <2>1. sum = total
    BY <1>1, <1>2, RemainderOfSmall
  <2>2. out = 0
    BY <2>1, <1>1
  <2> QED
    BY <2>1, <2>2, <1>0, <1>1, <1>2
<1>3. CASE total >= b
  <2>1. total = 1 * b + (total - b) /\ 0 <= total - b /\ total - b < b /\ total - b \in Int
    BY <1>1, <1>3
  <2>2. sum = total - b
    BY <2>1, <1>1, DivUnique
  <2>3. out = 1
    BY <2>2, <1>1
  <2> QED
    BY <2>2, <2>3, <1>0, <1>1, <1>3
<1> QED
  BY <1>0, <1>1, <1>2, <1>3

\* What the borrow stands for moves to the next limb: the sum stays.
LEMMA SubtractKeeps ==
  ASSUME NEW U \in Int, NEW w \in Int, NEW y \in Int, NEW k \in Int, NEW m \in Int,
         NEW d \in Int, NEW b \in Int, NEW ci \in Int, NEW cj \in Int, NEW R \in Int,
         NEW x \in Int, NEW z \in Int, z - x = b * y - k * d - w,
         U - w * (ci * cj) + k * (m * cj) = R
  PROVE  (U + (z - x) * (ci * cj)) - y * ((b * ci) * cj) + k * ((m + d * ci) * cj) = R
<1> DEFINE c == ci * cj
<1>1. c \in Int /\ (b * ci) * cj = b * c /\ (m + d * ci) * cj = m * cj + d * c /\ m * cj \in Int
  OBVIOUS
<1> DEFINE mc == m * cj
<1> HIDE DEF c, mc
<1>2. (z - x) * c = (b * y) * c - (k * d) * c - w * c
  <2>1. (z - x) * c = (b * y - k * d - w) * c
    OBVIOUS
  <2> QED
    BY <2>1, <1>1
<1>3. k * (mc + d * c) = k * mc + (k * d) * c /\ y * (b * c) = (b * y) * c
  BY <1>1 DEF mc
<1>4. U - w * c + k * mc = R
  BY DEF c, mc
<1>5. /\ (b * y) * c \in Int /\ (k * d) * c \in Int /\ w * c \in Int /\ k * mc \in Int
  BY <1>1 DEF mc
<1> DEFINE a1 == (b * y) * c
           a2 == (k * d) * c
           a3 == w * c
           a4 == k * mc
<1>6. (U + (z - x) * c) - y * (b * c) + k * (mc + d * c) = U + a1 - a2 - a3 - a1 + a4 + a2
  BY <1>2, <1>3, <1>5
<1>7. U + a1 - a2 - a3 - a1 + a4 + a2 = R
  <2>1. a1 \in Int /\ a2 \in Int /\ a3 \in Int /\ a4 \in Int /\ U - a3 + a4 = R
    BY <1>4, <1>5
  <2> HIDE DEF a1, a2, a3, a4
  <2> QED
    BY <2>1
<1> QED
  BY <1>1, <1>6, <1>7 DEF c, mc

LEMMA AddKeeps ==
  ASSUME NEW U \in Int, NEW w \in Int, NEW y \in Int, NEW v \in Int, NEW m \in Int,
         NEW d \in Int, NEW b \in Int, NEW ci \in Int, NEW cj \in Int, NEW R \in Int,
         NEW x \in Int, NEW z \in Int, z - x = d + w - b * y,
         U + w * (ci * cj) + (v - m) * cj = R
  PROVE  (U + (z - x) * (ci * cj)) + y * ((b * ci) * cj) + (v - (m + d * ci)) * cj = R
<1> DEFINE c == ci * cj
           mc == (v - m) * cj
<1>1. /\ c \in Int /\ (b * ci) * cj = b * c /\ mc \in Int
      /\ (v - (m + d * ci)) * cj = mc - d * c
  OBVIOUS
<1>2. U + w * c + mc = R
  OBVIOUS
<1> HIDE DEF c, mc
<1>3. (z - x) * c = d * c + w * c - (b * y) * c
  <2>1. (z - x) * c = (d + w - b * y) * c
    OBVIOUS
  <2> QED
    BY <2>1, <1>1
<1>4. y * (b * c) = (b * y) * c /\ d * c \in Int /\ w * c \in Int /\ (b * y) * c \in Int
  BY <1>1
<1> DEFINE a1 == d * c
           a2 == w * c
           a3 == (b * y) * c
<1>5. (U + (z - x) * c) + y * (b * c) + (mc - a1) = U + a1 + a2 - a3 + a3 + (mc - a1)
  BY <1>3, <1>4
<1>6. U + a1 + a2 - a3 + a3 + (mc - a1) = R
  <2>1. a1 \in Int /\ a2 \in Int /\ a3 \in Int /\ U + a2 + mc = R
    BY <1>2, <1>4
  <2> HIDE DEF a1, a2, a3
  <2> QED
    BY <2>1, <1>1
<1> QED
  BY <1>1, <1>5, <1>6 DEF c

\* One place short: the only borrow that can be left over is one.
LEMMA OnePlaceShort ==
  ASSUME NEW c \in Nat, c > 0, NEW lo \in Nat, lo < c, NEW t \in Int, NEW w \in Int, t < w,
         NEW R \in Nat, NEW P \in Nat, R < P, P < c, lo + t * c - w * c = R - P
  PROVE  w = t + 1 /\ lo = R - P + c
<1> DEFINE d == w - t
<1>1. d \in Int /\ d >= 1 /\ w = t + d
  OBVIOUS
<1> HIDE DEF d
<1>2. w * c = t * c + d * c /\ d * c \in Int /\ t * c \in Int
  BY <1>1
<1>3. lo - d * c = R - P
  BY <1>2
<1>4. d * c < 2 * c
  BY <1>2, <1>3
<1>5. d < 2
  BY <1>1, <1>4, CancelFactor
<1>6. d = 1
  BY <1>1, <1>5
<1> QED
  BY <1>1, <1>3, <1>6
=============================================================================
