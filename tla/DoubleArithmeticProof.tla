------------------------- MODULE DoubleArithmeticProof -------------------------
(***************************************************************************)
(* Arithmetic of two words and more, for words and types of every size.    *)
(* First that no machine division traps; then, stage by stage, that every  *)
(* compiled path answers what ExactArithmetic says.                        *)
(***************************************************************************)
EXTENDS ConstexprArithmetic, IntegerLemmas

P == INSTANCE MachineWordProof

-----------------------------------------------------------------------------
(* The invariant *)

\* The type is one of those the module is about, and so is the build.
Chosen == path \in Paths /\ \E t \in Types : Radix = t[1] /\ D = t[2]

\* A call is made with values of the type.
Representable ==
  stage # "idle" =>
    /\ request.a \in i128_min .. i128_max
    /\ request.b \in i128_min .. i128_max
    /\ request.c \in i128_min .. i128_max

\* A number whose sign may be changed.
Signable(n) == n \in -i128_max .. i128_max

\* What the machine is about to divide.
Loaded ==
  /\ stage \in {"product", "native", "machine"} =>
       Signable(numerator) /\ divisor \in Int /\ divisor # 0
  /\ stage \in {"inline", "idiv"} =>
       fits64(divisor) /\ divisor # 0 /\ InWord(quot)

IInv == Chosen /\ Representable /\ Loaded

-----------------------------------------------------------------------------
(* The numbers involved *)

\* Half a word, half a double word, and the scale.
LEMMA Sizes ==
  ASSUME Chosen
  PROVE  LET h == 2 ^ (Word - 1)
         IN /\ P!WordHalves(h) /\ h \in Nat /\ h > 1 /\ M = 2 * h /\ M \in Nat
            /\ INT_MIN = -h /\ INT_MAX = h - 1
            /\ MM = M * M /\ i128_max = 2 * (h * h) - 1 /\ i128_min = -(2 * (h * h))
            /\ scale \in Nat /\ 0 < scale /\ scale <= i128_max
<1> DEFINE h == 2 ^ (Word - 1)
<1>1. PICK t \in Types : Radix = t[1] /\ D = t[2]
  BY DEF Chosen
<1>2. /\ Word \in Nat /\ Word >= 2 /\ Bits \in Nat /\ Bits = Word + Word
      /\ Radix \in Nat /\ Radix >= 2 /\ D \in Nat /\ Radix ^ D < 2 ^ (Bits - 1)
  BY <1>1, WordAssumption, TypesAssumption DEF Bits
<1>3. PowerLaws(2, Bits) /\ PowerLaws(Radix, D)
  BY <1>1, PowersAssumption DEF PowerLaws
<1>4. scale \in Nat /\ 0 < scale
  <2>1. \A k \in 0 .. D : Radix ^ k \in Nat /\ Radix ^ k > 0
    BY <1>2, <1>3, PowersPositive
  <2> QED
    BY <2>1, <1>2 DEF scale
<1>5. \A k \in 0 .. Bits : 2 ^ k \in Nat /\ 2 ^ k > 0
  BY <1>2, <1>3, PowersPositive
<1>6. h \in Nat /\ h > 0 /\ 2 ^ (Word - 2) \in Nat /\ 2 ^ (Word - 2) > 0
  BY <1>2, <1>5
<1>7. 2 ^ Word = 2 * h /\ h = 2 * 2 ^ (Word - 2) /\ 2 ^ Bits = 2 * 2 ^ (Bits - 1)
  <2>1. Word - 1 \in 0 .. Bits - 1 /\ (Word - 1) + 1 = Word
        /\ Word - 2 \in 0 .. Bits - 1 /\ (Word - 2) + 1 = Word - 1
        /\ Bits - 1 \in 0 .. Bits - 1 /\ (Bits - 1) + 1 = Bits
    BY <1>2
  <2> QED
    BY <2>1, <1>3 DEF PowerLaws
<1>8. 2 ^ Bits = 2 ^ Word * 2 ^ Word
  <2>1. Word \in 0 .. Bits /\ Word + Word <= Bits
    BY <1>2
  <2> QED
    BY <2>1, <1>2, <1>3, PowersTimes
<1>9. 2 ^ (Bits - 1) \in Nat
  BY <1>2, <1>5
<1> HIDE DEF h
<1>10. 2 ^ (Bits - 1) = 2 * (h * h)
  <2>1. 2 ^ Word * 2 ^ Word = 2 * (2 * (h * h))
    BY <1>6, <1>7
  <2>2. h * h \in Nat
    BY <1>6
  <2> QED
    BY <2>1, <2>2, <1>7, <1>8, <1>9
<1>11. P!WordHalves(h)
  BY <1>6, <1>7 DEF P!WordHalves, P!M, P!INT_MIN, P!INT_MAX, h
<1> QED
  BY <1>2, <1>4, <1>6, <1>7, <1>8, <1>9, <1>10, <1>11
     DEF h, M, MM, INT_MIN, INT_MAX, i128_max, i128_min, scale

\* The instance of the word's proofs speaks of the same division.
LEMMA SameWord ==
  /\ P!M = M /\ P!INT_MIN = INT_MIN /\ P!INT_MAX = INT_MAX
  /\ \A n, d : /\ P!Quotient(n, d) = Quotient(n, d) /\ P!Remainder(n, d) = Remainder(n, d)
               /\ P!QuotientFits(n, d) <=> QuotientFits(n, d)
               /\ P!MultiplyFits(n, d) <=> MultiplyFits(n, d)
  /\ \A n : /\ P!InWord(n) <=> InWord(n)
            /\ P!HighWord(n) = HighWord(n) /\ P!Absolute(n) = Absolute(n)
BY DEF P!M, M, P!INT_MIN, INT_MIN, P!INT_MAX, INT_MAX, P!Quotient, Quotient, P!Remainder,
       Remainder, P!QuotientFits, QuotientFits, P!MultiplyFits, MultiplyFits, P!InWord, InWord,
       P!HighWord, HighWord, P!Absolute, Absolute, P!Unsigned, Unsigned

\* The largest double word is what is below half of all of them.
LEMMA Ranges ==
  ASSUME Chosen
  PROVE  /\ i128_max \in Nat /\ i128_min = -i128_max - 1 /\ MM = 2 * i128_max + 2
         /\ M \in Nat /\ M > 3 /\ MM = M * M
<1> DEFINE h == 2 ^ (Word - 1)
           k == h * h
<1>1. /\ h \in Nat /\ h > 1 /\ M = 2 * h /\ MM = M * M
      /\ i128_max = 2 * k - 1 /\ i128_min = -(2 * k)
  BY Sizes
<1> HIDE DEF h
<1>2. k \in Nat /\ k >= 1
  BY <1>1, PositiveProduct
<1>3. M * M = 2 * (2 * k)
  BY <1>1
<1> HIDE DEF k
<1> QED
  BY <1>1, <1>2, <1>3

\* Factors of one word have a product that can change its sign, and that the
\* machine can divide.
LEMMA NarrowProduct ==
  ASSUME Chosen, NEW a \in Int, fits64(a), NEW b \in Int, fits64(b)
  PROVE  /\ Signable(a * b) /\ a * b \in Int
         /\ P!DoubleWord(a * b, 2 ^ (Word - 1))
<1> DEFINE h == 2 ^ (Word - 1)
           k == h * h
           n == a * b
           u == Absolute(a)
           v == Absolute(b)
<1>1. /\ P!WordHalves(h) /\ h \in Int /\ h > 1 /\ i128_max = 2 * k - 1
      /\ INT_MIN = -h /\ INT_MAX = h - 1
  BY Sizes
<1> HIDE DEF h
<1>2. -h <= a /\ a <= h /\ -h <= b /\ b <= h
  BY <1>1 DEF fits64, InWord
<1>3. P!DoubleWord(n, h)
  BY <1>1, <1>2, P!ProductOfWords
<1>4. u \in Int /\ 0 <= u /\ u <= h /\ v \in Int /\ 0 <= v /\ v <= h
  BY <1>1, <1>2 DEF Absolute
<1>5. n = u * v \/ n = -(u * v)
  BY DEF Absolute
<1> HIDE DEF n, u, v
<1>6. u * v \in Int /\ 0 <= u * v /\ u * v <= k
  <2>1. u * v <= h * v /\ 0 <= u * v /\ u * v \in Int
    BY <1>1, <1>4, ProductBelow
  <2>2. v * h <= h * h /\ v * h = h * v /\ h * h \in Int /\ h * v \in Int
    BY <1>1, <1>4, ProductBelow
  <2> QED
    BY <2>1, <2>2
<1>7. k \in Int /\ 1 <= k
  BY <1>1, PositiveProduct
<1> HIDE DEF k
<1>8. Signable(n) /\ n \in Int
  BY <1>1, <1>5, <1>6, <1>7 DEF Signable
<1> QED
  BY <1>3, <1>8 DEF n, h

\* div's test, which forms neither the product nor a signed sum.
LEMMA ScaledSignable ==
  ASSUME Chosen, NEW a \in i128_min .. i128_max,
         (a + (i128_max \div scale)) % MM <= 2 * (i128_max \div scale)
  PROVE  Signable(a * scale) /\ a * scale \in Int
<1> DEFINE g == i128_max
           s == scale
           bound == g \div s
           n == a * s
           u == Absolute(a)
<1>1. g \in Nat /\ i128_min = -g - 1 /\ MM = 2 * g + 2 /\ s \in Nat /\ 0 < s
  BY Ranges, Sizes
<1>2. a \in Int /\ -g - 1 <= a /\ a <= g /\ (a + bound) % MM <= 2 * bound
  BY <1>1
<1> HIDE DEF g, s
<1>3. bound \in Int /\ bound * s <= g /\ 0 <= bound /\ bound <= g
  <2>1. bound \in Int /\ g = bound * s + (g % s) /\ 0 <= g % s
    BY <1>1, DivMod
  <2>2. 0 <= bound
    BY <1>1
  <2>3. bound <= bound * s
    BY <2>1, <2>2, <1>1, PositiveProduct
  <2>4. bound * s \in Int /\ g % s \in Int
    BY <2>1, <1>1
  <2> QED
    BY <2>1, <2>2, <2>3, <2>4, <1>1
<1> HIDE DEF bound
<1>4. -bound <= a /\ a <= bound
  <2>1. CASE a + bound < 0
    <3>1. (a + bound) % MM = a + bound + MM
      BY <2>1, <1>1, <1>2, <1>3
    <3> QED
      BY <3>1, <2>1, <1>1, <1>2, <1>3
  <2>2. CASE 0 <= a + bound
    <3>1. (a + bound) % MM = a + bound
      BY <2>2, <1>1, <1>2, <1>3
    <3> QED
      BY <3>1, <2>2, <1>1, <1>2, <1>3
  <2> QED
    BY <2>1, <2>2, <1>2, <1>3
<1>5. u \in Int /\ 0 <= u /\ u <= bound
  BY <1>2, <1>3, <1>4 DEF Absolute
<1>6. n = u * s \/ n = -(u * s)
  BY <1>1, <1>2 DEF Absolute
<1>7. u * s <= bound * s /\ 0 <= u * s /\ u * s \in Int
  BY <1>1, <1>3, <1>5, ProductBelow
<1> HIDE DEF n, u
<1>8. Signable(n) /\ n \in Int
  <2>1. bound * s \in Int
    BY <1>1, <1>3
  <2> QED
    BY <2>1, <1>1, <1>3, <1>6, <1>7 DEF Signable, g
<1> QED
  BY <1>8 DEF n, s

\* A number that can change its sign has a quotient in range by any divisor.
LEMMA SignableDivides ==
  ASSUME Chosen, NEW n, Signable(n), NEW d \in Int, d # 0
  PROVE  Signable(Quotient(n, d)) /\ InRange(Quotient(n, d)) /\ InRange(n)
<1> DEFINE u == Absolute(n)
           v == Absolute(d)
           m == u \div v
           g == i128_max
<1>1. g \in Nat /\ i128_min = -g - 1 /\ n \in Int /\ -g <= n /\ n <= g
  BY Ranges DEF Signable
<1> HIDE DEF g
<1>2. u \in Int /\ 0 <= u /\ u <= g /\ v \in Int /\ 0 < v
  BY <1>1 DEF Absolute
<1>3. Quotient(n, d) = m \/ Quotient(n, d) = -m
  BY DEF Quotient
<1> HIDE DEF u, v
<1>4. m \in Int /\ 0 <= m /\ m <= u
  <2>1. m \in Int /\ u = m * v + (u % v) /\ 0 <= u % v /\ u % v \in Int
    BY <1>2, DivMod
  <2>2. 0 <= m
    BY <1>2
  <2>3. m <= m * v /\ m * v \in Int
    BY <2>1, <2>2, <1>2, PositiveProduct
  <2> QED
    BY <2>1, <2>2, <2>3, <1>2
<1> QED
  BY <1>1, <1>2, <1>3, <1>4 DEF Signable, InRange, g

\* What the machine's own test lets through.
LEMMA TestedFits ==
  ASSUME Chosen, NEW n, Signable(n), NEW d \in Int, fits64(d), QuotientFits(n, d)
  PROVE  d # 0 /\ InWord(Quotient(n, d))
<1> DEFINE h == 2 ^ (Word - 1)
           hi == n \div M
           g == i128_max
<1>1. /\ P!WordHalves(h) /\ h \in Nat /\ h > 1 /\ M = 2 * h
      /\ INT_MIN = -h /\ INT_MAX = h - 1 /\ g = 2 * (h * h) - 1
  BY Sizes
<1>2. n \in Int /\ -g <= n /\ n <= g /\ g \in Nat
  BY Ranges DEF Signable
<1> HIDE DEF h, g
<1>0. M \in Int /\ M > 0
  BY Ranges
<1>3. hi \in Int /\ n = hi * M + (n % M) /\ 0 <= n % M /\ n % M < M /\ n % M \in Int
  BY <1>0, <1>2, DivMod
<1> HIDE DEF hi
<1>4. h * M = 2 * (h * h) /\ (-h) * M = -(2 * (h * h)) /\ h * M \in Int /\ hi * M \in Int
  BY <1>1, <1>3
<1>5. ~(hi < -h)
  <2> SUFFICES ASSUME hi < -h PROVE FALSE
    OBVIOUS
  <2>1. hi * M + M <= (-h) * M
    BY <1>1, <1>3, MultipleOrder
  <2> QED
    BY <2>1, <1>1, <1>2, <1>3, <1>4
<1>6. ~(h <= hi)
  <2> SUFFICES ASSUME h <= hi PROVE FALSE
    OBVIOUS
  <2>1. h * M <= hi * M
    BY <1>1, <1>3, ProductBelow
  <2> QED
    BY <2>1, <1>1, <1>2, <1>3, <1>4
<1>7. P!DoubleWord(n, h)
  BY <1>1, <1>2, <1>3, <1>5, <1>6, SameWord DEF P!DoubleWord, HighWord, hi
<1>8. -h <= d /\ d < h
  BY <1>1 DEF fits64, InWord
<1>9. P!QuotientFits(n, d)
  BY SameWord
<1>10. d # 0 /\ P!InWord(P!Quotient(n, d))
  BY <1>1, <1>7, <1>8, <1>9, P!MachineDivisionFits
<1> QED
  BY <1>10, SameWord

-----------------------------------------------------------------------------
(* The steps *)

\* It holds at the start.
LEMMA StartInv ==
  ASSUME Init
  PROVE  IInv
BY DEF Init, IInv, Chosen, Representable, Loaded

\* A call is made with values of the type.
LEMMA CallInv ==
  ASSUME IInv, Call
  PROVE  IInv'
<1>1. stage' = "dispatch" /\ UNCHANGED chosen
  BY DEF Call
<1>2. Chosen'
  BY <1>1 DEF IInv, Chosen, chosen
<1>3. PICK op \in Ops,
           a \in Lefts \union Factors, b \in Rights \union Factors \union {0},
           c \in Factors \union {0} :
             \E decimals, mode : request' = E!Request(op, a, b, c, decimals, mode)
  BY DEF Call
<1>4. request'.a = a /\ request'.b = b /\ request'.c = c
  BY <1>3 DEF E!Request
<1>5. 0 \in i128_min .. i128_max
  BY Ranges DEF IInv
<1>6. Lefts \union Rights \union Factors \subseteq i128_min .. i128_max
  BY OperandsAssumption DEF i128_min, i128_max
<1>7. Representable'
  BY <1>4, <1>5, <1>6 DEF Representable, i128_min, i128_max, Bits
<1>8. Loaded'
  BY <1>1 DEF Loaded
<1> QED
  BY <1>2, <1>7, <1>8 DEF IInv

\* Nothing a call was made with changes while it runs.
LEMMA Stays ==
  ASSUME IInv, stage # "idle", UNCHANGED <<chosen, request>>
  PROVE  Chosen' /\ Representable'
BY DEF IInv, Chosen, Representable, chosen, i128_min, i128_max, Bits

\* An answer divides no more.
LEMMA ReplyInv ==
  ASSUME IInv, stage # "idle", stage' = "answered", UNCHANGED <<chosen, request>>
  PROVE  IInv'
<1>1. Loaded'
  BY DEF Loaded
<1> QED
  BY <1>1, Stays DEF IInv

\* What a division is called with.
LEMMA ReadyWith ==
  ASSUME IInv, NEW op, Ready(op)
  PROVE  /\ stage = "dispatch" /\ stage # "idle" /\ request.op = op /\ Denominator # 0
         /\ request.a \in Int /\ request.b \in Int /\ request.c \in Int
         /\ request.a \in i128_min .. i128_max
         /\ scale \in Int /\ scale # 0
         /\ op \in {"mul", "div", "mul_div"} => Denominator \in Int
<1>1. stage = "dispatch" /\ stage # "idle" /\ request.op = op /\ Denominator # 0
  BY DEF Ready
<1>2. /\ request.a \in i128_min .. i128_max /\ request.b \in i128_min .. i128_max
      /\ request.c \in i128_min .. i128_max
  BY <1>1 DEF IInv, Representable
<1>3. i128_max \in Int /\ i128_min \in Int /\ scale \in Int /\ scale # 0
  BY Ranges, Sizes DEF IInv
<1>4. /\ request.a \in Int /\ request.b \in Int /\ request.c \in Int
      /\ request.a \in i128_min .. i128_max
  <2>1. \A n : n \in i128_min .. i128_max => n \in Int
    BY <1>3
  <2> QED
    BY <1>2, <2>1
<1>5. op = "mul" => Denominator \in Int
  BY <1>1, <1>3 DEF Denominator
<1>6. op = "div" => Denominator \in Int
  BY <1>1, <1>4 DEF Denominator
<1>7. op = "mul_div" => Denominator \in Int
  BY <1>1, <1>4 DEF Denominator
<1> QED
  BY <1>1, <1>3, <1>4, <1>5, <1>6, <1>7

\* A multiplication gives the machine what its tests admit.
LEMMA MulInv ==
  ASSUME IInv, Mul
  PROVE  IInv'
<1>1. /\ stage = "dispatch" /\ stage # "idle" /\ request.op = "mul"
      /\ request.a \in Int /\ request.b \in Int /\ scale \in Int /\ scale # 0 /\ Chosen
  BY ReadyWith DEF Mul, IInv
<1>2. Chosen' /\ Representable' /\ UNCHANGED <<chosen, request>>
  BY <1>1, Stays DEF Mul, Enter
<1>3. Loaded'
  <2>1. CASE InlineMul
    <3>1. fits64(request.a) /\ fits64(request.b) /\ scale <= INT_MAX
      BY <2>1 DEF InlineMul, NarrowFactors, ScaleFitsIdiv
    <3>2. P!DoubleWord(Product, 2 ^ (Word - 1))
      BY <1>1, <3>1, NarrowProduct DEF Product
    <3>3. CASE MultiplyFits(Product, scale)
      <4> DEFINE h == 2 ^ (Word - 1)
      <4>1. P!WordHalves(h) /\ scale \in Int /\ 0 < scale /\ scale <= h /\ scale <= h - 1
            /\ h \in Int /\ INT_MIN = -h /\ INT_MAX = h - 1
        BY <1>1, <3>1, Sizes
      <4>2. P!MultiplyFits(Product, scale)
        BY <3>3, SameWord
      <4>3. P!InWord(P!Quotient(Product, scale))
        BY <4>1, <4>2, <3>2, P!MultiplicationLeavesRoom
      <4>4. InWord(Quotient(Product, scale))
        BY <4>3, SameWord
      <4>5. fits64(scale)
        BY <4>1 DEF fits64, InWord
      <4>6. stage' = "inline" /\ numerator' = Product /\ divisor' = scale
        BY <2>1, <3>3 DEF Mul, Enter
      <4> QED
        BY <1>1, <4>4, <4>5, <4>6 DEF Loaded, quot, fits64, InWord, INT_MIN, INT_MAX
    <3>4. CASE ~MultiplyFits(Product, scale)
      <4>1. stage' = "slab"
        BY <2>1, <3>4 DEF Mul, Enter
      <4> QED
        BY <4>1 DEF Loaded
    <3> QED
      BY <3>3, <3>4
  <2>2. CASE ~InlineMul /\ NarrowMul
    <3>1. Signable(Product)
      BY <2>2, <1>1, NarrowProduct DEF Product, NarrowMul, NarrowFactors
    <3>2. stage' = "product" /\ numerator' = Product /\ divisor' = scale
      BY <2>2 DEF Mul, Enter
    <3> QED
      BY <1>1, <3>1, <3>2 DEF Loaded, Signable, i128_max, Bits
  <2>3. CASE ~InlineMul /\ ~NarrowMul
    <3>1. stage' \in {"quad", "wide"}
      BY <2>3 DEF Mul, Enter
    <3> QED
      BY <3>1 DEF Loaded
  <2> QED
    BY <2>1, <2>2, <2>3
<1> QED
  BY <1>2, <1>3 DEF IInv

\* So does a division,
LEMMA DivInv ==
  ASSUME IInv, Div
  PROVE  IInv'
<1>1. /\ stage = "dispatch" /\ stage # "idle" /\ request.op = "div" /\ Denominator # 0
      /\ request.a \in i128_min .. i128_max /\ request.b \in Int /\ Chosen
  BY ReadyWith DEF Div, IInv
<1>2. Chosen' /\ Representable' /\ UNCHANGED <<chosen, request>>
  BY <1>1, Stays DEF Div, Enter
<1>3. Loaded'
  <2>1. CASE NarrowDiv
    <3>1. Signable(request.a * scale)
      BY <2>1, <1>1, ScaledSignable DEF NarrowDiv, DivBound
    <3>2. request.b # 0
      BY <1>1 DEF Denominator
    <3>3. stage' \in {"machine", "native"} /\ numerator' = request.a * scale
          /\ divisor' = request.b
      BY <2>1 DEF Div, Enter
    <3> QED
      BY <1>1, <3>1, <3>2, <3>3 DEF Loaded, Signable, i128_max, Bits
  <2>2. CASE ~NarrowDiv
    <3>1. stage' \in {"quad", "wide"}
      BY <2>2 DEF Div, Enter
    <3> QED
      BY <3>1 DEF Loaded
  <2> QED
    BY <2>1, <2>2
<1> QED
  BY <1>2, <1>3 DEF IInv

\* and a multiplication with a division after it.
LEMMA MulDivInv ==
  ASSUME IInv, MulDiv
  PROVE  IInv'
<1>1. /\ stage = "dispatch" /\ stage # "idle" /\ request.op = "mul_div" /\ Denominator # 0
      /\ request.a \in Int /\ request.b \in Int /\ request.c \in Int /\ Chosen
  BY ReadyWith DEF MulDiv, IInv
<1>2. Chosen' /\ Representable' /\ UNCHANGED <<chosen, request>>
  BY <1>1, Stays DEF MulDiv, Enter
<1>3. request.c # 0
  BY <1>1 DEF Denominator
<1>4. ASSUME NarrowFactors PROVE Signable(Product)
  BY <1>1, <1>4, NarrowProduct DEF Product, NarrowFactors
<1>5. Loaded'
  <2>1. CASE InlineMulDiv
    <3>1. fits64(request.c) /\ QuotientFits(Product, request.c) /\ Signable(Product)
      BY <2>1, <1>4 DEF InlineMulDiv
    <3>2. InWord(Quotient(Product, request.c))
      BY <1>1, <3>1, TestedFits
    <3>3. stage' = "inline" /\ numerator' = Product /\ divisor' = request.c
      BY <2>1 DEF MulDiv, Enter
    <3> QED
      BY <1>3, <3>1, <3>2, <3>3 DEF Loaded, quot, fits64, InWord, INT_MIN, INT_MAX
  <2>2. CASE ~InlineMulDiv /\ NarrowMulDiv
    <3>1. Signable(Product)
      BY <2>2, <1>4 DEF NarrowMulDiv
    <3>2. stage' = "native" /\ numerator' = Product /\ divisor' = request.c
      BY <2>2 DEF MulDiv, Enter
    <3> QED
      BY <1>1, <1>3, <3>1, <3>2 DEF Loaded, Signable, i128_max, Bits
  <2>3. CASE ~InlineMulDiv /\ ~NarrowMulDiv
    <3>1. stage' \in {"quad", "wide"}
      BY <2>3 DEF MulDiv, Enter
    <3> QED
      BY <3>1 DEF Loaded
  <2> QED
    BY <2>1, <2>2, <2>3
<1> QED
  BY <1>2, <1>5 DEF IInv

\* A product goes on as it is.
LEMMA ProductInv ==
  ASSUME IInv, DivideProduct
  PROVE  IInv'
<1>1. stage = "product" /\ stage # "idle" /\ Signable(numerator) /\ divisor \in Int /\ divisor # 0
  BY DEF DivideProduct, IInv, Loaded
<1>2. /\ stage' \in {"native", "scale"} /\ numerator' = numerator /\ divisor' = divisor
      /\ UNCHANGED <<chosen, request>>
  BY DEF DivideProduct, Enter
<1>3. Loaded'
  BY <1>1, <1>2 DEF Loaded, Signable, i128_max, Bits
<1> QED
  BY <1>1, <1>2, <1>3, Stays DEF IInv

\* One machine division is only made where the quotient fits.
LEMMA NativeInv ==
  ASSUME IInv, DivideNative
  PROVE  IInv'
<1>1. /\ stage = "native" /\ stage # "idle" /\ Signable(numerator) /\ divisor \in Int
      /\ divisor # 0 /\ Chosen
  BY DEF DivideNative, IInv, Loaded
<1>2. /\ numerator' = numerator /\ divisor' = divisor /\ UNCHANGED <<chosen, request>>
      /\ stage' = IF fits64(divisor) /\ QuotientFits(numerator, divisor) THEN "idiv" ELSE "machine"
  BY DEF DivideNative, Enter
<1>3. Loaded'
  <2>1. CASE fits64(divisor) /\ QuotientFits(numerator, divisor)
    <3>1. InWord(quot)
      BY <2>1, <1>1, TestedFits DEF quot
    <3> QED
      BY <2>1, <1>1, <1>2, <3>1 DEF Loaded, quot, fits64, InWord, INT_MIN, INT_MAX
  <2>2. CASE ~(fits64(divisor) /\ QuotientFits(numerator, divisor))
    BY <2>2, <1>1, <1>2 DEF Loaded, Signable, i128_max, Bits
  <2> QED
    BY <2>1, <2>2
<1> QED
  BY <1>1, <1>2, <1>3, Stays DEF IInv

\* The other operations answer at once, and a division its call.
Answering ==
  \/ Add \/ Sub \/ Negate \/ Abs \/ RemainderOp
  \/ Quantize \/ QuantizeSame \/ InvalidPrecision \/ RejectZeroDivisor
  \/ InlineMultiply \/ InlineMulDivide \/ InlineSlab
  \/ DivideScale \/ DivideWord \/ DivideMachine
  \/ FinishWide \/ FinishPortable \/ FinishQuad

\* They change nothing else.
LEMMA AnsweringReplies ==
  ASSUME Answering \/ ConstexprWork
  PROVE  stage # "idle" /\ stage' = "answered" /\ UNCHANGED <<chosen, request>>
<1>1. CASE Add \/ Sub \/ Negate \/ Abs \/ RemainderOp
  BY <1>1 DEF Add, Sub, Negate, Abs, RemainderOp, Reply
<1>2. CASE Quantize \/ QuantizeSame \/ InvalidPrecision \/ RejectZeroDivisor
  BY <1>2 DEF Quantize, QuantizeSame, InvalidPrecision, RejectZeroDivisor, Reply
<1>3. CASE InlineMultiply \/ InlineMulDivide \/ InlineSlab
  BY <1>3 DEF InlineMultiply, InlineMulDivide, InlineSlab, Reply
<1>4. CASE DivideScale \/ DivideWord \/ DivideMachine
  BY <1>4 DEF DivideScale, DivideWord, DivideMachine, Reply
<1>5. CASE FinishWide \/ FinishPortable \/ FinishQuad
  BY <1>5 DEF FinishWide, FinishPortable, FinishQuad, Reply
<1>6. CASE ConstexprWork
  BY <1>6 DEF ConstexprWork, ConstexprMul, ConstexprDiv, ConstexprMulDiv, ConstexprQuantize,
              ConstexprRemainder, Evaluates, Reply
<1> QED
  BY <1>1, <1>2, <1>3, <1>4, <1>5, <1>6 DEF Answering

\* After a call nothing is divided.
LEMMA ReturnInv ==
  ASSUME IInv, Return
  PROVE  IInv'
<1>1. stage' = "idle" /\ UNCHANGED chosen
  BY DEF Return
<1> QED
  BY <1>1 DEF IInv, Chosen, Representable, Loaded, chosen

\* Nor by a step of something else.
LEMMA StutterInv ==
  ASSUME IInv, UNCHANGED vars
  PROVE  IInv'
BY DEF IInv, Chosen, Representable, Loaded, vars, chosen, kernel, quot, Signable, fits64,
       InWord, INT_MIN, INT_MAX, i128_min, i128_max, Bits

\* Every step keeps it.
LEMMA StepInv ==
  ASSUME IInv, [ArithmeticNext]_vars
  PROVE  IInv'
<1>1. CASE Answering \/ ConstexprWork
  BY <1>1, AnsweringReplies, ReplyInv
<1>2. CASE Mul \/ Div \/ MulDiv \/ DivideProduct \/ DivideNative
  BY <1>2, MulInv, DivInv, MulDivInv, ProductInv, NativeInv
<1> QED
  BY <1>1, <1>2, CallInv, ReturnInv, StutterInv DEF ArithmeticNext, Next, Work, Answering

\* What a stage divides keeps its bounds, for words and types of every size.
THEOREM DoubleInvariant == ArithmeticSpec => []IInv
<1>1. Init => IInv
  BY StartInv
<1>2. IInv /\ [ArithmeticNext]_vars => IInv'
  BY StepInv
<1> QED
  BY <1>1, <1>2, PTL DEF ArithmeticSpec

\* No machine division traps: those of two words by one are given what passed
\* their test, and the compiler's double word is never its minimum over -1.
THEOREM DoubleNeverTraps == ArithmeticSpec => []NoDivideTrap
<1>1. IInv => NoDivideTrap
  BY SignableDivides DEF IInv, Loaded, NoDivideTrap, quot
<1> QED
  BY <1>1, DoubleInvariant, PTL

-----------------------------------------------------------------------------
(* Wrapping                                                                *)

\* Values and errors, under either of their names.
LEMMA Answers ==
  ASSUME NEW v, NEW e
  PROVE  /\ R!Value(v) = E!Result(v) /\ R!Failure(e) = E!Error(e)
         /\ E!Result(v).error = "none" /\ E!Result(v).value = v /\ E!Error(e).error = e
BY DEF R!Value, E!Result, R!Failure, E!Error

\* The values of the type.
LEMMA Span ==
  ASSUME Chosen
  PROVE  LET g == 2 ^ (Bits - 1)
         IN /\ g \in Nat /\ g > 1 /\ MM = g + g /\ 2 ^ Bits = MM
            /\ i128_max = g - 1 /\ i128_min = -g /\ E!Raws = (-g) .. (g - 1)
            /\ \A v \in Int : InRange(v) <=> v \in E!Raws
            /\ \A s \in BOOLEAN : Limit(s) = (IF s THEN g ELSE g - 1) /\ Limit(s) \in 0 .. g
<1> DEFINE g == 2 ^ (Bits - 1)
<1>1. i128_max = g - 1 /\ i128_min = -g /\ E!Raws = (-g) .. (g - 1) /\ 2 ^ Bits = MM
  BY DEF i128_max, i128_min, E!Raws, MM
<1>2. g \in Nat
  <2>1. \A k \in 0 .. Bits : 2 ^ k \in Nat /\ 2 ^ k > 0
    <3>1. Bits \in Nat /\ PowerLaws(2, Bits)
      BY WordAssumption, PowersAssumption DEF Bits, PowerLaws
    <3> QED
      BY <3>1, PowersPositive
  <2>2. Bits - 1 \in 0 .. Bits
    BY WordAssumption DEF Bits
  <2> QED
    BY <2>1, <2>2
<1> HIDE DEF g
<1>3. g > 1 /\ MM = g + g
  <2>1. i128_max \in Nat /\ MM = 2 * i128_max + 2 /\ M \in Nat /\ M > 3 /\ MM = M * M
    BY Ranges
  <2>2. M <= M * M
    BY <2>1, PositiveProduct
  <2> HIDE DEF M, MM
  <2> QED
    BY <1>1, <1>2, <2>1, <2>2
<1>4. \A s \in BOOLEAN : Limit(s) = (IF s THEN g ELSE g - 1) /\ Limit(s) \in 0 .. g
  BY <1>1, <1>2, <1>3 DEF Limit, R!Indicator
<1> QED
  BY <1>1, <1>2, <1>3, <1>4 DEF g, InRange

\* Two's complement of a number one bit longer than the type.
LEMMA WrapOnce ==
  ASSUME Chosen, NEW v \in -MM .. MM - 1
  PROVE  LET g == 2 ^ (Bits - 1)
         IN Wrap(v, Bits) = IF v < -g THEN v + MM ELSE IF v >= g THEN v - MM ELSE v
<1> DEFINE g == 2 ^ (Bits - 1)
           u == v % MM
<1>1. g \in Nat /\ g > 1 /\ MM = g + g /\ 2 ^ Bits = MM
  BY Span
<1>2. Wrap(v, Bits) = IF u >= g THEN u - MM ELSE u
  BY <1>1 DEF Wrap
<1> HIDE DEF g
<1>3. v \in Int /\ -MM <= v /\ v <= MM - 1 /\ MM \in Nat
  BY <1>1
<1>4. u = IF v < 0 THEN v + MM ELSE v
  <2>1. CASE v < 0
    <3>1. v = (-1) * MM + (v + MM)
      BY <1>3
    <3>2. v + MM \in Int /\ 0 <= v + MM /\ v + MM < MM /\ -1 \in Int /\ MM > 0
      BY <2>1, <1>1, <1>3
    <3>3. v % MM = v + MM
      BY <3>1, <3>2, <1>3, DivUnique
    <3> QED
      BY <3>3, <2>1
  <2>2. CASE ~(v < 0)
    <3>1. v \in Nat
      BY <2>2, <1>3
    <3> QED
      BY <3>1, <2>2, <1>3, RemainderOfSmall
  <2> QED
    BY <2>1, <2>2
<1> HIDE DEF u
<1> QED
  BY <1>1, <1>2, <1>3, <1>4 DEF g

\* What fits the type, or the word, stays as it is.
LEMMA WrapKeeps ==
  ASSUME Chosen
  PROVE  /\ \A v \in E!Raws : Wrap(v, Bits) = v
         /\ \A v \in Int : InWord(v) => Wrap(v, Word) = v
<1> DEFINE g == 2 ^ (Bits - 1)
           h == 2 ^ (Word - 1)
<1>1. g \in Nat /\ g > 1 /\ MM = g + g /\ E!Raws = (-g) .. (g - 1)
  BY Span
<1>2. h \in Nat /\ h > 1 /\ 2 ^ Word = h + h /\ INT_MIN = -h /\ INT_MAX = h - 1
  BY Sizes DEF M
<1>3. \A v \in E!Raws : Wrap(v, Bits) = v
  <2> SUFFICES ASSUME NEW v \in E!Raws PROVE Wrap(v, Bits) = v
    OBVIOUS
  <2>1. Wrap(v, Bits) = IF v < -g THEN v + MM ELSE IF v >= g THEN v - MM ELSE v
    <3>1. v \in -MM .. MM - 1
      <4> HIDE DEF g
      <4> QED
        BY <1>1
    <3> QED
      BY <3>1, WrapOnce
  <2> HIDE DEF g
  <2> QED
    BY <2>1, <1>1
<1>4. \A v \in Int : InWord(v) => Wrap(v, Word) = v
  <2> SUFFICES ASSUME NEW v \in Int, InWord(v) PROVE Wrap(v, Word) = v
    OBVIOUS
  <2> DEFINE m == 2 ^ Word
             u == v % m
  <2>1. Wrap(v, Word) = IF u >= h THEN u - m ELSE u
    BY DEF Wrap
  <2>2. m \in Nat /\ m = h + h /\ -h <= v /\ v < h /\ h \in Nat /\ h > 1
    <3> HIDE DEF h, m
    <3> QED
      BY <1>2 DEF InWord, m
  <2> HIDE DEF h, m
  <2>3. u = IF v < 0 THEN v + m ELSE v
    <3>1. CASE v < 0
      <4>1. v = (-1) * m + (v + m)
        BY <2>2
      <4>2. v + m \in Int /\ 0 <= v + m /\ v + m < m /\ -1 \in Int /\ m > 0
        BY <3>1, <2>2
      <4>3. v % m = v + m
        BY <4>1, <4>2, <2>2, DivUnique
      <4> QED
        BY <4>3, <3>1
    <3>2. CASE ~(v < 0)
      <4>1. v \in Nat /\ v < m
        BY <3>2, <2>2
      <4> QED
        BY <4>1, <3>2, <2>2, RemainderOfSmall
    <3> QED
      BY <3>1, <3>2
  <2> HIDE DEF u
  <2> QED
    BY <2>1, <2>2, <2>3
<1> QED
  BY <1>3, <1>4

-----------------------------------------------------------------------------
(* Sums                                                                    *)

\* An exact whole result, or the overflow.
LEMMA WholeExact ==
  ASSUME Chosen, NEW v \in Int
  PROVE  /\ E!OnGrid(v, 1, 1, "exact")
              = IF v \in E!Raws THEN R!Value(v) ELSE R!Failure("overflow")
         /\ Ranged(v) = E!OnGrid(v, 1, 1, "exact")
<1>1. v \div 1 = v /\ (-v) \div 1 = -v /\ -(-v) = v /\ 1 > 0
  <2>1. \A w \in Int : w \div 1 = w
    <3> SUFFICES ASSUME NEW w \in Int PROVE w \div 1 = w
      OBVIOUS
    <3>1. w = w * 1 + 0 /\ 0 <= 0 /\ 0 < 1 /\ 0 \in Int /\ 1 \in Int /\ 1 > 0
      OBVIOUS
    <3> QED
      BY <3>1, DivUnique
  <2>2. -v \in Int /\ -(-v) = v /\ 1 > 0
    OBVIOUS
  <2> QED
    BY <2>1, <2>2
<1>2. E!Truncate(v, 1) = v
  BY <1>1 DEF E!Truncate, E!Ceiling, E!Floor
<1>3. E!Rounded(v, 1, "exact") = v
  BY <1>2 DEF E!Rounded
<1>4. 1 * 1 = 1 /\ 1 * v = v /\ 1 * 1 * v = v /\ 1 # 0
  OBVIOUS
<1>5. E!OnGrid(v, 1, 1, "exact") = IF v \in E!Raws THEN E!Result(v) ELSE E!Error("overflow")
  BY <1>2, <1>3, <1>4 DEF E!OnGrid
<1>6. InRange(v) <=> v \in E!Raws
  BY Span
<1> QED
  BY <1>5, <1>6, Answers DEF Ranged

\* The compiler's flag and the signs of a wrapped result find the same overflow.
LEMMA SumRight ==
  ASSUME Chosen, NEW a \in E!Raws, NEW b \in E!Raws
  PROVE  /\ Added(a, b) = E!OnGrid(a + b, 1, 1, "exact")
         /\ Subtracted(a, b) = E!OnGrid(a - b, 1, 1, "exact")
<1> DEFINE g == 2 ^ (Bits - 1)
<1>1. g \in Nat /\ g > 1 /\ MM = g + g /\ E!Raws = (-g) .. (g - 1)
  BY Span
<1>2. \A v \in -MM .. MM - 1 :
        Wrap(v, Bits) = IF v < -g THEN v + MM ELSE IF v >= g THEN v - MM ELSE v
  BY WrapOnce
<1> HIDE DEF g
<1>3. a \in Int /\ b \in Int /\ -g <= a /\ a < g /\ -g <= b /\ b < g
  BY <1>1
<1>4. a + b \in Int /\ a - b \in Int /\ a + b \in -MM .. MM - 1 /\ a - b \in -MM .. MM - 1
  BY <1>1, <1>3
<1>5. Added(a, b) = E!OnGrid(a + b, 1, 1, "exact")
  <2> DEFINE s == a + b
             w == Wrap(s, Bits)
  <2>1. CASE ~LimbSums
    BY <2>1, <1>4, WholeExact DEF Added
  <2>2. CASE LimbSums
    <3>1. w = IF s < -g THEN s + MM ELSE IF s >= g THEN s - MM ELSE s
      BY <1>2, <1>4
    <3>2. Added(a, b) = IF OverflowBySigns(a, b, w) THEN R!Failure("overflow") ELSE R!Value(w)
      BY <2>2 DEF Added
    <3>3. E!OnGrid(s, 1, 1, "exact") = IF s \in E!Raws THEN R!Value(s) ELSE R!Failure("overflow")
      BY <1>4, WholeExact
    <3> HIDE DEF w
    <3>4. OverflowBySigns(a, b, w) <=> ~(s \in E!Raws)
      BY <3>1, <1>1, <1>3 DEF OverflowBySigns
    <3>5. s \in E!Raws => w = s
      BY <3>1, <1>1, <1>3
    <3> QED
      BY <3>2, <3>3, <3>4, <3>5
  <2> QED
    BY <2>1, <2>2
<1>6. Subtracted(a, b) = E!OnGrid(a - b, 1, 1, "exact")
  <2> DEFINE s == a - b
             w == Wrap(s, Bits)
  <2>1. CASE ~LimbSums
    BY <2>1, <1>4, WholeExact DEF Subtracted
  <2>2. CASE LimbSums
    <3>1. w = IF s < -g THEN s + MM ELSE IF s >= g THEN s - MM ELSE s
      BY <1>2, <1>4
    <3>2. Subtracted(a, b) = IF ((a < 0) # (b < 0)) /\ ((a < 0) # (w < 0))
                               THEN R!Failure("overflow") ELSE R!Value(w)
      BY <2>2 DEF Subtracted
    <3>3. E!OnGrid(s, 1, 1, "exact") = IF s \in E!Raws THEN R!Value(s) ELSE R!Failure("overflow")
      BY <1>4, WholeExact
    <3> HIDE DEF w
    <3>4. (((a < 0) # (b < 0)) /\ ((a < 0) # (w < 0))) <=> ~(s \in E!Raws)
      BY <3>1, <1>1, <1>3
    <3>5. s \in E!Raws => w = s
      BY <3>1, <1>1, <1>3
    <3> QED
      BY <3>2, <3>3, <3>4, <3>5
  <2> QED
    BY <2>1, <2>2
<1> QED
  BY <1>5, <1>6

\* Only the smallest value has no negative, and no magnitude.
LEMMA SignRight ==
  ASSUME Chosen, NEW a \in E!Raws
  PROVE  /\ Negated(a) = E!OnGrid(-a, 1, 1, "exact")
         /\ (IF a < 0 THEN Negated(a) ELSE R!Value(a))
              = E!OnGrid(E!Distance(a, 0, 1), 1, 1, "exact")
<1> DEFINE g == 2 ^ (Bits - 1)
<1>1. g \in Nat /\ g > 1 /\ i128_min = -g /\ E!Raws = (-g) .. (g - 1)
  BY Span
<1> HIDE DEF g
<1>2. a \in Int /\ -a \in Int /\ 0 \in E!Raws /\ 0 - a = -a
  BY <1>1
<1>3. Negated(a) = E!OnGrid(-a, 1, 1, "exact")
  <2>1. CASE a = i128_min
    <3>1. -a \notin E!Raws
      BY <2>1, <1>1
    <3> QED
      BY <3>1, <2>1, <1>2, WholeExact DEF Negated
  <2>2. CASE a # i128_min
    <3>1. Subtracted(0, a) = E!OnGrid(0 - a, 1, 1, "exact")
      BY <1>2, SumRight
    <3> QED
      BY <3>1, <2>2, <1>2 DEF Negated
  <2> QED
    BY <2>1, <2>2
<1>4. R!Value(a) = E!OnGrid(a, 1, 1, "exact")
  BY <1>2, WholeExact
<1>5. E!Distance(a, 0, 1) = IF a < 0 THEN -a ELSE a
  BY <1>2 DEF E!Distance
<1> QED
  BY <1>3, <1>4, <1>5

-----------------------------------------------------------------------------
(* Products and quotients of magnitudes                                    *)

\* The columns of a product of two by two words, the middle one's carry with them.
LEMMA Columns ==
  ASSUME NEW h \in Int, NEW u1 \in Int, NEW u0 \in Int, NEW v1 \in Int, NEW v0 \in Int,
         NEW a \in Int, NEW b \in Int, NEW c1 \in Int, NEW c0 \in Int,
         NEW e1 \in Int, NEW e0 \in Int, NEW m1 \in Int, NEW m0 \in Int,
         u0 * v0 = a * h + b, u0 * v1 = c1 * h + c0, u1 * v0 = e1 * h + e0,
         a + c0 + e0 = m1 * h + m0
  PROVE  (u1 * v1 + c1 + e1 + m1) * (h * h) + (m0 * h + b) = (u1 * h + u0) * (v1 * h + v0)
<1> DEFINE p == u1 * v1
           q == u1 * v0
           r == u0 * v1
           s == u0 * v0
           hh == h * h
<1>1. (u1 * h + u0) * (v1 * h + v0) = p * hh + q * h + r * h + s
  OBVIOUS
<1>2. p \in Int /\ q \in Int /\ r \in Int /\ s \in Int /\ hh \in Int
  OBVIOUS
<1>3. s = a * h + b /\ r = c1 * h + c0 /\ q = e1 * h + e0 /\ a + c0 + e0 = m1 * h + m0
  OBVIOUS
<1> HIDE DEF p, q, r, s
<1>4. r * h = c1 * hh + c0 * h /\ q * h = e1 * hh + e0 * h
  <2>1. r * h = (c1 * h + c0) * h /\ q * h = (e1 * h + e0) * h
    BY <1>3
  <2>2. (c1 * h + c0) * h = c1 * hh + c0 * h /\ (e1 * h + e0) * h = e1 * hh + e0 * h
    OBVIOUS
  <2> QED
    BY <2>1, <2>2
<1>5. a * h + c0 * h + e0 * h = m1 * hh + m0 * h
  <2>1. (a + c0 + e0) * h = (m1 * h + m0) * h
    BY <1>3
  <2>2. (a + c0 + e0) * h = a * h + c0 * h + e0 * h /\ (m1 * h + m0) * h = m1 * hh + m0 * h
    OBVIOUS
  <2> QED
    BY <2>1, <2>2
<1> HIDE DEF hh
<1>6. (p + c1 + e1 + m1) * hh = p * hh + c1 * hh + e1 * hh + m1 * hh
  BY <1>2
<1> DEFINE ph == p * hh  qh == q * h  rh == r * h  ah == a * h  ch == c1 * hh  cl == c0 * h
           eh == e1 * hh  el == e0 * h  mh == m1 * hh  ml == m0 * h
<1>7. /\ ph \in Int /\ qh \in Int /\ rh \in Int /\ ah \in Int /\ ch \in Int /\ cl \in Int
      /\ eh \in Int /\ el \in Int /\ mh \in Int /\ ml \in Int
  BY <1>2
<1>8. /\ s = ah + b /\ rh = ch + cl /\ qh = eh + el /\ ah + cl + el = mh + ml
      /\ (p + c1 + e1 + m1) * hh = ph + ch + eh + mh
      /\ (u1 * h + u0) * (v1 * h + v0) = ph + qh + rh + s
  BY <1>1, <1>3, <1>4, <1>5, <1>6
<1> HIDE DEF ph, qh, rh, ah, ch, cl, eh, el, mh
<1>9. (p + c1 + e1 + m1) * hh + (ml + b) = (u1 * h + u0) * (v1 * h + v0)
  <2> HIDE DEF ml
  <2>1. (ph + ch + eh + mh) + (ml + b) = ph + qh + rh + s
    BY <1>2, <1>7, <1>8
  <2> QED
    BY <2>1, <1>8
<1> QED
  BY <1>9 DEF p, hh, ml

\* A natural number by a word, and what is left.
LEMMA WordParts ==
  ASSUME Chosen, NEW n \in Nat
  PROVE  /\ n \div M \in Nat /\ n % M \in Nat /\ n % M < M /\ n = (n \div M) * M + (n % M)
<1>1. M \in Nat /\ M > 3
  BY Ranges
<1> HIDE DEF M
<1>2. n \div M \in Int /\ n % M \in Int /\ 0 <= n % M /\ n % M < M /\ n = (n \div M) * M + (n % M)
  BY <1>1, DivMod
<1>3. 0 <= n \div M
  <2>1. 0 * M <= n
    BY <1>1
  <2> QED
    BY <2>1, <1>1, FloorAtLeast
<1> QED
  BY <1>2, <1>3

\* multiply128 forms the whole product of two double words.
LEMMA ProductRight ==
  ASSUME Chosen, NEW u \in 0 .. MM - 1, NEW v \in 0 .. MM - 1
  PROVE  LET p == Multiply128(u, v)
         IN /\ p.hi \in Nat /\ p.lo \in 0 .. MM - 1 /\ p.hi * MM + p.lo = u * v
            /\ FullProduct(u, v) = u * v
<1> DEFINE u1 == u \div M   u0 == u % M   v1 == v \div M   v0 == v % M
           p00 == u0 * v0   p01 == u0 * v1   p10 == u1 * v0   p11 == u1 * v1
           middle == (p00 \div M) + (p01 % M) + (p10 % M)
           top == p11 + (p01 \div M) + (p10 \div M) + (middle \div M)
           b == p00 % M
           m0 == middle % M
           p == Multiply128(u, v)
<1>1. p = [lo |-> ((middle * M) % MM) + b, hi |-> top % MM]
  BY DEF Multiply128
<1>2. M \in Nat /\ M > 3 /\ MM = M * M /\ MM \in Nat /\ MM > 0
  BY Ranges
<1>3. u \in Nat /\ v \in Nat /\ u < MM /\ v < MM
  BY <1>2
<1> HIDE DEF M, MM
<1>4. u1 \in Nat /\ u0 \in Nat /\ u = u1 * M + u0 /\ v1 \in Nat /\ v0 \in Nat /\ v = v1 * M + v0
  BY <1>3, WordParts
<1> HIDE DEF u1, u0, v1, v0
<1>5. p00 \in Nat /\ p01 \in Nat /\ p10 \in Nat /\ p11 \in Nat
  <2>1. \A x, y \in Nat : x * y \in Nat
    OBVIOUS
  <2> QED
    BY <2>1, <1>4
<1> HIDE DEF p00, p01, p10, p11
<1>6. /\ p00 \div M \in Nat /\ b \in Nat /\ b < M /\ p00 = (p00 \div M) * M + b
      /\ p01 \div M \in Nat /\ p01 % M \in Nat /\ p01 = (p01 \div M) * M + (p01 % M)
      /\ p10 \div M \in Nat /\ p10 % M \in Nat /\ p10 = (p10 \div M) * M + (p10 % M)
  BY <1>5, WordParts
<1>7. middle \in Nat
  BY <1>6
<1> HIDE DEF middle
<1>8. middle \div M \in Nat /\ m0 \in Nat /\ m0 < M /\ middle = (middle \div M) * M + m0
  BY <1>7, WordParts
<1>9. top \in Nat
  BY <1>5, <1>6, <1>8
<1>10. top * MM + (m0 * M + b) = u * v
  <2>1. /\ u0 * v0 = (p00 \div M) * M + b /\ u0 * v1 = (p01 \div M) * M + (p01 % M)
        /\ u1 * v0 = (p10 \div M) * M + (p10 % M)
        /\ (p00 \div M) + (p01 % M) + (p10 % M) = (middle \div M) * M + m0
        /\ top = u1 * v1 + (p01 \div M) + (p10 \div M) + (middle \div M)
    BY <1>6, <1>8 DEF p00, p01, p10, p11, middle
  <2> DEFINE c1 == p01 \div M  c0 == p01 % M  e1 == p10 \div M  e0 == p10 % M
             a == p00 \div M  m1 == middle \div M
  <2>2. a \in Int /\ c1 \in Int /\ c0 \in Int /\ e1 \in Int /\ e0 \in Int /\ m1 \in Int
        /\ b \in Int /\ m0 \in Int /\ M \in Int
        /\ u1 \in Int /\ u0 \in Int /\ v1 \in Int /\ v0 \in Int
    BY <1>2, <1>4, <1>6, <1>8
  <2>3. /\ u0 * v0 = a * M + b /\ u0 * v1 = c1 * M + c0 /\ u1 * v0 = e1 * M + e0
        /\ a + c0 + e0 = m1 * M + m0 /\ top = u1 * v1 + c1 + e1 + m1
    BY <2>1
  <2> HIDE DEF a, b, c1, c0, e1, e0, m1, m0, top
  <2>4. (u1 * v1 + c1 + e1 + m1) * (M * M) + (m0 * M + b) = (u1 * M + u0) * (v1 * M + v0)
    BY <2>2, <2>3, Columns
  <2> QED
    BY <2>3, <2>4, <1>2, <1>4
<1>11. (middle * M) % MM = m0 * M
  <2> DEFINE m1 == middle \div M
  <2>1. middle * M = m1 * MM + m0 * M
    <3>1. m1 \in Int /\ m0 \in Int /\ middle = m1 * M + m0
      BY <1>8
    <3> HIDE DEF m1, m0
    <3>2. (m1 * M + m0) * M = m1 * (M * M) + m0 * M
      BY <3>1, <1>2
    <3> QED
      BY <3>1, <3>2, <1>2
  <2>2. m1 \in Int /\ m0 * M \in Int /\ middle * M \in Int /\ 0 <= m0 * M
    BY <1>2, <1>7, <1>8
  <2>3. m0 * M < MM
    <3>1. m0 * M + M <= M * M
      <4> HIDE DEF m0
      <4> QED
        BY <1>2, <1>8, MultipleOrder
    <3> QED
      BY <3>1, <2>2, <1>2
  <2> DEFINE x == middle * M
             y == m0 * M
  <2>4. x = m1 * MM + y /\ m1 \in Int /\ x \in Int /\ y \in Int /\ 0 <= y /\ y < MM
    BY <2>1, <2>2, <2>3
  <2> HIDE DEF m1, x, y
  <2>5. x % MM = y
    BY <2>4, <1>2, DivUnique
  <2> QED
    BY <2>5 DEF x, y
<1>12. m0 * M + b \in Nat /\ m0 * M + b < MM
  <2>1. m0 * M + M <= M * M
    <3> HIDE DEF m0
    <3> QED
      BY <1>2, <1>8, MultipleOrder
  <2>2. m0 * M \in Nat
    BY <1>2, <1>8
  <2> HIDE DEF m0, b
  <2> QED
    BY <2>1, <2>2, <1>2, <1>6
<1> DEFINE low == m0 * M + b
<1>13. top < MM
  <2>1. u * v <= MM * v /\ u * v \in Int
    BY <1>2, <1>3, ProductBelow
  <2>2. v * MM + MM <= MM * MM
    BY <1>2, <1>3, MultipleOrder
  <2>3. v * MM = MM * v /\ MM * v \in Int /\ MM * MM \in Int /\ top * MM \in Int
    BY <1>2, <1>3, <1>9
  <2>4. top * MM + low = u * v /\ low \in Nat
    BY <1>10, <1>12
  <2> HIDE DEF top, low
  <2>5. top * MM < MM * MM
    BY <2>1, <2>2, <2>3, <2>4, <1>2
  <2> QED
    BY <2>5, <1>2, <1>9, CancelFactor
<1>14. top % MM = top
  <2> HIDE DEF top
  <2> QED
    BY <1>2, <1>9, <1>13, RemainderOfSmall
<1>15. p.hi = top /\ p.lo = low
  BY <1>1, <1>11, <1>14
<1>16. p.hi \in Nat /\ p.lo \in 0 .. MM - 1 /\ p.hi * MM + p.lo = u * v
  <2> HIDE DEF top, low, p
  <2>1. low \in Nat /\ low < MM /\ top * MM + low = u * v
    BY <1>10, <1>12 DEF low
  <2> QED
    BY <2>1, <1>2, <1>9, <1>15
<1> QED
  BY <1>16 DEF FullProduct

\* The high word first, its remainder leading the low one.
LEMMA ByWordRight ==
  ASSUME Chosen, NEW n \in Nat, NEW d \in Nat, d > 0
  PROVE  DivideByWord(n, d) = [q |-> n \div d, r |-> n % d]
<1> DEFINE hi == n \div M
           lo == n % M
           rest == (hi % d) * M + lo
           q == (hi \div d) * M + (rest \div d)
<1>1. M \in Nat /\ M > 3
  BY Ranges
<1> HIDE DEF M
<1>2. hi \in Nat /\ lo \in Nat /\ n = hi * M + lo
  BY WordParts
<1> HIDE DEF hi, lo
<1>3. hi \div d \in Int /\ hi % d \in Int /\ 0 <= hi % d /\ hi = (hi \div d) * d + (hi % d)
  BY <1>2, DivMod
<1>4. /\ rest \in Int /\ rest \div d \in Int /\ rest % d \in Int
      /\ rest = (rest \div d) * d + (rest % d)
      /\ 0 <= rest % d /\ rest % d < d
  <2>1. rest \in Int
    BY <1>1, <1>2, <1>3
  <2> HIDE DEF rest
  <2> QED
    BY <2>1, DivMod
<1> DEFINE x == hi \div d   y == hi % d   z == rest \div d   r == rest % d
<1>5. n = q * d + r
  <2>1. /\ x \in Int /\ y \in Int /\ z \in Int /\ r \in Int /\ hi = x * d + y
        /\ y * M + lo = z * d + r /\ q = x * M + z
    BY <1>3, <1>4
  <2> HIDE DEF x, y, z, r, q
  <2>2. hi * M = x * M * d + y * M
    <3>1. (x * d + y) * M = x * M * d + y * M
      BY <2>1, <1>1
    <3> QED
      BY <3>1, <2>1
  <2>3. (x * M + z) * d = x * M * d + z * d
    BY <2>1, <1>1
  <2> DEFINE a == x * M * d  b == y * M  c == z * d
  <2>4. a \in Int /\ b \in Int /\ c \in Int
    BY <2>1, <1>1
  <2>5. n = (a + b) + lo /\ b + lo = c + r /\ q * d = a + c
    BY <1>2, <2>1, <2>2, <2>3
  <2> HIDE DEF a, b, c
  <2>6. q * d + r = n
    BY <1>2, <2>1, <2>4, <2>5
  <2> QED
    BY <2>6
<1>6. q \in Int /\ r \in Int /\ 0 <= r /\ r < d
  BY <1>1, <1>3, <1>4
<1>7. DivideByWord(n, d) = [q |-> q, r |-> r]
  BY DEF DivideByWord, hi, lo
<1> HIDE DEF q, r
<1>8. n \div d = q /\ n % d = r
  BY <1>5, <1>6, DivUnique
<1> QED
  BY <1>7, <1>8

\* divide128 is right but for the estimate that the portable one does not lower;
\* a truncating caller takes no remainder.
LEMMA Divide128Right ==
  ASSUME Chosen, NEW n \in 0 .. MM - 1, NEW d \in 1 .. MM - 1, NEW need \in BOOLEAN
  PROVE  LET s == Divide128(n, d, need)
         IN /\ d < M => ~Misdivided(n, d)
            /\ path # "portable" => ~Misdivided(n, d)
            /\ ~Misdivided(n, d) => /\ s.q = n \div d /\ s.r \in {0, n % d}
                                    /\ (need \/ d < M) => s.r = n % d
<1> DEFINE pair == DivideByPair(n, d)
<1>1. MM \in Nat /\ n \in Nat /\ d \in Nat /\ d > 0 /\ n < MM /\ d < MM /\ M \in Nat
  BY Ranges
<1> HIDE DEF MM, M
<1>2. d < M => ~Misdivided(n, d)
  BY <1>1 DEF Misdivided
<1>3. path # "portable" => ~Misdivided(n, d)
  BY DEF Misdivided, DivideByPair
<1>4. CASE d < M
  <2>1. Divide128(n, d, need) = [q |-> n \div d, r |-> n % d]
    BY <1>4, <1>1, ByWordRight DEF Divide128
  <2> QED
    BY <2>1, <1>2, <1>3
<1>5. CASE ~(d < M) /\ n < d
  <2>1. Divide128(n, d, need) = [q |-> 0, r |-> n]
    BY <1>5 DEF Divide128
  <2>2. n \div d = 0 /\ n % d = n
    <3>1. n = 0 * d + n
      BY <1>1
    <3> QED
      BY <3>1, <1>1, <1>5, DivUnique
  <2> QED
    BY <2>1, <2>2, <1>2, <1>3
<1>6. CASE ~(d < M) /\ ~(n < d)
  <2>1. /\ Divide128(n, d, need).q = pair.q
        /\ Divide128(n, d, need).r = IF need THEN pair.r ELSE 0
    <3>1. /\ pair = [q |-> pair.q, r |-> pair.r]
      BY DEF DivideByPair
    <3>2. Divide128(n, d, need) = [pair EXCEPT !.r = IF need THEN @ ELSE 0]
      BY <1>6 DEF Divide128
    <3> HIDE DEF pair
    <3> QED
      BY <3>1, <3>2
  <2>2. ASSUME ~Misdivided(n, d)
        PROVE  pair.q = n \div d /\ pair.r = n % d
    <3>1. pair.q = n \div d
      BY <2>2, <1>1, <1>6 DEF Misdivided
    <3>2. pair.r = (n - d * pair.q) % MM
      BY DEF DivideByPair
    <3>3. /\ n \div d \in Int /\ n % d \in Int /\ n = (n \div d) * d + (n % d)
          /\ 0 <= n % d /\ n % d < d
      BY <1>1, DivMod
    <3> DEFINE q == n \div d   r == n % d
    <3>4. n - d * q = r
      <4>1. q \in Int /\ r \in Int /\ n = q * d + r
        BY <3>3
      <4> HIDE DEF q, r
      <4> QED
        BY <4>1, <1>1
    <3>5. r % MM = r
      <4>1. r \in Nat /\ r < MM
        BY <3>3, <1>1
      <4> HIDE DEF r
      <4> QED
        BY <4>1, <1>1, RemainderOfSmall
    <3> QED
      BY <3>1, <3>2, <3>4, <3>5
  <2> QED
    BY <2>1, <2>2, <1>2, <1>3, <1>6
<1> QED
  BY <1>4, <1>5, <1>6

\* Only the portable path is wrong, and only in a division by two limbs.
LEMMA MisdividesPortably ==
  ASSUME Chosen, NEW n \in Nat, NEW d \in 0 .. MM - 1, Misdivided(n, d)
  PROVE  path = "portable" /\ ~(d < M)
<1>1. M \in Nat /\ M > 3 /\ MM \in Nat
  BY Ranges, Span
<1>2. d >= M /\ n < MM
  BY DEF Misdivided
<1>3. n \in 0 .. MM - 1 /\ d \in 1 .. MM - 1 /\ TRUE \in BOOLEAN /\ ~(d < M)
  BY <1>1, <1>2
<1> QED
  BY <1>3, Divide128Right

-----------------------------------------------------------------------------
(* Signed divisions                                                        *)

\* Rounding to an integer, and the adjustments of a word, under two names.
LEMMA WordGrid ==
  ASSUME NEW n, NEW d, NEW mode
  PROVE  E!Truncate(n, d) = P!Truncate(n, d) /\ E!Rounded(n, d, mode) = P!Rounded(n, d, mode)
<1>1. \A a, b : E!Floor(a, b) = P!Floor(a, b)
  BY DEF E!Floor, P!Floor
<1>2. \A a, b : E!Ceiling(a, b) = P!Ceiling(a, b)
  BY <1>1 DEF E!Ceiling, P!Ceiling
<1>3. \A a, b : E!Truncate(a, b) = P!Truncate(a, b)
  BY <1>1, <1>2 DEF E!Truncate, P!Truncate
<1>4. \A a, b, c : E!Distance(a, b, c) = P!Distance(a, b, c)
  BY DEF E!Distance, P!Distance
<1>5. \A a, b : E!NearestTo(a, b) = P!NearestTo(a, b)
  BY <1>1, <1>2, <1>4 DEF E!NearestTo, P!NearestTo
<1> DEFINE e == E!NearestTo(n, d)
<1>6. (CHOOSE y \in e : \A z \in e : E!Distance(z, 0, 1) <= E!Distance(y, 0, 1))
        = (CHOOSE y \in e : \A z \in e : P!Distance(z, 0, 1) <= P!Distance(y, 0, 1))
  BY <1>4
<1> HIDE DEF e
<1>7. E!Rounded(n, d, mode) = P!Rounded(n, d, mode)
  BY <1>1, <1>2, <1>3, <1>5, <1>6 DEF E!Rounded, P!Rounded, e
<1> QED
  BY <1>3, <1>7

\* The adjustments of a word's quotient are those the word's proofs speak of.
LEMMA WordAdjustments ==
  ASSUME NEW q, NEW r, NEW d, NEW sign
  PROVE  /\ W!NearestAdjustment(q, r, d, sign) = P!NearestAdjustment(q, r, d, sign)
         /\ W!NearestAdj(q, r, d, sign) = P!NearestAdj(q, r, d, sign)
         /\ W!NearestScaledAdj(q, r, d) = P!NearestScaledAdj(q, r, d)
         /\ W!NearestEvenInc(q, r, d) <=> P!NearestEvenInc(q, r, d)
<1>1. P!M = 2 ^ Word
  BY DEF P!M
<1>2. /\ \A a, b : W!Tie(a, b) = P!Tie(a, b)
      /\ \A a : W!Magnitude(a) = P!Magnitude(a)
      /\ W!Indicator(r > d \div 2 - W!Tie(q, d)) = P!Indicator(r > d \div 2 - W!Tie(q, d))
      /\ W!Indicator(r < -(d \div 2 - W!Tie(q, d))) = P!Indicator(r < -(d \div 2 - W!Tie(q, d)))
  BY DEF W!Tie, P!Tie, W!Magnitude, P!Magnitude, W!Indicator, P!Indicator
<1>3. \A a, b, c : /\ W!NearestEvenIncrement(a, b, c) = P!NearestEvenIncrement(a, b, c)
                   /\ W!NearestEvenInc(a, b, c) = P!NearestEvenInc(a, b, c)
  BY <1>1, <1>2
     DEF W!NearestEvenIncrement, P!NearestEvenIncrement, W!NearestEvenInc, P!NearestEvenInc
<1>4. W!NearestAdjustment(q, r, d, sign) = P!NearestAdjustment(q, r, d, sign)
  BY <1>1, <1>2, <1>3 DEF W!NearestAdjustment, P!NearestAdjustment
<1>5. W!NearestAdj(q, r, d, sign) = P!NearestAdj(q, r, d, sign)
  BY <1>2, <1>3 DEF W!NearestAdj, P!NearestAdj
<1>6. W!NearestScaledAdj(q, r, d) = P!NearestScaledAdj(q, r, d)
  BY <1>2 DEF W!NearestScaledAdj, P!NearestScaledAdj
<1> QED
  BY <1>3, <1>4, <1>5, <1>6

\* A word wraps, and half of it is the magnitude of its smallest value.
LEMMA WordWrapsHere ==
  ASSUME Chosen
  PROVE  /\ P!WordWraps /\ P!M = M /\ P!M \div 2 = 2 ^ (Word - 1) /\ M \div 2 = 2 ^ (Word - 1)
         /\ M % 2 = 0 /\ MM % 2 = 0
<1> DEFINE h == 2 ^ (Word - 1)
           g == 2 ^ (Bits - 1)
<1>1. h \in Nat /\ h > 1 /\ M = 2 * h /\ P!M = M
  BY Sizes, SameWord
<1>2. g \in Nat /\ MM = g + g
  BY Span
<1> HIDE DEF h, g
<1>3. M % 2 = 0 /\ M \div 2 = h /\ MM % 2 = 0
  <2>1. M = h * 2 + 0 /\ MM = g * 2 + 0 /\ M \in Int /\ MM \in Int
    BY <1>1, <1>2
  <2> QED
    BY <2>1, <1>1, <1>2, DivUnique
<1>4. P!WordWraps
  BY <1>1, <1>3 DEF P!WordWraps
<1> QED
  BY <1>1, <1>3, <1>4 DEF h

\* The increment of a magnitude of two words, whose half does not wrap.
LEMMA IncrementRight ==
  ASSUME Chosen, NEW q \in Int, NEW d \in 1 .. MM - 1, NEW r \in 0 .. d - 1
  PROVE  R!NearestEvenIncrement(q, r, d) <=> P!MovesUp(q, r, d)
<1> DEFINE h == d \div 2
           t == R!Tie(q, d)
<1>1. MM \in Nat /\ 2 ^ Bits = MM /\ d \in Nat /\ d >= 1 /\ d < MM /\ r \in Int
  <2>1. MM \in Nat
    BY Ranges
  <2> QED
    BY <2>1, Span
<1> HIDE DEF MM
<1>2. h \in Nat /\ d % 2 \in {0, 1} /\ d = 2 * h + (d % 2) /\ q % 2 \in {0, 1}
  BY <1>1
<1>3. t \in {0, 1} /\ (t = 1 <=> (q % 2 = 1 /\ d % 2 = 0))
  BY DEF R!Tie, R!Indicator
<1> HIDE DEF h, t
<1>4. h - t \in 0 .. MM - 1
  BY <1>1, <1>2, <1>3
<1>5. (h - t) % MM = h - t
  BY <1>1, <1>4, RemainderOfSmall
<1>6. r > h - t <=> P!MovesUp(q, r, d)
  BY <1>1, <1>2, <1>3 DEF P!MovesUp
<1> QED
  BY <1>1, <1>5, <1>6 DEF R!NearestEvenIncrement, h, t

\* Whether nearest_even leaves a truncated quotient.
Up(n, d) ==
  /\ rounding = "nearest_even" /\ Remainder(n, d) # 0
  /\ P!MovesUp(Quotient(n, d), Absolute(Remainder(n, d)), Absolute(d))

\* The rounded quotient, in terms of the machine's division.
LEMMA QuotientRounds ==
  ASSUME NEW n \in Int, NEW d \in Int, d # 0, CommonRounding
  PROVE  LET q == Quotient(n, d)
         IN /\ q \in Int /\ Remainder(n, d) \in Int
            /\ E!Truncate(n, d) = q
            /\ E!Rounded(n, d, rounding)
                 = IF Up(n, d) THEN IF (n < 0) # (d < 0) THEN q - 1 ELSE q + 1 ELSE q
            /\ rounding = "toward_zero" \/ Remainder(n, d) = 0 => ~Up(n, d)
<1> DEFINE q == Quotient(n, d)
           r == Remainder(n, d)
           opposite == (n < 0) # (d < 0)
           mode == rounding
<1>1. mode \in {"toward_zero", "nearest_even"}
  BY DEF CommonRounding
<1>2. /\ P!Quotient(n, d) = q /\ P!Remainder(n, d) = r /\ P!Absolute(d) = Absolute(d)
      /\ P!Magnitude(r) = Absolute(r) /\ mode \in P!Modes /\ opposite \in BOOLEAN
      /\ mode # "exact"
  BY <1>1, SameWord DEF P!Magnitude, Absolute, P!Modes
<1>3. /\ q \in Int /\ P!Truncate(n, d) = q
      /\ P!Rounded(n, d, mode)
           = IF P!MovesOut(q, Absolute(r), Absolute(d), opposite, mode)
               THEN IF opposite THEN q - 1 ELSE q + 1 ELSE q
  <2>1. P!Remainder(n, d) # 0 => (opposite <=> (n < 0) # (d < 0))
    OBVIOUS
  <2> HIDE DEF q, r, opposite, mode
  <2> QED
    BY <1>2, <2>1, P!QuotientRounds
<1>4. r \in Int
  BY <1>3 DEF Remainder
<1>5. P!MovesOut(q, Absolute(r), Absolute(d), opposite, mode) <=> Up(n, d)
  <2>1. Absolute(r) # 0 <=> r # 0
    <3> HIDE DEF r
    <3> QED
      BY <1>4 DEF Absolute
  <2>2. P!MovesOut(q, Absolute(r), Absolute(d), opposite, mode)
          <=> mode = "nearest_even" /\ r # 0 /\ P!MovesUp(q, Absolute(r), Absolute(d))
    <3> HIDE DEF q, r, opposite, mode
    <3> QED
      BY <1>1, <2>1 DEF P!MovesOut
  <2> QED
    BY <2>2 DEF Up
<1>6. mode = "toward_zero" \/ r = 0 => ~Up(n, d)
  BY DEF Up
<1> QED
  BY <1>3, <1>4, <1>5, <1>6, WordGrid

\* A numerator that can change its sign is divided without an error.
LEMMA SignedRight ==
  ASSUME Chosen, NEW n, Signable(n), NEW d \in Int, d # 0, CommonRounding
  PROVE  LET x == E!Rounded(n, d, rounding)
         IN Signable(x) /\ x \in E!Raws /\ E!OnGrid(n, d, 1, rounding) = R!Value(x)
<1> DEFINE x == E!Rounded(n, d, rounding)
           q == Quotient(n, d)
           g == i128_max
           b == P!Absolute(d)
           a == P!Absolute(n)
           m == a \div b
           k == a % b
           opposite == (n < 0) # (d < 0)
           mode == rounding
<1>1. g \in Nat /\ i128_min = -g - 1 /\ n \in Int /\ -g <= n /\ n <= g
  BY Ranges DEF Signable
<1>2. E!Raws = i128_min .. i128_max /\ \A v : Signable(v) => v \in E!Raws /\ v \in Int
  <2>1. E!Raws = i128_min .. i128_max
    BY DEF E!Raws, i128_min, i128_max
  <2> QED
    BY <2>1, <1>1 DEF Signable
<1>3. Signable(q)
  BY SignableDivides
<1>4. /\ q \in Int /\ E!Truncate(n, d) = q
      /\ x = IF Up(n, d) THEN IF opposite THEN q - 1 ELSE q + 1 ELSE q
      /\ Remainder(n, d) = 0 => ~Up(n, d)
  BY <1>1, QuotientRounds
<1>5. /\ b \in Int /\ b > 0 /\ m \in Nat /\ k \in 0 .. b - 1
      /\ q = IF opposite THEN -m ELSE m
      /\ Remainder(n, d) = IF n < 0 THEN -k ELSE k
  BY <1>1, P!MachineDivides, SameWord
<1>6. a \in Int /\ 0 <= a /\ a <= g /\ a = m * b + k
  <2>1. a \in Int /\ 0 <= a /\ a <= g
    <3> HIDE DEF g
    <3> QED
      BY <1>1 DEF P!Absolute
  <2> HIDE DEF a, b
  <2> QED
    BY <2>1, <1>5, DivMod
<1> HIDE DEF q, g, b, a, m, k, opposite
<1>7. Signable(x)
  <2>1. CASE ~Up(n, d)
    BY <2>1, <1>3, <1>4
  <2>2. CASE Up(n, d)
    <3>1. k >= 1
      <4>1. Remainder(n, d) # 0
        BY <2>2, <1>4
      <4>2. k # 0
        <5> SUFFICES ASSUME k = 0 PROVE FALSE
          OBVIOUS
        <5>0. \A y, z \in Int : y + z = 0 => -y = z
          OBVIOUS
        <5>1. -0 = 0
          <6>1. 0 \in Int /\ 0 + 0 = 0
            OBVIOUS
          <6> QED
            BY <5>0, <6>1, Zenon
        <5> QED
          BY <4>1, <5>1, <1>5
      <4> QED
        BY <4>2, <1>5
    <3>2. m <= m * b /\ m * b \in Int
      <4>1. CASE m = 0
        <5>1. m * b = 0
          BY <4>1, <1>5
        <5> QED
          BY <5>1, <4>1
      <4>2. CASE m > 0
        BY <4>2, <1>5, PositiveProduct
      <4> QED
        BY <4>1, <4>2, <1>5
    <3>3. m + 1 <= g
      BY <3>1, <3>2, <1>1, <1>5, <1>6
    <3>4. x = (IF opposite THEN -(m + 1) ELSE m + 1)
      BY <2>2, <1>4, <1>5
    <3>5. -g <= x /\ x <= g /\ x \in Int
      <4> HIDE DEF x
      <4> QED
        BY <3>3, <3>4, <1>1, <1>5
    <3> QED
      <4> HIDE DEF x
      <4> QED
        BY <3>5, <1>1 DEF Signable, g
  <2> QED
    BY <2>1, <2>2
<1>8. q \in E!Raws /\ x \in E!Raws /\ x \in Int
  BY <1>2, <1>3, <1>7
<1>9. E!OnGrid(n, d, 1, mode) = R!Value(x)
  <2>1. d * 1 = d /\ 1 * q = q /\ 1 * x = x
    <3> HIDE DEF x
    <3> QED
      BY <1>8, <1>4
  <2>2. mode # "exact"
    BY DEF CommonRounding
  <2>3. E!OnGrid(n, d, 1, mode) = E!Result(x)
    <3>1. E!Truncate(n, d * 1) = q /\ E!Rounded(n, d * 1, mode) = x
      BY <2>1, <1>4
    <3> HIDE DEF x, mode
    <3> QED
      BY <2>1, <2>2, <3>1, <1>8 DEF E!OnGrid
  <2> QED
    BY <2>3, Answers
<1> QED
  BY <1>7, <1>8, <1>9

\* A tie is decided by the parity alone, which no even modulus changes.
LEMMA ParityDecides ==
  ASSUME NEW q \in Int, NEW r, NEW d, NEW m \in Nat, m > 0, m % 2 = 0
  PROVE  P!MovesUp(q % m, r, d) <=> P!MovesUp(q, r, d)
<1> DEFINE j == m \div 2
           c == q \div m
           i == (q % m) \div 2
           p == (q % m) % 2
<1>1. j \in Int /\ m = 2 * j
  BY DivMod
<1>2. c \in Int /\ q % m \in Int /\ q = c * m + (q % m)
  BY DivMod
<1>3. i \in Int /\ p \in Int /\ q % m = i * 2 + p /\ 0 <= p /\ p < 2
  BY <1>2, DivMod
<1> HIDE DEF j, c, i, p
<1>4. q = (c * j + i) * 2 + p
  <2>1. c * m = 2 * (c * j) /\ c * j \in Int
    BY <1>1, <1>2
  <2> QED
    BY <2>1, <1>2, <1>3
<1>5. q % 2 = p
  <2>1. c * j + i \in Int
    BY <1>1, <1>2, <1>3
  <2> QED
    BY <2>1, <1>3, <1>4, DivUnique
<1>6. (q % m) % 2 = q % 2
  BY <1>5 DEF p
<1> QED
  BY <1>6 DEF P!MovesUp

\* So it is whatever the sign of the quotient.
LEMMA SignKeepsParity ==
  ASSUME NEW q \in Int, NEW r, NEW d
  PROVE  P!MovesUp(-q, r, d) <=> P!MovesUp(q, r, d)
<1> DEFINE i == q \div 2
           p == q % 2
<1>1. i \in Int /\ p \in Int /\ q = i * 2 + p /\ 0 <= p /\ p < 2
  BY DivMod
<1> HIDE DEF i, p
<1>2. -q = (-i - p) * 2 + p /\ -i - p \in Int /\ -q \in Int
  BY <1>1
<1>3. (-q) % 2 = p
  BY <1>1, <1>2, DivUnique
<1>4. (-q) % 2 = q % 2
  BY <1>3 DEF p
<1> QED
  BY <1>4 DEF P!MovesUp

\* A signed division is one of magnitudes with the signs put back.
LEMMA DividesMagnitudes ==
  ASSUME NEW n \in Int, NEW d \in Int, d # 0
  PROVE  LET a == Absolute(n)
             b == Absolute(d)
             k == Absolute(Remainder(n, d))
         IN /\ a \in Nat /\ b \in Nat /\ b > 0 /\ k \in 0 .. b - 1 /\ a \div b \in Nat
            /\ a \div b = Absolute(Quotient(n, d)) /\ a % b = k
            /\ Remainder(n, d) = 0 <=> k = 0
            /\ Quotient(n, d) = IF (n < 0) # (d < 0) THEN -(a \div b) ELSE a \div b
            /\ Remainder(n, d) = IF n < 0 THEN -(a % b) ELSE a % b
<1> DEFINE a == Absolute(n)
           b == Absolute(d)
           m == a \div b
           l == a % b
           opposite == (n < 0) # (d < 0)
<1>1. /\ b \in Int /\ b > 0 /\ m \in Nat /\ l \in 0 .. b - 1
      /\ Quotient(n, d) = IF opposite THEN -m ELSE m
      /\ Remainder(n, d) = IF n < 0 THEN -l ELSE l
  BY P!MachineDivides, SameWord
<1>2. a \in Nat
  BY DEF Absolute
<1> HIDE DEF a, b, m, l, opposite
<1>3. Absolute(Quotient(n, d)) = m
  BY <1>1 DEF Absolute
<1>4. Absolute(Remainder(n, d)) = l
  BY <1>1 DEF Absolute
<1>5. Remainder(n, d) = 0 <=> l = 0
  BY <1>1
<1> QED
  BY <1>1, <1>2, <1>3, <1>4, <1>5 DEF m, l, opposite, a, b

\* What the machine is given on the paths of signed values.
SignedDivision ==
  /\ Signable(numerator) /\ divisor \in Int /\ divisor # 0 /\ Absolute(divisor) <= 2 ^ (Bits - 1)
  /\ CommonRounding

\* divide_native_general_n, and the compiler's own division in div.
LEMMA MachineRight ==
  ASSUME Chosen, SignedDivision
  PROVE  LET up == /\ rounding # "toward_zero" /\ rem # 0
                   /\ R!NearestEvenIncrement(quot % MM, Absolute(rem), Absolute(divisor))
         IN R!Value(Wrap(quot + (IF ~up THEN 0 ELSE IF OppositeSigns THEN -1 ELSE 1), Bits))
              = E!OnGrid(numerator, divisor, 1, rounding)
<1> DEFINE b == Absolute(divisor)
           k == Absolute(rem)
           q == quot
           up == /\ rounding # "toward_zero" /\ rem # 0
                 /\ R!NearestEvenIncrement(q % MM, k, b)
           x == E!Rounded(numerator, divisor, rounding)
<1>1. numerator \in Int /\ divisor \in Int /\ divisor # 0 /\ Signable(numerator)
      /\ b <= 2 ^ (Bits - 1) /\ CommonRounding
  BY Ranges DEF SignedDivision, Signable
<1>2. b \in Nat /\ b > 0 /\ k \in 0 .. b - 1
  BY <1>1, DividesMagnitudes DEF rem
<1>3. MM \in Nat /\ MM > 0 /\ b \in 1 .. MM - 1
  <2> DEFINE g == 2 ^ (Bits - 1)
  <2>1. g \in Nat /\ g > 1 /\ MM = g + g /\ b <= g
    BY <1>1, Span
  <2> HIDE DEF g, b
  <2> QED
    BY <2>1, <1>2
<1>4. /\ q \in Int
      /\ x = IF Up(numerator, divisor) THEN IF OppositeSigns THEN q - 1 ELSE q + 1 ELSE q
      /\ x \in E!Raws /\ E!OnGrid(numerator, divisor, 1, rounding) = R!Value(x)
  BY <1>1, QuotientRounds, SignedRight DEF quot, OppositeSigns
<1>5. R!NearestEvenIncrement(q % MM, k, b) <=> P!MovesUp(q, k, b)
  <2>1. q % MM \in Nat
    <3> HIDE DEF q
    <3> QED
      BY <1>3, <1>4, DivMod
  <2>2. R!NearestEvenIncrement(q % MM, k, b) <=> P!MovesUp(q % MM, k, b)
    <3> DEFINE y == q % MM
    <3>1. y \in Int
      BY <2>1
    <3> HIDE DEF y, k, b
    <3>2. R!NearestEvenIncrement(y, k, b) <=> P!MovesUp(y, k, b)
      BY <3>1, <1>2, <1>3, IncrementRight
    <3> QED
      BY <3>2 DEF y
  <2>3. P!MovesUp(q % MM, k, b) <=> P!MovesUp(q, k, b)
    <3>1. MM % 2 = 0
      BY WordWrapsHere
    <3> HIDE DEF q, k, b
    <3> QED
      BY <3>1, <1>3, <1>4, ParityDecides
  <2> QED
    BY <2>2, <2>3
<1>6. up <=> Up(numerator, divisor)
  <2>1. rounding # "toward_zero" <=> rounding = "nearest_even"
    BY <1>1 DEF CommonRounding
  <2> QED
    BY <2>1, <1>5 DEF Up, quot, rem
<1>7. q + (IF ~up THEN 0 ELSE IF OppositeSigns THEN -1 ELSE 1) = x
  <2> HIDE DEF up, q, x
  <2>1. q + 0 = q /\ q + -1 = q - 1
    BY <1>4
  <2> QED
    BY <2>1, <1>4, <1>6
<1>8. Wrap(x, Bits) = x
  BY <1>4, WrapKeeps
<1> QED
  BY <1>4, <1>7, <1>8

\* A divisor of one word is as large as its smallest value at most.
LEMMA WordDivisor ==
  ASSUME Chosen, divisor \in Int, fits64(divisor)
  PROVE  P!WordWraps /\ P!Absolute(divisor) <= P!M \div 2 /\ Absolute(divisor) <= M \div 2
<1> DEFINE h == 2 ^ (Word - 1)
<1>1. P!WordWraps /\ P!M \div 2 = h /\ M \div 2 = h
  BY WordWrapsHere
<1>2. h \in Nat /\ INT_MIN = -h /\ INT_MAX = h - 1 /\ P!Absolute(divisor) = Absolute(divisor)
  BY Sizes, SameWord
<1> HIDE DEF h
<1>3. Absolute(divisor) <= h
  BY <1>2 DEF fits64, InWord, Absolute
<1> QED
  BY <1>1, <1>2, <1>3

\* divide_native_n by one machine division: the word's own adjustment.
LEMMA DivideWordRight ==
  ASSUME Chosen, SignedDivision, fits64(divisor)
  PROVE  LET adj == IF rounding = "toward_zero" \/ rem = 0 THEN 0
                    ELSE W!NearestAdjustment(quot, rem, divisor, OppositeSigns)
         IN R!Value(Wrap(quot + adj, Bits)) = E!OnGrid(numerator, divisor, 1, rounding)
<1> DEFINE adj == IF rounding = "toward_zero" \/ rem = 0 THEN 0
                  ELSE W!NearestAdjustment(quot, rem, divisor, OppositeSigns)
           x == E!Rounded(numerator, divisor, rounding)
<1>1. numerator \in Int /\ divisor \in Int /\ divisor # 0 /\ Signable(numerator) /\ CommonRounding
  BY Ranges DEF SignedDivision, Signable
<1>2. quot \in Int /\ x \in E!Raws /\ E!OnGrid(numerator, divisor, 1, rounding) = R!Value(x)
  BY <1>1, QuotientRounds, SignedRight DEF quot
<1>3. quot + adj = x
  <2>1. CASE rounding = "toward_zero" \/ rem = 0
    <3>1. x = quot
      BY <2>1, <1>1, QuotientRounds DEF quot, rem
    <3>2. quot + 0 = quot
      BY <1>2
    <3> QED
      BY <2>1, <3>1, <3>2
  <2>2. CASE ~(rounding = "toward_zero" \/ rem = 0)
    <3>1. rounding = "nearest_even" /\ P!Remainder(numerator, divisor) # 0
      BY <2>2, <1>1, SameWord DEF CommonRounding, rem
    <3>2. P!WordWraps /\ P!Absolute(divisor) <= P!M \div 2
      BY <1>1, WordDivisor
    <3>3. P!Rounded(numerator, divisor, "nearest_even")
            = quot + P!NearestAdjustment(quot, rem, divisor, OppositeSigns)
      BY <1>1, <3>1, <3>2, P!ShortcutsRound, SameWord DEF quot, rem, OppositeSigns
    <3> QED
      BY <2>2, <3>1, <3>3, WordGrid, WordAdjustments
  <2> QED
    BY <2>1, <2>2
<1> QED
  BY <1>2, <1>3, WrapKeeps

\* A multiplication inline: its range test left room for the adjustment.
LEMMA InlineMultiplyRight ==
  ASSUME Chosen, SignedDivision, fits64(divisor), divisor > 0, InWord(quot),
         rem # 0 => InWord(quot - 1) /\ InWord(quot + 1)
  PROVE  LET adj == IF rounding = "nearest_even" /\ rem # 0
                      THEN W!NearestScaledAdj(quot, rem, divisor) ELSE 0
         IN R!Value(Wrap(quot + adj, Word)) = E!OnGrid(numerator, divisor, 1, rounding)
<1> DEFINE adj == IF rounding = "nearest_even" /\ rem # 0
                    THEN W!NearestScaledAdj(quot, rem, divisor) ELSE 0
           x == E!Rounded(numerator, divisor, rounding)
<1>1. numerator \in Int /\ divisor \in Int /\ divisor # 0 /\ Signable(numerator) /\ CommonRounding
  BY Ranges DEF SignedDivision, Signable
<1>2. /\ quot \in Int /\ x \in E!Raws /\ E!OnGrid(numerator, divisor, 1, rounding) = R!Value(x)
      /\ x \in {quot, quot - 1, quot + 1} /\ (rem = 0 => x = quot)
  BY <1>1, QuotientRounds, SignedRight DEF quot, rem
<1>3. quot + adj = x
  <2>1. CASE ~(rounding = "nearest_even" /\ rem # 0)
    <3>1. x = quot
      BY <2>1, <1>1, QuotientRounds DEF quot, rem, CommonRounding
    <3>2. quot + 0 = quot
      BY <1>2
    <3> QED
      BY <2>1, <3>1, <3>2
  <2>2. CASE rounding = "nearest_even" /\ rem # 0
    <3>1. P!Remainder(numerator, divisor) # 0
      BY <2>2, SameWord DEF rem
    <3>2. P!WordWraps /\ P!Absolute(divisor) <= P!M \div 2
      BY WordDivisor, <1>1
    <3>3. P!Rounded(numerator, divisor, "nearest_even")
            = quot + P!NearestScaledAdj(quot, rem, divisor)
      BY <1>1, <3>1, <3>2, P!ShortcutsRound, SameWord DEF quot, rem
    <3> QED
      BY <2>2, <3>3, WordGrid, WordAdjustments
  <2> QED
    BY <2>1, <2>2
<1>4. InWord(x) /\ x \in Int
  <2>1. InWord(x)
    BY <1>2
  <2> QED
    BY <1>2, <2>1
<1>5. Wrap(x, Word) = x
  BY <1>4, WrapKeeps
<1> QED
  BY <1>2, <1>3, <1>5

\* The high limb comes from the signs before the addition, and is right.
LEMMA RoundWideRight ==
  ASSUME Chosen, NEW q \in Int, InWord(q), NEW adj \in {-1, 0, 1},
         \/ q <= 0 /\ adj <= 0
         \/ q >= 0 /\ adj >= 0
  PROVE  RoundWideQuotient(q, adj) = q + adj
<1> DEFINE v == q + adj
           low == v % M
           h == 2 ^ (Word - 1)
           g == 2 ^ (Bits - 1)
           below == q < 0 \/ adj < 0
<1>1. h \in Nat /\ h > 1 /\ M = 2 * h /\ INT_MIN = -h /\ INT_MAX = h - 1 /\ MM = M * M
  BY Sizes
<1>2. g \in Nat /\ MM = g + g
  BY Span
<1> HIDE DEF h, g
<1>3. -h <= q /\ q <= h - 1 /\ M \in Nat /\ M > 3
  BY <1>1 DEF InWord
<1> HIDE DEF M, MM
<1>4. v \in Int /\ -h - 1 <= v /\ v <= h /\ (below <=> v < 0)
  BY <1>1, <1>3
<1>5. h < g /\ M * M \in Int /\ M <= g
  <2>1. 2 * M <= M * M
    <3>1. 2 * M <= M * M /\ M * M \in Int
      BY <1>3, ProductBelow
    <3> QED
      BY <3>1
  <2> QED
    BY <2>1, <1>1, <1>2, <1>3
<1>6. RoundWideQuotient(q, adj) = Wrap(low + M * (IF below THEN M - 1 ELSE 0), Bits)
  BY DEF RoundWideQuotient
<1> HIDE DEF v, below
<1>7. CASE v < 0
  <2>1. low = v + M
    <3>1. v = (-1) * M + (v + M)
      BY <1>3, <1>4
    <3>2. v + M \in Int /\ 0 <= v + M /\ v + M < M /\ -1 \in Int
      BY <1>1, <1>3, <1>4, <1>7
    <3> QED
      BY <3>1, <3>2, <1>3, <1>4, DivUnique
  <2>2. low + M * (M - 1) = v + MM
    <3>1. M * (M - 1) = M * M - M
      BY <1>3
    <3> QED
      BY <2>1, <3>1, <1>1, <1>3, <1>4, <1>5
  <2>3. Wrap(v + MM, Bits) = v
    <3>1. v + MM \in -MM .. MM - 1 /\ v + MM >= g
      BY <1>1, <1>2, <1>3, <1>4, <1>5, <1>7
    <3> DEFINE y == v + MM
    <3>2. y \in -MM .. MM - 1 /\ y >= g /\ ~(y < -g) /\ y - MM = v
      BY <3>1, <1>2, <1>4
    <3>3. Wrap(y, Bits) = IF y < -g THEN y + MM ELSE IF y >= g THEN y - MM ELSE y
      BY <3>2, WrapOnce DEF g
    <3> HIDE DEF y
    <3>4. Wrap(y, Bits) = v
      BY <3>2, <3>3
    <3> QED
      BY <3>4 DEF y
  <2> QED
    BY <2>2, <2>3, <1>4, <1>6, <1>7 DEF v
<1>8. CASE ~(v < 0)
  <2>1. low = v
    <3>1. v \in Nat /\ v < M
      BY <1>1, <1>3, <1>4, <1>8
    <3> QED
      BY <3>1, <1>3, RemainderOfSmall
  <2>2. low + M * 0 = v
    BY <2>1, <1>3, <1>4
  <2>3. Wrap(v, Bits) = v
    <3>1. v \in E!Raws
      <4>1. E!Raws = (-g) .. (g - 1)
        BY Span DEF g
      <4> QED
        BY <4>1, <1>1, <1>2, <1>4, <1>5, <1>8
    <3> QED
      BY <3>1, WrapKeeps
  <2> QED
    BY <2>2, <2>3, <1>4, <1>6, <1>8 DEF v
<1> QED
  BY <1>7, <1>8

\* mul_div inline.
LEMMA InlineMulDivideRight ==
  ASSUME Chosen, SignedDivision, fits64(divisor), InWord(quot)
  PROVE  LET adj == IF rounding = "nearest_even" /\ rem # 0
                      THEN W!NearestAdj(quot, rem, divisor, OppositeSigns) ELSE 0
         IN R!Value(RoundWideQuotient(quot, adj)) = E!OnGrid(numerator, divisor, 1, rounding)
<1> DEFINE adj == IF rounding = "nearest_even" /\ rem # 0
                    THEN W!NearestAdj(quot, rem, divisor, OppositeSigns) ELSE 0
           x == E!Rounded(numerator, divisor, rounding)
<1>1. numerator \in Int /\ divisor \in Int /\ divisor # 0 /\ Signable(numerator) /\ CommonRounding
  BY Ranges DEF SignedDivision, Signable
<1>2. /\ quot \in Int /\ x \in E!Raws /\ E!OnGrid(numerator, divisor, 1, rounding) = R!Value(x)
  BY <1>1, QuotientRounds, SignedRight DEF quot
<1>3. quot + adj = x
  <2>1. CASE ~(rounding = "nearest_even" /\ rem # 0)
    <3>1. x = quot
      BY <2>1, <1>1, QuotientRounds DEF quot, rem, CommonRounding
    <3>2. quot + 0 = quot
      BY <1>2
    <3> QED
      BY <2>1, <3>1, <3>2
  <2>2. CASE rounding = "nearest_even" /\ rem # 0
    <3>1. P!Remainder(numerator, divisor) # 0
      BY <2>2, SameWord DEF rem
    <3>2. P!WordWraps /\ P!Absolute(divisor) <= P!M \div 2
      BY WordDivisor, <1>1
    <3>3. P!Rounded(numerator, divisor, "nearest_even")
            = quot + P!NearestAdj(quot, rem, divisor, OppositeSigns)
      BY <1>1, <3>1, <3>2, P!ShortcutsRound, SameWord DEF quot, rem, OppositeSigns
    <3> QED
      BY <2>2, <3>3, WordGrid, WordAdjustments
  <2> QED
    BY <2>1, <2>2
<1>4. adj \in {-1, 0, 1} /\ (adj < 0 => OppositeSigns) /\ (adj > 0 => ~OppositeSigns)
  <2>1. -1 < 0 /\ ~(0 < 0) /\ ~(1 < 0) /\ 1 > 0 /\ ~(0 > 0) /\ ~(-1 > 0)
    OBVIOUS
  <2>2. \/ adj = 0
        \/ adj = -1 /\ OppositeSigns
        \/ adj = 1 /\ ~OppositeSigns
    BY DEF W!NearestAdj
  <2> HIDE DEF adj
  <2> QED
    BY <2>1, <2>2
<1>5. (OppositeSigns => quot <= 0) /\ (~OppositeSigns => quot >= 0)
  <2> DEFINE m == Absolute(numerator) \div Absolute(divisor)
  <2>1. m \in Nat /\ quot = IF OppositeSigns THEN -m ELSE m
    BY <1>1, DividesMagnitudes DEF quot, OppositeSigns
  <2> HIDE DEF m
  <2> QED
    BY <2>1
<1>6. \/ quot <= 0 /\ adj <= 0
      \/ quot >= 0 /\ adj >= 0
  <2> HIDE DEF adj
  <2> QED
    BY <1>4, <1>5
<1>7. RoundWideQuotient(quot, adj) = x
  <2> HIDE DEF adj
  <2> QED
    BY <1>2, <1>3, <1>4, <1>6, RoundWideRight
<1> QED
  BY <1>2, <1>7

\* A product beyond the word's test, divided by the scale as a magnitude.
LEMMA MagnitudeRight ==
  ASSUME Chosen, SignedDivision, divisor > 0,
         NEW up \in BOOLEAN, up <=> Up(numerator, divisor)
  PROVE  LET magnitude == (Absolute(numerator) \div divisor + R!Indicator(up)) % MM
         IN R!Value(Wrap(IF numerator < 0 THEN -magnitude ELSE magnitude, Bits))
              = E!OnGrid(numerator, divisor, 1, rounding)
<1> DEFINE m == Absolute(numerator) \div divisor
           v == m + R!Indicator(up)
           x == E!Rounded(numerator, divisor, rounding)
<1>1. numerator \in Int /\ divisor \in Int /\ divisor # 0 /\ Signable(numerator) /\ CommonRounding
  BY Ranges DEF SignedDivision, Signable
<1>2. Absolute(divisor) = divisor /\ ~(divisor < 0)
  BY <1>1 DEF Absolute
<1>3. m \in Nat /\ quot = IF numerator < 0 THEN -m ELSE m
  <2>1. /\ Absolute(numerator) \div Absolute(divisor) \in Nat
        /\ quot = IF (numerator < 0) # (divisor < 0)
                    THEN -(Absolute(numerator) \div Absolute(divisor))
                    ELSE Absolute(numerator) \div Absolute(divisor)
    BY <1>1, DividesMagnitudes DEF quot
  <2> QED
    BY <1>2, <2>1
<1>4. /\ x = IF up THEN IF numerator < 0 THEN quot - 1 ELSE quot + 1 ELSE quot
      /\ x \in E!Raws /\ Signable(x) /\ E!OnGrid(numerator, divisor, 1, rounding) = R!Value(x)
  <2>1. x = IF Up(numerator, divisor) THEN IF (numerator < 0) # (divisor < 0)
                                             THEN quot - 1 ELSE quot + 1 ELSE quot
    BY <1>1, QuotientRounds DEF quot
  <2>2. x \in E!Raws /\ Signable(x) /\ E!OnGrid(numerator, divisor, 1, rounding) = R!Value(x)
    BY <1>1, SignedRight
  <2>3. ((numerator < 0) # (divisor < 0)) <=> numerator < 0
    BY <1>2
  <2> HIDE DEF x
  <2> QED
    BY <2>1, <2>2, <2>3
<1>5. v \in Nat /\ x = IF numerator < 0 THEN -v ELSE v
  <2> HIDE DEF m, x
  <2> QED
    BY <1>3, <1>4 DEF R!Indicator
<1>6. v < MM
  <2>1. i128_max \in Nat /\ MM = 2 * i128_max + 2
    BY Ranges
  <2> HIDE DEF v, x, MM, i128_max
  <2>2. v <= i128_max
    BY <1>4, <1>5, <2>1 DEF Signable
  <2> QED
    BY <1>5, <2>1, <2>2
<1>7. v % MM = v
  <2> HIDE DEF v
  <2>1. MM \in Nat
    BY Ranges
  <2> QED
    BY <1>5, <1>6, <2>1, RemainderOfSmall
<1>8. Wrap(x, Bits) = x
  BY <1>4, WrapKeeps
<1> QED
  BY <1>4, <1>5, <1>7, <1>8

\* mul outside its test, by two unsigned divisions.
LEMMA SlabRight ==
  ASSUME Chosen, SignedDivision, divisor > 0, fits64(divisor)
  PROVE  LET quotient == DivideByWord(Absolute(numerator), divisor)
             up == /\ rounding = "nearest_even" /\ quotient.r # 0
                   /\ W!NearestEvenInc(quotient.q % M, quotient.r, divisor)
             magnitude == (quotient.q + R!Indicator(up)) % MM
         IN R!Value(Wrap(IF numerator < 0 THEN -magnitude ELSE magnitude, Bits))
              = E!OnGrid(numerator, divisor, 1, rounding)
<1> DEFINE a == Absolute(numerator)
           m == a \div divisor
           k == a % divisor
           up == rounding = "nearest_even" /\ k # 0 /\ W!NearestEvenInc(m % M, k, divisor)
<1>1. /\ numerator \in Int /\ divisor \in Int /\ divisor \in Nat /\ divisor # 0
      /\ Absolute(divisor) = divisor
  BY Ranges DEF SignedDivision, Signable, Absolute
<1>2. /\ a \in Nat /\ m \in Nat /\ k \in 0 .. divisor - 1
      /\ m = Absolute(quot) /\ quot \in Int /\ k = Absolute(rem)
      /\ rem = 0 <=> k = 0
  <2>1. quot \in Int
    BY <1>1, QuotientRounds DEF SignedDivision, quot
  <2>2. /\ Absolute(numerator) \in Nat /\ Absolute(numerator) \div Absolute(divisor) \in Nat
        /\ Absolute(rem) \in 0 .. Absolute(divisor) - 1
        /\ Absolute(numerator) \div Absolute(divisor) = Absolute(quot)
        /\ Absolute(numerator) % Absolute(divisor) = Absolute(rem)
        /\ rem = 0 <=> Absolute(rem) = 0
    BY <1>1, DividesMagnitudes DEF quot, rem
  <2> QED
    BY <2>1, <2>2, <1>1
<1>3. DivideByWord(a, divisor) = [q |-> m, r |-> k]
  BY <1>1, <1>2, ByWordRight
<1>4. W!NearestEvenInc(m % M, k, divisor) <=> P!MovesUp(m, k, divisor)
  <2>1. P!WordWraps /\ divisor <= P!M \div 2 /\ P!M = M /\ M % 2 = 0
    BY <1>1, WordDivisor, WordWrapsHere
  <2>2. M \in Nat /\ M > 3
    BY Ranges
  <2> HIDE DEF m, k, M
  <2>3. m % M \in Int
    BY <1>2, <2>2, DivMod
  <2> DEFINE y == m % M
  <2>4. divisor \in 1 .. P!M \div 2 /\ y \in Int
    BY <1>1, <2>1, <2>2, <2>3
  <2> HIDE DEF y
  <2>5. P!NearestEvenInc(y, k, divisor) <=> P!MovesUp(y, k, divisor)
    BY <1>2, <2>1, <2>4, P!NearestEvenIncRight
  <2>6. P!MovesUp(m % M, k, divisor) <=> P!MovesUp(m, k, divisor)
    BY <1>2, <2>1, <2>2, ParityDecides
  <2> QED
    BY <2>5, <2>6, WordAdjustments DEF y
<1>5. P!MovesUp(m, k, divisor) <=> P!MovesUp(quot, k, divisor)
  <2>1. m = quot \/ m = -quot
    BY <1>2 DEF Absolute
  <2> QED
    BY <2>1, <1>2, SignKeepsParity
<1>6. up <=> Up(numerator, divisor)
  BY <1>1, <1>2, <1>4, <1>5 DEF Up, quot, rem
<1>7. up \in BOOLEAN
  OBVIOUS
<1> HIDE DEF up
<1>8. R!Value(Wrap(IF numerator < 0 THEN -((m + R!Indicator(up)) % MM)
                                    ELSE (m + R!Indicator(up)) % MM, Bits))
        = E!OnGrid(numerator, divisor, 1, rounding)
  BY <1>6, <1>7, MagnitudeRight
<1>9. DivideByWord(a, divisor).q = m /\ DivideByWord(a, divisor).r = k
  <2> HIDE DEF m, k
  <2> QED
    BY <1>3
<1> QED
  BY <1>8, <1>9 DEF up

\* divide_scale_general_n, by a scale of one word.
LEMMA ScaleRight ==
  ASSUME Chosen, SignedDivision, divisor > 0, divisor < M
  PROVE  LET quotient == Divide128(Absolute(numerator), divisor, TRUE)
             up == rounding = "nearest_even"
                   /\ R!NearestEvenIncrement(quotient.q, quotient.r, divisor)
             magnitude == (quotient.q + R!Indicator(up)) % MM
         IN R!Value(Wrap(IF numerator < 0 THEN -magnitude ELSE magnitude, Bits))
              = E!OnGrid(numerator, divisor, 1, rounding)
<1> DEFINE a == Absolute(numerator)
           m == a \div divisor
           k == a % divisor
           up == rounding = "nearest_even" /\ R!NearestEvenIncrement(m, k, divisor)
<1>1. /\ numerator \in Int /\ divisor \in Int /\ divisor \in Nat /\ divisor # 0
      /\ Absolute(divisor) = divisor
  BY Ranges DEF SignedDivision, Signable, Absolute
<1>2. /\ a \in Nat /\ m \in Nat /\ k \in 0 .. divisor - 1
      /\ m = Absolute(quot) /\ quot \in Int /\ k = Absolute(rem)
      /\ rem = 0 <=> k = 0
  <2>1. quot \in Int
    BY <1>1, QuotientRounds DEF SignedDivision, quot
  <2>2. /\ Absolute(numerator) \in Nat /\ Absolute(numerator) \div Absolute(divisor) \in Nat
        /\ Absolute(rem) \in 0 .. Absolute(divisor) - 1
        /\ Absolute(numerator) \div Absolute(divisor) = Absolute(quot)
        /\ Absolute(numerator) % Absolute(divisor) = Absolute(rem)
        /\ rem = 0 <=> Absolute(rem) = 0
    BY <1>1, DividesMagnitudes DEF quot, rem
  <2> QED
    BY <2>1, <2>2, <1>1
<1>3. Divide128(a, divisor, TRUE) = [q |-> m, r |-> k]
  BY <1>1, <1>2, ByWordRight DEF Divide128
<1>4. R!NearestEvenIncrement(m, k, divisor) <=> P!MovesUp(m, k, divisor)
  <2>1. MM \in Nat /\ M <= MM
    <3>1. M \in Nat /\ M > 3 /\ MM = M * M
      BY Ranges
    <3> HIDE DEF M, MM
    <3> QED
      BY <3>1, PositiveProduct
  <2> HIDE DEF m, k
  <2>2. divisor \in 1 .. MM - 1
    <3>1. M \in Nat
      BY Ranges
    <3> HIDE DEF M, MM
    <3> QED
      BY <3>1, <1>1, <2>1
  <2> QED
    BY <1>2, <2>2, IncrementRight
<1>5. P!MovesUp(m, k, divisor) <=> P!MovesUp(quot, k, divisor)
  <2>1. m = quot \/ m = -quot
    BY <1>2 DEF Absolute
  <2> QED
    BY <2>1, <1>2, SignKeepsParity
<1>6. P!MovesUp(m, k, divisor) => k # 0
  <2> SUFFICES ASSUME k = 0, P!MovesUp(m, k, divisor) PROVE FALSE
    OBVIOUS
  <2>1. 2 * k = 0
    <3> HIDE DEF k
    <3> QED
      OBVIOUS
  <2> HIDE DEF k, m
  <2> QED
    BY <2>1, <1>1 DEF P!MovesUp
<1>7. up <=> Up(numerator, divisor)
  <2>1. Up(numerator, divisor)
          <=> rounding = "nearest_even" /\ k # 0 /\ P!MovesUp(quot, k, divisor)
    BY <1>1, <1>2 DEF Up, quot, rem
  <2> QED
    BY <2>1, <1>4, <1>5, <1>6
<1>8. up \in BOOLEAN
  OBVIOUS
<1> HIDE DEF up
<1>9. R!Value(Wrap(IF numerator < 0 THEN -((m + R!Indicator(up)) % MM)
                                    ELSE (m + R!Indicator(up)) % MM, Bits))
        = E!OnGrid(numerator, divisor, 1, rounding)
  BY <1>7, <1>8, MagnitudeRight
<1>10. Divide128(a, divisor, TRUE).q = m /\ Divide128(a, divisor, TRUE).r = k
  <2> DEFINE s == Divide128(a, divisor, TRUE)
  <2>1. s = [q |-> m, r |-> k]
    BY <1>3
  <2> HIDE DEF s, m, k
  <2>2. s.q = m /\ s.r = k
    BY <2>1
  <2> QED
    BY <2>2 DEF s
<1> QED
  BY <1>9, <1>10 DEF up

-----------------------------------------------------------------------------
(* What the stages mean                                                    *)

\* The divisions that the portable path gets wrong, before they are answered.
MayDeviate ==
  /\ path = "portable"
  /\ request.op \in {"mul", "quantize"} => ~ScaleFitsWord
  /\ CASE request.op = "remainder" -> Misdivided(Absolute(request.a), Absolute(request.b))
       [] request.op = "quantize" -> request.decimals < D /\ Misdivided(Absolute(request.a), grid)
       [] OTHER -> Divided /\ Misdivided(numerator, divisor)

\* A call is one ExactArithmetic admits, and is answered once.
Asked ==
  IF stage = "idle" THEN request = E!NoRequest
  ELSE request \in E!Requests /\ request.op # "midpoint"
Answered ==
  IF stage = "answered" THEN MayDeviate \/ answer = E!RightAnswer(request)
  ELSE answer = E!NoAnswer

\* The quotient of n by d is divided as one of magnitudes.
ByMagnitude(n, d) ==
  /\ n \in Int /\ d \in Int /\ d # 0 /\ Absolute(d) <= 2 ^ (Bits - 1)
  /\ numerator = Absolute(n) /\ divisor = Absolute(d)
  /\ negative \in BOOLEAN
  /\ n # 0 => (negative <=> (n < 0) # (d < 0))

\* What a stage divides has the call's answer, by its numbers or their magnitudes.
BySigns ==
  stage \in {"product", "native", "machine", "inline", "idiv", "slab", "scale"} =>
    /\ Divided /\ SignedDivision
    /\ E!RightAnswer(request) = E!OnGrid(numerator, divisor, 1, rounding)
ByMagnitudes ==
  stage \in {"wide", "quad"} =>
    /\ Divided
    /\ request.op = "mul" => divisor = scale
    /\ \E n, d : /\ ByMagnitude(n, d)
                 /\ E!RightAnswer(request) = E!OnGrid(n, d, 1, rounding)

\* A short cut of the multiplication divides by what its test admits, and has
\* room to round.
Shortened ==
  /\ stage \in {"product", "scale"} => divisor > 0 /\ divisor < M
  /\ stage = "slab" => divisor > 0 /\ fits64(divisor)
  /\ stage = "inline" /\ request.op = "mul" =>
       divisor > 0 /\ (rem # 0 => InWord(quot - 1) /\ InWord(quot + 1))

Meaning == Asked /\ Answered /\ BySigns /\ ByMagnitudes /\ Shortened

\* Nothing that is meant changes with the stage alone.
LEMMA AnswerStays ==
  ASSUME UNCHANGED chosen, UNCHANGED request
  PROVE  /\ E!RightAnswer(request)' = E!RightAnswer(request)
         /\ E!Requests' = E!Requests /\ Divided' = Divided /\ scale' = scale
         /\ \A n, d, g, mode : E!OnGrid(n, d, g, mode)' = E!OnGrid(n, d, g, mode)
<1>1. Bits' = Bits /\ Radix' = Radix /\ D' = D /\ request' = request
  BY DEF chosen, Bits
<1>2. E!Raws' = E!Raws
  BY <1>1 DEF E!Raws
<1>3. \A n, d, g, mode : E!OnGrid(n, d, g, mode)' = E!OnGrid(n, d, g, mode)
  BY <1>2 DEF E!OnGrid
<1>4. E!Scale' = E!Scale /\ \A decimals : E!Grid(decimals)' = E!Grid(decimals)
  BY <1>1 DEF E!Scale, E!Grid
<1>5. E!RightAnswer(request)' = E!RightAnswer(request)
  BY <1>1, <1>3, <1>4 DEF E!RightAnswer
<1>6. E!Requests' = E!Requests
  BY <1>1, <1>2 DEF E!Requests
<1> QED
  BY <1>1, <1>3, <1>5, <1>6 DEF Divided, scale

\* Nor does what may deviate.
LEMMA DeviationStays ==
  ASSUME UNCHANGED chosen, UNCHANGED request, UNCHANGED <<numerator, divisor>>
  PROVE  MayDeviate' <=> MayDeviate
<1>1. path' = path /\ Radix' = Radix /\ D' = D /\ request' = request
      /\ numerator' = numerator /\ divisor' = divisor
  BY DEF chosen
<1>2. \A n, d : Misdivided(n, d)' = Misdivided(n, d)
  BY <1>1 DEF Misdivided, DivideByPair, MM, M, Bits
<1>3. \A n : Absolute(n)' = Absolute(n)
  BY DEF Absolute
<1>4. grid' = grid /\ scale' = scale /\ Divided' = Divided
  BY <1>1 DEF grid, scale, Divided
<1>5. ScaleFitsWord' = ScaleFitsWord
  BY <1>4 DEF ScaleFitsWord, M
<1> QED
  BY <1>1, <1>2, <1>3, <1>4, <1>5 DEF MayDeviate

\* What deviates is what may, once it is answered.
LEMMA DeviatesLate == Deviates <=> stage = "answered" /\ MayDeviate
BY DEF Deviates, MayDeviate

\* The instance that forgives deviations promises the same answers.
LEMMA SamePromise ==
  /\ \A r : Exact!RightAnswer(r) = E!RightAnswer(r)
  /\ Exact!Requests = E!Requests /\ Exact!NoAnswer = E!NoAnswer /\ Exact!NoRequest = E!NoRequest
<1>1. \A a, b : E!Floor(a, b) = Exact!Floor(a, b)
  BY DEF E!Floor, Exact!Floor
<1>2. \A a, b : E!Ceiling(a, b) = Exact!Ceiling(a, b)
  BY <1>1 DEF E!Ceiling, Exact!Ceiling
<1>3. \A a, b : E!Truncate(a, b) = Exact!Truncate(a, b)
  BY <1>1, <1>2 DEF E!Truncate, Exact!Truncate
<1>4. \A a, b, c : E!Distance(a, b, c) = Exact!Distance(a, b, c)
  BY DEF E!Distance, Exact!Distance
<1>5. \A a, b : E!NearestTo(a, b) = Exact!NearestTo(a, b)
  BY <1>1, <1>2, <1>4 DEF E!NearestTo, Exact!NearestTo
<1>6. \A a, b, mode : E!Rounded(a, b, mode) = Exact!Rounded(a, b, mode)
  <2> TAKE a, b, mode
  <2> DEFINE e == E!NearestTo(a, b)
  <2>1. (CHOOSE y \in e : \A z \in e : E!Distance(z, 0, 1) <= E!Distance(y, 0, 1))
          = (CHOOSE y \in e : \A z \in e : Exact!Distance(z, 0, 1) <= Exact!Distance(y, 0, 1))
    BY <1>4
  <2> HIDE DEF e
  <2> QED
    BY <1>1, <1>2, <1>3, <1>5, <2>1 DEF E!Rounded, Exact!Rounded, e
<1>7. E!Raws = Exact!Raws
  BY DEF E!Raws, Exact!Raws
<1>8. \A v : E!Result(v) = Exact!Result(v) /\ E!Error(v) = Exact!Error(v)
  BY DEF E!Result, Exact!Result, E!Error, Exact!Error
<1>9. \A n, d, g, mode : E!OnGrid(n, d, g, mode) = Exact!OnGrid(n, d, g, mode)
  BY <1>3, <1>6, <1>7, <1>8 DEF E!OnGrid, Exact!OnGrid
<1>10. E!Scale = Exact!Scale /\ \A k : E!Grid(k) = Exact!Grid(k)
  BY DEF E!Scale, Exact!Scale, E!Grid, Exact!Grid
<1>11. \A r : Exact!RightAnswer(r) = E!RightAnswer(r)
  BY <1>3, <1>4, <1>8, <1>9, <1>10 DEF E!RightAnswer, Exact!RightAnswer
<1>12. Exact!Requests = E!Requests
  BY <1>7 DEF Exact!Requests, E!Requests, Exact!Ops, E!Ops, Exact!RoundingModes, E!RoundingModes
<1>13. Exact!NoAnswer = E!NoAnswer /\ Exact!NoRequest = E!NoRequest
  BY <1>8 DEF Exact!NoAnswer, E!NoAnswer, Exact!NoRequest, E!NoRequest,
              Exact!Request, E!Request
<1> QED
  BY <1>11, <1>12, <1>13

\* What an operation is called with.
LEMMA Asking ==
  ASSUME IInv, Meaning, stage # "idle"
  PROVE  /\ Chosen /\ request \in E!Requests /\ request.op \in Ops
         /\ request.a \in E!Raws /\ request.b \in E!Raws /\ request.c \in E!Raws
         /\ request.decimals \in 0 .. D + 1 /\ rounding \in R!Modes
         /\ request # E!NoRequest
<1>1. Chosen /\ request \in E!Requests /\ request.op # "midpoint"
  BY DEF IInv, Meaning, Asked
<1>2. /\ request.op \in E!Ops /\ request.a \in E!Raws /\ request.b \in E!Raws
      /\ request.c \in E!Raws /\ request.decimals \in 0 .. D + 1
      /\ request.rounding \in E!RoundingModes
  BY <1>1 DEF E!Requests
<1>3. rounding \in R!Modes
  BY <1>2 DEF rounding, R!Modes, E!RoundingModes
<1>4. request # E!NoRequest
  BY <1>2 DEF E!NoRequest, E!Request, E!Ops
<1> QED
  BY <1>1, <1>2, <1>3, <1>4 DEF Ops

\* An answer that is right, or that the portable path may get wrong, ends the call.
LEMMA Responds ==
  ASSUME IInv, Meaning, stage \notin {"idle", "answered"}, NEW r, Reply(r),
         r = E!RightAnswer(request) \/ MayDeviate
  PROVE  Meaning' /\ Exact!Respond
<1>1. /\ stage' = "answered" /\ answer' = r
      /\ UNCHANGED chosen /\ UNCHANGED request /\ UNCHANGED <<numerator, divisor>>
  BY DEF Reply, kernel
<1>2. /\ E!RightAnswer(request)' = E!RightAnswer(request) /\ E!Requests' = E!Requests
      /\ request' = request
  BY <1>1, AnswerStays
<1>3. MayDeviate' <=> MayDeviate
  BY <1>1, DeviationStays
<1>4. request \in E!Requests /\ request.op # "midpoint" /\ answer = E!NoAnswer
      /\ request # E!NoRequest
  BY Asking DEF Meaning, Asked, Answered
<1>5. Asked' /\ Answered'
  BY <1>1, <1>2, <1>3, <1>4 DEF Asked, Answered
<1>6. Meaning'
  BY <1>1, <1>5 DEF Meaning, BySigns, ByMagnitudes, Shortened
<1>7. ~Deviates /\ (Deviates' <=> MayDeviate')
  BY <1>1 DEF Deviates, MayDeviate
<1>8. (IF Deviates' THEN E!RightAnswer(request)' ELSE answer') = E!RightAnswer(request)
  BY <1>1, <1>2, <1>3, <1>7
<1>9. UNCHANGED Exact!type
  BY <1>1 DEF chosen, Exact!type, Bits
<1> QED
  BY <1>1, <1>4, <1>6, <1>7, <1>8, <1>9, SamePromise DEF Exact!Respond

\* A stage that hands on keeps the call as it is.
LEMMA HandsOn ==
  ASSUME IInv, Meaning, stage \notin {"idle", "answered"}, stage' \notin {"idle", "answered"},
         UNCHANGED chosen, UNCHANGED request, UNCHANGED answer
  PROVE  /\ Asked' /\ Answered' /\ UNCHANGED Exact!vars
         /\ E!RightAnswer(request)' = E!RightAnswer(request) /\ Divided' = Divided
         /\ rounding' = rounding /\ CommonRounding' = CommonRounding
         /\ scale' = scale /\ M' = M /\ Bits' = Bits
         /\ \A n, d, g, mode : E!OnGrid(n, d, g, mode)' = E!OnGrid(n, d, g, mode)
<1>1. /\ E!RightAnswer(request)' = E!RightAnswer(request) /\ E!Requests' = E!Requests
      /\ request' = request /\ Divided' = Divided /\ scale' = scale
      /\ \A n, d, g, mode : E!OnGrid(n, d, g, mode)' = E!OnGrid(n, d, g, mode)
  BY AnswerStays
<1>2. Asked' /\ Answered'
  BY <1>1 DEF Meaning, Asked, Answered, E!NoAnswer, E!Error
<1>3. ~Deviates /\ ~Deviates'
  BY DEF Deviates
<1>4. UNCHANGED Exact!type
  BY DEF chosen, Exact!type, Bits
<1>5. UNCHANGED Exact!vars
  BY <1>1, <1>3, <1>4 DEF Exact!vars
<1> QED
  BY <1>1, <1>2, <1>5 DEF rounding, CommonRounding, M, Bits

-----------------------------------------------------------------------------
(* From a call to a division                                               *)

\* A magnitude is a double word.
LEMMA MagnitudeBelow ==
  ASSUME Chosen, NEW a \in E!Raws
  PROVE  /\ a \in Int /\ Absolute(a) \in Nat /\ Absolute(a) <= 2 ^ (Bits - 1)
         /\ Absolute(a) \in 0 .. MM - 1
<1> DEFINE g == 2 ^ (Bits - 1)
<1>1. g \in Nat /\ g > 1 /\ MM = g + g /\ E!Raws = (-g) .. (g - 1)
  BY Span
<1> HIDE DEF g
<1>2. a \in Int /\ Absolute(a) \in Nat /\ Absolute(a) <= g
  BY <1>1 DEF Absolute
<1> QED
  BY <1>1, <1>2 DEF g

\* The magnitude and the sign of a product.
LEMMA MagnitudesMultiply ==
  ASSUME NEW a \in Int, NEW b \in Int
  PROVE  /\ a * b \in Int /\ Absolute(a) * Absolute(b) = Absolute(a * b)
         /\ a * b # 0 => (a * b < 0 <=> (a < 0) # (b < 0))
<1>1. \A u, v \in Int : u >= 0 /\ v >= 0 => u * v >= 0 /\ u * v \in Int
  OBVIOUS
<1>2. CASE a >= 0 /\ b >= 0
  BY <1>1, <1>2 DEF Absolute
<1>3. CASE a < 0 /\ b < 0
  <2>1. (-a) * (-b) = a * b /\ -a >= 0 /\ -b >= 0 /\ -a \in Int /\ -b \in Int
    BY <1>3
  <2>2. a * b >= 0 /\ a * b \in Int
    BY <2>1, <1>1
  <2> QED
    BY <2>1, <2>2, <1>3 DEF Absolute
<1>4. CASE a >= 0 /\ b < 0
  <2>1. a * (-b) = -(a * b) /\ -b >= 0 /\ a * b \in Int /\ -b \in Int
    BY <1>4
  <2>2. a * (-b) >= 0
    BY <2>1, <1>1, <1>4
  <2> QED
    BY <2>1, <2>2, <1>4 DEF Absolute
<1>5. CASE a < 0 /\ b >= 0
  <2>1. (-a) * b = -(a * b) /\ -a >= 0 /\ a * b \in Int /\ -a \in Int
    BY <1>5
  <2>2. (-a) * b >= 0
    BY <2>1, <1>1, <1>5
  <2> QED
    BY <2>1, <2>2, <1>5 DEF Absolute
<1> QED
  BY <1>2, <1>3, <1>4, <1>5

\* The kernels are given the product of two magnitudes.
LEMMA WideProduct ==
  ASSUME Chosen, NEW a \in E!Raws, NEW b \in E!Raws
  PROVE  FullProduct(Absolute(a), Absolute(b)) = Absolute(a * b) /\ a * b \in Int
<1>1. /\ a \in Int /\ Absolute(a) \in 0 .. MM - 1
      /\ b \in Int /\ Absolute(b) \in 0 .. MM - 1
  BY MagnitudeBelow
<1>2. FullProduct(Absolute(a), Absolute(b)) = Absolute(a) * Absolute(b)
  BY <1>1, ProductRight
<1> QED
  BY <1>1, <1>2, MagnitudesMultiply

\* The scale is a magnitude that a signed number can have.
LEMMA ScaleRaw ==
  ASSUME Chosen
  PROVE  /\ scale \in Int /\ scale > 0 /\ scale # 0 /\ scale \in E!Raws
         /\ Absolute(scale) = scale /\ Absolute(scale) <= 2 ^ (Bits - 1) /\ E!Scale = scale
<1>1. scale \in Nat /\ 0 < scale /\ scale <= i128_max
  BY Sizes
<1>2. LET g == 2 ^ (Bits - 1)
      IN g \in Nat /\ g > 1 /\ i128_max = g - 1 /\ E!Raws = (-g) .. (g - 1)
  BY Span
<1> DEFINE g == 2 ^ (Bits - 1)
           s == scale
<1>3. g \in Nat /\ g > 1 /\ s \in Nat /\ 0 < s /\ s <= g - 1 /\ E!Raws = (-g) .. (g - 1)
  BY <1>1, <1>2
<1>4. E!Scale = s
  BY DEF E!Scale, scale
<1> HIDE DEF g, s
<1>5. s \in Int /\ s > 0 /\ s # 0 /\ s \in E!Raws /\ Absolute(s) = s /\ Absolute(s) <= g
  BY <1>3 DEF Absolute
<1> QED
  BY <1>4, <1>5 DEF g, s

\* The stages that divide by magnitudes.
LEMMA EntersMagnitudes ==
  ASSUME IInv, Meaning, Divided, stage = "dispatch", NEW next \in {"wide", "quad"},
         NEW n, NEW d, NEW sign, Enter(next, Absolute(n), Absolute(d), sign),
         n \in Int, d \in Int, d # 0, Absolute(d) <= 2 ^ (Bits - 1), sign \in BOOLEAN,
         n # 0 => (sign <=> (n < 0) # (d < 0)),
         request.op = "mul" => Absolute(d) = scale,
         E!RightAnswer(request) = E!OnGrid(n, d, 1, rounding)
  PROVE  Meaning' /\ UNCHANGED Exact!vars
<1>1. /\ stage' = next /\ numerator' = Absolute(n) /\ divisor' = Absolute(d)
      /\ negative' = sign
      /\ UNCHANGED chosen /\ UNCHANGED request /\ UNCHANGED answer
  BY DEF Enter
<1>2. /\ Asked' /\ Answered' /\ UNCHANGED Exact!vars
      /\ E!RightAnswer(request)' = E!RightAnswer(request) /\ Divided' = Divided
      /\ rounding' = rounding /\ scale' = scale /\ Bits' = Bits
      /\ \A v, w, g, mode : E!OnGrid(v, w, g, mode)' = E!OnGrid(v, w, g, mode)
  BY <1>1, HandsOn
<1>3. ByMagnitude(n, d)'
  BY <1>1, <1>2 DEF ByMagnitude, Absolute
<1>4. (E!RightAnswer(request) = E!OnGrid(n, d, 1, rounding))'
  BY <1>2
<1>5. ByMagnitudes'
  BY <1>1, <1>2, <1>3, <1>4 DEF ByMagnitudes
<1>6. BySigns' /\ Shortened'
  BY <1>1 DEF BySigns, Shortened
<1> QED
  BY <1>2, <1>5, <1>6 DEF Meaning

\* The stages that divide as the machine does.
LEMMA EntersSigned ==
  ASSUME IInv, Meaning, Divided, stage \in {"dispatch", "product", "native"},
         NEW next \in {"product", "native", "machine", "inline", "idiv", "slab", "scale"},
         NEW n, NEW d, Enter(next, n, d, FALSE),
         Signable(n), d \in Int, d # 0, Absolute(d) <= 2 ^ (Bits - 1), CommonRounding,
         E!RightAnswer(request) = E!OnGrid(n, d, 1, rounding),
         next \in {"product", "scale"} => d > 0 /\ d < M,
         next = "slab" => d > 0 /\ fits64(d),
         next = "inline" /\ request.op = "mul" =>
           /\ d > 0
           /\ Remainder(n, d) # 0 => InWord(Quotient(n, d) - 1) /\ InWord(Quotient(n, d) + 1)
  PROVE  Meaning' /\ UNCHANGED Exact!vars
<1>1. /\ stage' = next /\ numerator' = n /\ divisor' = d
      /\ UNCHANGED chosen /\ UNCHANGED request /\ UNCHANGED answer
  BY DEF Enter
<1>2. /\ Asked' /\ Answered' /\ UNCHANGED Exact!vars /\ request' = request
      /\ E!RightAnswer(request)' = E!RightAnswer(request) /\ Divided' = Divided
      /\ rounding' = rounding /\ CommonRounding' = CommonRounding /\ M' = M /\ Bits' = Bits
      /\ \A v, w, g, mode : E!OnGrid(v, w, g, mode)' = E!OnGrid(v, w, g, mode)
  BY <1>1, HandsOn
<1>3. SignedDivision'
  BY <1>1, <1>2 DEF SignedDivision, Signable, i128_max, Absolute
<1>4. (E!RightAnswer(request) = E!OnGrid(numerator, divisor, 1, rounding))'
  BY <1>1, <1>2
<1>5. BySigns' /\ ByMagnitudes'
  BY <1>1, <1>2, <1>3, <1>4 DEF BySigns, ByMagnitudes
<1>6. rem' = Remainder(n, d) /\ quot' = Quotient(n, d)
  BY <1>1 DEF rem, quot
<1>7. Shortened'
  BY <1>1, <1>2, <1>6 DEF Shortened, fits64, InWord, INT_MIN, INT_MAX
<1> QED
  BY <1>2, <1>5, <1>7 DEF Meaning

\* A multiplication is handed to the stage that its factors and its scale allow.
LEMMA MulRight ==
  ASSUME IInv, Meaning, Mul
  PROVE  Meaning' /\ UNCHANGED Exact!vars
<1> DEFINE a == request.a
           b == request.b
           n == a * b
<1>1. stage = "dispatch" /\ request.op = "mul" /\ Divided /\ Product = n
  BY DEF Mul, Ready, Divided, Product
<1>2. Chosen /\ a \in E!Raws /\ b \in E!Raws
  BY <1>1, Asking
<1>3. a \in Int /\ b \in Int
  BY <1>2, MagnitudeBelow
<1>4. /\ scale \in Int /\ scale > 0 /\ scale # 0 /\ Absolute(scale) = scale
      /\ Absolute(scale) <= 2 ^ (Bits - 1) /\ E!Scale = scale
  BY <1>2, ScaleRaw
<1>5. E!RightAnswer(request) = E!OnGrid(n, scale, 1, rounding)
  BY <1>1, <1>4 DEF E!RightAnswer, rounding
<1> HIDE DEF n
<1>6. CASE InlineMul
  <2> DEFINE next == IF MultiplyFits(n, scale) THEN "inline" ELSE "slab"
  <2>1. CommonRounding /\ fits64(a) /\ fits64(b) /\ scale <= INT_MAX
    BY <1>6 DEF InlineMul, NarrowFactors, ScaleFitsIdiv
  <2>2. Signable(n) /\ P!DoubleWord(n, 2 ^ (Word - 1))
    BY <1>2, <1>3, <2>1, NarrowProduct DEF n
  <2>3. /\ P!WordHalves(2 ^ (Word - 1)) /\ scale <= 2 ^ (Word - 1) /\ fits64(scale)
    <3> DEFINE h == 2 ^ (Word - 1)
    <3>1. P!WordHalves(h) /\ h \in Nat /\ INT_MIN = -h /\ INT_MAX = h - 1
      BY <1>2, Sizes
    <3> HIDE DEF h
    <3>2. scale <= h /\ fits64(scale)
      BY <3>1, <2>1, <1>4 DEF fits64, InWord
    <3> QED
      BY <3>1, <3>2 DEF h
  <2>4. MultiplyFits(n, scale) /\ Remainder(n, scale) # 0 =>
          InWord(Quotient(n, scale) - 1) /\ InWord(Quotient(n, scale) + 1)
    BY <2>2, <2>3, <1>4, P!MultiplicationLeavesRoom, SameWord
  <2>5. Enter(next, n, scale, FALSE)
    BY <1>1, <1>6 DEF Mul
  <2>6. /\ next \in {"inline", "slab"}
        /\ next = "inline" => MultiplyFits(n, scale)
    OBVIOUS
  <2> HIDE DEF next
  <2> QED
    BY <1>1, <1>4, <1>5, <2>1, <2>2, <2>3, <2>4, <2>5, <2>6, EntersSigned
<1>7. CASE ~InlineMul /\ NarrowMul
  <2>1. CommonRounding /\ fits64(a) /\ fits64(b) /\ scale < M
    BY <1>7 DEF NarrowMul, NarrowFactors, ScaleFitsWord
  <2>2. Signable(n)
    BY <1>2, <1>3, <2>1, NarrowProduct DEF n
  <2>3. Enter("product", n, scale, FALSE)
    BY <1>1, <1>7 DEF Mul
  <2> QED
    BY <1>1, <1>4, <1>5, <2>1, <2>2, <2>3, EntersSigned
<1>8. CASE ~InlineMul /\ ~NarrowMul
  <2> DEFINE next == IF path = "quad" THEN "quad" ELSE "wide"
             sign == (a < 0) # (b < 0)
  <2>1. FullProduct(Absolute(a), Absolute(b)) = Absolute(n) /\ n \in Int
    BY <1>2, WideProduct DEF n
  <2>2. Enter(next, Absolute(n), Absolute(scale), sign)
    BY <1>1, <1>4, <1>8, <2>1 DEF Mul
  <2>3. n # 0 => (sign <=> (n < 0) # (scale < 0))
    <3>1. n # 0 => (n < 0 <=> (a < 0) # (b < 0))
      BY <1>3, MagnitudesMultiply DEF n
    <3>2. ~(scale < 0)
      BY <1>4
    <3> QED
      BY <2>1, <3>1, <3>2, <1>3, <1>4
  <2>4. next \in {"wide", "quad"} /\ sign \in BOOLEAN
    OBVIOUS
  <2> HIDE DEF next, sign
  <2> QED
    BY <1>1, <1>4, <1>5, <2>1, <2>2, <2>3, <2>4, EntersMagnitudes
<1> QED
  BY <1>6, <1>7, <1>8

\* So is a division, by what its scaled numerator is sure to fit.
LEMMA DivRight ==
  ASSUME IInv, Meaning, Div
  PROVE  Meaning' /\ UNCHANGED Exact!vars
<1> DEFINE a == request.a
           d == request.b
           n == a * scale
<1>1. stage = "dispatch" /\ request.op = "div" /\ Divided /\ d # 0
  BY DEF Div, Ready, Divided, Denominator
<1>2. Chosen /\ a \in E!Raws /\ d \in E!Raws
  BY <1>1, Asking
<1>3. a \in Int /\ d \in Int /\ Absolute(d) <= 2 ^ (Bits - 1)
  BY <1>2, MagnitudeBelow
<1>4. /\ scale \in Int /\ scale > 0 /\ scale # 0 /\ Absolute(scale) = scale
      /\ scale \in E!Raws /\ E!Scale = scale
  BY <1>2, ScaleRaw
<1>5. E!RightAnswer(request) = E!OnGrid(n, d, 1, rounding)
  BY <1>1, <1>4 DEF E!RightAnswer, rounding
<1> HIDE DEF n
<1>6. CASE NarrowDiv
  <2> DEFINE next == IF rounding = "toward_zero" THEN "machine" ELSE "native"
  <2>1. CommonRounding /\ (a + (i128_max \div scale)) % MM <= 2 * (i128_max \div scale)
    BY <1>6 DEF NarrowDiv, DivBound
  <2>2. Signable(n)
    <3>1. a \in i128_min .. i128_max
      BY <1>1 DEF IInv, Representable
    <3> QED
      BY <3>1, <1>2, <2>1, ScaledSignable DEF n
  <2>3. Enter(next, n, d, FALSE)
    BY <1>6 DEF Div, n
  <2>4. next \in {"machine", "native"}
    OBVIOUS
  <2> HIDE DEF next
  <2> QED
    BY <1>1, <1>3, <1>5, <2>1, <2>2, <2>3, <2>4, EntersSigned
<1>7. CASE ~NarrowDiv
  <2> DEFINE next == IF path = "quad" THEN "quad" ELSE "wide"
             sign == (a < 0) # (d < 0)
  <2>1. FullProduct(Absolute(a), scale) = Absolute(n) /\ n \in Int
    BY <1>2, <1>4, WideProduct DEF n
  <2>2. Enter(next, Absolute(n), Absolute(d), sign)
    BY <1>7, <2>1 DEF Div
  <2>3. n # 0 => (sign <=> (n < 0) # (d < 0))
    <3>1. n # 0 => (n < 0 <=> (a < 0) # (scale < 0))
      BY <1>3, <1>4, MagnitudesMultiply DEF n
    <3>2. ~(scale < 0)
      BY <1>4
    <3> QED
      BY <2>1, <3>1, <3>2, <1>3, <1>4
  <2>4. next \in {"wide", "quad"} /\ sign \in BOOLEAN
    OBVIOUS
  <2> HIDE DEF next, sign
  <2> QED
    BY <1>1, <1>3, <1>5, <2>1, <2>2, <2>3, <2>4, EntersMagnitudes
<1> QED
  BY <1>6, <1>7

\* And a multiplication with a division after it.
LEMMA MulDivRight ==
  ASSUME IInv, Meaning, MulDiv
  PROVE  Meaning' /\ UNCHANGED Exact!vars
<1> DEFINE a == request.a
           b == request.b
           d == request.c
           n == a * b
<1>1. stage = "dispatch" /\ request.op = "mul_div" /\ Divided /\ d # 0 /\ Product = n
  BY DEF MulDiv, Ready, Divided, Denominator, Product
<1>2. Chosen /\ a \in E!Raws /\ b \in E!Raws /\ d \in E!Raws
  BY <1>1, Asking
<1>3. a \in Int /\ b \in Int /\ d \in Int /\ Absolute(d) <= 2 ^ (Bits - 1)
  BY <1>2, MagnitudeBelow
<1>4. E!RightAnswer(request) = E!OnGrid(n, d, 1, rounding)
  BY <1>1 DEF E!RightAnswer, rounding
<1> HIDE DEF n
<1>5. CASE InlineMulDiv \/ NarrowMulDiv
  <2> DEFINE next == IF InlineMulDiv THEN "inline" ELSE "native"
  <2>1. CommonRounding /\ fits64(a) /\ fits64(b)
    BY <1>5 DEF InlineMulDiv, NarrowMulDiv, NarrowFactors
  <2>2. Signable(n)
    BY <1>2, <1>3, <2>1, NarrowProduct DEF n
  <2>3. Enter(next, n, d, FALSE)
    BY <1>1, <1>5 DEF MulDiv
  <2>4. next \in {"inline", "native"}
    OBVIOUS
  <2> HIDE DEF next
  <2> QED
    BY <1>1, <1>3, <1>4, <2>1, <2>2, <2>3, <2>4, EntersSigned
<1>6. CASE ~InlineMulDiv /\ ~NarrowMulDiv
  <2> DEFINE next == IF path = "quad" THEN "quad" ELSE "wide"
             sign == (a < 0) # ((b < 0) # (d < 0))
  <2>1. FullProduct(Absolute(a), Absolute(b)) = Absolute(n) /\ n \in Int
    BY <1>2, WideProduct DEF n
  <2>2. Enter(next, Absolute(n), Absolute(d), sign)
    BY <1>6, <2>1 DEF MulDiv
  <2>3. n # 0 => (sign <=> (n < 0) # (d < 0))
    <3>1. n # 0 => (n < 0 <=> (a < 0) # (b < 0))
      BY <1>3, MagnitudesMultiply DEF n
    <3> QED
      BY <2>1, <3>1, <1>3
  <2>4. next \in {"wide", "quad"} /\ sign \in BOOLEAN
    OBVIOUS
  <2> HIDE DEF next, sign
  <2> QED
    BY <1>1, <1>3, <1>4, <2>1, <2>2, <2>3, <2>4, EntersMagnitudes
<1> QED
  BY <1>5, <1>6

\* A division that the machine tests is handed to the one its test allows.
LEMMA NativeRight ==
  ASSUME IInv, Meaning, DivideProduct \/ DivideNative
  PROVE  Meaning' /\ UNCHANGED Exact!vars
<1>1. stage \in {"product", "native"}
  BY DEF DivideProduct, DivideNative
<1>2. /\ Divided /\ SignedDivision
      /\ E!RightAnswer(request) = E!OnGrid(numerator, divisor, 1, rounding)
  BY <1>1 DEF Meaning, BySigns
<1>3. /\ Signable(numerator) /\ divisor \in Int /\ divisor # 0
      /\ Absolute(divisor) <= 2 ^ (Bits - 1) /\ CommonRounding
  BY <1>2 DEF SignedDivision
<1>4. CASE DivideProduct
  <2> DEFINE next == IF QuotientFits(numerator, Wrap(scale, Word)) THEN "native" ELSE "scale"
  <2>1. stage = "product" /\ Enter(next, numerator, divisor, FALSE)
    BY <1>4 DEF DivideProduct
  <2>2. divisor > 0 /\ divisor < M
    BY <2>1 DEF Meaning, Shortened
  <2>3. next \in {"native", "scale"}
    OBVIOUS
  <2> HIDE DEF next
  <2> QED
    BY <1>1, <1>2, <1>3, <2>1, <2>2, <2>3, EntersSigned
<1>5. CASE DivideNative
  <2> DEFINE next == IF fits64(divisor) /\ QuotientFits(numerator, divisor)
                       THEN "idiv" ELSE "machine"
  <2>1. Enter(next, numerator, divisor, FALSE)
    BY <1>5 DEF DivideNative
  <2>2. next \in {"idiv", "machine"}
    OBVIOUS
  <2> HIDE DEF next
  <2> QED
    BY <1>1, <1>2, <1>3, <2>1, <2>2, EntersSigned
<1> QED
  BY <1>4, <1>5

-----------------------------------------------------------------------------
(* Answers of sums and of signed divisions                                 *)

\* Sums and signs.
LEMMA SumsRespond ==
  ASSUME IInv, Meaning, Add \/ Sub \/ Negate \/ Abs
  PROVE  Meaning' /\ Exact!Respond
<1> DEFINE a == request.a
           b == request.b
<1>1. stage = "dispatch"
  BY DEF Add, Sub, Negate, Abs
<1>2. Chosen /\ a \in E!Raws /\ b \in E!Raws
  BY <1>1, Asking
<1>3. CASE Add
  <2>1. Reply(Added(a, b)) /\ E!RightAnswer(request) = E!OnGrid(a + b, 1, 1, "exact")
    BY <1>3 DEF Add, E!RightAnswer
  <2> QED
    BY <1>1, <1>2, <2>1, SumRight, Responds
<1>4. CASE Sub
  <2>1. Reply(Subtracted(a, b)) /\ E!RightAnswer(request) = E!OnGrid(a - b, 1, 1, "exact")
    BY <1>4 DEF Sub, E!RightAnswer
  <2> QED
    BY <1>1, <1>2, <2>1, SumRight, Responds
<1>5. CASE Negate
  <2>1. Reply(Negated(a)) /\ E!RightAnswer(request) = E!OnGrid(-a, 1, 1, "exact")
    BY <1>5 DEF Negate, E!RightAnswer
  <2> QED
    BY <1>1, <1>2, <2>1, SignRight, Responds
<1>6. CASE Abs
  <2>1. /\ Reply(IF a < 0 THEN Negated(a) ELSE R!Value(a))
        /\ E!RightAnswer(request) = E!OnGrid(E!Distance(a, 0, 1), 1, 1, "exact")
    BY <1>6 DEF Abs, E!RightAnswer
  <2> QED
    BY <1>1, <1>2, <2>1, SignRight, Responds
<1> QED
  BY <1>3, <1>4, <1>5, <1>6

\* The divisions by one machine instruction, or by the compiler's.
LEMMA SignedResponds ==
  ASSUME IInv, Meaning,
         \/ InlineMultiply \/ InlineMulDivide \/ InlineSlab
         \/ DivideScale \/ DivideWord \/ DivideMachine
  PROVE  Meaning' /\ Exact!Respond
<1>1. /\ stage \in {"inline", "slab", "scale", "idiv", "machine"}
      /\ stage \notin {"idle", "answered"}
  BY DEF InlineMultiply, InlineMulDivide, InlineSlab, DivideScale, DivideWord, DivideMachine
<1>2. /\ Chosen /\ SignedDivision
      /\ E!RightAnswer(request) = E!OnGrid(numerator, divisor, 1, rounding)
  BY <1>1 DEF IInv, Meaning, BySigns
<1>3. stage \in {"inline", "idiv"} => fits64(divisor) /\ InWord(quot)
  BY DEF IInv, Loaded
<1>4. CASE InlineMultiply
  <2> DEFINE adj == IF rounding = "nearest_even" /\ rem # 0
                      THEN W!NearestScaledAdj(quot, rem, divisor) ELSE 0
             reply == R!Value(Wrap(quot + adj, Word))
  <2>1. stage = "inline" /\ request.op = "mul" /\ Reply(reply)
    BY <1>4 DEF InlineMultiply
  <2>2. divisor > 0 /\ (rem # 0 => InWord(quot - 1) /\ InWord(quot + 1))
    BY <2>1 DEF Meaning, Shortened
  <2>3. reply = E!OnGrid(numerator, divisor, 1, rounding)
    BY <1>2, <1>3, <2>1, <2>2, InlineMultiplyRight
  <2> HIDE DEF reply
  <2> QED
    BY <1>1, <1>2, <2>1, <2>3, Responds
<1>5. CASE InlineMulDivide
  <2> DEFINE adj == IF rounding = "nearest_even" /\ rem # 0
                      THEN W!NearestAdj(quot, rem, divisor, OppositeSigns) ELSE 0
             reply == R!Value(RoundWideQuotient(quot, adj))
  <2>1. stage = "inline" /\ Reply(reply)
    BY <1>5 DEF InlineMulDivide
  <2>2. reply = E!OnGrid(numerator, divisor, 1, rounding)
    BY <1>2, <1>3, <2>1, InlineMulDivideRight
  <2> HIDE DEF reply
  <2> QED
    BY <1>1, <1>2, <2>1, <2>2, Responds
<1>6. CASE InlineSlab
  <2> DEFINE quotient == DivideByWord(Absolute(numerator), divisor)
             up == /\ rounding = "nearest_even" /\ quotient.r # 0
                   /\ W!NearestEvenInc(quotient.q % M, quotient.r, divisor)
             magnitude == (quotient.q + R!Indicator(up)) % MM
             reply == R!Value(Wrap(IF numerator < 0 THEN -magnitude ELSE magnitude, Bits))
  <2>1. stage = "slab" /\ Reply(reply)
    BY <1>6 DEF InlineSlab
  <2>2. divisor > 0 /\ fits64(divisor)
    BY <2>1 DEF Meaning, Shortened
  <2>3. reply = E!OnGrid(numerator, divisor, 1, rounding)
    BY <1>2, <2>2, SlabRight
  <2> HIDE DEF reply
  <2> QED
    BY <1>1, <1>2, <2>1, <2>3, Responds
<1>7. CASE DivideScale
  <2> DEFINE quotient == Divide128(Absolute(numerator), divisor, TRUE)
             up == rounding = "nearest_even"
                   /\ R!NearestEvenIncrement(quotient.q, quotient.r, divisor)
             magnitude == (quotient.q + R!Indicator(up)) % MM
             reply == R!Value(Wrap(IF numerator < 0 THEN -magnitude ELSE magnitude, Bits))
  <2>1. stage = "scale" /\ Reply(reply)
    BY <1>7 DEF DivideScale
  <2>2. divisor > 0 /\ divisor < M
    BY <2>1 DEF Meaning, Shortened
  <2>3. reply = E!OnGrid(numerator, divisor, 1, rounding)
    BY <1>2, <2>2, ScaleRight
  <2> HIDE DEF reply
  <2> QED
    BY <1>1, <1>2, <2>1, <2>3, Responds
<1>8. CASE DivideWord
  <2> DEFINE adj == IF rounding = "toward_zero" \/ rem = 0 THEN 0
                    ELSE W!NearestAdjustment(quot, rem, divisor, OppositeSigns)
             reply == R!Value(Wrap(quot + adj, Bits))
  <2>1. stage = "idiv" /\ Reply(reply)
    BY <1>8 DEF DivideWord
  <2>2. reply = E!OnGrid(numerator, divisor, 1, rounding)
    BY <1>2, <1>3, <2>1, DivideWordRight
  <2> HIDE DEF reply
  <2> QED
    BY <1>1, <1>2, <2>1, <2>2, Responds
<1>9. CASE DivideMachine
  <2> DEFINE up == /\ rounding # "toward_zero" /\ rem # 0
                   /\ R!NearestEvenIncrement(quot % MM, Absolute(rem), Absolute(divisor))
             reply == R!Value(Wrap(quot + (IF ~up THEN 0 ELSE IF OppositeSigns THEN -1 ELSE 1),
                                   Bits))
  <2>1. Reply(reply)
    BY <1>9 DEF DivideMachine
  <2>2. reply = E!OnGrid(numerator, divisor, 1, rounding)
    BY <1>2, MachineRight
  <2> HIDE DEF reply
  <2> QED
    BY <1>1, <1>2, <2>1, <2>2, Responds
<1> QED
  BY <1>4, <1>5, <1>6, <1>7, <1>8, <1>9

-----------------------------------------------------------------------------
(* Calls and returns                                                       *)

\* A call is one ExactArithmetic admits.
LEMMA CallRight ==
  ASSUME IInv, Meaning, Call
  PROVE  Meaning' /\ Exact!Call
<1>1. stage = "idle" /\ stage' = "dispatch" /\ UNCHANGED chosen /\ UNCHANGED answer
  BY DEF Call
<1>2. request = E!NoRequest /\ answer = E!NoAnswer
  BY <1>1 DEF Meaning, Asked, Answered
<1>3. D \in Nat /\ 0 \in E!Raws /\ Lefts \union Rights \union Factors \subseteq E!Raws
  <2>1. D \in Nat
    BY TypesAssumption DEF IInv, Chosen
  <2> DEFINE g == 2 ^ (Bits - 1)
  <2>2. g \in Nat /\ g > 1 /\ E!Raws = (-g) .. (g - 1)
    BY Span DEF IInv
  <2>3. Lefts \union Rights \union Factors \subseteq (-g) .. (g - 1)
    BY OperandsAssumption
  <2> HIDE DEF g
  <2> QED
    BY <2>1, <2>2, <2>3
<1>4. request' \in E!Requests /\ request'.op # "midpoint"
  <2>1. PICK op \in Ops :
     \E a \in IF op = "mul_div" THEN Factors ELSE Lefts,
        b \in CASE op = "mul_div" -> Factors
                [] op \in {"negate", "abs", "quantize"} -> {0}
                [] OTHER -> Rights,
        c \in IF op = "mul_div" THEN Factors ELSE {0},
        decimals \in IF op = "quantize" THEN 0 .. D + 1 ELSE {D},
        mode \in IF op \in {"mul", "div", "mul_div", "quantize"} THEN R!Modes
                                                               ELSE {"exact"} :
       request' = E!Request(op, a, b, c, decimals, mode)
    BY DEF Call
  <2>2. PICK
        a \in IF op = "mul_div" THEN Factors ELSE Lefts,
        b \in CASE op = "mul_div" -> Factors
                [] op \in {"negate", "abs", "quantize"} -> {0}
                [] OTHER -> Rights,
        c \in IF op = "mul_div" THEN Factors ELSE {0},
        decimals \in IF op = "quantize" THEN 0 .. D + 1 ELSE {D},
        mode \in IF op \in {"mul", "div", "mul_div", "quantize"} THEN R!Modes
                                                               ELSE {"exact"} :
       request' = E!Request(op, a, b, c, decimals, mode)
    BY <2>1
  <2>3. a \in E!Raws /\ c \in E!Raws
    BY <1>3
  <2>4. b \in E!Raws
    BY <1>3
  <2>5. decimals \in 0 .. D + 1
    BY <1>3
  <2>6. mode \in E!RoundingModes
    BY DEF R!Modes, E!RoundingModes
  <2>7. op \in E!Ops /\ op # "midpoint"
    BY DEF Ops
  <2> QED
    BY <2>2, <2>3, <2>4, <2>5, <2>6, <2>7 DEF E!Request, E!Requests
<1>5. E!Requests' = E!Requests
  <2>1. Bits' = Bits /\ D' = D
    BY <1>1 DEF chosen, Bits
  <2> QED
    BY <2>1 DEF E!Requests, E!Raws
<1>6. Asked' /\ Answered'
  BY <1>1, <1>2, <1>4, <1>5 DEF Asked, Answered, E!NoAnswer, E!Error
<1>7. BySigns' /\ ByMagnitudes' /\ Shortened'
  BY <1>1 DEF BySigns, ByMagnitudes, Shortened
<1>8. UNCHANGED Exact!type
  BY <1>1 DEF chosen, Exact!type, Bits
<1>9. ~Deviates /\ ~Deviates'
  BY <1>1 DEF Deviates
<1> QED
  BY <1>1, <1>2, <1>4, <1>6, <1>7, <1>8, <1>9, SamePromise DEF Meaning, Exact!Call

\* There is always an answer.
LEMMA AnswerIsOne ==
  ASSUME NEW r \in E!Requests
  PROVE  E!RightAnswer(r) # E!NoAnswer
<1>1. \A n, d, g, mode : E!OnGrid(n, d, g, mode) # E!NoAnswer
  BY DEF E!OnGrid, E!NoAnswer, E!Error, E!Result
<1>2. \A v : E!Result(v) # E!NoAnswer
  BY DEF E!NoAnswer, E!Error, E!Result
<1>3. /\ E!Error("division_by_zero") # E!NoAnswer
      /\ E!Error("invalid_precision") # E!NoAnswer
  BY DEF E!NoAnswer, E!Error
<1>4. r.op \in E!Ops
  BY DEF E!Requests
<1> QED
  BY <1>1, <1>2, <1>3, <1>4 DEF E!RightAnswer, E!Ops

\* After the answer is taken, nothing of the call is left.
LEMMA ReturnRight ==
  ASSUME IInv, Meaning, Return
  PROVE  Meaning' /\ Exact!Return
<1>1. /\ stage = "answered" /\ stage' = "idle"
      /\ request' = E!NoRequest /\ answer' = E!NoAnswer
      /\ UNCHANGED chosen
  BY DEF Return
<1>2. request \in E!Requests /\ (MayDeviate \/ answer = E!RightAnswer(request))
  BY <1>1 DEF Meaning, Asked, Answered
<1>3. (IF Deviates THEN E!RightAnswer(request) ELSE answer) = E!RightAnswer(request)
  BY <1>1, <1>2, DeviatesLate
<1>4. (IF Deviates THEN E!RightAnswer(request) ELSE answer) # E!NoAnswer
  BY <1>2, <1>3, AnswerIsOne
<1>5. ~Deviates'
  BY <1>1 DEF Deviates
<1>6. Meaning'
  BY <1>1 DEF Meaning, Asked, Answered, BySigns, ByMagnitudes, Shortened,
              E!NoAnswer, E!Error, E!NoRequest, E!Request
<1>7. UNCHANGED Exact!type
  BY <1>1 DEF chosen, Exact!type, Bits
<1> QED
  BY <1>1, <1>4, <1>5, <1>6, <1>7, SamePromise DEF Exact!Return

\* A call that is running, or over, is where it was after a stutter.
LEMMA StutterMeaning ==
  ASSUME Meaning, UNCHANGED vars
  PROVE  Meaning' /\ UNCHANGED Exact!vars
<1>1. /\ UNCHANGED chosen /\ UNCHANGED request /\ UNCHANGED <<numerator, divisor>>
      /\ stage' = stage /\ answer' = answer /\ negative' = negative /\ request' = request
      /\ numerator' = numerator /\ divisor' = divisor /\ Bits' = Bits /\ M' = M
      /\ rounding' = rounding /\ CommonRounding' = CommonRounding
  BY DEF vars, kernel, Bits, M, rounding, CommonRounding
<1>2. /\ E!RightAnswer(request)' = E!RightAnswer(request) /\ E!Requests' = E!Requests
      /\ Divided' = Divided /\ scale' = scale
      /\ \A n, d, g, mode : E!OnGrid(n, d, g, mode)' = E!OnGrid(n, d, g, mode)
  BY <1>1, AnswerStays
<1>3. MayDeviate' <=> MayDeviate
  BY <1>1, DeviationStays
<1>4. Asked' /\ Answered'
  BY <1>1, <1>2, <1>3 DEF Meaning, Asked, Answered, E!NoRequest, E!Request, E!NoAnswer, E!Error
<1>5. SignedDivision' = SignedDivision
  BY <1>1 DEF SignedDivision, Signable, i128_max, Absolute
<1>6. (E!RightAnswer(request) = E!OnGrid(numerator, divisor, 1, rounding))'
        <=> E!RightAnswer(request) = E!OnGrid(numerator, divisor, 1, rounding)
  BY <1>1, <1>2
<1>7. BySigns'
  BY <1>1, <1>2, <1>5, <1>6 DEF Meaning, BySigns
<1>8. ByMagnitudes'
  <2>1. SUFFICES ASSUME stage' \in {"wide", "quad"}
                 PROVE  /\ Divided' /\ (request.op = "mul" => divisor = scale)'
                        /\ \E n, d : /\ ByMagnitude(n, d)'
                                     /\ E!RightAnswer(request)'
                                          = E!OnGrid(n, d, 1, rounding)'
    BY DEF ByMagnitudes
  <2>2. /\ Divided /\ (request.op = "mul" => divisor = scale)
        /\ \E n, d : /\ ByMagnitude(n, d)
                     /\ E!RightAnswer(request) = E!OnGrid(n, d, 1, rounding)
    BY <1>1, <2>1 DEF Meaning, ByMagnitudes
  <2>3. \A n, d : ByMagnitude(n, d) => ByMagnitude(n, d)'
    BY <1>1 DEF ByMagnitude, Absolute
  <2>4. \A n, d : E!OnGrid(n, d, 1, rounding)' = E!OnGrid(n, d, 1, rounding)
    BY <1>1, <1>2
  <2> QED
    BY <1>1, <1>2, <2>2, <2>3, <2>4
<1>9. rem' = rem /\ quot' = quot
  BY <1>1 DEF rem, quot
<1>10. Shortened'
  BY <1>1, <1>9 DEF Meaning, Shortened, fits64, InWord, INT_MIN, INT_MAX
<1>11. Deviates' <=> Deviates
  BY <1>1, <1>3, DeviatesLate DEF Deviates, MayDeviate
<1>12. UNCHANGED Exact!type
  BY <1>1 DEF chosen, Exact!type
<1>13. UNCHANGED Exact!vars
  BY <1>1, <1>2, <1>11, <1>12 DEF Exact!vars
<1> QED
  BY <1>4, <1>7, <1>8, <1>10, <1>13 DEF Meaning

\* It starts where ExactArithmetic does.
LEMMA InitMeaning ==
  ASSUME Init
  PROVE  Meaning /\ Exact!Init
<1>1. stage = "idle" /\ request = E!NoRequest /\ answer = E!NoAnswer /\ Chosen
  BY DEF Init, Chosen
<1>2. Meaning
  BY <1>1 DEF Meaning, Asked, Answered, BySigns, ByMagnitudes, Shortened
<1>3. ~Deviates
  BY <1>1 DEF Deviates
<1>4. Bits \in Nat /\ Radix \in Nat /\ D \in Nat
  <2>1. PICK t \in Types : Radix = t[1] /\ D = t[2]
    BY <1>1 DEF Chosen
  <2> QED
    BY <2>1, TypesAssumption, WordAssumption DEF Bits
<1> QED
  BY <1>1, <1>2, <1>3, <1>4, SamePromise DEF Exact!Init

-----------------------------------------------------------------------------
(* A double word is the word of another machine                            *)

\* What FixedArithmeticProof shows of words, said of words twice as long: these
\* are the types of this module.
F == INSTANCE FixedArithmeticProof WITH
  Types <- {<<Bits, Bits, t[1], t[2]>> : t \in Types}, Word <- Bits,
  build <- path, x <- request.a, kmode <- request.rounding,
  result <- answer, retried <- FALSE

\* What it assumes of its types holds of these.
LEMMA FTypes == F!TypesAssumption
<1> SUFFICES ASSUME NEW u \in Types
             PROVE  LET t == <<Bits, Bits, u[1], u[2]>>
                    IN /\ t[1] \in Nat /\ t[1] >= 2
                       /\ t[2] \in Nat /\ t[2] >= 2 /\ (t[2] = t[1] \/ 2 * t[2] <= t[1])
                       /\ t[3] \in Nat /\ t[3] >= 2 /\ t[3] % 2 = 0
                       /\ t[4] \in Nat /\ t[3] ^ t[4] < 2 ^ (t[2] - 1)
  BY DEF F!TypesAssumption
<1> QED
  BY TypesAssumption, WordAssumption DEF Bits

\* So does what it assumes of powers.
LEMMA FPowers == F!PowersAssumption
BY PowersAssumption DEF F!PowersAssumption

\* And this type is one of them.
LEMMA FChosen ==
  ASSUME Chosen
  PROVE  F!Chosen
<1>1. PICK t \in Types : Radix = t[1] /\ D = t[2]
  BY DEF Chosen
<1> DEFINE s == <<Bits, Bits, t[1], t[2]>>
<1>2. s \in {<<Bits, Bits, u[1], u[2]>> : u \in Types}
  OBVIOUS
<1>3. Bits = s[1] /\ Bits = s[2] /\ Radix = s[3] /\ D = s[4]
  BY <1>1
<1> QED
  BY <1>2, <1>3 DEF F!Chosen

\* The answers of the type are those of its word.
LEMMA SameGrid ==
  ASSUME NEW n, NEW d, NEW g, NEW mode
  PROVE  /\ E!Truncate(n, d) = F!W!Truncate(n, d) /\ E!Truncate(n, d) = F!E!Truncate(n, d)
         /\ E!Rounded(n, d, mode) = F!W!Rounded(n, d, mode)
         /\ E!OnGrid(n, d, g, mode) = F!W!OnGrid(n, d, g, mode)
         /\ E!OnGrid(n, d, g, mode) = F!E!OnGrid(n, d, g, mode)
         /\ E!Raws = F!W!Raws /\ E!Raws = F!E!Raws
<1>1. \A a, b : E!Floor(a, b) = F!W!Floor(a, b) /\ E!Floor(a, b) = F!E!Floor(a, b)
  BY DEF E!Floor, F!W!Floor, F!E!Floor
<1>2. \A a, b : E!Ceiling(a, b) = F!W!Ceiling(a, b) /\ E!Ceiling(a, b) = F!E!Ceiling(a, b)
  BY <1>1 DEF E!Ceiling, F!W!Ceiling, F!E!Ceiling
<1>3. \A a, b : E!Truncate(a, b) = F!W!Truncate(a, b) /\ E!Truncate(a, b) = F!E!Truncate(a, b)
  BY <1>1, <1>2 DEF E!Truncate, F!W!Truncate, F!E!Truncate
<1>4. \A a, b, c : /\ E!Distance(a, b, c) = F!W!Distance(a, b, c)
                   /\ E!Distance(a, b, c) = F!E!Distance(a, b, c)
  BY DEF E!Distance, F!W!Distance, F!E!Distance
<1>5. \A a, b : E!NearestTo(a, b) = F!W!NearestTo(a, b) /\ E!NearestTo(a, b) = F!E!NearestTo(a, b)
  BY <1>1, <1>2, <1>4 DEF E!NearestTo, F!W!NearestTo, F!E!NearestTo
<1>6. \A a, b : E!Rounded(a, b, mode) = F!W!Rounded(a, b, mode)
                /\ E!Rounded(a, b, mode) = F!E!Rounded(a, b, mode)
  <2> TAKE a, b
  <2> DEFINE e == E!NearestTo(a, b)
  <2>1. /\ (CHOOSE y \in e : \A z \in e : E!Distance(z, 0, 1) <= E!Distance(y, 0, 1))
             = (CHOOSE y \in e : \A z \in e : F!W!Distance(z, 0, 1) <= F!W!Distance(y, 0, 1))
        /\ (CHOOSE y \in e : \A z \in e : E!Distance(z, 0, 1) <= E!Distance(y, 0, 1))
             = (CHOOSE y \in e : \A z \in e : F!E!Distance(z, 0, 1) <= F!E!Distance(y, 0, 1))
    BY <1>4
  <2> HIDE DEF e
  <2>2. E!Rounded(a, b, mode) = F!W!Rounded(a, b, mode)
    BY <1>1, <1>2, <1>3, <1>5, <2>1 DEF E!Rounded, F!W!Rounded, e
  <2>3. E!Rounded(a, b, mode) = F!E!Rounded(a, b, mode)
    BY <1>1, <1>2, <1>3, <1>5, <2>1 DEF E!Rounded, F!E!Rounded, e
  <2> QED
    BY <2>2, <2>3
<1>7. E!Raws = F!W!Raws /\ E!Raws = F!E!Raws
  BY DEF E!Raws, F!W!Raws, F!E!Raws
<1>8. \A v : /\ E!Result(v) = F!W!Result(v) /\ E!Error(v) = F!W!Error(v)
             /\ E!Result(v) = F!E!Result(v) /\ E!Error(v) = F!E!Error(v)
  BY DEF E!Result, F!W!Result, E!Error, F!W!Error, F!E!Result, F!E!Error
<1>9. E!OnGrid(n, d, g, mode) = F!W!OnGrid(n, d, g, mode)
  BY <1>3, <1>6, <1>7, <1>8 DEF E!OnGrid, F!W!OnGrid
<1>10. E!OnGrid(n, d, g, mode) = F!E!OnGrid(n, d, g, mode)
  BY <1>3, <1>6, <1>7, <1>8 DEF E!OnGrid, F!E!OnGrid
<1> QED
  BY <1>3, <1>6, <1>7, <1>9, <1>10

\* Values and errors, under the names they have there.
LEMMA AnswersThere ==
  ASSUME NEW v, NEW e
  PROVE  /\ R!Value(v) = E!Result(v) /\ R!Failure(e) = E!Error(e)
         /\ F!R!Value(v) = E!Result(v) /\ F!R!Failure(e) = E!Error(e)
         /\ F!W!Value(v) = E!Result(v) /\ F!W!Failure(e) = E!Error(e)
         /\ F!E!Result(v) = E!Result(v) /\ F!E!Error(e) = E!Error(e)
         /\ F!W!Result(v) = E!Result(v) /\ F!W!Error(e) = E!Error(e)
         /\ E!Result(v).error = "none" /\ E!Result(v).value = v /\ E!Error(e).error = e
BY DEF R!Value, E!Result, R!Failure, E!Error, F!R!Value, F!R!Failure, F!W!Value, F!W!Failure,
       F!E!Result, F!E!Error, F!W!Result, F!W!Error

\* Rounding magnitudes of double words is rounding magnitudes of that machine.
LEMMA SameRounding ==
  ASSUME NEW q, NEW r, NEW d, NEW sign, NEW mode, NEW limit
  PROVE  /\ R!RoundMagnitude(q, r, d, sign, mode, limit)
              = F!R!RoundMagnitude(q, r, d, sign, mode, limit)
         /\ R!RoundMagnitude(q, r, d, sign, mode, limit)
              = F!W!RoundMagnitude(q, r, d, sign, mode, limit)
         /\ R!NearestAdjustment(q, r, d, sign) = F!W!NearestAdjustment(q, r, d, sign)
         /\ R!NearestEvenIncrement(q, r, d) <=> F!W!NearestEvenIncrement(q, r, d)
<1>1. F!W!M = 2 ^ Bits
  BY DEF F!W!M
<1>2. \A a, b : R!Tie(a, b) = F!W!Tie(a, b) /\ R!Tie(a, b) = F!R!Tie(a, b)
  BY DEF R!Tie, F!W!Tie, F!R!Tie, R!Indicator, F!W!Indicator, F!R!Indicator
<1>3. \A a, b, c : /\ R!NearestEvenIncrement(a, b, c) = F!W!NearestEvenIncrement(a, b, c)
                   /\ R!NearestEvenIncrement(a, b, c) = F!R!NearestEvenIncrement(a, b, c)
  BY <1>1, <1>2
     DEF R!NearestEvenIncrement, F!W!NearestEvenIncrement, F!R!NearestEvenIncrement
<1>4. /\ R!Increment(q, r, d, sign, mode) = F!W!Increment(q, r, d, sign, mode)
      /\ R!Increment(q, r, d, sign, mode) = F!R!Increment(q, r, d, sign, mode)
  BY <1>1, <1>3 DEF R!Increment, F!W!Increment, F!R!Increment
<1>5. /\ R!RoundMagnitude(q, r, d, sign, mode, limit)
           = F!R!RoundMagnitude(q, r, d, sign, mode, limit)
      /\ R!RoundMagnitude(q, r, d, sign, mode, limit)
           = F!W!RoundMagnitude(q, r, d, sign, mode, limit)
  BY <1>4 DEF R!RoundMagnitude, F!W!RoundMagnitude, F!R!RoundMagnitude,
              R!Failure, F!W!Failure, F!R!Failure, R!Value, F!W!Value, F!R!Value
<1>6. R!NearestAdjustment(q, r, d, sign) = F!W!NearestAdjustment(q, r, d, sign)
  BY <1>1, <1>3
     DEF R!NearestAdjustment, F!W!NearestAdjustment, R!Magnitude, F!W!Magnitude
<1> QED
  BY <1>3, <1>5, <1>6

-----------------------------------------------------------------------------
(* Divisions of magnitudes                                                 *)

\* A rounded magnitude does not pass the limit.
LEMMA MagnitudeWithin ==
  ASSUME NEW q \in Nat, NEW r, NEW d, NEW sign, NEW mode, NEW limit \in Nat
  PROVE  LET result == R!RoundMagnitude(q, r, d, sign, mode, limit)
         IN result.error = "none" => result.value \in 0 .. limit
<1> DEFINE result == R!RoundMagnitude(q, r, d, sign, mode, limit)
<1>1. /\ R!Failure("overflow").error = "overflow" /\ R!Failure("inexact").error = "inexact"
      /\ R!Value(q).value = q /\ R!Value(q + 1).value = q + 1
  BY DEF R!Failure, R!Value
<1>2. \/ result.error \in {"overflow", "inexact"}
      \/ result = R!Value(q) /\ q <= limit
      \/ result = R!Value(q + 1) /\ q <= limit /\ q # limit
  BY <1>1 DEF R!RoundMagnitude
<1>3. R!Value(q).error = "none" /\ R!Value(q + 1).error = "none"
  BY DEF R!Value
<1> HIDE DEF result
<1>4. result.error = "none" => result.value \in 0 .. limit
  <2>1. CASE result.error \in {"overflow", "inexact"}
    BY <2>1
  <2>2. CASE result = R!Value(q) /\ q <= limit
    <3>1. result.value = q
      BY <1>1, <2>2
    <3> QED
      BY <3>1, <2>2
  <2>3. CASE result = R!Value(q + 1) /\ q <= limit /\ q # limit
    <3>1. result.value = q + 1
      BY <1>1, <2>3
    <3> QED
      BY <3>1, <2>3
  <2> QED
    BY <1>2, <2>1, <2>2, <2>3
<1> QED
  BY <1>4 DEF result

\* nat::finish puts the right value on the grid.
LEMMA FinishedRight ==
  ASSUME Chosen, NEW n, NEW d, ByMagnitude(n, d), rounding \in R!Modes
  PROVE  E!OnGrid(n, d, 1, rounding)
           = IF numerator \div MM >= divisor THEN R!Failure("overflow")
             ELSE Finished([q |-> numerator \div divisor, r |-> numerator % divisor],
                           divisor, negative)
<1> DEFINE opposite == (n < 0) # (d < 0)
           q == numerator \div divisor
           k == numerator % divisor
           g == 2 ^ (Bits - 1)
           result(sign) == R!RoundMagnitude(q, k, divisor, sign, rounding, Limit(sign))
           mode == rounding
<1>1. /\ n \in Int /\ d \in Int /\ d # 0 /\ Absolute(d) <= g /\ mode \in F!W!Modes
      /\ numerator = Absolute(n) /\ divisor = Absolute(d) /\ negative \in BOOLEAN
      /\ F!Absolute(d) = Absolute(d)
  <2>1. mode \in F!W!Modes
    BY DEF R!Modes, F!W!Modes
  <2>2. F!Absolute(d) = Absolute(d)
    BY DEF F!Absolute, Absolute
  <2> QED
    BY <2>1, <2>2 DEF ByMagnitude
<1>2. /\ F!R!Magnitude(n) = numerator /\ F!R!Magnitude(d) = divisor
      /\ F!M = MM /\ F!Limit(TRUE) = Limit(TRUE) /\ F!Limit(FALSE) = Limit(FALSE)
  BY <1>1 DEF F!R!Magnitude, Absolute, F!M, MM, F!Limit, Limit, F!INT_MAX, i128_max,
              F!R!Indicator, R!Indicator
<1>3. F!W!OnGrid(n, d, 1, mode)
        = IF numerator \div MM >= divisor THEN F!R!Failure("overflow")
          ELSE F!WithSign(F!R!RoundMagnitude(q, k, divisor, opposite, mode, F!Limit(opposite)),
                          opposite)
  <2> HIDE DEF mode
  <2> QED
    BY <1>1, <1>2, FTypes, FPowers, FChosen, F!GeneralRight
<1>4. E!OnGrid(n, d, 1, mode) = F!W!OnGrid(n, d, 1, mode)
  BY SameGrid
<1>5. F!R!Failure("overflow") = R!Failure("overflow") /\ \A v : F!R!Value(v) = R!Value(v)
  BY Answers, AnswersThere
<1>6. F!R!RoundMagnitude(q, k, divisor, opposite, mode, F!Limit(opposite)) = result(opposite)
  <2>1. F!Limit(opposite) = Limit(opposite)
    <3>1. opposite = TRUE \/ opposite = FALSE
      OBVIOUS
    <3> QED
      BY <3>1, <1>2
  <2>2. \A l : F!R!RoundMagnitude(q, k, divisor, opposite, mode, l)
                 = R!RoundMagnitude(q, k, divisor, opposite, mode, l)
    BY SameRounding
  <2> QED
    BY <2>1, <2>2
<1>7. \A r, sign : F!WithSign(r, sign) = IF r.error = "none" /\ sign THEN R!Value(-r.value) ELSE r
  BY <1>5 DEF F!WithSign
<1>8. E!OnGrid(n, d, 1, mode)
        = IF numerator \div MM >= divisor THEN R!Failure("overflow")
          ELSE IF result(opposite).error = "none" /\ opposite
            THEN R!Value(-(result(opposite).value))
            ELSE result(opposite)
  BY <1>3, <1>4, <1>5, <1>6, <1>7
<1>9. Finished([q |-> q, r |-> k], divisor, negative)
        = IF result(negative).error = "none" /\ negative
            THEN R!Value(Wrap(-(result(negative).value), Bits))
            ELSE result(negative)
  BY DEF Finished, Signed
<1>10. divisor \in Int /\ divisor > 0 /\ numerator \in Nat /\ (n = 0 => numerator = 0)
  BY <1>1 DEF Absolute
<1>11. q \in Nat
  <2>1. q \in Int
    BY <1>10
  <2>2. 0 * divisor <= numerator
    BY <1>10
  <2>3. 0 <= q
    BY <2>2, <1>10, FloorAtLeast
  <2> HIDE DEF q
  <2> QED
    BY <2>1, <2>3
<1>12. /\ g \in Nat /\ g > 1 /\ \A sign \in BOOLEAN : Limit(sign) \in 0 .. g
       /\ E!Raws = (-g) .. (g - 1)
  BY Span
<1> HIDE DEF g
<1>13. \A v \in 0 .. g : Wrap(-v, Bits) = -v
  <2> SUFFICES ASSUME NEW v \in 0 .. g PROVE Wrap(-v, Bits) = -v
    OBVIOUS
  <2>1. -v \in E!Raws
    BY <1>12
  <2> QED
    BY <2>1, WrapKeeps
<1>14. CASE n = 0
  <2>1. q = 0 /\ k = 0
    <3>1. 0 = 0 * divisor + 0 /\ 0 \in Int
      BY <1>10
    <3>2. numerator = 0
      BY <1>10, <1>14
    <3>3. 0 \div divisor = 0 /\ 0 % divisor = 0
      BY <3>1, <1>10, DivUnique
    <3> QED
      BY <3>2, <3>3
  <2>2. \A sign \in BOOLEAN : result(sign) = R!Value(0)
    <3> SUFFICES ASSUME NEW sign \in BOOLEAN PROVE result(sign) = R!Value(0)
      OBVIOUS
    <3>1. Limit(sign) \in 0 .. g
      BY <1>12
    <3> DEFINE l == Limit(sign)
    <3>2. ~(0 > l)
      <4>1. l \in 0 .. g
        BY <3>1
      <4> HIDE DEF l
      <4> QED
        BY <4>1, <1>12
    <3> HIDE DEF q, k
    <3> QED
      BY <2>1, <3>2 DEF R!RoundMagnitude
  <2>3. R!Value(0).error = "none" /\ R!Value(0).value = 0 /\ -0 = 0
    <3>0. \A y, z \in Int : y + z = 0 => -y = z
      OBVIOUS
    <3>1. 0 \in Int /\ 0 + 0 = 0
      OBVIOUS
    <3>2. -0 = 0
      BY <3>0, <3>1, Zenon
    <3> QED
      BY <3>2 DEF R!Value
  <2>4. Wrap(0, Bits) = 0
    BY <1>12, WrapKeeps
  <2>5. numerator \div MM = 0
    <3>1. MM \in Nat /\ MM > 0
      BY Ranges
    <3>2. 0 = 0 * MM + 0 /\ 0 \in Int
      BY <3>1
    <3>3. 0 \div MM = 0
      BY <3>1, <3>2, DivUnique
    <3> QED
      BY <3>3, <1>10, <1>14
  <2>6. ~(numerator \div MM >= divisor)
    BY <2>5, <1>10
  <2>7. opposite \in BOOLEAN
    OBVIOUS
  <2> HIDE DEF result, opposite
  <2>8. E!OnGrid(n, d, 1, mode) = R!Value(0)
    BY <1>8, <2>2, <2>3, <2>6, <2>7
  <2>9. Finished([q |-> q, r |-> k], divisor, negative) = R!Value(0)
    BY <1>1, <1>9, <2>2, <2>3, <2>4
  <2> QED
    BY <2>6, <2>8, <2>9
<1>15. CASE n # 0
  <2>1. opposite = negative
    BY <1>15, <1>1 DEF ByMagnitude
  <2>2. result(negative).error = "none" => result(negative).value \in 0 .. Limit(negative)
    <3> DEFINE l == Limit(negative)
    <3>1. l \in Nat
      <4>1. l \in 0 .. g
        BY <1>1, <1>12
      <4> HIDE DEF l
      <4> QED
        BY <4>1, <1>12
    <3> HIDE DEF q, k
    <3> QED
      BY <3>1, <1>11, MagnitudeWithin
  <2>3. result(negative).error = "none" =>
          Wrap(-(result(negative).value), Bits) = -(result(negative).value)
    <3> DEFINE v == result(negative).value
               l == Limit(negative)
    <3> SUFFICES ASSUME v \in 0 .. l PROVE Wrap(-v, Bits) = -v
      BY <2>2
    <3>0. l \in 0 .. g
      BY <1>1, <1>12
    <3> HIDE DEF v, l
    <3>1. v \in 0 .. g
      BY <3>0, <1>12
    <3> QED
      BY <3>1, <1>13
  <2> HIDE DEF result, opposite
  <2> QED
    BY <1>8, <1>9, <2>1, <2>3
<1> QED
  BY <1>14, <1>15

\* What toward_zero drops needs no remainder.
LEMMA TruncationNeedsNoRemainder ==
  ASSUME NEW q, NEW r, NEW d, NEW sign, rounding = "toward_zero"
  PROVE  Finished([q |-> q, r |-> r], d, sign) = Finished([q |-> q, r |-> 0], d, sign)
<1>1. ~R!Increment(q, r, d, sign, rounding)
  BY DEF R!Increment
<1>2. R!RoundMagnitude(q, r, d, sign, rounding, Limit(sign))
        = R!RoundMagnitude(q, 0, d, sign, rounding, Limit(sign))
  BY <1>1 DEF R!RoundMagnitude
<1> QED
  BY <1>2 DEF Finished

\* The kernels of the portable backend and finish_wide, but for a short division
\* that leaves its estimate.
LEMMA WideRight ==
  ASSUME Chosen, NEW n, NEW d, ByMagnitude(n, d), rounding \in R!Modes,
         ~Misdivided(numerator, divisor)
  PROVE  WideAnswer = E!OnGrid(n, d, 1, rounding)
<1> DEFINE right == [q |-> numerator \div divisor, r |-> numerator % divisor]
           s == Divide128(numerator, divisor, rounding # "toward_zero")
<1>1. E!OnGrid(n, d, 1, rounding)
        = IF numerator \div MM >= divisor THEN R!Failure("overflow")
          ELSE Finished(right, divisor, negative)
  BY FinishedRight
<1>2. MM \in Nat /\ MM > 0 /\ MM = 2 ^ (Bits - 1) + 2 ^ (Bits - 1) /\ 2 ^ (Bits - 1) \in Nat
      /\ 2 ^ (Bits - 1) > 1
  BY Span
<1>3. numerator \in Nat /\ divisor \in Nat /\ divisor > 0 /\ divisor <= 2 ^ (Bits - 1)
  BY DEF ByMagnitude, Absolute
<1>4. CASE numerator \div MM = 0
  <2>1. numerator < MM
    <3>1. numerator = (numerator \div MM) * MM + (numerator % MM) /\ numerator % MM < MM
      BY <1>2, <1>3, DivMod
    <3> QED
      BY <3>1, <1>2, <1>3, <1>4
  <2>2. numerator \in 0 .. MM - 1 /\ divisor \in 1 .. MM - 1
        /\ (rounding # "toward_zero") \in BOOLEAN
    BY <2>1, <1>2, <1>3
  <2>3. /\ s.q = numerator \div divisor /\ s.r \in {0, numerator % divisor}
        /\ rounding # "toward_zero" => s.r = numerator % divisor
    BY <2>2, Divide128Right
  <2>4. Finished(s, divisor, negative) = Finished([q |-> s.q, r |-> s.r], divisor, negative)
    BY DEF Finished
  <2>5. Finished([q |-> s.q, r |-> s.r], divisor, negative) = Finished(right, divisor, negative)
    <3>1. CASE s.r = numerator % divisor
      BY <3>1, <2>3
    <3>2. CASE s.r # numerator % divisor
      <4>1. s.r = 0 /\ rounding = "toward_zero"
        BY <3>2, <2>3
      <4>2. Finished(right, divisor, negative)
              = Finished([q |-> numerator \div divisor, r |-> 0], divisor, negative)
        BY <4>1, TruncationNeedsNoRemainder
      <4> QED
        BY <4>1, <4>2, <2>3
    <3> QED
      BY <3>1, <3>2
  <2>6. WideAnswer = Finished(s, divisor, negative)
    BY <1>4 DEF WideAnswer
  <2>7. ~(numerator \div MM >= divisor)
    BY <1>3, <1>4
  <2> QED
    BY <1>1, <2>4, <2>5, <2>6, <2>7
<1>5. CASE numerator \div MM # 0
  BY <1>1, <1>5 DEF WideAnswer
<1> QED
  BY <1>4, <1>5

\* The 256-bit kernels look for the overflow in the quotient.
LEMMA QuadRight ==
  ASSUME Chosen, NEW n, NEW d, ByMagnitude(n, d), rounding \in R!Modes
  PROVE  (IF numerator \div divisor >= MM THEN R!Failure("overflow")
          ELSE Finished([q |-> numerator \div divisor, r |-> numerator % divisor],
                        divisor, negative))
           = E!OnGrid(n, d, 1, rounding)
<1>1. MM \in Nat /\ MM > 0
  BY Ranges
<1>2. numerator \in Nat /\ divisor \in Nat /\ divisor > 0
  BY DEF ByMagnitude, Absolute
<1>3. numerator \div divisor >= MM <=> numerator \div MM >= divisor
  <2> DEFINE a == numerator  d1 == divisor  m == MM
  <2>1. a \in Nat /\ d1 \in Nat /\ d1 > 0 /\ m \in Nat /\ m > 0
    BY <1>1, <1>2
  <2> HIDE DEF a, d1, m
  <2>2. a \div d1 \in Int /\ a \div m \in Int
    BY <2>1, DivMod
  <2>3. ASSUME a \div d1 >= m PROVE a \div m >= d1
    <3>1. m * d1 <= (a \div d1) * d1 /\ (a \div d1) * d1 <= a
      <4>1. m * d1 <= (a \div d1) * d1
        BY <2>1, <2>2, <2>3, ProductBelow
      <4>2. a = (a \div d1) * d1 + (a % d1) /\ 0 <= a % d1 /\ a % d1 \in Int
        BY <2>1, DivMod
      <4>3. (a \div d1) * d1 \in Int
        BY <2>1, <2>2
      <4> QED
        BY <4>1, <4>2, <4>3, <2>1
    <3>2. d1 * m = m * d1 /\ m * d1 \in Int /\ (a \div d1) * d1 \in Int
      BY <2>1, <2>2
    <3>3. d1 * m <= a
      BY <3>1, <3>2, <2>1
    <3>4. d1 <= a \div m
      BY <3>3, <2>1, FloorAtLeast
    <3> QED
      BY <3>4, <2>1, <2>2
  <2>4. ASSUME a \div m >= d1 PROVE a \div d1 >= m
    <3>1. d1 * m <= (a \div m) * m
      BY <2>1, <2>2, <2>4, ProductBelow
    <3>2. a = (a \div m) * m + (a % m) /\ 0 <= a % m /\ a % m \in Int
      BY <2>1, DivMod
    <3>3. d1 * m = m * d1 /\ m * d1 \in Int /\ (a \div m) * m \in Int
      BY <2>1, <2>2
    <3>4. m * d1 <= a
      BY <3>1, <3>2, <3>3, <2>1
    <3>5. m <= a \div d1
      BY <3>4, <2>1, FloorAtLeast
    <3> QED
      BY <3>5, <2>1, <2>2
  <2>5. a \div d1 >= m <=> a \div m >= d1
    BY <2>3, <2>4
  <2> QED
    BY <2>5 DEF a, d1, m
<1> QED
  BY <1>3, FinishedRight

\* The divisions of magnitudes, but for the deviation of the portable path.
LEMMA MagnitudesRespond ==
  ASSUME IInv, Meaning, FinishWide \/ FinishPortable \/ FinishQuad
  PROVE  Meaning' /\ Exact!Respond
<1>1. stage \in {"wide", "quad"} /\ stage \notin {"idle", "answered"}
  BY DEF FinishWide, FinishPortable, FinishQuad
<1>2. Chosen /\ rounding \in R!Modes
  BY <1>1, Asking
<1>3. Divided /\ (request.op = "mul" => divisor = scale)
  BY <1>1 DEF Meaning, ByMagnitudes
<1>4. PICK n, d : /\ ByMagnitude(n, d)
                  /\ E!RightAnswer(request) = E!OnGrid(n, d, 1, rounding)
  BY <1>1 DEF Meaning, ByMagnitudes
<1>5. numerator \in Nat /\ divisor \in 0 .. MM - 1
  <2> DEFINE g == 2 ^ (Bits - 1)
  <2>1. g \in Nat /\ g > 1 /\ MM = g + g
    BY <1>2, Span
  <2>2. n \in Int /\ d \in Int /\ numerator = Absolute(n) /\ divisor = Absolute(d) /\ divisor <= g
    BY <1>4 DEF ByMagnitude
  <2> HIDE DEF g
  <2> QED
    BY <2>1, <2>2 DEF Absolute
<1>6. CASE FinishQuad
  <2> DEFINE reply == IF numerator \div divisor >= MM THEN R!Failure("overflow")
                      ELSE Finished([q |-> numerator \div divisor, r |-> numerator % divisor],
                                    divisor, negative)
  <2>1. Reply(reply)
    BY <1>6 DEF FinishQuad
  <2>2. reply = E!OnGrid(n, d, 1, rounding)
    BY <1>2, <1>4, QuadRight
  <2> HIDE DEF reply
  <2> QED
    BY <1>1, <1>4, <2>1, <2>2, Responds
<1>7. CASE FinishWide \/ FinishPortable
  <2>1. Reply(WideAnswer)
    BY <1>7 DEF FinishWide, FinishPortable
  <2>2. CASE ~Misdivided(numerator, divisor)
    <3>1. WideAnswer = E!OnGrid(n, d, 1, rounding)
      BY <1>2, <1>4, <2>2, WideRight
    <3> QED
      BY <1>1, <1>4, <2>1, <3>1, Responds
  <2>3. CASE Misdivided(numerator, divisor)
    <3>1. path = "portable" /\ ~(divisor < M)
      BY <1>2, <1>5, <2>3, MisdividesPortably
    <3>2. request.op \in {"mul", "quantize"} => ~ScaleFitsWord
      BY <1>3, <3>1 DEF Divided, ScaleFitsWord
    <3>3. request.op \notin {"remainder", "quantize"}
      BY <1>3 DEF Divided
    <3>4. MayDeviate
      BY <1>3, <2>3, <3>1, <3>2, <3>3 DEF MayDeviate
    <3> QED
      BY <1>1, <2>1, <3>4, Responds
  <2> QED
    BY <2>2, <2>3
<1> QED
  BY <1>6, <1>7

-----------------------------------------------------------------------------
(* Remainders and coarser grids                                            *)

\* The remainder of magnitudes, with the numerator's sign.
LEMMA RemainderRight ==
  ASSUME Chosen, NEW a \in E!Raws, NEW b \in E!Raws, ~Misdivided(Absolute(a), Absolute(b))
  PROVE  LET r == Divide128(Absolute(a), Absolute(b), TRUE).r
         IN (IF b = 0 THEN R!Failure("division_by_zero")
             ELSE IF b = -1 THEN R!Value(0)
             ELSE R!Value(IF a < 0 THEN Wrap(-r, Bits) ELSE Wrap(r, Bits)))
              = IF b = 0 THEN E!Error("division_by_zero") ELSE E!Result(a - b * E!Truncate(a, b))
<1> DEFINE r == Divide128(Absolute(a), Absolute(b), TRUE).r
           v == a - b * E!Truncate(a, b)
<1>1. /\ a \in Int /\ b \in Int /\ Absolute(a) \in 0 .. MM - 1 /\ Absolute(b) \in 0 .. MM - 1
      /\ Absolute(b) <= 2 ^ (Bits - 1)
  BY MagnitudeBelow
<1>2. CASE b = 0
  BY <1>2, Answers
<1>3. CASE b # 0
  <2>1. v = IF b = -1 THEN 0 ELSE Remainder(a, b)
    <3>1. F!RemainderOf(a, b) = a - b * F!E!Truncate(a, b)
      BY <1>1, <1>3, FTypes, FPowers, F!RemainderRight
    <3>2. F!E!Truncate(a, b) = E!Truncate(a, b)
      BY SameGrid
    <3>3. F!Remainder(a, b) = Remainder(a, b)
      BY DEF F!Remainder, Remainder, F!Quotient, Quotient, F!Absolute, Absolute
    <3> QED
      BY <3>1, <3>2, <3>3 DEF F!RemainderOf
  <2>2. r = Absolute(a) % Absolute(b)
    <3>1. Absolute(b) \in 1 .. MM - 1
      <4>1. MM \in Nat
        BY Ranges
      <4> HIDE DEF MM
      <4> QED
        BY <1>1, <1>3, <4>1 DEF Absolute
    <3> QED
      BY <3>1, <1>1, Divide128Right
  <2>3. /\ Absolute(a) % Absolute(b) \in 0 .. Absolute(b) - 1
        /\ Remainder(a, b) = IF a < 0 THEN -r ELSE r
    <3>1. /\ Absolute(Remainder(a, b)) \in 0 .. Absolute(b) - 1
          /\ Absolute(a) % Absolute(b) = Absolute(Remainder(a, b))
          /\ Remainder(a, b) = IF a < 0 THEN -(Absolute(a) % Absolute(b))
                                       ELSE Absolute(a) % Absolute(b)
      BY <1>1, <1>3, DividesMagnitudes
    <3> HIDE DEF r
    <3> QED
      BY <3>1, <2>2
  <2>4. r \in E!Raws /\ -r \in E!Raws
    <3> DEFINE g == 2 ^ (Bits - 1)
    <3>1. g \in Nat /\ E!Raws = (-g) .. (g - 1) /\ Absolute(b) <= g /\ Absolute(b) \in Int
      BY Span, <1>1 DEF Absolute
    <3>2. r \in 0 .. Absolute(b) - 1
      BY <2>2, <2>3
    <3> HIDE DEF g, r
    <3> QED
      BY <3>1, <3>2
  <2>5. Wrap(r, Bits) = r /\ Wrap(-r, Bits) = -r
    BY <2>4, WrapKeeps
  <2> HIDE DEF r, v
  <2>6. (IF b = 0 THEN R!Failure("division_by_zero")
         ELSE IF b = -1 THEN R!Value(0)
         ELSE R!Value(IF a < 0 THEN Wrap(-r, Bits) ELSE Wrap(r, Bits))) = E!Result(v)
    BY <1>3, <2>1, <2>3, <2>5, Answers
  <2> QED
    BY <2>6, <1>3 DEF r, v
<1> QED
  BY <1>2, <1>3

\* A remainder is right wherever its division is.
LEMMA RemainderResponds ==
  ASSUME IInv, Meaning, RemainderOp
  PROVE  Meaning' /\ Exact!Respond
<1> DEFINE a == request.a
           b == request.b
           r == Divide128(Absolute(a), Absolute(b), TRUE).r
           reply == IF b = 0 THEN R!Failure("division_by_zero")
                    ELSE IF b = -1 THEN R!Value(0)
                    ELSE R!Value(IF a < 0 THEN Wrap(-r, Bits) ELSE Wrap(r, Bits))
<1>1. stage = "dispatch" /\ request.op = "remainder" /\ Reply(reply)
  BY DEF RemainderOp
<1>2. Chosen /\ a \in E!Raws /\ b \in E!Raws
  BY <1>1, Asking
<1>3. E!RightAnswer(request)
        = IF b = 0 THEN E!Error("division_by_zero") ELSE E!Result(a - b * E!Truncate(a, b))
  BY <1>1 DEF E!RightAnswer
<1>4. CASE Misdivided(Absolute(a), Absolute(b))
  <2>1. Absolute(a) \in Nat /\ Absolute(b) \in 0 .. MM - 1
    BY <1>2, MagnitudeBelow
  <2>2. path = "portable"
    BY <1>2, <1>4, <2>1, MisdividesPortably
  <2>3. MayDeviate
    BY <1>1, <1>4, <2>2 DEF MayDeviate
  <2> QED
    BY <1>1, <2>3, Responds
<1>5. CASE ~Misdivided(Absolute(a), Absolute(b))
  <2>1. reply = E!RightAnswer(request)
    BY <1>2, <1>3, <1>5, RemainderRight
  <2> QED
    BY <1>1, <2>1, Responds
<1> QED
  BY <1>4, <1>5

\* A coarser grid is a double word, and a word when the scale is one.
LEMMA GridBelow ==
  ASSUME Chosen, request.decimals \in 0 .. D - 1
  PROVE  /\ grid \in Nat /\ grid > 0 /\ grid < 2 ^ (Bits - 1) /\ grid <= scale
         /\ grid \in 1 .. MM - 1 /\ E!Grid(request.decimals) = grid /\ F!grid = grid
<1>1. F!grid = grid /\ F!E!Grid(request.decimals) = E!Grid(request.decimals)
  BY DEF F!grid, grid, F!E!Grid, E!Grid
<1>2. grid \in Nat /\ grid > 0 /\ grid < 2 ^ (Bits - 1) /\ E!Grid(request.decimals) = grid
  BY <1>1, FTypes, FPowers, FChosen, F!GridSize
<1>3. grid \in 1 .. MM - 1
  <2> DEFINE g == 2 ^ (Bits - 1)
  <2>1. g \in Nat /\ MM = g + g /\ grid \in Nat /\ grid > 0 /\ grid < g
    BY <1>2, Span
  <2> HIDE DEF g, grid
  <2> QED
    BY <2>1
<1>4. grid <= scale
  <2>1. PICK t \in Types : Radix = t[1] /\ D = t[2]
    BY DEF Chosen
  <2>2. Radix \in Nat /\ Radix > 0 /\ D \in Nat /\ PowerLaws(Radix, D)
    BY <2>1, TypesAssumption, PowersAssumption DEF PowerLaws
  <2>3. D - request.decimals \in 0 .. D /\ D \in 0 .. D /\ D - request.decimals <= D
    BY <2>2
  <2> QED
    BY <2>2, <2>3, PowersOrder DEF grid, scale
<1> QED
  BY <1>1, <1>2, <1>3, <1>4

\* The value of a product below a double word is its low half.
LEMMA ProductFits ==
  ASSUME Chosen, NEW u \in 0 .. MM - 1, NEW v \in 0 .. MM - 1
  PROVE  LET p == Multiply128(u, v)
         IN /\ u * v \in Nat
            /\ p.hi # 0 <=> u * v >= MM
            /\ (u * v) % MM = p.lo /\ p.lo \in Nat
<1> DEFINE p == Multiply128(u, v)
           hi == p.hi
           lo == p.lo
<1>1. hi \in Nat /\ lo \in 0 .. MM - 1 /\ hi * MM + lo = u * v
  BY ProductRight
<1>2. MM \in Nat /\ MM > 0
  BY Ranges
<1> HIDE DEF hi, lo, MM
<1>3. hi * MM \in Nat /\ (hi # 0 => MM <= hi * MM)
  <2>1. CASE hi = 0
    BY <2>1, <1>2
  <2>2. CASE hi # 0
    BY <2>2, <1>1, <1>2, PositiveProduct
  <2> QED
    BY <2>1, <2>2
<1>4. u * v \in Nat /\ (hi # 0 <=> u * v >= MM)
  <2> DEFINE h == hi * MM
             w == u * v
  <2>1. h \in Nat /\ (hi # 0 => MM <= h) /\ h + lo = w /\ (hi = 0 => h = 0)
    BY <1>1, <1>2, <1>3
  <2> HIDE DEF h, w
  <2>2. w \in Nat /\ (hi # 0 <=> w >= MM)
    BY <2>1, <1>1, <1>2
  <2> QED
    BY <2>2 DEF w
<1>5. (u * v) % MM = lo
  <2> DEFINE w == u * v
  <2>1. w = hi * MM + lo /\ w \in Int
    BY <1>1, <1>4
  <2> HIDE DEF w
  <2>2. w % MM = lo
    BY <2>1, <1>1, <1>2, DivUnique
  <2> QED
    BY <2>2 DEF w
<1> QED
  BY <1>1, <1>4, <1>5 DEF hi, lo

\* The rescaled magnitude is checked for a high half, then against the limit.
LEMMA QuantizeRight ==
  ASSUME Chosen, request.a \in E!Raws, request.decimals \in 0 .. D - 1, rounding \in R!Modes,
         ~Misdivided(Absolute(request.a), grid)
  PROVE  LET sign == request.a < 0
             divided == Divide128(Absolute(request.a), grid, rounding # "toward_zero")
             rounded == R!RoundMagnitude(divided.q, divided.r, grid, sign, rounding, Limit(sign))
             product == Multiply128(rounded.value, grid)
         IN (IF rounded.error # "none" THEN rounded
             ELSE IF product.hi # 0 \/ product.lo > Limit(sign) THEN R!Failure("overflow")
             ELSE Signed(R!Value(product.lo), sign))
              = E!OnGrid(request.a, 1, grid, rounding)
<1> DEFINE a == request.a
           sign == a < 0
           divided == Divide128(Absolute(a), grid, rounding # "toward_zero")
           q == Absolute(a) \div grid
           k == Absolute(a) % grid
           limit == Limit(sign)
           rounded == R!RoundMagnitude(q, k, grid, sign, rounding, limit)
           product == Multiply128(rounded.value, grid)
           g == 2 ^ (Bits - 1)
<1>1. a \in Int /\ Absolute(a) \in Nat /\ Absolute(a) \in 0 .. MM - 1
  BY MagnitudeBelow
<1>2. grid \in Nat /\ grid > 0 /\ grid \in 1 .. MM - 1 /\ F!grid = grid
  BY GridBelow
<1>3. /\ divided.q = q /\ divided.r \in {0, k}
      /\ rounding # "toward_zero" => divided.r = k
  BY <1>1, <1>2, Divide128Right
<1>4. R!RoundMagnitude(divided.q, divided.r, grid, sign, rounding, limit) = rounded
  <2>1. CASE divided.r = k
    BY <2>1, <1>3
  <2>2. CASE divided.r # k
    <3>1. divided.r = 0 /\ rounding = "toward_zero"
      BY <2>2, <1>3
    <3>2. ~R!Increment(q, k, grid, sign, rounding)
      BY <3>1 DEF R!Increment
    <3> QED
      BY <3>1, <3>2, <1>3 DEF R!RoundMagnitude
  <2> QED
    BY <2>1, <2>2
<1>5. F!QuantizeResult = E!OnGrid(a, 1, grid, rounding)
  <2>1. F!E!Raws = E!Raws /\ F!W!Modes = R!Modes
    BY SameGrid DEF F!W!Modes, R!Modes
  <2>2. F!QuantizeResult = F!W!OnGrid(a, 1, grid, rounding)
    BY <2>1, <1>2, FTypes, FPowers, FChosen, F!QuantizeRight DEF rounding
  <2> QED
    BY <2>2, SameGrid
<1>6. g \in Nat /\ g > 1 /\ MM = g + g /\ limit \in 0 .. g /\ E!Raws = (-g) .. (g - 1)
      /\ F!M = MM
  <2>1. sign \in BOOLEAN
    OBVIOUS
  <2>2. F!M = MM
    BY DEF F!M, MM
  <2> HIDE DEF sign
  <2> QED
    BY <2>1, <2>2, Span
<1>7. F!QuantizeResult
        = IF rounded.error # "none" THEN rounded
          ELSE IF \/ F!MulOverflows(rounded.value, grid)
                  \/ (rounded.value * grid) % MM > limit
                 THEN R!Failure("overflow")
          ELSE IF sign THEN R!Value(-((rounded.value * grid) % MM))
                       ELSE R!Value((rounded.value * grid) % MM)
  <2>1. F!R!Magnitude(a) = Absolute(a) /\ F!Limit(sign) = limit
    BY DEF F!R!Magnitude, Absolute, F!Limit, Limit, F!INT_MAX, i128_max, F!R!Indicator,
           R!Indicator
  <2>2. F!R!RoundMagnitude(q, k, grid, sign, rounding, limit) = rounded
    BY SameRounding
  <2>3. F!R!Failure("overflow") = R!Failure("overflow")
        /\ \A v : F!R!Value(v) = R!Value(v) /\ R!Value(v).error = "none" /\ R!Value(v).value = v
    BY Answers, AnswersThere DEF R!Value
  <2>4. F!QuantizeResult
          = IF rounded.error # "none" THEN rounded
            ELSE IF \/ F!MulOverflows(rounded.value, grid)
                    \/ (rounded.value * grid) % MM > limit
                   THEN R!Failure("overflow")
            ELSE F!WithSign(R!Value((rounded.value * grid) % MM), sign)
    <3> HIDE DEF rounded, q, k, limit
    <3> QED
      BY <1>2, <1>6, <2>1, <2>2, <2>3 DEF F!QuantizeResult, rounding, q, k
  <2>5. \A v : F!WithSign(R!Value(v), sign) = IF sign THEN R!Value(-v) ELSE R!Value(v)
    BY <2>3 DEF F!WithSign
  <2> HIDE DEF rounded, limit, sign
  <2> QED
    BY <2>4, <2>5
<1>8. ASSUME rounded.error = "none"
      PROVE  /\ product.hi # 0 <=> F!MulOverflows(rounded.value, grid)
             /\ product.lo = (rounded.value * grid) % MM
             /\ product.lo \in Nat
  <2> DEFINE w == rounded.value
  <2>1. w \in 0 .. limit
    <3>1. q \in Nat
      <4>1. 0 * grid <= Absolute(a)
        BY <1>1, <1>2
      <4>2. 0 <= q /\ q \in Int
        BY <4>1, <1>1, <1>2, FloorAtLeast, DivMod
      <4> HIDE DEF q
      <4> QED
        BY <4>2
    <3>2. limit \in Nat
      <4> HIDE DEF limit, g
      <4> QED
        BY <1>6
    <3> HIDE DEF q, k, limit
    <3> QED
      BY <3>1, <3>2, <1>8, MagnitudeWithin
  <2>2. w \in 0 .. MM - 1 /\ w \in Nat
    <3> HIDE DEF w, limit, g
    <3> QED
      BY <2>1, <1>6
  <2> HIDE DEF w
  <2>3. F!MulOverflows(w, grid) <=> w * grid >= F!M
    BY <2>2, <1>2, FTypes, FPowers, FChosen, F!MulOverflowsRight
  <2>4. LET p == Multiply128(w, grid)
        IN /\ p.hi # 0 <=> w * grid >= MM
           /\ (w * grid) % MM = p.lo /\ p.lo \in Nat
    BY <2>2, <1>2, ProductFits
  <2>5. product = Multiply128(w, grid)
    BY DEF w
  <2> HIDE DEF product
  <2> QED
    BY <2>3, <2>4, <2>5, <1>6 DEF w
<1>9. \A v \in 0 .. limit : /\ Signed(R!Value(v), sign)
                                = IF sign THEN R!Value(-v) ELSE R!Value(v)
  <2> SUFFICES ASSUME NEW v \in 0 .. limit
               PROVE  Signed(R!Value(v), sign) = IF sign THEN R!Value(-v) ELSE R!Value(v)
    OBVIOUS
  <2>1. -v \in E!Raws
    <3> HIDE DEF limit, g
    <3> QED
      BY <1>6
  <2>2. Wrap(-v, Bits) = -v
    BY <2>1, WrapKeeps
  <2> QED
    BY <2>2 DEF Signed, R!Value
<1>10. (IF rounded.error # "none" THEN rounded
        ELSE IF product.hi # 0 \/ product.lo > limit THEN R!Failure("overflow")
        ELSE Signed(R!Value(product.lo), sign)) = F!QuantizeResult
  <2>1. limit \in Nat
    <3> HIDE DEF limit, g
    <3> QED
      BY <1>6
  <2>2. CASE rounded.error # "none"
    BY <2>2, <1>7
  <2>3. CASE rounded.error = "none"
    <3> DEFINE lo == product.lo
               low == (rounded.value * grid) % MM
    <3>1. (product.hi # 0 <=> F!MulOverflows(rounded.value, grid)) /\ lo = low /\ lo \in Nat
      BY <2>3, <1>8
    <3>2. ~(lo > limit) => lo \in 0 .. limit
      <4> HIDE DEF lo, limit
      <4> QED
        BY <2>1, <3>1
    <3>3. lo \in 0 .. limit => Signed(R!Value(lo), sign) = IF sign THEN R!Value(-lo) ELSE R!Value(lo)
      BY <1>9
    <3>4. F!QuantizeResult
            = IF F!MulOverflows(rounded.value, grid) \/ low > limit THEN R!Failure("overflow")
              ELSE IF sign THEN R!Value(-low) ELSE R!Value(low)
      BY <2>3, <1>7
    <3> HIDE DEF lo, low, limit, sign, rounded
    <3>5. (IF product.hi # 0 \/ lo > limit THEN R!Failure("overflow")
           ELSE Signed(R!Value(lo), sign)) = F!QuantizeResult
      BY <3>1, <3>2, <3>3, <3>4
    <3> QED
      BY <2>3, <3>5 DEF lo
  <2> QED
    BY <2>2, <2>3
<1> HIDE DEF rounded
<1> QED
  BY <1>4, <1>5, <1>10

\* So is a value on a coarser grid.
LEMMA QuantizeResponds ==
  ASSUME IInv, Meaning, Quantize
  PROVE  Meaning' /\ Exact!Respond
<1> DEFINE a == request.a
           sign == a < 0
           divided == Divide128(Absolute(a), grid, rounding # "toward_zero")
           rounded == R!RoundMagnitude(divided.q, divided.r, grid, sign, rounding, Limit(sign))
           product == Multiply128(rounded.value, grid)
           reply == IF rounded.error # "none" THEN rounded
                    ELSE IF product.hi # 0 \/ product.lo > Limit(sign) THEN R!Failure("overflow")
                    ELSE Signed(R!Value(product.lo), sign)
<1>1. stage = "dispatch" /\ request.op = "quantize" /\ request.decimals < D /\ Reply(reply)
  BY DEF Quantize
<1>2. Chosen /\ a \in E!Raws /\ rounding \in R!Modes /\ request.decimals \in 0 .. D + 1
  BY <1>1, Asking
<1>3. D \in Nat
  BY <1>2, TypesAssumption DEF Chosen
<1>4. request.decimals \in 0 .. D - 1 /\ ~(request.decimals > D)
  BY <1>1, <1>2, <1>3
<1>5. grid \in 1 .. MM - 1 /\ grid <= scale /\ E!Grid(request.decimals) = grid
  BY <1>2, <1>4, GridBelow
<1>6. E!RightAnswer(request) = E!OnGrid(a, 1, grid, rounding)
  BY <1>1, <1>4, <1>5 DEF E!RightAnswer, rounding
<1>7. CASE Misdivided(Absolute(a), grid)
  <2>1. Absolute(a) \in Nat /\ MM \in Int /\ M \in Int /\ scale \in Int
    <3>1. MM \in Int /\ M \in Int
      BY <1>2, Ranges
    <3>2. scale \in Int
      BY <1>2, ScaleRaw
    <3> QED
      BY <1>2, <3>1, <3>2, MagnitudeBelow
  <2>2. path = "portable" /\ ~(grid < M)
    BY <1>2, <1>5, <1>7, <2>1, MisdividesPortably
  <2>3. ~ScaleFitsWord
    BY <1>5, <2>1, <2>2 DEF ScaleFitsWord
  <2>4. MayDeviate
    BY <1>1, <1>7, <2>2, <2>3 DEF MayDeviate
  <2> QED
    BY <1>1, <2>4, Responds
<1>8. CASE ~Misdivided(Absolute(a), grid)
  <2>1. reply = E!RightAnswer(request)
    BY <1>2, <1>4, <1>6, <1>8, QuantizeRight
  <2> QED
    BY <1>1, <2>1, Responds
<1> QED
  BY <1>7, <1>8

\* No digit to drop, too many of them, or nothing to divide by.
LEMMA PlainResponds ==
  ASSUME IInv, Meaning, QuantizeSame \/ InvalidPrecision \/ RejectZeroDivisor
  PROVE  Meaning' /\ Exact!Respond
<1>1. stage = "dispatch"
  BY DEF QuantizeSame, InvalidPrecision, RejectZeroDivisor
<1>2. Chosen /\ request.a \in E!Raws /\ rounding \in R!Modes
  BY <1>1, Asking
<1>3. CASE QuantizeSame
  <2> DEFINE a == request.a
  <2>1. request.op = "quantize" /\ request.decimals = D /\ Reply(R!Value(a)) /\ D \in Nat
    BY <1>2, <1>3, TypesAssumption DEF QuantizeSame, Chosen
  <2>2. E!Grid(D) = 1
    <3>1. F!E!Grid(D) = E!Grid(D)
      BY DEF F!E!Grid, E!Grid
    <3> QED
      BY <3>1, <1>2, FTypes, FPowers, FChosen, F!GridSize
  <2>3. E!RightAnswer(request) = E!OnGrid(a, 1, 1, rounding)
    BY <2>1, <2>2 DEF E!RightAnswer, rounding
  <2>4. a \in Int /\ a \in E!Raws
    BY <1>2, MagnitudeBelow
  <2>5. E!OnGrid(a, 1, 1, rounding) = E!Result(a)
    <3>1. rounding \in F!W!Modes
      BY <1>2 DEF R!Modes, F!W!Modes
    <3>2. F!E!OnGrid(a, 1, 1, rounding)
            = IF a \in F!E!Raws THEN F!E!Result(a) ELSE F!E!Error("overflow")
      BY <2>4, <3>1, FTypes, FPowers, F!WholeAnswer
    <3> QED
      BY <2>4, <3>2, SameGrid, Answers, AnswersThere
  <2> QED
    BY <1>1, <2>1, <2>3, <2>5, Answers, Responds
<1>4. CASE InvalidPrecision
  <2>1. E!RightAnswer(request) = E!Error("invalid_precision")
    BY <1>4 DEF InvalidPrecision, E!RightAnswer
  <2>2. Reply(R!Failure("invalid_precision"))
    BY <1>4 DEF InvalidPrecision
  <2> QED
    BY <1>1, <2>1, <2>2, Answers, Responds
<1>5. CASE RejectZeroDivisor
  <2>1. Divided /\ Denominator = 0 /\ Reply(R!Failure("division_by_zero"))
    BY <1>5 DEF RejectZeroDivisor
  <2>2. scale # 0
    BY <1>2, ScaleRaw
  <2>3. \/ request.op = "div" /\ request.b = 0
        \/ request.op = "mul_div" /\ request.c = 0
    BY <2>1, <2>2 DEF Divided, Denominator
  <2>4. \A n, g, mode : E!OnGrid(n, 0, g, mode) = E!Error("division_by_zero")
    BY DEF E!OnGrid
  <2>5. E!RightAnswer(request) = E!Error("division_by_zero")
    BY <2>3, <2>4 DEF E!RightAnswer
  <2> QED
    BY <1>1, <2>1, <2>5, Answers, Responds
<1> QED
  BY <1>3, <1>4, <1>5

-----------------------------------------------------------------------------
(* Every answer of a compiled path is the right one                        *)

\* Every step of a compiled path keeps what the stages mean, and is a step of
\* ExactArithmetic or a stutter.
LEMMA NextMeaning ==
  ASSUME IInv, Meaning, Compiled, [ArithmeticNext]_vars
  PROVE  Meaning' /\ Compiled' /\ [Exact!Next]_(Exact!vars)
<1>1. ~ConstexprWork
  BY DEF Compiled, ConstexprWork, ConstexprMul, ConstexprDiv, ConstexprMulDiv,
         ConstexprQuantize, ConstexprRemainder, Evaluates
<1>2. CASE Add \/ Sub \/ Negate \/ Abs
  BY <1>2, SumsRespond DEF Exact!Next, Compiled, Add, Sub, Negate, Abs, Reply, chosen
<1>3. CASE RemainderOp \/ Quantize
  BY <1>3, RemainderResponds, QuantizeResponds
     DEF Exact!Next, Compiled, RemainderOp, Quantize, Reply, chosen
<1>4. CASE QuantizeSame \/ InvalidPrecision \/ RejectZeroDivisor
  BY <1>4, PlainResponds
     DEF Exact!Next, Compiled, QuantizeSame, InvalidPrecision, RejectZeroDivisor, Reply, chosen
<1>5. CASE Mul \/ Div \/ MulDiv
  BY <1>5, MulRight, DivRight, MulDivRight DEF Compiled, Mul, Div, MulDiv, Enter, chosen
<1>6. CASE DivideProduct \/ DivideNative
  BY <1>6, NativeRight DEF Compiled, DivideProduct, DivideNative, Enter, chosen
<1>7. CASE \/ InlineMultiply \/ InlineMulDivide \/ InlineSlab
           \/ DivideScale \/ DivideWord \/ DivideMachine
  BY <1>7, SignedResponds
     DEF Exact!Next, Compiled, InlineMultiply, InlineMulDivide, InlineSlab, DivideScale,
         DivideWord, DivideMachine, Reply, chosen
<1>8. CASE FinishWide \/ FinishPortable \/ FinishQuad
  BY <1>8, MagnitudesRespond
     DEF Exact!Next, Compiled, FinishWide, FinishPortable, FinishQuad, Reply, chosen
<1>9. CASE Call
  BY <1>9, CallRight DEF Exact!Next, Compiled, Call, chosen
<1>10. CASE Return
  BY <1>10, ReturnRight DEF Exact!Next, Compiled, Return, chosen
<1>11. CASE UNCHANGED vars
  BY <1>11, StutterMeaning DEF Compiled, vars, chosen
<1> QED
  BY <1>1, <1>2, <1>3, <1>4, <1>5, <1>6, <1>7, <1>8, <1>9, <1>10, <1>11
     DEF ArithmeticNext, Next, Work

\* On the inline, native, portable and four-limb paths every operation answers
\* what ExactArithmetic says, once, whatever the word, the type and the
\* operands, but for the portable path's division by two limbs.
THEOREM CompiledExact ==
  ArithmeticSpec /\ Compiled => Exact!Init /\ [][Exact!Next]_(Exact!vars)
<1>1. Init => Meaning /\ Exact!Init
  BY InitMeaning
<1>2. IInv /\ Meaning /\ Compiled /\ [ArithmeticNext]_vars
        => Meaning' /\ Compiled' /\ [Exact!Next]_(Exact!vars)
  BY NextMeaning
<1> QED
  BY <1>1, <1>2, DoubleInvariant, PTL DEF ArithmeticSpec

\* Where the scale is one word, and on every path that is not portable, an
\* answer is the right one.
THEOREM CompiledAnswers ==
  ArithmeticSpec /\ Compiled => [](path # "portable" => AnswerExact)
<1>1. Init => Meaning
  BY InitMeaning
<1>2. IInv /\ Meaning /\ Compiled /\ [ArithmeticNext]_vars => Meaning' /\ Compiled'
  BY NextMeaning
<1>3. Meaning => (path # "portable" => AnswerExact)
  BY DEF Meaning, Answered, MayDeviate, AnswerExact
<1> QED
  BY <1>1, <1>2, <1>3, DoubleInvariant, PTL DEF ArithmeticSpec
=============================================================================
