------------------------- MODULE FixedArithmeticProof -------------------------
(***************************************************************************)
(* Why FixedArithmetic is right for words and types of any size.  First,   *)
(* no machine division traps and the inline multiplication may add its     *)
(* rounding unchecked: whatever a stage divides was made of two values of  *)
(* the type, and passed the test MachineWordProof is about.  Then every    *)
(* answer is ExactArithmetic's: what a stage is about to deliver is the    *)
(* answer to the request, in the word or in the type, all along the way.   *)
(***************************************************************************)
EXTENDS FixedArithmetic, IntegerLemmas

W == INSTANCE MachineWordProof

-----------------------------------------------------------------------------
(* The invariant *)

\* The word and the type are of those the module is about.
Chosen == \E t \in Types : Word = t[1] /\ Bits = t[2] /\ Radix = t[3] /\ D = t[4]

\* A call is made with values of the type.
Representable ==
  stage # "idle" => /\ request.a \in E!Raws
                    /\ request.b \in E!Raws
                    /\ request.c \in E!Raws

Dividing == stage \in {"inline", "kernel", "signed", "general", "unchecked"}

\* What a stage divides is the call's, also when narrow_checked reruns it.
Loaded ==
  /\ Dividing => Divided
  /\ stage = "quantize" => ~Divided
  /\ Dividing \/ (stage = "narrow" /\ Divided) =>
       numerator = Numerator /\ divisor = Denominator /\ divisor # 0

\* A machine division has passed its test, or the caller vouched for it.
Tested ==
  /\ stage = "inline" => IF request.op = "mul" THEN MultiplyFits(numerator, divisor)
                                               ELSE QuotientFits(numerator, divisor)
  /\ stage = "signed" => QuotientFits(numerator, divisor)
  /\ stage = "unchecked" => InWord(Quotient(numerator, divisor))

IInv == Chosen /\ Representable /\ Loaded /\ Tested

-----------------------------------------------------------------------------
(* The numbers involved *)

\* Half a word, half a type's range and the scale.
LEMMA Sizes ==
  ASSUME Chosen
  PROVE  LET h == 2 ^ (Word - 1)
             g == 2 ^ (Bits - 1)
         IN /\ W!WordHalves(h) /\ h \in Nat
            /\ g \in Nat /\ 0 < g /\ g <= h
            /\ E!Raws = (-g) .. (g - 1)
            /\ scale \in Nat /\ 0 < scale /\ scale < g
<1> DEFINE h == 2 ^ (Word - 1)
           g == 2 ^ (Bits - 1)
<1>1. PICK t \in Types : Word = t[1] /\ Bits = t[2] /\ Radix = t[3] /\ D = t[4]
  BY DEF Chosen
<1>2. /\ Word \in Nat /\ Word >= 2 /\ Bits \in Nat /\ Bits >= 2
      /\ Bits = Word \/ 2 * Bits <= Word
      /\ Radix \in Nat /\ Radix >= 2 /\ D \in Nat /\ Radix ^ D < 2 ^ (Bits - 1)
  BY <1>1, TypesAssumption
<1>3. PowerLaws(2, Word) /\ PowerLaws(Radix, D)
  BY <1>1, PowersAssumption DEF PowerLaws
<1>4. scale \in Nat /\ 0 < scale /\ scale < g
  <2>1. \A k \in 0 .. D : Radix ^ k \in Nat /\ Radix ^ k > 0
    BY <1>2, <1>3, PowersPositive
  <2> QED
    BY <2>1, <1>2 DEF scale
<1>5. \A k \in 0 .. Word : 2 ^ k \in Nat /\ 2 ^ k > 0
  BY <1>2, <1>3, PowersPositive
<1>6. h \in Nat /\ h > 0 /\ g \in Nat /\ g > 0
  BY <1>2, <1>5
<1>7. g <= h
  <2>1. Bits - 1 \in 0 .. Word /\ Word - 1 \in 0 .. Word /\ Bits - 1 <= Word - 1
    BY <1>2
  <2> QED
    BY <2>1, <1>2, <1>3, PowersOrder
<1>8. 2 ^ Word = 2 * h
  <2>1. Word - 1 \in 0 .. Word - 1 /\ (Word - 1) + 1 = Word
    BY <1>2
  <2> QED
    BY <2>1, <1>3 DEF PowerLaws
<1>9. h > 1
  BY <1>4, <1>6, <1>7
<1> HIDE DEF h, g
<1>10. W!WordHalves(h)
  BY <1>6, <1>8, <1>9 DEF W!WordHalves, W!M, W!INT_MIN, W!INT_MAX, h
<1>11. E!Raws = (-g) .. (g - 1)
  BY DEF E!Raws, g
<1> QED
  BY <1>4, <1>6, <1>7, <1>10, <1>11 DEF h, g

\* The numerator of a call fits two words, its denominator one.
LEMMA Operands ==
  ASSUME Chosen, Representable, stage # "idle", Divided
  PROVE  LET h == 2 ^ (Word - 1)
         IN /\ W!DoubleWord(Numerator, h)
            /\ Denominator \in Int /\ -h <= Denominator /\ Denominator < h
            /\ request.op = "mul" => Denominator = scale
<1> DEFINE h == 2 ^ (Word - 1)
           g == 2 ^ (Bits - 1)
<1>1. /\ W!WordHalves(h) /\ h \in Nat /\ g \in Nat /\ 0 < g /\ g <= h
      /\ E!Raws = (-g) .. (g - 1)
      /\ scale \in Nat /\ 0 < scale /\ scale < g
  BY Sizes
<1> HIDE DEF h, g
<1>2. /\ request.a \in Int /\ -h <= request.a /\ request.a <= h - 1
      /\ request.b \in Int /\ -h <= request.b /\ request.b <= h - 1
      /\ request.c \in Int /\ -h <= request.c /\ request.c <= h - 1
  BY <1>1 DEF Representable
<1>3. W!DoubleWord(Numerator, h)
  <2>1. CASE request.op = "div"
    BY <2>1, <1>1, <1>2, W!ProductOfWords DEF Numerator
  <2>2. CASE request.op # "div"
    BY <2>2, <1>1, <1>2, W!ProductOfWords DEF Numerator
  <2> QED
    BY <2>1, <2>2
<1>4. /\ Denominator \in Int /\ -h <= Denominator /\ Denominator < h
      /\ request.op = "mul" => Denominator = scale
  <2>1. CASE request.op = "mul"
    BY <2>1, <1>1 DEF Denominator
  <2>2. CASE request.op = "div"
    BY <2>2, <1>1, <1>2 DEF Denominator
  <2>3. CASE request.op = "mul_div"
    BY <2>3, <1>1, <1>2 DEF Denominator
  <2> QED
    BY <2>1, <2>2, <2>3 DEF Divided
<1> QED
  BY <1>3, <1>4 DEF h

\* What ExactArithmetic means by truncating is what the machine computes.
LEMMA QuotientTruncates ==
  ASSUME NEW n \in Int, NEW d \in Int, d # 0
  PROVE  E!Truncate(n, d) = Quotient(n, d)
<1>1. CASE d > 0 /\ n >= 0
  <2>1. n \div d \in Int /\ n \div d >= 0
    BY <1>1
  <2> QED
    BY <1>1, <2>1 DEF E!Truncate, E!Floor, Quotient, Absolute
<1>2. CASE d > 0 /\ n < 0
  <2>1. n \div d \in Int /\ n \div d < 0 /\ -(-n) = n
    BY <1>2
  <2> QED
    BY <1>2, <2>1 DEF E!Truncate, E!Floor, E!Ceiling, Quotient, Absolute
<1>3. CASE d < 0 /\ n > 0
  <2>1. (-n) \div (-d) \in Int /\ (-n) \div (-d) < 0 /\ -(-n) = n
    BY <1>3
  <2> QED
    BY <1>3, <2>1 DEF E!Truncate, E!Floor, E!Ceiling, Quotient, Absolute
<1>4. CASE d < 0 /\ n < 0
  <2>1. (-n) \div (-d) \in Int /\ (-n) \div (-d) >= 0
    BY <1>4
  <2> QED
    BY <1>4, <2>1 DEF E!Truncate, E!Floor, Quotient, Absolute
<1>5. CASE d < 0 /\ n = 0
  <2>1. -d \in Int /\ -d > 0 /\ 0 = 0 * (-d) + 0
    BY <1>5
  <2>2. 0 \div (-d) = 0
    BY <2>1, DivUnique
  <2>3. -n = 0
    <3>1. -n \in Int /\ -n + n = 0
      OBVIOUS
    <3>2. ASSUME NEW m \in Int, m + n = 0 PROVE m = 0
      BY <1>5, <3>2
    <3> QED
      BY <3>1, <3>2
  <2>4. 0 >= 0
    OBVIOUS
  <2> QED
    BY <1>5, <2>2, <2>3, <2>4 DEF E!Truncate, E!Floor, Quotient, Absolute
<1> QED
  BY <1>1, <1>2, <1>3, <1>4, <1>5

\* A caller that has an answer has a divisor and a quotient that fits.
LEMMA VouchedFits ==
  ASSUME Chosen, Representable, stage # "idle", Divided, Vouched
  PROVE  Denominator # 0 /\ InWord(Quotient(Numerator, Denominator))
<1> DEFINE h == 2 ^ (Word - 1)
           g == 2 ^ (Bits - 1)
           n == Numerator
           d == Denominator
<1>1. /\ W!WordHalves(h) /\ h \in Nat /\ g \in Nat /\ 0 < g /\ g <= h
      /\ E!Raws = (-g) .. (g - 1)
      /\ W!DoubleWord(n, h) /\ d \in Int
  BY Sizes, Operands
<1>2. n \in Int
  BY <1>1 DEF W!DoubleWord
<1>3. E!OnGrid(n, d, 1, request.rounding).error = "none"
  <2>1. CASE request.op = "mul"
    BY <2>1 DEF Vouched, E!RightAnswer, Numerator, Denominator, E!Scale, scale
  <2>2. CASE request.op = "div"
    BY <2>2 DEF Vouched, E!RightAnswer, Numerator, Denominator, E!Scale, scale
  <2>3. CASE request.op = "mul_div"
    BY <2>3 DEF Vouched, E!RightAnswer, Numerator, Denominator, E!Scale, scale
  <2> QED
    BY <2>1, <2>2, <2>3 DEF Divided
<1> HIDE DEF h, g, n, d
<1>4. d # 0 /\ 1 * E!Truncate(n, d * 1) \in E!Raws
  BY <1>3 DEF E!OnGrid, E!Error
<1>5. E!Truncate(n, d * 1) = Quotient(n, d)
  BY <1>1, <1>2, <1>4, QuotientTruncates
<1>6. Quotient(n, d) \in Int
  BY <1>1, <1>2, <1>4 DEF Quotient, Absolute
<1>7. Quotient(n, d) \in E!Raws
  BY <1>4, <1>5, <1>6
<1>8. INT_MIN = -h /\ INT_MAX = h - 1
  BY DEF INT_MIN, INT_MAX, h
<1>9. InWord(Quotient(n, d))
  BY <1>1, <1>6, <1>7, <1>8 DEF InWord
<1> QED
  BY <1>4, <1>9 DEF n, d

-----------------------------------------------------------------------------
(* The invariant is inductive                                              *)

LEMMA InitIInv == Init => IInv
<1> SUFFICES ASSUME Init PROVE IInv
  OBVIOUS
<1>1. Chosen
  BY DEF Init, Chosen
<1>2. stage = "idle"
  BY DEF Init
<1> QED
  BY <1>1, <1>2 DEF IInv, Representable, Loaded, Tested, Dividing

\* A type chosen stays, and so do its bounds.
LEMMA ChosenStays ==
  ASSUME Chosen, UNCHANGED type
  PROVE  Chosen' /\ (E!Raws)' = E!Raws
BY DEF Chosen, type, E!Raws

\* An answered call divides nothing any more.
Answering == stage' = "answered" /\ UNCHANGED <<type, request>>

LEMMA AnsweringIInv ==
  ASSUME IInv, stage # "idle", Answering
  PROVE  IInv'
<1>1. Chosen' /\ (E!Raws)' = E!Raws
  BY ChosenStays DEF IInv, Answering
<1>2. Representable'
  BY <1>1 DEF IInv, Answering, Representable
<1> QED
  BY <1>1, <1>2 DEF IInv, Answering, Loaded, Tested, Dividing

\* A stage that divides the same numbers next, without a test.
Handing ==
  /\ stage' \in {"answered", "kernel", "general", "narrow"}
  /\ UNCHANGED <<type, request, numerator, divisor>>

LEMMA HandingIInv ==
  ASSUME IInv, Dividing \/ (stage = "narrow" /\ Divided), Handing
  PROVE  IInv'
<1>1. Chosen' /\ (E!Raws)' = E!Raws
  BY ChosenStays DEF IInv, Handing
<1>2. stage # "idle"
  BY DEF Dividing
<1>3. Representable'
  BY <1>1, <1>2 DEF IInv, Handing, Representable
<1>4. Divided /\ numerator = Numerator /\ divisor = Denominator /\ divisor # 0
  BY DEF IInv, Loaded
<1>5. /\ Divided' /\ Numerator' = Numerator /\ Denominator' = Denominator
      /\ numerator' = numerator /\ divisor' = divisor
  BY <1>4 DEF Handing, Divided, Numerator, Denominator, scale, type
<1>6. Loaded' /\ Tested'
  BY <1>4, <1>5 DEF Handing, Loaded, Tested, Dividing
<1> QED
  BY <1>1, <1>3, <1>6 DEF IInv

\* quantize divides by a grid, not by what is loaded.
Gridding ==
  /\ stage \in {"dispatch", "quantize", "narrow"}
  /\ stage' \in {"answered", "quantize", "narrow"}
  /\ ~Divided
  /\ UNCHANGED <<type, request>>

LEMMA GriddingIInv ==
  ASSUME IInv, Gridding
  PROVE  IInv'
<1>1. Chosen' /\ (E!Raws)' = E!Raws
  BY ChosenStays DEF IInv, Gridding
<1>2. Representable'
  BY <1>1 DEF IInv, Gridding, Representable
<1>3. ~Divided'
  BY DEF Gridding, Divided
<1> QED
  BY <1>1, <1>2, <1>3 DEF IInv, Gridding, Loaded, Tested, Dividing

\* Dispatch and UncheckedProduct load what the call asks to divide.
Loading ==
  /\ stage = "dispatch" /\ Divided /\ Denominator # 0
  /\ numerator' = Numerator /\ divisor' = Denominator
  /\ UNCHANGED <<type, request>>

LEMMA LoadingLoaded ==
  ASSUME IInv, Loading, stage' # "quantize", stage' # "idle"
  PROVE  /\ Chosen' /\ Representable' /\ Loaded'
         /\ request' = request /\ Word' = Word
<1>1. Chosen' /\ (E!Raws)' = E!Raws
  BY ChosenStays DEF IInv, Loading
<1>2. Representable'
  BY <1>1 DEF IInv, Loading, Representable
<1>3. Divided' /\ Numerator' = Numerator /\ Denominator' = Denominator
  BY DEF Loading, Divided, Numerator, Denominator, scale, type
<1>4. Loaded'
  BY <1>3 DEF Loading, Loaded, Dividing
<1> QED
  BY <1>1, <1>2, <1>4 DEF Loading, type

LEMMA DispatchIInv == IInv /\ Dispatch => IInv'
<1> SUFFICES ASSUME IInv, Dispatch PROVE IInv'
  OBVIOUS
<1>1. stage' \in {"inline", "kernel"} /\ (stage' = "inline" => InlineFits)
  BY DEF Dispatch
<1>2. Loading
  BY DEF Dispatch, Loading
<1>3. /\ Chosen' /\ Representable' /\ Loaded'
      /\ request' = request /\ Word' = Word
  BY <1>1, <1>2, LoadingLoaded
<1>4. Tested'
  <2>1. CASE stage' = "inline" /\ request.op = "mul"
    <3>1. MultiplyFits(Numerator, Denominator)
      BY <1>1, <2>1 DEF InlineFits, Denominator
    <3> QED
      BY <3>1, <2>1, <1>2, <1>3
         DEF Tested, Loading, MultiplyFits, Unsigned, HighWord, M
  <2>2. CASE stage' = "inline" /\ request.op # "mul"
    <3>1. QuotientFits(Numerator, Denominator)
      BY <1>1, <2>2 DEF InlineFits
    <3> QED
      BY <3>1, <2>2, <1>2, <1>3
         DEF Tested, Loading, QuotientFits, Unsigned, HighWord, M, Absolute
  <2>3. CASE stage' = "kernel"
    BY <2>3 DEF Tested
  <2> QED
    BY <2>1, <2>2, <2>3, <1>1
<1> QED
  BY <1>3, <1>4 DEF IInv

LEMMA UncheckedProductIInv == IInv /\ UncheckedProduct => IInv'
<1> SUFFICES ASSUME IInv, UncheckedProduct PROVE IInv'
  OBVIOUS
<1>1. Denominator # 0 /\ InWord(Quotient(Numerator, Denominator))
  BY VouchedFits DEF UncheckedProduct, IInv
<1>2. Loading /\ stage' = "unchecked"
  BY <1>1 DEF UncheckedProduct, Loading
<1>3. /\ Chosen' /\ Representable' /\ Loaded'
      /\ request' = request /\ Word' = Word
  BY <1>2, LoadingLoaded
<1>4. Tested'
  BY <1>1, <1>2, <1>3
     DEF Tested, Loading, InWord, INT_MIN, INT_MAX, Quotient, Absolute
<1> QED
  BY <1>3, <1>4 DEF IInv

LEMMA KernelIInv == IInv /\ Kernel => IInv'
<1> SUFFICES ASSUME IInv, Kernel PROVE IInv'
  OBVIOUS
<1>1. CASE stage' = "general"
  <2>1. Handing /\ Dividing
    BY <1>1 DEF Kernel, Handing, Dividing, kernel
  <2> QED
    BY <2>1, HandingIInv
<1>2. CASE stage' = "signed"
  <2>1. QuotientFits(numerator, divisor) /\ stage = "kernel"
        /\ UNCHANGED <<type, request, numerator, divisor>>
    BY <1>2 DEF Kernel, kernel
  <2>2. Chosen' /\ (E!Raws)' = E!Raws /\ Word' = Word
    BY <2>1, ChosenStays DEF IInv, type
  <2>3. Representable'
    BY <2>1, <2>2, <1>2 DEF IInv, Representable
  <2>4. Divided /\ numerator = Numerator /\ divisor = Denominator /\ divisor # 0
    BY <2>1 DEF IInv, Loaded, Dividing
  <2>5. Divided' /\ Numerator' = Numerator /\ Denominator' = Denominator
    BY <2>1, <2>4 DEF Divided, Numerator, Denominator, scale, type
  <2>6. Loaded'
    BY <2>1, <2>4, <2>5, <1>2 DEF Loaded, Dividing
  <2>7. Tested'
    BY <2>1, <2>2, <1>2
       DEF Tested, QuotientFits, Unsigned, HighWord, M, Absolute
  <2> QED
    BY <2>2, <2>3, <2>6, <2>7 DEF IInv
<1> QED
  BY <1>1, <1>2 DEF Kernel

LEMMA CallIInv == IInv /\ Call => IInv'
<1> SUFFICES ASSUME IInv, Call PROVE IInv'
  OBVIOUS
<1>1. UNCHANGED type /\ stage' = "dispatch"
  BY DEF Call
<1>2. Chosen' /\ (E!Raws)' = E!Raws
  BY <1>1, ChosenStays DEF IInv
<1>3. 0 \in E!Raws
  BY Sizes DEF IInv
<1>4. PICK op \in E!Ops, a \in E!Raws :
        \E b \in IF Takes(op, "b") THEN E!Raws ELSE {0},
           c \in IF Takes(op, "c") THEN E!Raws ELSE {0},
           decimals \in IF Takes(op, "decimals") THEN 0 .. D + 1 ELSE {D},
           rounding \in IF Takes(op, "rounding") THEN R!Modes ELSE {"exact"} :
          request' = E!Request(op, a, b, c, decimals, rounding)
  BY DEF Call
<1>5. PICK b \in IF Takes(op, "b") THEN E!Raws ELSE {0},
           c \in IF Takes(op, "c") THEN E!Raws ELSE {0},
           decimals \in IF Takes(op, "decimals") THEN 0 .. D + 1 ELSE {D},
           rounding \in IF Takes(op, "rounding") THEN R!Modes ELSE {"exact"} :
          request' = E!Request(op, a, b, c, decimals, rounding)
  BY <1>4
<1>6. b \in E!Raws /\ c \in E!Raws
  BY <1>3
<1>7. request'.a = a /\ request'.b = b /\ request'.c = c
  BY <1>5 DEF E!Request
<1>8. Representable'
  BY <1>2, <1>4, <1>6, <1>7 DEF Representable
<1> QED
  BY <1>1, <1>2, <1>8 DEF IInv, Loaded, Tested, Dividing

LEMMA ReturnIInv == IInv /\ Return => IInv'
<1> SUFFICES ASSUME IInv, Return PROVE IInv'
  OBVIOUS
<1>1. UNCHANGED type /\ stage' = "idle"
  BY DEF Return
<1> QED
  BY <1>1, ChosenStays DEF IInv, Representable, Loaded, Tested, Dividing

LEMMA WorkIInv == IInv /\ Work => IInv'
<1> SUFFICES ASSUME IInv, Work PROVE IInv'
  OBVIOUS
<1>1. CASE \/ Add \/ Sub \/ Negate \/ Abs \/ RemainderOp \/ Midpoint \/ InvalidPrecision
           \/ QuantizeSame \/ RejectZeroDivisor \/ UncheckedSum
  <2>1. Answering /\ stage # "idle"
    BY <1>1 DEF Add, Sub, Negate, Abs, RemainderOp, Midpoint, InvalidPrecision,
         QuantizeSame, RejectZeroDivisor, UncheckedSum, Reply, Answering
  <2> QED
    BY <2>1, AnsweringIInv
<1>2. CASE \/ InlineMultiply \/ InlineDivide \/ UncheckedDivide
           \/ Narrow \/ NarrowRetried
  <2>1. Answering /\ stage # "idle"
    BY <1>2 DEF InlineMultiply, InlineDivide, UncheckedDivide, Narrow, NarrowRetried,
         Reply, Answering
  <2> QED
    BY <2>1, AnsweringIInv
<1>3. CASE Quantize \/ MidpointOnGrid
  <2>1. Gridding
    BY <1>3 DEF Quantize, MidpointOnGrid, Reply, Gridding, Divided
  <2> QED
    BY <2>1, GriddingIInv
<1>4. CASE QuantizeKernel
  <2>1. stage = "quantize" /\ stage' \in {"answered", "narrow"}
        /\ UNCHANGED <<type, request>>
    BY <1>4 DEF QuantizeKernel, Deliver, Reply
  <2>2. Gridding
    BY <2>1 DEF Gridding, IInv, Loaded
  <2> QED
    BY <2>2, GriddingIInv
<1>5. CASE DivideSigned \/ RoundingOverflows \/ DivideGeneral
  <2>1. Handing /\ Dividing
    BY <1>5 DEF DivideSigned, RoundingOverflows, DivideGeneral, Deliver, Reply,
         kernel, Handing, Dividing
  <2> QED
    BY <2>1, HandingIInv
<1>6. CASE NarrowRetry
  <2>1. stage = "narrow" /\ UNCHANGED <<type, request, numerator, divisor>>
        /\ stage' = IF Divided THEN "kernel" ELSE "quantize"
    BY <1>6 DEF NarrowRetry, KernelStage, kernel
  <2>2. CASE Divided
    BY <2>1, <2>2, HandingIInv DEF Handing
  <2>3. CASE ~Divided
    BY <2>1, <2>3, GriddingIInv DEF Gridding
  <2> QED
    BY <2>2, <2>3
<1> QED
  BY <1>1, <1>2, <1>3, <1>4, <1>5, <1>6, DispatchIInv, UncheckedProductIInv, KernelIInv
     DEF Work

LEMMA StutterIInv == IInv /\ UNCHANGED vars => IInv'
<1> SUFFICES ASSUME IInv, UNCHANGED vars PROVE IInv'
  OBVIOUS
<1>1. /\ Word' = Word /\ Bits' = Bits /\ Radix' = Radix /\ D' = D
      /\ request' = request /\ stage' = stage
      /\ numerator' = numerator /\ divisor' = divisor
  BY DEF vars, type, kernel
<1>2. Chosen' /\ (E!Raws)' = E!Raws
  BY <1>1, ChosenStays DEF IInv, type
<1>3. Representable'
  BY <1>1, <1>2 DEF IInv, Representable
<1>4. Loaded'
  BY <1>1 DEF IInv, Loaded, Dividing, Divided, Numerator, Denominator, scale
<1>5. Tested'
  BY <1>1 DEF IInv, Tested, MultiplyFits, QuotientFits, InWord, INT_MIN, INT_MAX,
       Quotient, Absolute, Unsigned, HighWord, M
<1> QED
  BY <1>2, <1>3, <1>4, <1>5 DEF IInv

LEMMA NextIInv == IInv /\ [Next]_vars => IInv'
BY CallIInv, WorkIInv, ReturnIInv, StutterIInv DEF Next

\* The inductive invariant holds in every reachable state.
THEOREM InductiveInvariant == Spec => []IInv
BY InitIInv, NextIInv, PTL DEF Spec

-----------------------------------------------------------------------------
(* What a reader should know of                                            *)

\* The machine's words of this module and of MachineWordProof are the same.
LEMMA SameWord ==
  ASSUME NEW v
  PROVE  W!InWord(v) = InWord(v)
BY DEF W!InWord, W!INT_MIN, W!INT_MAX, InWord, INT_MIN, INT_MAX

LEMMA SameDivision ==
  ASSUME NEW n, NEW d
  PROVE  /\ W!QuotientFits(n, d) = QuotientFits(n, d)
         /\ W!MultiplyFits(n, d) = MultiplyFits(n, d)
         /\ W!Quotient(n, d) = Quotient(n, d)
         /\ W!Remainder(n, d) = Remainder(n, d)
BY DEF W!QuotientFits, W!MultiplyFits, W!Quotient, W!Remainder, W!Absolute,
     W!Unsigned, W!HighWord, W!M,
     QuotientFits, MultiplyFits, Quotient, Remainder, Absolute, Unsigned, HighWord, M

\* The inline multiplication's quotient, and its neighbours if it is not exact.
LEMMA InlineRoom ==
  ASSUME IInv, stage = "inline", request.op = "mul"
  PROVE  LET e == Quotient(numerator, divisor)
         IN /\ divisor # 0 /\ InWord(e)
            /\ Remainder(numerator, divisor) # 0 => InWord(e - 1) /\ InWord(e + 1)
<1> DEFINE h == 2 ^ (Word - 1)
<1>1. /\ Divided /\ numerator = Numerator /\ divisor = Denominator /\ divisor # 0
      /\ MultiplyFits(numerator, divisor)
  BY DEF IInv, Loaded, Dividing, Tested
<1>2. W!DoubleWord(numerator, h) /\ divisor = scale
  BY <1>1, Operands DEF IInv
<1>3. W!WordHalves(h) /\ h \in Nat /\ scale \in Int /\ 0 < scale /\ scale <= h
  BY Sizes DEF IInv
<1> HIDE DEF h
<1>4. W!MultiplyFits(numerator, divisor)
  BY <1>1, SameDivision
<1>5. LET e == W!Quotient(numerator, divisor)
      IN /\ W!InWord(e)
         /\ W!Remainder(numerator, divisor) # 0 => W!InWord(e - 1) /\ W!InWord(e + 1)
  BY <1>2, <1>3, <1>4, W!MultiplicationLeavesRoom
<1> QED
  BY <1>1, <1>5, SameWord, SameDivision

\* Every machine division that is reached has a quotient that fits.
LEMMA IInvNoTrap == IInv => NoDivideTrap
<1> SUFFICES ASSUME IInv PROVE NoDivideTrap
  OBVIOUS
<1> DEFINE h == 2 ^ (Word - 1)
<1>1. ASSUME Dividing, QuotientFits(numerator, divisor)
      PROVE  divisor # 0 /\ InWord(Quotient(numerator, divisor))
  <2>1. /\ Divided /\ numerator = Numerator /\ divisor = Denominator
        /\ stage # "idle"
    BY <1>1 DEF IInv, Loaded, Dividing
  <2>2. /\ W!DoubleWord(numerator, h)
        /\ divisor \in Int /\ -h <= divisor /\ divisor < h
    BY <2>1, Operands DEF IInv
  <2>3. W!WordHalves(h)
    BY Sizes DEF IInv
  <2> HIDE DEF h
  <2>4. divisor # 0 /\ W!InWord(W!Quotient(numerator, divisor))
    BY <1>1, <2>2, <2>3, SameDivision, W!MachineDivisionFits
  <2> QED
    BY <2>4, SameWord, SameDivision
<1>2. CASE stage = "inline" /\ request.op = "mul"
  BY <1>2, InlineRoom DEF NoDivideTrap
<1>3. CASE stage = "inline" /\ request.op # "mul"
  BY <1>1, <1>3 DEF NoDivideTrap, IInv, Tested, Dividing
<1>4. CASE stage = "signed"
  BY <1>1, <1>4 DEF NoDivideTrap, IInv, Tested, Dividing
<1>5. CASE stage = "unchecked"
  BY <1>5 DEF NoDivideTrap, IInv, Tested, Loaded, Dividing
<1> QED
  BY <1>2, <1>3, <1>4, <1>5 DEF NoDivideTrap

\* NoDivideTrap: no machine division of the inline operations, of the kernels or of
\* the unchecked operations divides by zero or has a quotient beyond its word.
THEOREM NeverTraps == Spec => []NoDivideTrap
BY IInvNoTrap, InductiveInvariant, PTL

\* An inline multiplication has room for its rounding.
LEMMA IInvHeadroom == IInv => RoundingHeadroom
<1> SUFFICES ASSUME IInv, stage = "inline", request.op = "mul"
             PROVE  InWord(AdjustedInline)
  BY DEF RoundingHeadroom
<1> DEFINE e == Quotient(numerator, divisor)
           r == Remainder(numerator, divisor)
           adj == R!NearestScaledAdj(e, r, divisor)
<1>1. InWord(e) /\ (r # 0 => InWord(e - 1) /\ InWord(e + 1))
  BY InlineRoom
<1>2. adj \in {-1, 0, 1}
  BY DEF R!NearestScaledAdj, R!Indicator
<1>3. AdjustedInline = IF kmode # "nearest_even" \/ r = 0 THEN e ELSE e + adj
  BY DEF AdjustedInline
<1>4. e \in Int
  BY <1>1 DEF InWord
<1> HIDE DEF e, r, adj
<1>5. e + (-1) = e - 1 /\ e + 0 = e
  BY <1>4
<1> QED
  BY <1>1, <1>2, <1>3, <1>5

\* RoundingHeadroom: the inline multiplication's unchecked rounding never leaves
\* the word.
THEOREM RoundingFits == Spec => []RoundingHeadroom
BY IInvHeadroom, InductiveInvariant, PTL

-----------------------------------------------------------------------------
(* One mathematics, in the names of three modules                          *)

\* Rounding to an integer is one operation under both names.
LEMMA SameRounded ==
  ASSUME NEW n, NEW d, NEW rounding
  PROVE  /\ E!Truncate(n, d) = W!Truncate(n, d)
         /\ E!Rounded(n, d, rounding) = W!Rounded(n, d, rounding)
<1>1. \A a, b : E!Floor(a, b) = W!Floor(a, b)
  BY DEF E!Floor, W!Floor
<1>2. \A a, b : E!Ceiling(a, b) = W!Ceiling(a, b)
  BY <1>1 DEF E!Ceiling, W!Ceiling
<1>3. E!Truncate(n, d) = W!Truncate(n, d)
  BY <1>1, <1>2 DEF E!Truncate, W!Truncate
<1>4. \A a, b, c : E!Distance(a, b, c) = W!Distance(a, b, c)
  BY DEF E!Distance, W!Distance
<1>5. E!NearestTo(n, d) = W!NearestTo(n, d)
  BY <1>1, <1>2, <1>4 DEF E!NearestTo, W!NearestTo
<1> DEFINE e == E!NearestTo(n, d)
<1>6. (CHOOSE a \in e : \A b \in e : E!Distance(b, 0, 1) <= E!Distance(a, 0, 1))
        = (CHOOSE a \in e : \A b \in e : W!Distance(b, 0, 1) <= W!Distance(a, 0, 1))
  BY <1>4
<1> HIDE DEF e
<1> QED
  BY <1>1, <1>2, <1>3, <1>5, <1>6 DEF E!Rounded, W!Rounded, e

\* So are the four ways the code has of deciding it.
LEMMA SameMagnitudes ==
  ASSUME NEW q, NEW r, NEW d, NEW negative, NEW rounding, NEW limit
  PROVE  /\ R!RoundMagnitude(q, r, d, negative, rounding, limit)
              = W!RoundMagnitude(q, r, d, negative, rounding, limit)
         /\ R!NearestAdj(q, r, d, negative) = W!NearestAdj(q, r, d, negative)
         /\ R!NearestAdjustment(q, r, d, negative) = W!NearestAdjustment(q, r, d, negative)
         /\ R!NearestScaledAdj(q, r, d) = W!NearestScaledAdj(q, r, d)
<1>1. W!M = 2 ^ Word
  BY DEF W!M
<1>2. \A a, b : R!Tie(a, b) = W!Tie(a, b)
  BY DEF R!Tie, W!Tie, R!Indicator, W!Indicator
<1>3. \A a, b, c : R!NearestEvenIncrement(a, b, c) = W!NearestEvenIncrement(a, b, c)
  BY <1>1, <1>2 DEF R!NearestEvenIncrement, W!NearestEvenIncrement
<1>4. \A a, b, c : R!NearestEvenInc(a, b, c) = W!NearestEvenInc(a, b, c)
  BY <1>1 DEF R!NearestEvenInc, W!NearestEvenInc
<1>5. R!Increment(q, r, d, negative, rounding) = W!Increment(q, r, d, negative, rounding)
  BY <1>1, <1>3 DEF R!Increment, W!Increment
<1>6. R!RoundMagnitude(q, r, d, negative, rounding, limit)
        = W!RoundMagnitude(q, r, d, negative, rounding, limit)
  BY <1>5 DEF R!RoundMagnitude, W!RoundMagnitude, R!Failure, W!Failure, R!Value, W!Value
<1>7. R!NearestAdj(q, r, d, negative) = W!NearestAdj(q, r, d, negative)
  BY <1>4 DEF R!NearestAdj, W!NearestAdj, R!Magnitude, W!Magnitude
<1>8. R!NearestAdjustment(q, r, d, negative) = W!NearestAdjustment(q, r, d, negative)
  BY <1>1, <1>3
     DEF R!NearestAdjustment, W!NearestAdjustment, R!Magnitude, W!Magnitude
<1>9. R!NearestScaledAdj(q, r, d) = W!NearestScaledAdj(q, r, d)
  BY <1>2 DEF R!NearestScaledAdj, W!NearestScaledAdj, R!Indicator, W!Indicator
<1> QED
  BY <1>6, <1>7, <1>8, <1>9

\* A result that is not an error, and the errors.
LEMMA Answers ==
  ASSUME NEW v, NEW e
  PROVE  /\ R!Value(v) = E!Result(v) /\ W!Value(v) = E!Result(v) /\ W!Result(v) = E!Result(v)
         /\ R!Failure(e) = E!Error(e) /\ W!Failure(e) = E!Error(e) /\ W!Error(e) = E!Error(e)
         /\ E!Result(v).error = "none" /\ E!Result(v).value = v /\ E!Error(e).error = e
  BY DEF R!Value, E!Result, W!Value, W!Result, R!Failure, E!Error, W!Failure, W!Error

-----------------------------------------------------------------------------
(* Midpoints: what the bits common to two patterns and the others add up to *)

\* The sums of Pattern() are there, and begin with the lower bits.
LEMMA PatternSums ==
  ASSUME NEW bit
  PROVE  \E f : /\ f[0] = 0
                /\ \A k \in Nat : f[k + 1] = f[k] + 2 ^ k * bit[k]
                /\ Pattern(bit) = f[Bits]
<1> DEFINE e == [k \in Nat |-> 2 ^ k * bit[k]]
           f == CHOOSE g : g = [k \in Nat |-> IF k = 0 THEN 0
                                              ELSE g[k - 1] + 2 ^ (k - 1) * bit[k - 1]]
<1>1. \E g : g = [k \in Nat |-> IF k = 0 THEN 0 ELSE g[k - 1] + e[k - 1]]
  <2> HIDE DEF e
  <2> QED
    BY SumsExist
<1>2. PICK g : g = [k \in Nat |-> IF k = 0 THEN 0 ELSE g[k - 1] + e[k - 1]]
  BY <1>1
<1>3. ASSUME NEW k \in Nat PROVE k # 0 => e[k - 1] = 2 ^ (k - 1) * bit[k - 1]
  OBVIOUS
<1>4. [k \in Nat |-> IF k = 0 THEN 0 ELSE g[k - 1] + e[k - 1]]
        = [k \in Nat |-> IF k = 0 THEN 0 ELSE g[k - 1] + 2 ^ (k - 1) * bit[k - 1]]
  BY <1>3
<1>5. g = [k \in Nat |-> IF k = 0 THEN 0 ELSE g[k - 1] + 2 ^ (k - 1) * bit[k - 1]]
  BY <1>2, <1>4
<1>6. f = [k \in Nat |-> IF k = 0 THEN 0 ELSE f[k - 1] + 2 ^ (k - 1) * bit[k - 1]]
  BY <1>5
<1>7. Pattern(bit) = f[Bits]
  BY DEF Pattern
<1> HIDE DEF f
<1>8. f[0] = 0
  BY <1>6
<1>9. ASSUME NEW k \in Nat PROVE f[k + 1] = f[k] + 2 ^ k * bit[k]
  <2>1. k + 1 \in Nat /\ k + 1 # 0 /\ (k + 1) - 1 = k
    OBVIOUS
  <2>2. f[k + 1] = f[(k + 1) - 1] + 2 ^ ((k + 1) - 1) * bit[(k + 1) - 1]
    BY <2>1, <1>6
  <2> QED
    BY <2>1, <2>2
<1> QED
  BY <1>7, <1>8, <1>9

\* The powers of two of a type.
LEMMA PowersOfType ==
  ASSUME Chosen
  PROVE  /\ Bits \in Nat /\ Bits >= 2 /\ 2 ^ 0 = 1
         /\ \A k \in 0 .. Bits : 2 ^ k \in Nat /\ 2 ^ k > 0
         /\ \A k \in 0 .. Bits - 1 : 2 ^ (k + 1) = 2 * 2 ^ k
<1>1. PICK t \in Types : Word = t[1] /\ Bits = t[2] /\ Radix = t[3] /\ D = t[4]
  BY DEF Chosen
<1>2. Word \in Nat /\ Bits \in Nat /\ Bits >= 2 /\ Bits <= Word
  BY <1>1, TypesAssumption
<1>3. PowerLaws(2, Word)
  BY <1>1, PowersAssumption DEF PowerLaws
<1>4. \A k \in 0 .. Word : 2 ^ k \in Nat /\ 2 ^ k > 0
  BY <1>2, <1>3, PowersPositive
<1> QED
  BY <1>2, <1>3, <1>4 DEF PowerLaws

\* One bit more of a number.
LEMMA NextBit ==
  ASSUME NEW a \in Int, NEW k \in Nat, NEW p \in Nat, p > 0, p = 2 ^ k, 2 ^ (k + 1) = 2 * p
  PROVE  /\ Bit(a, k) \in {0, 1} /\ a % p \in 0 .. p - 1
         /\ a % 2 ^ (k + 1) = (a % p) + p * Bit(a, k)
<1> DEFINE q == a \div p
           r == a % p
           h == q \div 2
           b == q % 2
<1>1. q \in Int /\ r \in Int /\ a = q * p + r /\ 0 <= r /\ r < p
  BY DivMod
<1>2. h \in Int /\ b \in {0, 1} /\ q = h * 2 + b
  BY <1>1
<1> HIDE DEF q, r, h, b
<1>3. q * p = h * (2 * p) + p * b /\ h * (2 * p) \in Int /\ p * b \in {0, p}
  <2>1. (h * 2 + b) * p = h * (2 * p) + p * b
    BY <1>2
  <2> QED
    BY <2>1, <1>2
<1>4. a = h * (2 * p) + (r + p * b) /\ 0 <= r + p * b /\ r + p * b < 2 * p
      /\ r + p * b \in Int
  BY <1>1, <1>3
<1>5. a % (2 * p) = r + p * b
  <2> DEFINE l == r + p * b
  <2>1. a = h * (2 * p) + l /\ 0 <= l /\ l < 2 * p /\ l \in Int
    BY <1>4
  <2>2. 2 * p \in Int /\ 2 * p > 0
    OBVIOUS
  <2> HIDE DEF l
  <2>3. a % (2 * p) = l
    BY <2>1, <2>2, <1>2, DivUnique
  <2> QED
    BY <2>3 DEF l
<1> QED
  BY <1>1, <1>2, <1>5 DEF Bit, q, r, b

\* Two bits of the same weight: one of twice that, if both are set, or one.
LEMMA AddBitPair ==
  ASSUME NEW p \in Nat, p > 0, NEW f \in 0 .. p - 1, NEW g \in 0 .. p - 1,
         NEW u \in Int, NEW v \in Int, 2 * f + g = u + v,
         NEW c \in {0, 1}, NEW d \in {0, 1}
  PROVE  /\ f + p * (c * d) \in 0 .. 2 * p - 1
         /\ g + p * ((c + d) % 2) \in 0 .. 2 * p - 1
         /\ 2 * (f + p * (c * d)) + (g + p * ((c + d) % 2)) = (u + p * c) + (v + p * d)
<1>1. CASE c = 0 /\ d = 0
  BY <1>1
<1>2. CASE c = 0 /\ d = 1
  BY <1>2
<1>3. CASE c = 1 /\ d = 0
  BY <1>3
<1>4. CASE c = 1 /\ d = 1
  BY <1>4
<1> QED
  BY <1>1, <1>2, <1>3, <1>4

\* What BitAnd() and BitXor() sum up, bit by bit.
PartialSums(a, b, f, g) ==
  /\ f[0] = 0 /\ g[0] = 0
  /\ \A k \in 0 .. Bits - 1 : /\ f[k + 1] = f[k] + 2 ^ k * (Bit(a, k) * Bit(b, k))
                              /\ g[k + 1] = g[k] + 2 ^ k * ((Bit(a, k) + Bit(b, k)) % 2)

\* Twice the common bits and the differing ones are both numbers, below any bit.
LEMMA LowerBitsAdd ==
  ASSUME Chosen, NEW a \in Int, NEW b \in Int, NEW f, NEW g, PartialSums(a, b, f, g)
  PROVE  \A k \in 0 .. Bits : /\ f[k] \in 0 .. 2 ^ k - 1 /\ g[k] \in 0 .. 2 ^ k - 1
                              /\ 2 * f[k] + g[k] = (a % 2 ^ k) + (b % 2 ^ k)
<1> DEFINE Good(k) == /\ f[k] \in 0 .. 2 ^ k - 1 /\ g[k] \in 0 .. 2 ^ k - 1
                      /\ 2 * f[k] + g[k] = (a % 2 ^ k) + (b % 2 ^ k)
           Bad == {k \in 0 .. Bits : ~Good(k)}
<1> SUFFICES ASSUME Bad # {} PROVE FALSE
  OBVIOUS
<1>1. /\ Bits \in Nat /\ 2 ^ 0 = 1
      /\ \A k \in 0 .. Bits : 2 ^ k \in Nat /\ 2 ^ k > 0
      /\ \A k \in 0 .. Bits - 1 : 2 ^ (k + 1) = 2 * 2 ^ k
  BY PowersOfType
<1>2. PICK m \in Bad : \A y \in Bad : m <= y
  <2>1. Bad \in SUBSET Nat
    BY <1>1
  <2> HIDE DEF Bad
  <2> QED
    BY <2>1, LeastNat
<1>3. m # 0
  <2>1. a % 1 = 0 /\ b % 1 = 0
    OBVIOUS
  <2>2. Good(0)
    BY <2>1, <1>1 DEF PartialSums
  <2> HIDE DEF Good
  <2> QED
    BY <2>2, <1>2
<1> DEFINE k == m - 1
           p == 2 ^ k
           c == Bit(a, k)
           d == Bit(b, k)
<1>4. k \in 0 .. Bits - 1 /\ k \in Nat /\ k \in 0 .. Bits /\ m = k + 1 /\ Good(k)
  <2> HIDE DEF Good
  <2>1. k \in 0 .. Bits - 1 /\ k \in Nat /\ k \in 0 .. Bits /\ m = k + 1
    BY <1>1, <1>2, <1>3
  <2>2. k \notin Bad
    <3> HIDE DEF Bad
    <3> QED
      BY <2>1, <1>2
  <2> QED
    BY <2>1, <2>2
<1>5. p \in Nat /\ p > 0 /\ 2 ^ (k + 1) = 2 * p
  BY <1>1, <1>4
<1>6. /\ c \in {0, 1} /\ a % p \in 0 .. p - 1 /\ a % 2 ^ (k + 1) = (a % p) + p * c
      /\ d \in {0, 1} /\ b % p \in 0 .. p - 1 /\ b % 2 ^ (k + 1) = (b % p) + p * d
  BY <1>4, <1>5, NextBit
<1>7. f[m] = f[k] + p * (c * d) /\ g[m] = g[k] + p * ((c + d) % 2)
  BY <1>4 DEF PartialSums
<1>8. /\ f[k] \in 0 .. p - 1 /\ g[k] \in 0 .. p - 1
      /\ 2 * f[k] + g[k] = (a % p) + (b % p)
      /\ 2 ^ m = 2 * p /\ a % 2 ^ m = (a % p) + p * c /\ b % 2 ^ m = (b % p) + p * d
  BY <1>4, <1>5, <1>6
<1> DEFINE u == a % p
           v == b % p
<1> HIDE DEF Bad, k, c, d, p, u, v
<1>9. /\ f[m] \in 0 .. 2 * p - 1 /\ g[m] \in 0 .. 2 * p - 1
      /\ 2 * f[m] + g[m] = (u + p * c) + (v + p * d)
  <2>1. u \in Int /\ v \in Int /\ c \in {0, 1} /\ d \in {0, 1}
    BY <1>6 DEF u, v
  <2> DEFINE s == f[k]
             t == g[k]
  <2>2. s \in 0 .. p - 1 /\ t \in 0 .. p - 1 /\ 2 * s + t = u + v
    BY <1>8 DEF u, v
  <2> HIDE DEF s, t
  <2>3. /\ s + p * (c * d) \in 0 .. 2 * p - 1
        /\ t + p * ((c + d) % 2) \in 0 .. 2 * p - 1
        /\ 2 * (s + p * (c * d)) + (t + p * ((c + d) % 2)) = (u + p * c) + (v + p * d)
    BY <2>1, <2>2, <1>5, AddBitPair
  <2>4. f[m] = s + p * (c * d) /\ g[m] = t + p * ((c + d) % 2)
    BY <1>7 DEF s, t
  <2> QED
    BY <2>3, <2>4
<1>10. Good(m)
  BY <1>8, <1>9 DEF u, v
<1> HIDE DEF Good
<1> QED
  BY <1>2, <1>10 DEF Bad

\* A value of the type is its lower bits, less the weight of its sign bit.
LEMMA SignBit ==
  ASSUME Chosen, NEW a \in E!Raws
  PROVE  LET g == 2 ^ (Bits - 1)
         IN a \in Int /\ Bit(a, Bits - 1) \in {0, 1} /\ a = (a % g) - g * Bit(a, Bits - 1)
<1> DEFINE g == 2 ^ (Bits - 1)
           k == Bits - 1
           c == Bit(a, k)
           r == a % g
<1>1. /\ g \in Nat /\ g > 0 /\ 2 ^ Bits = 2 * g /\ k \in Nat
      /\ a \in Int /\ -g <= a /\ a < g
  <2>1. /\ Bits \in Nat /\ Bits >= 2
        /\ \A i \in 0 .. Bits : 2 ^ i \in Nat /\ 2 ^ i > 0
        /\ \A i \in 0 .. Bits - 1 : 2 ^ (i + 1) = 2 * 2 ^ i
    BY PowersOfType
  <2>2. k \in 0 .. Bits /\ k \in 0 .. Bits - 1 /\ k + 1 = Bits
    BY <2>1
  <2>3. g \in Nat /\ g > 0 /\ 2 ^ Bits = 2 * g
    BY <2>1, <2>2
  <2> HIDE DEF g
  <2>4. E!Raws = (-g) .. (g - 1)
    BY DEF E!Raws, g
  <2> QED
    BY <2>2, <2>3, <2>4
<1>2. c \in {0, 1} /\ r \in 0 .. g - 1 /\ a % (2 * g) = r + g * c
  <2>1. k + 1 = Bits
    BY PowersOfType
  <2> QED
    BY <2>1, <1>1, NextBit
<1> HIDE DEF g, c, r, k
<1>3. a % (2 * g) = IF a < 0 THEN a + 2 * g ELSE a
  <2>1. CASE a < 0
    <3>1. a = (-1) * (2 * g) + (a + 2 * g)
      BY <1>1
    <3> QED
      BY <2>1, <3>1, <1>1, DivUnique
  <2>2. CASE ~(a < 0)
    <3>1. a = 0 * (2 * g) + a
      BY <1>1
    <3> QED
      BY <2>2, <3>1, <1>1, DivUnique
  <2> QED
    BY <2>1, <2>2
<1>4. g * 0 = 0 /\ g * 1 = g
  BY <1>1
<1> QED
  BY <1>1, <1>2, <1>3, <1>4 DEF g, c, r, k

\* The common bits count twice in the sum and the differing ones once.
LEMMA CommonAndDiffering ==
  ASSUME Chosen, NEW a \in E!Raws, NEW b \in E!Raws
  PROVE  /\ BitAnd(a, b) \in Int /\ BitXor(a, b) \in Int
         /\ 2 * BitAnd(a, b) + BitXor(a, b) = a + b
<1> DEFINE both == [k \in 0 .. Bits - 1 |-> Bit(a, k) * Bit(b, k)]
           one == [k \in 0 .. Bits - 1 |-> (Bit(a, k) + Bit(b, k)) % 2]
           n == Bits - 1
           h == 2 ^ n
           c == Bit(a, n)
           d == Bit(b, n)
<1>1. /\ Bits \in Nat /\ Bits >= 2
      /\ \A k \in 0 .. Bits : 2 ^ k \in Nat /\ 2 ^ k > 0
      /\ \A k \in 0 .. Bits - 1 : 2 ^ (k + 1) = 2 * 2 ^ k
  BY PowersOfType
<1>2. n \in 0 .. Bits /\ n \in 0 .. Bits - 1 /\ n + 1 = Bits
  BY <1>1
<1>3. h \in Nat /\ h > 0 /\ 2 ^ Bits = 2 * h
  BY <1>1, <1>2
<1>4. /\ a \in Int /\ c \in {0, 1} /\ a = (a % h) - h * c
      /\ b \in Int /\ d \in {0, 1} /\ b = (b % h) - h * d
  BY SignBit
<1>5. PICK f : /\ f[0] = 0
               /\ \A k \in Nat : f[k + 1] = f[k] + 2 ^ k * both[k]
               /\ Pattern(both) = f[Bits]
  BY PatternSums
<1>6. PICK g : /\ g[0] = 0
               /\ \A k \in Nat : g[k + 1] = g[k] + 2 ^ k * one[k]
               /\ Pattern(one) = g[Bits]
  BY PatternSums
<1>7. \A k \in 0 .. Bits - 1 : /\ f[k + 1] = f[k] + 2 ^ k * (Bit(a, k) * Bit(b, k))
                               /\ g[k + 1] = g[k] + 2 ^ k * ((Bit(a, k) + Bit(b, k)) % 2)
  <2> SUFFICES ASSUME NEW k \in 0 .. Bits - 1
               PROVE  /\ f[k + 1] = f[k] + 2 ^ k * (Bit(a, k) * Bit(b, k))
                      /\ g[k + 1] = g[k] + 2 ^ k * ((Bit(a, k) + Bit(b, k)) % 2)
    OBVIOUS
  <2>1. both[k] = Bit(a, k) * Bit(b, k) /\ one[k] = (Bit(a, k) + Bit(b, k)) % 2
    OBVIOUS
  <2>2. f[k + 1] = f[k] + 2 ^ k * both[k] /\ g[k + 1] = g[k] + 2 ^ k * one[k]
    <3> HIDE DEF both, one
    <3>1. k \in Nat
      BY <1>1
    <3> QED
      BY <3>1, <1>5, <1>6
  <2> QED
    BY <2>1, <2>2
<1>8. /\ f[n] \in 0 .. h - 1 /\ g[n] \in 0 .. h - 1
      /\ 2 * f[n] + g[n] = (a % h) + (b % h)
  <2>1. \A k \in 0 .. Bits : /\ f[k] \in 0 .. 2 ^ k - 1 /\ g[k] \in 0 .. 2 ^ k - 1
                             /\ 2 * f[k] + g[k] = (a % 2 ^ k) + (b % 2 ^ k)
    <3>1. PartialSums(a, b, f, g)
      BY <1>5, <1>6, <1>7 DEF PartialSums
    <3> HIDE DEF both, one, n, h, c, d
    <3> QED
      BY <3>1, <1>4, LowerBitsAdd
  <2> QED
    BY <2>1, <1>2
<1>9. f[Bits] = f[n] + h * (c * d) /\ g[Bits] = g[n] + h * ((c + d) % 2)
  BY <1>2, <1>7
<1> HIDE DEF n, h, c, d
<1>10. Signed(f[Bits]) = f[n] - h * (c * d) /\ Signed(g[Bits]) = g[n] - h * ((c + d) % 2)
  <2>1. /\ \A p : Signed(p) = IF p >= h THEN p - 2 * h ELSE p
        /\ h * 0 = 0 /\ h * 1 = h
    BY <1>3 DEF Signed, h, n
  <2>2. c * d \in {0, 1} /\ (c + d) % 2 \in {0, 1}
    BY <1>4
  <2> QED
    BY <2>1, <2>2, <1>3, <1>8, <1>9
<1>11. BitAnd(a, b) = Signed(f[Bits]) /\ BitXor(a, b) = Signed(g[Bits])
  BY <1>5, <1>6 DEF BitAnd, BitXor
<1>12. 2 * (h * (c * d)) + h * ((c + d) % 2) = h * c + h * d
       /\ h * (c * d) \in Int /\ h * ((c + d) % 2) \in Int
       /\ h * c \in Int /\ h * d \in Int
  <2>1. CASE c = 0
    BY <2>1, <1>3, <1>4
  <2>2. CASE c = 1
    BY <2>2, <1>3, <1>4
  <2> QED
    BY <2>1, <2>2, <1>4
<1> DEFINE r == a % h
           s == b % h
<1>13. r \in Int /\ s \in Int /\ a = r - h * c /\ b = s - h * d /\ 2 * f[n] + g[n] = r + s
  BY <1>3, <1>4, <1>8
<1> HIDE DEF r, s
<1> DEFINE both1 == h * (c * d)
           one1 == h * ((c + d) % 2)
           hc == h * c
           hd == h * d
<1>14. /\ both1 \in Int /\ one1 \in Int /\ hc \in Int /\ hd \in Int
       /\ 2 * both1 + one1 = hc + hd
  BY <1>12
<1>15. /\ BitAnd(a, b) = f[n] - both1 /\ BitXor(a, b) = g[n] - one1
       /\ a = r - hc /\ b = s - hd /\ f[n] \in Int /\ g[n] \in Int
  BY <1>8, <1>10, <1>11, <1>13
<1> HIDE DEF both1, one1, hc, hd, both, one
<1> QED
  BY <1>13, <1>14, <1>15

\* The midpoint's floor, without the sum.
LEMMA LowerIsFloor ==
  ASSUME Chosen, NEW a \in E!Raws, NEW b \in E!Raws
  PROVE  /\ Lower(a, b) \in Int
         /\ a + b = 2 * Lower(a, b) + (IF Odd(a, b) THEN 1 ELSE 0)
<1> DEFINE c == BitAnd(a, b)
           d == BitXor(a, b)
<1>1. c \in Int /\ d \in Int /\ 2 * c + d = a + b
  BY CommonAndDiffering
<1> HIDE DEF c, d
<1>2. d \div 2 \in Int /\ d = 2 * (d \div 2) + (IF d % 2 = 1 THEN 1 ELSE 0)
  BY <1>1
<1> QED
  BY <1>1, <1>2 DEF Lower, Odd, c, d

\* A coarser grid is even and within the type.
LEMMA GridSize ==
  ASSUME Chosen
  PROVE  /\ E!Grid(D) = 1
         /\ request.decimals \in 0 .. D - 1 =>
              /\ grid \in Nat /\ grid > 0 /\ grid % 2 = 0 /\ grid < 2 ^ (Bits - 1)
              /\ E!Grid(request.decimals) = grid
<1>1. PICK t \in Types : Word = t[1] /\ Bits = t[2] /\ Radix = t[3] /\ D = t[4]
  BY DEF Chosen
<1>2. /\ Radix \in Nat /\ Radix >= 2 /\ Radix % 2 = 0 /\ D \in Nat
      /\ Radix ^ D < 2 ^ (Bits - 1)
  BY <1>1, TypesAssumption
<1>3. PowerLaws(Radix, D)
  BY <1>1, PowersAssumption DEF PowerLaws
<1>4. \A k \in 0 .. D : Radix ^ k \in Nat /\ Radix ^ k > 0
  BY <1>2, <1>3, PowersPositive
<1>5. E!Grid(D) = 1
  <2>1. D - D = 0
    BY <1>2
  <2> QED
    BY <2>1, <1>3 DEF E!Grid, PowerLaws
<1>6. ASSUME request.decimals \in 0 .. D - 1
      PROVE  grid \in Nat /\ grid > 0 /\ grid % 2 = 0 /\ grid < 2 ^ (Bits - 1)
  <2> DEFINE e == D - request.decimals
             p == Radix ^ (e - 1)
  <2>1. e \in 0 .. D /\ e - 1 \in 0 .. D - 1 /\ e - 1 \in 0 .. D /\ (e - 1) + 1 = e
        /\ D \in 0 .. D /\ e <= D
    BY <1>2, <1>6
  <2>2. grid = Radix ^ e /\ Radix ^ e \in Nat /\ Radix ^ e > 0
    BY <2>1, <1>4 DEF grid
  <2>3. Radix ^ e <= Radix ^ D
    BY <2>1, <1>2, <1>3, PowersOrder
  <2>4. Radix ^ e = Radix * p /\ p \in Nat
    BY <2>1, <1>3, <1>4 DEF PowerLaws
  <2>5. (Radix * p) % 2 = 0
    <3> DEFINE r == Radix \div 2
    <3>1. r \in Int /\ Radix = 2 * r
      BY <1>2
    <3> HIDE DEF r, p
    <3>2. Radix * p = 2 * (r * p) /\ r * p \in Int
      BY <3>1, <2>4
    <3> DEFINE s == r * p
    <3>3. Radix * p = 2 * s /\ s \in Int
      BY <3>2
    <3> HIDE DEF s
    <3> QED
      BY <3>3
  <2>6. 2 ^ (Bits - 1) \in Int
    BY Sizes
  <2> HIDE DEF e, p
  <2> QED
    BY <2>2, <2>3, <2>4, <2>5, <2>6, <1>2, <1>4
<1> QED
  BY <1>5, <1>6 DEF grid, E!Grid

\* A value is on the finest grid already.
LEMMA WholeRounds ==
  ASSUME NEW v \in Int, NEW rounding \in W!Modes
  PROVE  W!Truncate(v, 1) = v /\ W!Rounded(v, 1, rounding) = v
<1>1. v * 1 = v /\ v - v = 0
  OBVIOUS
<1>2. W!IsRounded(v, 1, v, rounding)
  BY <1>1 DEF W!IsRounded, W!Magnitude
<1>3. W!Rounded(v, 1, rounding) = v
  BY <1>2, W!RoundedIs
<1>4. W!IsRounded(v, 1, v, "toward_zero") /\ "toward_zero" \in W!Modes
  BY <1>1 DEF W!IsRounded, W!Magnitude, W!Modes
<1>5. W!Rounded(v, 1, "toward_zero") = v
  BY <1>4, W!RoundedIs
<1> QED
  BY <1>3, <1>5 DEF W!Rounded

\* An answer where every integer is on the grid.
LEMMA WholeAnswer ==
  ASSUME NEW v \in Int, NEW rounding \in W!Modes
  PROVE  E!OnGrid(v, 1, 1, rounding) = IF v \in E!Raws THEN E!Result(v) ELSE E!Error("overflow")
<1>1. E!Truncate(v, 1) = v /\ E!Rounded(v, 1, rounding) = v
  BY WholeRounds, SameRounded
<1>2. 1 * 1 = 1 /\ 1 * v = v /\ 1 * 1 * v = v /\ 1 # 0
  OBVIOUS
<1> QED
  BY <1>1, <1>2 DEF E!OnGrid

\* The same quotient for a word and for a type within it: what narrow_checked makes
\* of the word's answer is the type's.
LEMMA NarrowRight ==
  ASSUME Chosen, NEW n \in Int, NEW d \in Int, d # 0, NEW g \in Nat, g > 0, d * g # 0,
         NEW rounding \in W!Modes
  PROVE  LET w == W!OnGrid(n, d, g, rounding)
             z == W!OnGrid(n, d, g, "toward_zero")
             e == E!OnGrid(n, d, g, rounding)
         IN /\ Bits = Word => e = w
            /\ w.error # "inexact" => e = IF w.error = "none" THEN Ranged(w.value) ELSE w
            /\ w.error = "inexact" =>
                 e = IF z.error = "none" /\ ~InRange(z.value) THEN E!Error("overflow")
                                                               ELSE E!Error("inexact")
<1> DEFINE w == W!OnGrid(n, d, g, rounding)
           z == W!OnGrid(n, d, g, "toward_zero")
           e == E!OnGrid(n, d, g, rounding)
           c == d * g
           t == W!Truncate(n, c)
           v == W!Rounded(n, c, rounding)
           lo == g * t
           hi == g * v
           off == n # d * g * t
<1>1. c \in Int /\ c # 0
  OBVIOUS
<1>2. t \in Int /\ v \in Int /\ ((0 <= t /\ t <= v) \/ (v <= t /\ t <= 0))
  BY <1>1, W!RoundedOutward
<1>3. /\ E!Truncate(n, c) = t /\ E!Rounded(n, c, rounding) = v
      /\ W!Rounded(n, c, "toward_zero") = t
  <2>1. W!Rounded(n, c, "toward_zero") = t
    <3> HIDE DEF c
    <3> QED
      BY DEF W!Rounded
  <2> QED
    BY <2>1, SameRounded
<1> HIDE DEF t, v
<1>4. lo \in Int /\ hi \in Int /\ ((0 <= lo /\ lo <= hi) \/ (hi <= lo /\ lo <= 0))
  <2>1. CASE 0 <= t /\ t <= v
    <3>1. 0 <= t * g /\ t * g <= v * g /\ lo = t * g /\ hi = v * g
      BY <2>1, <1>2, ProductBelow
    <3> QED
      BY <3>1, <1>2
  <2>2. CASE v <= t /\ t <= 0
    <3>1. 0 <= (-t) * g /\ (-t) * g <= (-v) * g /\ (-t) * g = -lo /\ (-v) * g = -hi
      BY <2>2, <1>2, ProductBelow
    <3> QED
      BY <3>1, <1>2
  <2> QED
    BY <2>1, <2>2, <1>2
<1> DEFINE j == 2 ^ (Word - 1)
           k == 2 ^ (Bits - 1)
<1>5. /\ W!Raws = (-j) .. (j - 1) /\ E!Raws = (-k) .. (k - 1)
      /\ j \in Int /\ k \in Int /\ 0 < k /\ k <= j
      /\ \A u \in Int : InRange(u) <=> u \in E!Raws
  BY Sizes DEF W!Raws, InRange, raw_min, raw_max
<1>6. w = IF lo \notin W!Raws THEN E!Error("overflow")
          ELSE IF rounding = "exact" /\ off THEN E!Error("inexact")
          ELSE IF hi \notin W!Raws THEN E!Error("overflow") ELSE E!Result(hi)
  BY Answers DEF W!OnGrid, t, v
<1>7. e = IF lo \notin E!Raws THEN E!Error("overflow")
          ELSE IF rounding = "exact" /\ off THEN E!Error("inexact")
          ELSE IF hi \notin E!Raws THEN E!Error("overflow") ELSE E!Result(hi)
  BY <1>3 DEF E!OnGrid
<1>8. z = IF lo \notin W!Raws THEN E!Error("overflow") ELSE E!Result(lo)
  <2>1. W!Truncate(n, c) = t
    BY DEF t
  <2> QED
    BY <2>1, <1>3, Answers DEF W!OnGrid
<1>9. /\ \A u : E!Result(u).error = "none" /\ E!Result(u).value = u
      /\ \A u : E!Error(u).error = u
      /\ \A u \in Int : Ranged(u) = IF u \in E!Raws THEN E!Result(u) ELSE E!Error("overflow")
  BY <1>5, Answers DEF Ranged
<1> HIDE DEF w, z, e, lo, hi, off, j, k
<1>10. Bits = Word => e = w
  <2>1. Bits = Word => W!Raws = E!Raws
    BY DEF W!Raws, E!Raws
  <2> QED
    BY <2>1, <1>6, <1>7
<1>11. (hi \in E!Raws => lo \in E!Raws) /\ (lo \in E!Raws => lo \in W!Raws)
       /\ (hi \in E!Raws => hi \in W!Raws) /\ (hi \in W!Raws => lo \in W!Raws)
  BY <1>4, <1>5
<1>12. /\ w.error # "inexact" => e = IF w.error = "none" THEN Ranged(w.value) ELSE w
       /\ w.error = "inexact" =>
            e = IF z.error = "none" /\ ~InRange(z.value) THEN E!Error("overflow")
                                                          ELSE E!Error("inexact")
  <2>1. CASE lo \notin W!Raws
    <3>1. w = E!Error("overflow") /\ e = E!Error("overflow")
      BY <2>1, <1>6, <1>7, <1>11
    <3> QED
      BY <3>1, <1>9
  <2>2. CASE lo \in W!Raws /\ rounding = "exact" /\ off
    <3>1. w = E!Error("inexact") /\ z = E!Result(lo)
          /\ e = IF lo \in E!Raws THEN E!Error("inexact") ELSE E!Error("overflow")
      BY <2>2, <1>6, <1>7, <1>8
    <3> QED
      BY <3>1, <1>4, <1>5, <1>9
  <2>3. CASE lo \in W!Raws /\ ~(rounding = "exact" /\ off) /\ hi \notin W!Raws
    <3>1. w = E!Error("overflow") /\ e = E!Error("overflow")
      BY <2>3, <1>6, <1>7, <1>11
    <3> QED
      BY <3>1, <1>9
  <2>4. CASE lo \in W!Raws /\ ~(rounding = "exact" /\ off) /\ hi \in W!Raws
    <3>1. w = E!Result(hi)
          /\ e = IF hi \in E!Raws THEN E!Result(hi) ELSE E!Error("overflow")
      BY <2>4, <1>6, <1>7, <1>11
    <3> QED
      BY <3>1, <1>4, <1>9
  <2> QED
    BY <2>1, <2>2, <2>3, <2>4
<1> QED
  BY <1>10, <1>12 DEF w, z, e

-----------------------------------------------------------------------------
(* What the kernels return                                                 *)

\* The word and its bounds.
LEMMA WordSizes ==
  ASSUME Chosen
  PROVE  LET h == 2 ^ (Word - 1)
         IN /\ h \in Nat /\ h > 1 /\ M = h + h /\ W!M = M /\ W!WordWraps
            /\ INT_MAX = h - 1 /\ INT_MIN = -h
            /\ W!Raws = (-h) .. (h - 1) /\ \A v \in Int : v \in W!Raws <=> InWord(v)
            /\ Limit(TRUE) = h /\ Limit(FALSE) = h - 1
<1> DEFINE h == 2 ^ (Word - 1)
<1>1. W!WordHalves(h) /\ h \in Nat
  BY Sizes
<1>2. h > 1 /\ W!M = h + h
  BY <1>1 DEF W!WordHalves
<1>3. W!M = M /\ INT_MAX = h - 1 /\ INT_MIN = -h /\ W!Raws = (-h) .. (h - 1)
  BY DEF W!M, M, INT_MAX, INT_MIN, W!Raws
<1> HIDE DEF h
<1>4. Limit(TRUE) = h /\ Limit(FALSE) = h - 1
  BY <1>1, <1>3 DEF Limit, R!Indicator
<1>5. W!WordWraps
  BY <1>1, <1>2 DEF W!WordWraps
<1>6. \A v \in Int : v \in W!Raws <=> InWord(v)
  BY <1>1, <1>3 DEF InWord
<1> QED
  BY <1>1, <1>2, <1>3, <1>4, <1>5, <1>6 DEF h

\* An answer of word size, for a quotient and its rounding.
LEMMA WordAnswer ==
  ASSUME NEW n \in Int, NEW d \in Int, d # 0, NEW rounding,
         W!Truncate(n, d) \in Int, W!Rounded(n, d, rounding) \in Int
  PROVE  W!OnGrid(n, d, 1, rounding)
           = LET t == W!Truncate(n, d)
                 v == W!Rounded(n, d, rounding)
             IN IF t \notin W!Raws THEN E!Error("overflow")
                ELSE IF rounding = "exact" /\ n # d * t THEN E!Error("inexact")
                ELSE IF v \notin W!Raws THEN E!Error("overflow") ELSE E!Result(v)
<1> DEFINE t == W!Truncate(n, d)
           v == W!Rounded(n, d, rounding)
<1>1. d * 1 = d /\ 1 * t = t /\ 1 * v = v /\ d * 1 * t = d * t
  OBVIOUS
<1> QED
  BY <1>1, Answers DEF W!OnGrid

\* quotient64_general, for any divisor of a word.
LEMMA GeneralRight ==
  ASSUME Chosen, NEW n \in Int, NEW d \in Int, d # 0, Absolute(d) <= 2 ^ (Word - 1),
         NEW rounding \in W!Modes
  PROVE  LET negative == (n < 0) # (d < 0)
             unum == R!Magnitude(n)
             udiv == R!Magnitude(d)
         IN W!OnGrid(n, d, 1, rounding)
              = IF unum \div M >= udiv THEN R!Failure("overflow")
                ELSE WithSign(R!RoundMagnitude(unum \div udiv, unum % udiv, udiv,
                                               negative, rounding, Limit(negative)),
                              negative)
<1> DEFINE negative == (n < 0) # (d < 0)
           a == W!Absolute(n)
           b == W!Absolute(d)
           m == a \div b
           k == a % b
           u == W!Righted(n, d)
           h == 2 ^ (Word - 1)
           limit == Limit(negative)
           r == R!RoundMagnitude(m, k, b, negative, rounding, limit)
           t == W!Truncate(n, d)
           v == W!Rounded(n, d, rounding)
           answer1 == W!OnGrid(n, d, 1, rounding)
<1>1. /\ R!Magnitude(n) = a /\ R!Magnitude(d) = b /\ Absolute(d) = b
      /\ a \in Int /\ 0 <= a
  BY DEF R!Magnitude, W!Absolute, Absolute
<1>2. /\ b \in Int /\ b > 0 /\ m \in Nat /\ k \in 0 .. b - 1
      /\ u = IF negative THEN -(m * b + k) ELSE m * b + k
  BY W!MachineDivides
<1>3. /\ u \in Int /\ t = W!Truncate(u, b) /\ v = W!Rounded(u, b, rounding)
      /\ \A y \in Int : n = d * y <=> u = b * y
  BY W!SignsMove
<1>4. /\ h \in Nat /\ h > 1 /\ M = h + h /\ W!M = M /\ W!WordWraps
      /\ W!Raws = (-h) .. (h - 1)
      /\ limit = (IF negative THEN h ELSE h - 1)
  BY WordSizes
<1>5. /\ t \in Int /\ v \in Int
      /\ answer1 = IF t \notin W!Raws THEN E!Error("overflow")
                   ELSE IF rounding = "exact" /\ n # d * t THEN E!Error("inexact")
                   ELSE IF v \notin W!Raws THEN E!Error("overflow") ELSE E!Result(v)
  <2>1. t \in Int /\ v \in Int
    BY W!RoundedOutward
  <2> QED
    BY <2>1, WordAnswer
<1> DEFINE s == IF negative THEN -m ELSE m
<1>6. /\ t = s
      /\ n = d * t <=> k = 0
      /\ m > limit => r = E!Error("overflow")
      /\ m <= limit /\ rounding = "exact" /\ k # 0 => r = E!Error("inexact")
      /\ m <= limit /\ ~(rounding = "exact" /\ k # 0) =>
           \E y \in {m, m + 1} :
             /\ v = IF negative THEN -y ELSE y
             /\ r = IF y > limit THEN E!Error("overflow") ELSE E!Result(y)
  <2>1. b \in 1 .. W!M - 1 /\ limit \in Nat /\ negative \in BOOLEAN /\ s \in Int
    <3>1. negative \in BOOLEAN
      OBVIOUS
    <3>2. b <= h
      BY <1>1
    <3> HIDE DEF limit, b, m, k, u, negative, h, a, r, t, v, answer1
    <3> QED
      BY <3>1, <3>2, <1>2, <1>4
  <2> HIDE DEF limit, b, m, k, u, negative, h, a, r, t, v, answer1
  <2>2. LET w == W!RoundMagnitude(m, k, b, negative, rounding, limit)
        IN /\ W!Truncate(u, b) = s
           /\ u = b * s <=> k = 0
           /\ m > limit => w = W!Failure("overflow")
           /\ m <= limit /\ rounding = "exact" /\ k # 0 => w = W!Failure("inexact")
           /\ m <= limit /\ ~(rounding = "exact" /\ k # 0) =>
                \E y \in {m, m + 1} :
                  /\ W!Rounded(u, b, rounding) = IF negative THEN -y ELSE y
                  /\ w = IF y > limit THEN W!Failure("overflow") ELSE W!Value(y)
    <3>1. W!WordWraps /\ m \in Nat /\ k \in 0 .. b - 1 /\ u \in Int
          /\ u = IF negative THEN -(m * b + k) ELSE m * b + k
      BY <1>2, <1>3, <1>4
    <3> QED
      BY <2>1, <3>1, W!MagnitudeRounds
  <2>3. r = W!RoundMagnitude(m, k, b, negative, rounding, limit)
    BY SameMagnitudes DEF r
  <2>4. \A y : W!Failure(y) = E!Error(y) /\ W!Value(y) = E!Result(y)
    BY Answers
  <2> HIDE DEF s, r
  <2> QED
    BY <2>1, <2>2, <2>3, <2>4, <1>3
<1>7. m >= M => m > limit
  BY <1>2, <1>4
<1>8. a \div M >= b => m >= M
  <2> SUFFICES ASSUME a \div M >= b PROVE m >= M
    OBVIOUS
  <2>1. M \in Int /\ M > 0
    BY <1>4
  <2>2. (a \div M) * M <= a /\ a \div M \in Int
    BY <2>1, <1>1, DivMod
  <2>3. b * M <= (a \div M) * M
    BY <2>1, <2>2, <1>2, ProductBelow
  <2>4. M * b <= a
    BY <2>1, <2>2, <2>3, <1>1, <1>2
  <2> HIDE DEF a, b
  <2> QED
    BY <2>1, <2>4, <1>1, <1>2, FloorAtLeast
<1>9. /\ \A y : E!Result(y).error = "none" /\ E!Result(y).value = y /\ E!Error(y).error = y
      /\ \A y : R!Value(y) = E!Result(y) /\ R!Failure(y) = E!Error(y)
  BY Answers
<1>10. negative \in BOOLEAN
  OBVIOUS
<1> HIDE DEF negative, a, b, m, k, u, h, limit, r, t, v, answer1
<1>11. answer1 = WithSign(r, negative) /\ (m > limit => answer1 = E!Error("overflow"))
  <2>1. CASE m > limit
    <3>1. t \notin W!Raws
      BY <2>1, <1>2, <1>4, <1>6
    <3>2. answer1 = E!Error("overflow") /\ r = E!Error("overflow")
      BY <3>1, <2>1, <1>5, <1>6
    <3> QED
      BY <3>2, <1>9 DEF WithSign
  <2>2. CASE m <= limit /\ rounding = "exact" /\ k # 0
    <3>1. t \in W!Raws
      BY <2>2, <1>2, <1>4, <1>6
    <3>2. answer1 = E!Error("inexact") /\ r = E!Error("inexact")
      BY <3>1, <2>2, <1>5, <1>6
    <3>3. ~(m > limit)
      BY <2>2, <1>2, <1>4
    <3> QED
      BY <3>2, <3>3, <1>9 DEF WithSign
  <2>3. CASE m <= limit /\ ~(rounding = "exact" /\ k # 0)
    <3>1. t \in W!Raws /\ ~(m > limit)
      BY <2>3, <1>2, <1>4, <1>6
    <3>2. PICK y \in {m, m + 1} :
             /\ v = IF negative THEN -y ELSE y
             /\ r = IF y > limit THEN E!Error("overflow") ELSE E!Result(y)
      BY <2>3, <1>6
    <3>3. answer1 = IF v \notin W!Raws THEN E!Error("overflow") ELSE E!Result(v)
      BY <3>1, <2>3, <1>5, <1>6
    <3>4. y \in Int /\ 0 <= y
      BY <1>2
    <3>5. v \in W!Raws <=> ~(y > limit)
      BY <3>2, <3>4, <1>4
    <3>6. CASE y > limit
      BY <3>1, <3>2, <3>3, <3>5, <3>6, <1>9 DEF WithSign
    <3>7. CASE ~(y > limit)
      <4>1. answer1 = E!Result(v) /\ r = E!Result(y)
        BY <3>2, <3>3, <3>5, <3>7
      <4>2. WithSign(r, negative) = E!Result(v)
        <5>1. CASE negative
          BY <5>1, <4>1, <3>2, <1>9 DEF WithSign
        <5>2. CASE ~negative
          BY <5>2, <4>1, <3>2, <1>9 DEF WithSign
        <5> QED
          BY <5>1, <5>2
      <4> QED
        BY <4>1, <4>2, <3>1
    <3> QED
      BY <3>6, <3>7
  <2>4. limit \in Int /\ m \in Int
    BY <1>2, <1>4
  <2>5. m > limit \/ m <= limit
    BY <2>4
  <2> QED
    BY <2>1, <2>2, <2>3, <2>5
<1>12. answer1 = IF a \div M >= b THEN R!Failure("overflow") ELSE WithSign(r, negative)
  BY <1>7, <1>8, <1>9, <1>11
<1> QED
  BY <1>1, <1>12 DEF answer1, r, m, k, limit, negative

\* A quotient that fits the word, rounded: the answer is that, if it fits too.
LEMMA FittingAnswer ==
  ASSUME Chosen, NEW n \in Int, NEW d \in Int, d # 0, InWord(Quotient(n, d)),
         NEW rounding \in W!Modes, rounding # "exact"
  PROVE  LET v == W!Rounded(n, d, rounding)
         IN /\ v \in Int
            /\ W!OnGrid(n, d, 1, rounding)
                  = IF InWord(v) THEN E!Result(v) ELSE E!Error("overflow")
<1> DEFINE t == W!Truncate(n, d)
           v == W!Rounded(n, d, rounding)
<1>1. t \in Int /\ v \in Int
  BY W!RoundedOutward
<1>2. t = Quotient(n, d)
  BY QuotientTruncates, SameRounded
<1>3. \A y \in Int : y \in W!Raws <=> InWord(y)
  BY WordSizes
<1>4. W!OnGrid(n, d, 1, rounding)
        = IF t \notin W!Raws THEN E!Error("overflow")
          ELSE IF rounding = "exact" /\ n # d * t THEN E!Error("inexact")
          ELSE IF v \notin W!Raws THEN E!Error("overflow") ELSE E!Result(v)
  BY <1>1, WordAnswer
<1> HIDE DEF t, v
<1> QED
  BY <1>1, <1>2, <1>3, <1>4 DEF v

\* The shortcuts after a machine division round it.
LEMMA AdjustedRight ==
  ASSUME Chosen, numerator \in Int, divisor \in Int, divisor # 0,
         Absolute(divisor) <= 2 ^ (Word - 1), CommonRounding
  PROVE  LET v == W!Rounded(numerator, divisor, kmode)
         IN /\ AdjustedKernel = v
            /\ request.op = "mul" /\ divisor > 0 => AdjustedInline = v
            /\ request.op # "mul" => AdjustedInline = v
<1> DEFINE q == Quotient(numerator, divisor)
           r == Remainder(numerator, divisor)
           negative == (numerator < 0) # (divisor < 0)
           v == W!Rounded(numerator, divisor, kmode)
<1>1. /\ q = W!Quotient(numerator, divisor) /\ r = W!Remainder(numerator, divisor)
      /\ W!Absolute(divisor) = Absolute(divisor)
  BY SameDivision DEF W!Absolute, Absolute
<1>2. /\ W!WordWraps /\ W!Absolute(divisor) <= W!M \div 2
  <2> DEFINE h == 2 ^ (Word - 1)
  <2>1. h \in Nat /\ M = h + h /\ W!M = M /\ W!WordWraps
    BY WordSizes
  <2> HIDE DEF h
  <2>2. (h + h) \div 2 = h
    BY <2>1
  <2> QED
    BY <2>1, <2>2, <1>1 DEF h
<1>3. kmode \in W!Modes /\ kmode # "exact" /\ negative \in BOOLEAN
  BY DEF CommonRounding, W!Modes
<1>4. CASE kmode = "toward_zero" \/ r = 0
  <2> DEFINE k == W!Magnitude(r)
  <2>1. ~W!MovesOut(q, k, W!Absolute(divisor), negative, kmode)
    <3>1. CASE kmode = "toward_zero"
      BY <3>1 DEF W!MovesOut
    <3>2. CASE r = 0
      <4>1. k = 0
        BY <3>2 DEF W!Magnitude
      <4> QED
        BY <4>1 DEF W!MovesOut
    <3> QED
      BY <3>1, <3>2, <1>4
  <2>2. v = IF W!MovesOut(q, k, W!Absolute(divisor), negative, kmode)
              THEN IF negative THEN q - 1 ELSE q + 1 ELSE q
    <3> HIDE DEF q, r
    <3> QED
      BY <1>1, <1>3, W!QuotientRounds
  <2>3. v = q
    BY <2>1, <2>2
  <2> HIDE DEF v, q, r
  <2>4. AdjustedKernel = q /\ AdjustedInline = q
    BY <1>4 DEF AdjustedKernel, AdjustedInline, q, r
  <2> QED
    BY <2>3, <2>4 DEF v
<1>5. CASE kmode # "toward_zero" /\ r # 0
  <2>1. kmode = "nearest_even"
    BY <1>5 DEF CommonRounding
  <2>2. /\ v = q + W!NearestAdjustment(q, r, divisor, negative)
        /\ v = q + W!NearestAdj(q, r, divisor, negative)
        /\ divisor > 0 => v = q + W!NearestScaledAdj(q, r, divisor)
    BY <2>1, <1>1, <1>2, <1>5, W!ShortcutsRound
  <2>3. /\ R!NearestAdjustment(q, r, divisor, negative)
             = W!NearestAdjustment(q, r, divisor, negative)
        /\ R!NearestAdj(q, r, divisor, negative) = W!NearestAdj(q, r, divisor, negative)
        /\ R!NearestScaledAdj(q, r, divisor) = W!NearestScaledAdj(q, r, divisor)
    BY SameMagnitudes
  <2>4. /\ AdjustedKernel = q + R!NearestAdjustment(q, r, divisor, negative)
        /\ request.op = "mul" => AdjustedInline = q + R!NearestScaledAdj(q, r, divisor)
        /\ request.op # "mul" => AdjustedInline = q + R!NearestAdj(q, r, divisor, negative)
    BY <2>1, <1>5 DEF AdjustedKernel, AdjustedInline
  <2> HIDE DEF v, q, r, negative
  <2> QED
    BY <2>2, <2>3, <2>4 DEF v
<1> QED
  BY <1>4, <1>5

\* Whether two magnitudes multiply beyond the word, on either build.
LEMMA MulOverflowsRight ==
  ASSUME Chosen, NEW u \in Nat, NEW v \in Nat
  PROVE  MulOverflows(u, v) <=> u * v >= M
<1>1. M \in Nat /\ M > 0
  BY WordSizes
<1>2. CASE build = "asm"
  BY <1>2 DEF MulOverflows
<1>3. CASE build # "asm" /\ u = 0
  <2>1. u * v = 0
    BY <1>3
  <2> QED
    BY <1>1, <1>3, <2>1 DEF MulOverflows
<1>4. CASE build # "asm" /\ u # 0
  <2> DEFINE e == (M - 1) \div u
             p == u * v
  <2>1. MulOverflows(u, v) <=> v > e
    BY <1>4 DEF MulOverflows
  <2>2. p \in Int /\ p = v * u /\ M - 1 \in Int /\ u > 0 /\ e \in Int
    BY <1>1, <1>4
  <2>3. v <= e => ~(p >= M)
    <3> SUFFICES ASSUME v <= e PROVE p <= M - 1
      BY <2>2, <1>1
    <3>1. e * u <= M - 1 /\ e * u \in Int
      <4> DEFINE n == M - 1
      <4>1. n \in Int /\ u \in Int /\ u > 0
        BY <2>2
      <4>2. e = n \div u
        OBVIOUS
      <4> HIDE DEF n, e
      <4>3. n = (n \div u) * u + (n % u) /\ 0 <= n % u /\ n % u \in Int /\ n \div u \in Int
        BY <4>1, DivMod
      <4>4. e * u <= n /\ e * u \in Int
        BY <4>1, <4>2, <4>3
      <4> QED
        BY <4>4 DEF n
    <3>2. v * u <= e * u
      BY <2>2, ProductBelow
    <3> HIDE DEF e, p
    <3> QED
      BY <3>1, <3>2, <2>2
  <2>4. ~(p >= M) => v <= e
    <3> SUFFICES ASSUME p <= M - 1 PROVE v <= e
      BY <2>2, <1>1
    <3> QED
      BY <2>2, FloorAtLeast
  <2> HIDE DEF e, p
  <2>5. MulOverflows(u, v) <=> p >= M
    BY <2>1, <2>2, <2>3, <2>4
  <2> QED
    BY <2>5 DEF p
<1> QED
  BY <1>2, <1>3, <1>4

\* What quantize64_kernel delivers.
QuantizeResult ==
  LET negative == x < 0
      mag == R!Magnitude(x)
      rounded == R!RoundMagnitude(mag \div grid, mag % grid, grid, negative,
                                  kmode, Limit(negative))
  IN IF rounded.error # "none" THEN rounded
     ELSE IF \/ MulOverflows(rounded.value, grid)
             \/ (rounded.value * grid) % M > Limit(negative)
            THEN R!Failure("overflow")
     ELSE WithSign(R!Value((rounded.value * grid) % M), negative)

\* q and r are the quotient and the remainder of a numerator n of that sign.
Parted(n, d, q, r, negative, rounding, limit) ==
  /\ W!WordWraps /\ n \in Int /\ q \in Nat /\ limit \in Nat /\ negative \in BOOLEAN
  /\ d \in 1 .. W!M - 1 /\ r \in 0 .. d - 1 /\ rounding \in W!Modes
  /\ n = IF negative THEN -(q * d + r) ELSE q * d + r

\* What round_magnitude() makes of them, and what is meant.
RoundedTogether(n, d, q, r, negative, rounding, limit) ==
  LET w == R!RoundMagnitude(q, r, d, negative, rounding, limit)
      t == IF negative THEN -q ELSE q
  IN /\ W!Truncate(n, d) = t
     /\ n = d * t <=> r = 0
     /\ q > limit => w = E!Error("overflow")
     /\ q <= limit /\ rounding = "exact" /\ r # 0 => w = E!Error("inexact")
     /\ q <= limit /\ ~(rounding = "exact" /\ r # 0) =>
          \E v \in {q, q + 1} :
            /\ W!Rounded(n, d, rounding) = IF negative THEN -v ELSE v
            /\ w = IF v > limit THEN E!Error("overflow") ELSE E!Result(v)

\* round_magnitude() is handed quotient, remainder and sign apart; what it makes
\* of them is the numerator they come from, rounded.
LEMMA PartsRound ==
  ASSUME NEW n, NEW d, NEW q, NEW r, NEW negative, NEW rounding, NEW limit,
         Parted(n, d, q, r, negative, rounding, limit)
  PROVE  RoundedTogether(n, d, q, r, negative, rounding, limit)
<1> DEFINE t == IF negative THEN -q ELSE q
           e == R!RoundMagnitude(q, r, d, negative, rounding, limit)
<1>1. /\ W!WordWraps /\ n \in Int /\ q \in Nat /\ limit \in Nat /\ negative \in BOOLEAN
      /\ d \in 1 .. W!M - 1 /\ r \in 0 .. d - 1 /\ rounding \in W!Modes
      /\ n = IF negative THEN -(q * d + r) ELSE q * d + r
  BY DEF Parted
<1>2. LET w == W!RoundMagnitude(q, r, d, negative, rounding, limit)
      IN /\ W!Truncate(n, d) = t
         /\ n = d * t <=> r = 0
         /\ q > limit => w = W!Failure("overflow")
         /\ q <= limit /\ rounding = "exact" /\ r # 0 => w = W!Failure("inexact")
         /\ q <= limit /\ ~(rounding = "exact" /\ r # 0) =>
              \E v \in {q, q + 1} :
                /\ W!Rounded(n, d, rounding) = IF negative THEN -v ELSE v
                /\ w = IF v > limit THEN W!Failure("overflow") ELSE W!Value(v)
  BY <1>1, W!MagnitudeRounds
<1>3. e = W!RoundMagnitude(q, r, d, negative, rounding, limit)
  BY SameMagnitudes
<1>4. \A y : W!Failure(y) = E!Error(y) /\ W!Value(y) = E!Result(y)
  BY Answers
<1> HIDE DEF e, t
<1> QED
  BY <1>2, <1>3, <1>4 DEF RoundedTogether, e, t

\* quantize64_kernel rounds to the coarser grid.
LEMMA QuantizeRight ==
  ASSUME Chosen, x \in E!Raws, request.decimals \in 0 .. D - 1, kmode \in W!Modes
  PROVE  QuantizeResult = W!OnGrid(x, 1, grid, kmode)
<1> DEFINE h == 2 ^ (Word - 1)
           c == 2 ^ (Bits - 1)
           g == grid
           m == M
           negative == x < 0
           mag == R!Magnitude(x)
           q == mag \div g
           r == mag % g
           limit == Limit(negative)
           t == W!Truncate(x, g)
           y == W!Rounded(x, g, kmode)
           rounded == R!RoundMagnitude(q, r, g, negative, kmode, limit)
<1>1. /\ h \in Nat /\ h > 1 /\ m = h + h /\ W!M = m /\ W!WordWraps
      /\ W!Raws = (-h) .. (h - 1)
      /\ limit = IF negative THEN h ELSE h - 1
  <2>1. negative \in BOOLEAN
    OBVIOUS
  <2> HIDE DEF negative
  <2> QED
    BY <2>1, WordSizes
<1>2. c \in Nat /\ c <= h /\ x \in Int /\ -c <= x /\ x < c
  BY Sizes
<1>3. g \in Nat /\ g > 0 /\ g < c
  BY GridSize
<1> HIDE DEF h, c, g, m
<1>4. /\ mag \in Nat /\ x = (IF negative THEN -mag ELSE mag) /\ mag <= limit
      /\ limit \in Nat /\ negative \in BOOLEAN
  BY <1>1, <1>2 DEF R!Magnitude
<1> HIDE DEF mag, limit, negative
<1>5. q \in Nat /\ r \in Nat /\ r < g /\ mag = q * g + r /\ g > 0
  <2>1. q \in Int /\ r \in Int /\ mag = q * g + r /\ 0 <= r /\ r < g
    BY <1>3, <1>4, DivMod
  <2>2. 0 <= q
    BY <1>3, <1>4
  <2> QED
    BY <2>1, <2>2, <1>3
<1> HIDE DEF q, r
<1>6. q <= limit
  <2>1. q * g >= q /\ q * g \in Int
    BY <1>5, <1>3
  <2> QED
    BY <2>1, <1>5, <1>4
<1>7. x = IF negative THEN -(q * g + r) ELSE q * g + r
  BY <1>4, <1>5
<1>8. g \in 1 .. W!M - 1 /\ r \in 0 .. g - 1
  BY <1>1, <1>2, <1>3, <1>5
<1> HIDE DEF rounded
<1>10. /\ t = IF negative THEN -q ELSE q
       /\ x = g * t <=> r = 0
       /\ kmode = "exact" /\ r # 0 => rounded = E!Error("inexact")
       /\ ~(kmode = "exact" /\ r # 0) =>
            \E v \in {q, q + 1} :
              /\ y = IF negative THEN -v ELSE v
              /\ rounded = IF v > limit THEN E!Error("overflow") ELSE E!Result(v)
  <2>1. Parted(x, g, q, r, negative, kmode, limit)
    BY <1>1, <1>2, <1>4, <1>5, <1>7, <1>8 DEF Parted
  <2>2. RoundedTogether(x, g, q, r, negative, kmode, limit)
    BY <2>1, PartsRound
  <2> QED
    BY <2>2, <1>6 DEF RoundedTogether, rounded
<1>11. g * t \in W!Raws
  <2>1. t \in Int /\ ((0 <= g * t /\ g * t <= x) \/ (x <= g * t /\ g * t <= 0))
    BY <1>2, <1>3, W!TruncatedWithin
  <2> HIDE DEF t
  <2>2. g * t \in Int
    BY <2>1, <1>3
  <2> QED
    BY <2>1, <2>2, <1>1, <1>2
<1>12. W!OnGrid(x, 1, g, kmode)
         = IF kmode = "exact" /\ x # g * t THEN E!Error("inexact")
           ELSE IF g * y \notin W!Raws THEN E!Error("overflow") ELSE E!Result(g * y)
  <2>1. 1 * g = g /\ 1 # 0
    BY <1>3
  <2> QED
    BY <2>1, <1>11, Answers DEF W!OnGrid
<1>13. QuantizeResult
         = IF rounded.error # "none" THEN rounded
           ELSE IF \/ MulOverflows(rounded.value, g)
                   \/ (rounded.value * g) % m > limit
                  THEN E!Error("overflow")
           ELSE WithSign(E!Result((rounded.value * g) % m), negative)
  BY Answers DEF QuantizeResult, rounded, negative, mag, q, r, g, m, limit
<1> HIDE DEF t, y
<1>14. CASE kmode = "exact" /\ r # 0
  <2>1. rounded = E!Error("inexact") /\ rounded.error = "inexact"
    BY <1>10, <1>14, Answers
  <2> QED
    BY <2>1, <1>10, <1>12, <1>13, <1>14 DEF g
<1>15. CASE ~(kmode = "exact" /\ r # 0)
  <2>1. PICK v \in {q, q + 1} :
              /\ y = IF negative THEN -v ELSE v
              /\ rounded = IF v > limit THEN E!Error("overflow") ELSE E!Result(v)
    BY <1>10, <1>15
  <2> DEFINE p == v * g
  <2>2. v \in Nat /\ p \in Nat /\ v <= p
    <3>1. v \in Nat
      BY <2>1, <1>5
    <3>2. v * g >= v /\ v * g \in Int
      BY <3>1, <1>3
    <3> QED
      BY <3>1, <3>2
  <2>3. g * y = IF negative THEN -p ELSE p
    BY <2>1, <2>2, <1>3
  <2>4. ~(kmode = "exact" /\ x # g * t)
    BY <1>10, <1>15
  <2>5. MulOverflows(v, g) <=> p >= m
    BY <2>2, <1>3, MulOverflowsRight DEF m
  <2>6. g * y \in W!Raws <=> p <= limit
    <3> HIDE DEF p
    <3> QED
      BY <2>2, <2>3, <1>1, <1>3, <1>4
  <2>7. CASE v > limit
    <3>1. rounded = E!Error("overflow") /\ rounded.error = "overflow"
      BY <2>1, <2>7, Answers
    <3>2. g * y \notin W!Raws
      <4> HIDE DEF p
      <4> QED
        BY <2>2, <2>6, <2>7, <1>4
    <3> QED
      BY <3>1, <3>2, <2>4, <1>12, <1>13 DEF g
  <2>8. CASE ~(v > limit)
    <3>1. rounded.error = "none" /\ rounded.value = v
      BY <2>1, <2>8, Answers
    <3>2. QuantizeResult = IF p >= m \/ p % m > limit THEN E!Error("overflow")
                           ELSE WithSign(E!Result(p % m), negative)
      BY <3>1, <1>13, <2>5
    <3>3. limit < m
      BY <1>1, <1>4
    <3>4. CASE p >= m
      <4> HIDE DEF p
      <4>1. g * y \notin W!Raws
        BY <3>4, <3>3, <2>2, <2>6, <1>1, <1>4
      <4> QED
        BY <4>1, <3>2, <3>4, <2>4, <1>12 DEF g
    <3>5. CASE p < m
      <4> HIDE DEF p
      <4>1. p % m = p
        BY <3>5, <2>2, <1>1, p = 0 * m + p, DivUnique
      <4>2. WithSign(E!Result(p), negative) = E!Result(IF negative THEN -p ELSE p)
        BY Answers DEF WithSign
      <4>3. QuantizeResult = IF p > limit THEN E!Error("overflow")
                             ELSE E!Result(IF negative THEN -p ELSE p)
        BY <4>1, <4>2, <3>2, <3>5, <2>2, <1>1
      <4> QED
        BY <4>3, <2>2, <2>3, <2>4, <2>6, <1>4, <1>12 DEF g
    <3> QED
      BY <3>4, <3>5, <2>2, <1>1
  <2> QED
    BY <2>7, <2>8
<1> QED
  BY <1>14, <1>15

-----------------------------------------------------------------------------
(* The operations that never reach a kernel                                *)

\* The range of the type, and what wraps into it.
LEMMA TypeRange ==
  ASSUME Chosen
  PROVE  LET g == 2 ^ (Bits - 1)
         IN /\ g \in Nat /\ g > 0 /\ raw_min = -g
            /\ E!Raws = (-g) .. (g - 1)
            /\ \A v \in Int : InRange(v) <=> v \in E!Raws
            /\ \A v \in (-2 * g) .. (2 * g - 1) :
                 Wrapped(v) = IF v < -g THEN v + 2 * g ELSE IF v >= g THEN v - 2 * g ELSE v
<1> DEFINE g == 2 ^ (Bits - 1)
           m == 2 ^ Bits
<1>1. g \in Nat /\ g > 0 /\ E!Raws = (-g) .. (g - 1)
  BY Sizes
<1>2. m = 2 * g
  <2>1. /\ Bits \in Nat /\ Bits >= 2
        /\ \A i \in 0 .. Bits - 1 : 2 ^ (i + 1) = 2 * 2 ^ i
    BY PowersOfType
  <2>2. Bits - 1 \in 0 .. Bits - 1 /\ (Bits - 1) + 1 = Bits
    BY <2>1
  <2> QED
    BY <2>1, <2>2
<1>3. raw_min = -g /\ raw_max = g - 1
  BY DEF raw_min, raw_max
<1>4. \A v : Wrapped(v) = ((v - raw_min) % m) + raw_min
  BY DEF Wrapped
<1> HIDE DEF g, m
<1>5. ASSUME NEW v \in (-2 * g) .. (2 * g - 1)
      PROVE  Wrapped(v) = IF v < -g THEN v + 2 * g ELSE IF v >= g THEN v - 2 * g ELSE v
  <2> DEFINE u == v - raw_min
  <2>1. v \in Int /\ u \in Int /\ u = v + g /\ m \in Int /\ m > 0
    BY <1>1, <1>2, <1>3
  <2>2. CASE v < -g
    <3>1. u = (-1) * m + (v + 3 * g) /\ 0 <= v + 3 * g /\ v + 3 * g < m
      BY <2>1, <2>2, <1>1, <1>2
    <3> HIDE DEF u
    <3>2. u % m = v + 3 * g
      BY <3>1, <2>1, <1>1, DivUnique
    <3> QED
      BY <3>2, <2>1, <2>2, <1>1, <1>3, <1>4 DEF u
  <2>3. CASE v >= g
    <3>1. u = 1 * m + (v - g) /\ 0 <= v - g /\ v - g < m /\ v - g \in Int
      BY <2>1, <2>3, <1>1, <1>2
    <3> HIDE DEF u
    <3>2. u % m = v - g
      BY <3>1, <2>1, <1>1, DivUnique
    <3>3. Wrapped(v) = (v - g) + (-g)
      BY <3>2, <1>3, <1>4 DEF u
    <3>4. ~(v < -g)
      BY <2>1, <2>3, <1>1
    <3> QED
      BY <3>3, <3>4, <2>1, <2>3, <1>1
  <2>4. CASE ~(v < -g) /\ ~(v >= g)
    <3>1. u = 0 * m + u /\ 0 <= u /\ u < m
      BY <2>1, <2>4, <1>1, <1>2
    <3> HIDE DEF u
    <3>2. u % m = u
      BY <3>1, <2>1, <1>1, DivUnique
    <3> QED
      BY <3>2, <2>1, <2>4, <1>1, <1>3, <1>4 DEF u
  <2> QED
    BY <2>2, <2>3, <2>4
<1>6. \A v \in Int : InRange(v) <=> v \in E!Raws
  BY <1>1, <1>3 DEF InRange
<1> QED
  BY <1>1, <1>3, <1>5, <1>6 DEF g

\* An exact whole result, or the overflow.
LEMMA WholeExact ==
  ASSUME NEW v \in Int
  PROVE  E!OnGrid(v, 1, 1, "exact") = IF v \in E!Raws THEN R!Value(v) ELSE R!Failure("overflow")
<1>1. "exact" \in W!Modes
  BY DEF W!Modes
<1> QED
  BY <1>1, WholeAnswer, Answers

\* Both builds find the overflow of a sum and of a difference.
LEMMA SumRight ==
  ASSUME Chosen, NEW a \in E!Raws, NEW b \in E!Raws
  PROVE  /\ Sum(a, b) = E!OnGrid(a + b, 1, 1, "exact")
         /\ Difference(a, b) = E!OnGrid(a - b, 1, 1, "exact")
<1> DEFINE g == 2 ^ (Bits - 1)
<1>1. /\ g \in Nat /\ g > 0 /\ E!Raws = (-g) .. (g - 1)
      /\ \A v \in Int : InRange(v) <=> v \in E!Raws
      /\ \A v \in (-2 * g) .. (2 * g - 1) :
           Wrapped(v) = IF v < -g THEN v + 2 * g ELSE IF v >= g THEN v - 2 * g ELSE v
  BY TypeRange
<1> HIDE DEF g
<1>2. a \in Int /\ b \in Int /\ -g <= a /\ a < g /\ -g <= b /\ b < g
  BY <1>1
<1>3. Sum(a, b) = E!OnGrid(a + b, 1, 1, "exact")
  <2> DEFINE s == a + b
             w == Wrapped(s)
  <2>1. s \in Int /\ s \in (-2 * g) .. (2 * g - 1)
    BY <1>1, <1>2
  <2>2. w = IF s < -g THEN s + 2 * g ELSE IF s >= g THEN s - 2 * g ELSE s
    BY <2>1, <1>1
  <2>3. E!OnGrid(s, 1, 1, "exact") = IF s \in E!Raws THEN R!Value(s) ELSE R!Failure("overflow")
    BY <2>1, WholeExact
  <2>4. AddOverflows(a, b) <=> ~(s \in E!Raws)
    <3>1. CASE build = "asm"
      BY <3>1, <2>1, <1>1 DEF AddOverflows
    <3>2. CASE build # "asm"
      <4>1. AddOverflows(a, b) <=> ((a < 0) # (w < 0)) /\ ((b < 0) # (w < 0))
        BY <3>2 DEF AddOverflows, OppositeSigns
      <4> HIDE DEF w
      <4> QED
        BY <4>1, <2>2, <1>1, <1>2
    <3> QED
      BY <3>1, <3>2
  <2>5. Sum(a, b) = IF AddOverflows(a, b) THEN R!Failure("overflow") ELSE R!Value(w)
    BY DEF Sum
  <2>6. s \in E!Raws => w = s
    BY <2>1, <2>2, <1>1
  <2> HIDE DEF s, w
  <2>7. Sum(a, b) = E!OnGrid(s, 1, 1, "exact")
    BY <2>3, <2>4, <2>5, <2>6
  <2> QED
    BY <2>7 DEF s
<1>4. Difference(a, b) = E!OnGrid(a - b, 1, 1, "exact")
  <2> DEFINE s == a - b
             w == Wrapped(s)
  <2>1. s \in Int /\ s \in (-2 * g) .. (2 * g - 1)
    BY <1>1, <1>2
  <2>2. w = IF s < -g THEN s + 2 * g ELSE IF s >= g THEN s - 2 * g ELSE s
    BY <2>1, <1>1
  <2>3. E!OnGrid(s, 1, 1, "exact") = IF s \in E!Raws THEN R!Value(s) ELSE R!Failure("overflow")
    BY <2>1, WholeExact
  <2>4. SubOverflows(a, b) <=> ~(s \in E!Raws)
    <3>1. CASE build = "asm"
      BY <3>1, <2>1, <1>1 DEF SubOverflows
    <3>2. CASE build # "asm"
      <4>1. SubOverflows(a, b) <=> ((a < 0) # (b < 0)) /\ ((a < 0) # (w < 0))
        BY <3>2 DEF SubOverflows, OppositeSigns
      <4> HIDE DEF w
      <4> QED
        BY <4>1, <2>2, <1>1, <1>2
    <3> QED
      BY <3>1, <3>2
  <2>5. Difference(a, b) = IF SubOverflows(a, b) THEN R!Failure("overflow") ELSE R!Value(w)
    BY DEF Difference
  <2>6. s \in E!Raws => w = s
    BY <2>1, <2>2, <1>1
  <2> HIDE DEF s, w
  <2>7. Difference(a, b) = E!OnGrid(s, 1, 1, "exact")
    BY <2>3, <2>4, <2>5, <2>6
  <2> QED
    BY <2>7 DEF s
<1> QED
  BY <1>3, <1>4

\* Only the smallest value has no negative.
LEMMA NegatedRight ==
  ASSUME Chosen, NEW a \in E!Raws
  PROVE  /\ Negated(a) = E!OnGrid(-a, 1, 1, "exact")
         /\ a >= 0 => R!Value(a) = E!OnGrid(a, 1, 1, "exact")
         /\ -a \in E!Raws => Wrapped(-a) = -a
<1> DEFINE g == 2 ^ (Bits - 1)
<1>1. /\ g \in Nat /\ g > 0 /\ raw_min = -g /\ E!Raws = (-g) .. (g - 1)
      /\ \A v \in (-2 * g) .. (2 * g - 1) :
           Wrapped(v) = IF v < -g THEN v + 2 * g ELSE IF v >= g THEN v - 2 * g ELSE v
  BY TypeRange
<1> HIDE DEF g
<1>2. a \in Int /\ -g <= a /\ a < g /\ 0 \in E!Raws /\ 0 - a = -a /\ -a \in Int
  BY <1>1
<1>3. Negated(a) = E!OnGrid(-a, 1, 1, "exact")
  <2>1. CASE a = raw_min
    <3>1. -a \notin E!Raws
      BY <2>1, <1>1
    <3> QED
      BY <3>1, <2>1, <1>2, WholeExact DEF Negated
  <2>2. CASE a # raw_min
    <3>1. Difference(0, a) = E!OnGrid(0 - a, 1, 1, "exact")
      BY <1>2, SumRight
    <3> QED
      BY <3>1, <2>2, <1>2 DEF Negated
  <2> QED
    BY <2>1, <2>2
<1>4. a >= 0 => R!Value(a) = E!OnGrid(a, 1, 1, "exact")
  BY <1>2, WholeExact
<1> QED
  BY <1>1, <1>2, <1>3, <1>4

\* The remainder is the one of the truncated quotient, also by -1.
LEMMA RemainderRight ==
  ASSUME NEW a \in Int, NEW b \in Int, b # 0
  PROVE  RemainderOf(a, b) = a - b * E!Truncate(a, b)
<1>1. E!Truncate(a, b) = Quotient(a, b)
  BY QuotientTruncates
<1>2. CASE b = -1
  <2> DEFINE m == Absolute(a)
  <2>1. Absolute(b) = 1 /\ m \in Int /\ m \div 1 = m
    <3>0. b < 0
      BY <1>2
    <3>1. -b = 1
      <4>1. \A y \in Int : b = -y => -b = y
        OBVIOUS
      <4>2. 1 \in Int
        OBVIOUS
      <4> QED
        BY <4>1, <4>2, <1>2
    <3>2. Absolute(b) = 1
      BY <3>0, <3>1 DEF Absolute
    <3>3. m \in Int
      BY DEF Absolute
    <3> HIDE DEF m
    <3>4. m \div 1 = m
      BY <3>3
    <3> QED
      BY <3>2, <3>3, <3>4
  <2>2. Quotient(a, b) = -a
    BY <2>1, <1>2 DEF Quotient, Absolute
  <2> QED
    BY <2>2, <1>1, <1>2 DEF RemainderOf
<1>3. CASE b # -1
  BY <1>1, <1>3 DEF RemainderOf, Remainder
<1> QED
  BY <1>2, <1>3

\* The sum that a midpoint halves: its lower half and what is lost by it.
LEMMA HalvedSum ==
  ASSUME Chosen, NEW a \in E!Raws, NEW b \in E!Raws
  PROVE  LET l == Lower(a, b)
             n == a + b
             odd == Odd(a, b)
         IN /\ n \in Int /\ l \in Int /\ odd \in BOOLEAN
            /\ n = 2 * l + (IF odd THEN 1 ELSE 0)
            /\ l \in E!Raws /\ (odd => l + 1 \in E!Raws)
            /\ -(2 ^ (Bits - 1)) <= l /\ (odd => l + 1 < 2 ^ (Bits - 1))
<1> DEFINE l == Lower(a, b)
           n == a + b
           odd == Odd(a, b)
           g == 2 ^ (Bits - 1)
<1>1. g \in Nat /\ g > 0 /\ E!Raws = (-g) .. (g - 1)
  BY Sizes
<1>2. l \in Int /\ n = 2 * l + (IF odd THEN 1 ELSE 0)
  BY LowerIsFloor
<1>3. odd \in BOOLEAN
  BY DEF Odd
<1>4. n \in Int /\ -(2 * g) <= n /\ n <= 2 * g - 2
  BY <1>1
<1> HIDE DEF l, n, odd, g
<1>5. -g <= l /\ l <= g - 1 /\ (odd => l + 1 < g)
  BY <1>1, <1>2, <1>3, <1>4
<1> QED
  BY <1>1, <1>2, <1>3, <1>4, <1>5 DEF l, n, odd, g

\* A midpoint with all its digits.
LEMMA MidpointRight ==
  ASSUME Chosen, NEW a \in E!Raws, NEW b \in E!Raws, NEW rounding \in W!Modes
  PROVE  LET l == Lower(a, b)
             odd == Odd(a, b)
         IN E!OnGrid(a + b, 2, 1, rounding)
              = IF odd /\ rounding = "exact" THEN R!Failure("inexact")
                ELSE R!Value(l + R!Indicator(odd /\ MidpointIncrement(l, rounding)))
<1> DEFINE l == Lower(a, b)
           n == a + b
           odd == Odd(a, b)
           g == 2 ^ (Bits - 1)
           up == odd /\ MidpointIncrement(l, rounding)
           v == l + R!Indicator(up)
           t == E!Truncate(n, 2)
           y == E!Rounded(n, 2, rounding)
<1>1. /\ n \in Int /\ l \in Int /\ odd \in BOOLEAN
      /\ n = 2 * l + (IF odd THEN 1 ELSE 0)
      /\ l \in E!Raws /\ (odd => l + 1 \in E!Raws)
      /\ -g <= l /\ (odd => l + 1 < g)
  BY HalvedSum
<1>2. g \in Nat /\ g > 0 /\ E!Raws = (-g) .. (g - 1)
  BY Sizes
<1>3. v = IF up THEN l + 1 ELSE l
  BY <1>1 DEF R!Indicator
<1> HIDE DEF l, n, odd, g, v
<1>4. /\ t = W!Truncate(n, 2) /\ t \in Int
      /\ n >= 0 => 0 <= t /\ t * 2 <= n /\ n < t * 2 + 2
      /\ n <= 0 => t <= 0 /\ n <= t * 2 /\ t * 2 < n + 2
  <2>1. t = W!Truncate(n, 2)
    BY SameRounded
  <2>2. LET z == W!Truncate(n, 2)
        IN /\ z \in Int
           /\ n >= 0 => 0 <= z /\ z * 2 <= n /\ n < z * 2 + 2
           /\ n <= 0 => z <= 0 /\ n <= z * 2 /\ z * 2 < n + 2
    <3>1. 2 \in Int /\ 2 > 0
      OBVIOUS
    <3> QED
      BY <3>1, <1>1, W!TruncateMeans
  <2> HIDE DEF t
  <2> QED
    BY <2>1, <2>2
<1>5. y = W!Rounded(n, 2, rounding)
  BY SameRounded
<1> HIDE DEF t, y
<1>6. /\ t \in E!Raws
      /\ n = 2 * t <=> ~odd
  <2>1. l <= g - 1
    BY <1>1, <1>2
  <2> QED
    BY <2>1, <1>1, <1>2, <1>4
<1>7. v \in E!Raws /\ v \in Int
  BY <1>1, <1>2, <1>3
<1>8. E!OnGrid(n, 2, 1, rounding)
        = IF rounding = "exact" /\ n # 2 * t THEN E!Error("inexact")
          ELSE IF y \notin E!Raws THEN E!Error("overflow") ELSE E!Result(y)
  <2>1. y \in Int
    BY <1>1, <1>5, W!RoundedOutward
  <2>2. 2 * 1 = 2 /\ 1 * t = t /\ 1 * y = y /\ 2 * 1 * t = 2 * t /\ 2 # 0
    BY <1>4, <2>1
  <2> QED
    BY <2>2, <1>6 DEF E!OnGrid, t, y
<1>9. CASE odd /\ rounding = "exact"
  BY <1>6, <1>8, <1>9, Answers DEF l, n, odd
<1>10. CASE ~(odd /\ rounding = "exact")
  <2>1. W!IsRounded(n, 2, v, rounding)
    <3> DEFINE e == n - v * 2
    <3>1. e \in Int /\ W!Magnitude(e) = (IF e < 0 THEN -e ELSE e) /\ v * 2 - n = -e
          /\ (n < v * 2 <=> e < 0) /\ (v * 2 < n <=> e > 0)
      BY <1>1, <1>7 DEF W!Magnitude
    <3>2. W!IsRounded(n, 2, v, rounding) <=>
            LET w == W!Magnitude(e)
            IN /\ rounding = "floor" => 0 <= e /\ w < 2
               /\ rounding = "ceil" => 0 <= -e /\ w < 2
               /\ rounding = "toward_zero" =>
                    w < 2 /\ (n >= 0 => 0 <= e) /\ (n <= 0 => 0 <= -e)
               /\ rounding = "exact" => w = 0
               /\ rounding = "nearest_even" => 2 * w < 2 \/ (2 * w = 2 /\ v % 2 = 0)
               /\ rounding = "nearest_away" =>
                    \/ 2 * w < 2
                    \/ 2 * w = 2 /\ (n >= 0 => e < 0) /\ (n <= 0 => e > 0)
      BY <3>1 DEF W!IsRounded
    <3>3. e = IF odd THEN IF up THEN -1 ELSE 1 ELSE 0
      BY <1>1, <1>3
    <3>4. up <=> odd /\ (\/ rounding = "toward_zero" /\ l < 0
                         \/ rounding = "ceil"
                         \/ rounding = "nearest_even" /\ l % 2 = 1
                         \/ rounding = "nearest_away" /\ l >= 0)
      BY DEF MidpointIncrement
    <3> HIDE DEF e, up
    <3>5. CASE ~odd
      <4>1. e = 0 /\ W!Magnitude(e) = 0
        BY <3>5, <3>1, <3>3
      <4> QED
        BY <4>1, <3>2
    <3>6. CASE odd /\ ~up
      <4>1. e = 1 /\ W!Magnitude(e) = 1 /\ v = l /\ n = 2 * l + 1
        BY <3>6, <3>1, <3>3, <1>1, <1>3
      <4>2. l < 0 => n < 0
        BY <4>1, <1>1
      <4>3. l >= 0 => n > 0
        BY <4>1, <1>1
      <4>4. l % 2 \in {0, 1}
        BY <1>1
      <4>5. l < 0 \/ l >= 0
        BY <1>1
      <4> QED
        BY <4>1, <4>2, <4>3, <4>4, <4>5, <3>2, <3>4, <3>6, <1>1, <1>10
    <3>7. CASE odd /\ up
      <4>1. e < 0 /\ W!Magnitude(e) = 1 /\ -e = 1 /\ v = l + 1 /\ n = 2 * l + 1
        <5>1. e = -1 /\ v = l + 1 /\ n = 2 * l + 1
          BY <3>7, <3>3, <1>1, <1>3
        <5>2. e < 0
          BY <5>1
        <5>3. -e = 1
          <6>1. \A i \in Int : e = -i => -e = i
            OBVIOUS
          <6>2. 1 \in Int
            OBVIOUS
          <6> QED
            BY <6>1, <6>2, <5>1
        <5> QED
          BY <5>1, <5>2, <5>3, <3>1
      <4>2. l < 0 => n < 0
        BY <4>1, <1>1
      <4>3. l >= 0 => n > 0
        BY <4>1, <1>1
      <4>4. l % 2 = 1 => v % 2 = 0
        BY <4>1, <1>1
      <4> QED
        BY <4>1, <4>2, <4>3, <4>4, <3>2, <3>4, <3>7, <1>1, <1>10
    <3> QED
      BY <3>5, <3>6, <3>7
  <2>2. y = v
    BY <2>1, <1>1, <1>5, <1>7, W!RoundedIs
  <2>3. E!OnGrid(n, 2, 1, rounding) = E!Result(v)
    BY <2>2, <1>6, <1>7, <1>8, <1>10
  <2>4. E!OnGrid(n, 2, 1, rounding) = R!Value(v)
    BY <2>3, Answers
  <2> HIDE DEF up
  <2> QED
    BY <2>4, <1>10 DEF l, n, odd, v, up
<1> QED
  BY <1>9, <1>10

-----------------------------------------------------------------------------
(* The midpoint on a coarser grid                                          *)

\* Every mode but exact rounds to some integer.
LEMMA RoundsSomewhere ==
  ASSUME NEW n \in Int, NEW d \in Int, d > 0, NEW rounding \in W!Modes, rounding # "exact"
  PROVE  \E v \in Int : W!Rounded(n, d, rounding) = v /\ W!IsRounded(n, d, v, rounding)
<1> DEFINE negative == (n < 0) # (d < 0)
           q == W!Quotient(n, d)
           k == W!Magnitude(W!Remainder(n, d))
           v == IF W!MovesOut(q, k, W!Absolute(d), negative, rounding)
                  THEN IF negative THEN q - 1 ELSE q + 1
                  ELSE q
<1>1. negative \in BOOLEAN /\ d # 0
  OBVIOUS
<1>2. W!Righted(n, d) = n /\ W!Absolute(d) = d
  BY DEF W!Righted, W!Absolute
<1>3. /\ q \in Int
      /\ W!Rounded(n, d, rounding) = v
      /\ W!IsRounded(W!Righted(n, d), W!Absolute(d), v, rounding)
  <2> DEFINE sign == negative
  <2>1. W!Remainder(n, d) # 0 => (sign <=> (n < 0) # (d < 0))
    OBVIOUS
  <2> HIDE DEF sign
  <2>2. sign \in BOOLEAN
    BY DEF sign
  <2>3. LET z == IF W!MovesOut(q, k, W!Absolute(d), sign, rounding)
                   THEN IF sign THEN q - 1 ELSE q + 1
                   ELSE q
        IN /\ q \in Int
           /\ W!Rounded(n, d, rounding) = z
           /\ W!IsRounded(W!Righted(n, d), W!Absolute(d), z, rounding)
    BY <1>1, <2>1, <2>2, W!QuotientRounds
  <2> QED
    BY <2>3 DEF sign
<1>4. v \in Int
  BY <1>3
<1> QED
  BY <1>2, <1>3, <1>4

\* Half a step more or less: a value is halfway between two multiples of g.
LEMMA TieMeans ==
  ASSUME NEW l \in Int, NEW g \in Nat, NEW h \in Nat, h > 0, g = 2 * h
  PROVE  /\ RemainderOf(l, g) \in {h, -h} => \E k \in Int : l = k * g + h
         /\ \A v \in Int : l - v * g \in {h, -h} => RemainderOf(l, g) \in {h, -h}
<1> DEFINE q == Quotient(l, g)
           r == Remainder(l, g)
<1>1. RemainderOf(l, g) = r
  BY DEF RemainderOf
<1>2. q \in Int /\ r \in Int /\ l = g * q + r /\ -g < r /\ r < g
  <2> DEFINE m == W!Absolute(l) \div W!Absolute(g)
             k == W!Absolute(l) % W!Absolute(g)
             negative == (l < 0) # (g < 0)
  <2>1. g \in Int /\ g # 0 /\ W!Absolute(g) = g
    BY DEF W!Absolute
  <2>2. LET b == W!Absolute(g)
        IN /\ m \in Nat /\ k \in 0 .. b - 1
           /\ W!Quotient(l, g) = IF negative THEN -m ELSE m
           /\ W!Remainder(l, g) = IF l < 0 THEN -k ELSE k
    BY <2>1, W!MachineDivides
  <2>3. q = W!Quotient(l, g) /\ r = W!Remainder(l, g)
    BY SameDivision
  <2>4. r = l - g * q
    BY DEF Remainder
  <2> HIDE DEF q, r, m, k, negative
  <2>5. q \in Int /\ r \in Int /\ -g < r /\ r < g
    BY <2>1, <2>2, <2>3
  <2> QED
    BY <2>4, <2>5
<1> HIDE DEF q, r
<1>3. r \in {h, -h} => \E k \in Int : l = k * g + h
  <2>1. CASE r = h
    <3>1. l = q * g + h
      BY <2>1, <1>2
    <3> QED
      BY <3>1, <1>2
  <2>2. CASE r = -h
    <3>1. g * q = (q - 1) * g + g /\ g * q \in Int /\ (q - 1) * g \in Int
      BY <1>2
    <3>2. l = (q - 1) * g + h /\ q - 1 \in Int
      BY <3>1, <2>2, <1>2
    <3> QED
      BY <3>2
  <2> QED
    BY <2>1, <2>2
<1>4. ASSUME NEW v \in Int, l - v * g \in {h, -h}
      PROVE  r \in {h, -h}
  <2> DEFINE j == q - v
             s == l - v * g
  <2>1. j \in Int /\ s \in Int /\ j * g = s - r
    <3>1. j * g = g * q - v * g /\ g * q \in Int /\ v * g \in Int /\ j \in Int
      BY <1>2
    <3> QED
      BY <3>1, <1>2
  <2>2. s \in {h, -h}
    BY <1>4
  <2> HIDE DEF j, s
  <2>3. ~(2 <= j)
    <3> SUFFICES ASSUME 2 <= j PROVE FALSE
      OBVIOUS
    <3>1. 2 * g <= j * g
      BY <2>1, ProductBelow
    <3> QED
      BY <3>1, <2>1, <2>2, <1>2
  <2>4. ~(j <= -2)
    <3> SUFFICES ASSUME 2 <= -j PROVE FALSE
      BY <2>1
    <3>1. 2 * g <= (-j) * g /\ (-j) * g = -(j * g)
      BY <2>1, ProductBelow
    <3> QED
      BY <3>1, <2>1, <2>2, <1>2
  <2>5. j = 0 \/ j = 1 \/ j + 1 = 0
    BY <2>1, <2>3, <2>4
  <2>6. s - r = 0 \/ s - r = g \/ s - r = -g
    <3>1. j + 1 = 0 => j * g = -g
      BY <2>1
    <3> QED
      BY <3>1, <2>1, <2>5
  <2> QED
    BY <2>2, <2>6, <2>1, <1>2
<1> QED
  BY <1>1, <1>3, <1>4

\* Numerator and denominator doubled.
LEMMA EvenRounds ==
  ASSUME NEW l \in Int, NEW g \in Int, g > 0, NEW rounding \in W!Modes
  PROVE  /\ W!Rounded(2 * l, 2 * g, rounding) = W!Rounded(l, g, rounding)
         /\ W!Truncate(2 * l, 2 * g) = W!Truncate(l, g)
<1>1. ASSUME NEW m \in W!Modes, m # "exact"
      PROVE  W!Rounded(2 * l, 2 * g, m) = W!Rounded(l, g, m)
  <2>1. PICK v \in Int : W!Rounded(l, g, m) = v /\ W!IsRounded(l, g, v, m)
    BY <1>1, RoundsSomewhere
  <2> DEFINE p == v * g
             n == 2 * l
             d == 2 * g
  <2>2. p \in Int /\ n \in Int /\ d \in Int /\ d > 0 /\ v * d = 2 * p
    OBVIOUS
  <2>3. W!IsRounded(n, d, v, m)
    <3> DEFINE e == l - p
    <3>1. /\ n - v * d = 2 * e /\ v * d - n = 2 * (p - l) /\ e \in Int
          /\ W!Magnitude(2 * e) = 2 * W!Magnitude(e) /\ W!Magnitude(e) \in Int
          /\ (n >= 0 <=> l >= 0) /\ (n <= 0 <=> l <= 0)
          /\ (n < v * d <=> l < p) /\ (v * d < n <=> p < l)
      BY <2>2 DEF W!Magnitude
    <3> HIDE DEF e, n, d, p
    <3>2. W!IsRounded(l, g, v, m)
      BY <2>1
    <3> QED
      BY <3>1, <3>2, <2>2 DEF W!IsRounded, e, d, p
  <2> HIDE DEF n, d
  <2>4. W!Rounded(n, d, m) = v
    BY <2>2, <2>3, W!RoundedIs
  <2> QED
    BY <2>1, <2>4 DEF n, d
<1>2. \A n, d : W!Rounded(n, d, "toward_zero") = W!Truncate(n, d)
                /\ W!Rounded(n, d, "exact") = W!Truncate(n, d)
  BY DEF W!Rounded
<1>3. "toward_zero" \in W!Modes /\ "toward_zero" # "exact"
  BY DEF W!Modes
<1> QED
  BY <1>1, <1>2, <1>3

\* The lower half l of an odd sum, moved up where it is on the wrong side, or
\* rounded up where it is on a tie of the multiples of g.
HalfMoved(l, g, mode, y, m) ==
  /\ l \in Int /\ g \in Nat /\ g > 0 /\ g % 2 = 0 /\ mode \in W!Modes /\ mode # "exact"
  /\ y = IF mode = "ceil" \/ (mode = "toward_zero" /\ l < 0) THEN l + 1 ELSE l
  /\ m = IF /\ mode \in {"nearest_even", "nearest_away"}
            /\ RemainderOf(l, g) \in {g \div 2, -(g \div 2)}
           THEN "ceil" ELSE mode

\* It rounds like the odd sum itself.
LEMMA OddRounds ==
  ASSUME NEW l, NEW g, NEW mode, NEW y, NEW m, HalfMoved(l, g, mode, y, m)
  PROVE  m \in W!Modes /\ m # "exact"
         /\ W!Rounded(2 * l + 1, 2 * g, mode) = W!Rounded(y, g, m)
<1> DEFINE h == g \div 2
           n == 2 * l + 1
           d == 2 * g
           tie == RemainderOf(l, g) \in {h, -h}
<1>0. /\ l \in Int /\ g \in Nat /\ g > 0 /\ g % 2 = 0 /\ mode \in W!Modes /\ mode # "exact"
      /\ y = IF mode = "ceil" \/ (mode = "toward_zero" /\ l < 0) THEN l + 1 ELSE l
      /\ m = IF mode \in {"nearest_even", "nearest_away"} /\ tie THEN "ceil" ELSE mode
  BY DEF HalfMoved
<1> USE <1>0
<1>1. h \in Nat /\ h > 0 /\ g = 2 * h
  OBVIOUS
<1>2. y \in Int /\ m \in W!Modes /\ m # "exact"
  BY DEF W!Modes
<1>3. PICK v \in Int : W!Rounded(y, g, m) = v /\ W!IsRounded(y, g, v, m)
  <2>1. y \in Int /\ g \in Int /\ g > 0 /\ m \in W!Modes /\ m # "exact"
    BY <1>2
  <2>2. \E v \in Int : W!Rounded(y, g, m) = v /\ W!IsRounded(y, g, v, m)
    BY <2>1, RoundsSomewhere
  <2> QED
    BY <2>2
<1> DEFINE p == v * g
           e == y - p
           w == W!Magnitude(e)
           c == n - 2 * p
           u == W!Magnitude(c)
<1>4. p \in Int /\ e \in Int /\ c \in Int /\ v * d = 2 * p /\ n \in Int /\ d \in Int /\ d > 0
      /\ w \in Int /\ u \in Int
  BY <1>2 DEF W!Magnitude
<1>5. (/\ mode = "floor" => 0 <= c /\ u < d
       /\ mode = "ceil" => 0 <= -c /\ u < d
       /\ mode = "toward_zero" => u < d /\ (n >= 0 => 0 <= c) /\ (n <= 0 => 0 <= -c)
       /\ mode = "nearest_even" => 2 * u < d
       /\ mode = "nearest_away" => 2 * u < d)
      => W!IsRounded(n, d, v, mode)
  <2>1. n - v * d = c /\ v * d - n = -c
    BY <1>4
  <2> HIDE DEF c, u, n, d
  <2> QED
    BY <2>1, <1>4 DEF W!IsRounded, u
<1>6. /\ m = "floor" => 0 <= e /\ w < g
      /\ m = "ceil" => 0 <= -e /\ w < g
      /\ m = "toward_zero" => w < g /\ (y >= 0 => 0 <= e) /\ (y <= 0 => 0 <= -e)
      /\ m \in {"nearest_even", "nearest_away"} => 2 * w < g \/ 2 * w = g
  <2>1. y - v * g = e /\ v * g - y = -e
    BY <1>2, <1>4
  <2> HIDE DEF e, w
  <2> QED
    BY <2>1, <1>3 DEF W!IsRounded, w
<1>7. (w = IF e < 0 THEN -e ELSE e) /\ (u = IF c < 0 THEN -c ELSE c)
  BY DEF W!Magnitude
<1>8. c = 2 * (l - p) + 1 /\ e = y - p
  BY <1>4
<1>9. d = 2 * g /\ n = 2 * l + 1
  OBVIOUS
<1>10. m = IF mode \in {"nearest_even", "nearest_away"} /\ tie THEN "ceil" ELSE mode
  OBVIOUS
<1>11. tie <=> RemainderOf(l, g) \in {h, -h}
  OBVIOUS
<1>12. p = v * g
  OBVIOUS
<1> HIDE DEF h, n, d, tie, p, e, w, c, u
<1>13. ASSUME mode = "floor" PROVE W!IsRounded(n, d, v, mode)
  <2>1. y = l /\ m = "floor"
    BY <1>10, <1>13
  <2> QED
    BY <2>1, <1>2, <1>4, <1>5, <1>6, <1>7, <1>8, <1>9, <1>13
<1>14. ASSUME mode = "ceil" PROVE W!IsRounded(n, d, v, mode)
  <2>1. y = l + 1 /\ m = "ceil"
    BY <1>10, <1>14
  <2> QED
    BY <2>1, <1>2, <1>4, <1>5, <1>6, <1>7, <1>8, <1>9, <1>14
<1>15. ASSUME mode = "toward_zero" PROVE W!IsRounded(n, d, v, mode)
  <2>1. m = "toward_zero" /\ (y = IF l < 0 THEN l + 1 ELSE l)
    BY <1>10, <1>15
  <2>2. w < g /\ (y >= 0 => 0 <= e) /\ (y <= 0 => 0 <= -e)
    BY <2>1, <1>6
  <2>3. u < d /\ (n >= 0 => 0 <= c) /\ (n <= 0 => 0 <= -c)
    <3>1. CASE l < 0
      BY <3>1, <2>1, <2>2, <1>2, <1>4, <1>7, <1>8, <1>9
    <3>2. CASE ~(l < 0)
      BY <3>2, <2>1, <2>2, <1>2, <1>4, <1>7, <1>8, <1>9
    <3> QED
      BY <3>1, <3>2
  <2> QED
    BY <2>3, <1>5, <1>15
<1>16. ASSUME mode \in {"nearest_even", "nearest_away"} /\ tie PROVE W!IsRounded(n, d, v, mode)
  <2>1. y = l /\ m = "ceil"
    BY <1>10, <1>16
  <2>2. 0 <= -e /\ w < g
    BY <2>1, <1>6
  <2>3. PICK k \in Int : l = k * g + h
    BY <1>1, <1>11, <1>16, TieMeans
  <2> DEFINE j == v - k
  <2>4. j \in Int /\ j * g = p - l + h
    <3>1. j * g = v * g - k * g /\ v * g \in Int /\ k * g \in Int /\ j \in Int
      OBVIOUS
    <3> QED
      BY <3>1, <2>3, <1>1, <1>12
  <2> HIDE DEF j
  <2>5. j = 1
    <3>1. 0 * g < j * g
      BY <2>1, <2>2, <2>4, <1>1, <1>4, <1>7, <1>8
    <3>2. j * g < 2 * g
      BY <2>1, <2>2, <2>4, <1>1, <1>4, <1>7, <1>8
    <3>3. ~(j <= 0)
      <4> SUFFICES ASSUME 0 <= -j PROVE FALSE
        BY <2>4
      <4>1. 0 <= (-j) * g /\ (-j) * g = -(j * g)
        BY <2>4, ProductBelow
      <4> QED
        BY <4>1, <3>1, <2>4
    <3>4. ~(2 <= j)
      <4> SUFFICES ASSUME 2 <= j PROVE FALSE
        OBVIOUS
      <4>1. 2 * g <= j * g
        BY <2>4, ProductBelow
      <4> QED
        BY <4>1, <3>2, <2>4
    <3> QED
      BY <3>3, <3>4, <2>4
  <2>6. l - p = h - g
    BY <2>4, <2>5, <1>1, <1>4
  <2>7. c = 1 - g
    BY <2>6, <1>1, <1>8
  <2>8. 2 * u < d
    BY <2>7, <1>1, <1>4, <1>7, <1>9
  <2> QED
    BY <2>8, <1>5, <1>16
<1>17. ASSUME mode \in {"nearest_even", "nearest_away"} /\ ~tie PROVE W!IsRounded(n, d, v, mode)
  <2>1. y = l /\ m = mode
    BY <1>10, <1>17
  <2>2. 2 * w < g \/ 2 * w = g
    BY <2>1, <1>6, <1>17
  <2>3. ~(2 * w = g)
    <3> SUFFICES ASSUME 2 * w = g PROVE FALSE
      OBVIOUS
    <3>1. e = h \/ e = -h
      BY <1>1, <1>4, <1>7
    <3>2. l - v * g \in {h, -h}
      BY <3>1, <2>1, <1>8, <1>12
    <3>3. RemainderOf(l, g) \in {h, -h}
      BY <3>2, <1>1, TieMeans
    <3> QED
      BY <3>3, <1>11, <1>17
  <2>4. 2 * u < d
    BY <2>1, <2>2, <2>3, <1>1, <1>4, <1>7, <1>8, <1>9
  <2> QED
    BY <2>4, <1>5, <1>17
<1>18. W!IsRounded(n, d, v, mode)
  BY <1>13, <1>14, <1>15, <1>16, <1>17 DEF W!Modes
<1>19. W!Rounded(n, d, mode) = v
  BY <1>4, <1>18, W!RoundedIs
<1> QED
  BY <1>2, <1>3, <1>19 DEF n, d

\* What a midpoint on a coarser grid hands to quantize(): a value and a mode.
MovedHalf(a, b, mode) ==
  LET lower == Lower(a, b)
      up == mode = "ceil" \/ (mode = "toward_zero" /\ lower < 0)
  IN IF Odd(a, b) /\ up THEN lower + 1 ELSE lower

HalfMode(a, b, mode) ==
  LET lower == Lower(a, b)
      tie == /\ mode \in {"nearest_even", "nearest_away"}
             /\ RemainderOf(lower, grid) \in {grid \div 2, -(grid \div 2)}
  IN IF Odd(a, b) /\ tie THEN "ceil" ELSE mode

\* A quotient within the type, on a coarser grid.
LEMMA WithinType ==
  ASSUME Chosen, NEW n \in Int, NEW d \in Int, d > 0, NEW c \in Int, c > 0, NEW mode,
         -(d * 2 ^ (Bits - 1)) <= n, n <= d * (2 ^ (Bits - 1) - 1)
  PROVE  LET t == W!Truncate(n, d * c)
             y == W!Rounded(n, d * c, mode)
         IN E!OnGrid(n, d, c, mode)
              = IF mode = "exact" /\ n # d * c * t THEN E!Error("inexact")
                ELSE IF c * y \notin E!Raws THEN E!Error("overflow") ELSE E!Result(c * y)
<1> DEFINE g == 2 ^ (Bits - 1)
           e == d * c
           t == W!Truncate(n, e)
           p == c * t
<1>1. g \in Nat /\ g > 0 /\ E!Raws = (-g) .. (g - 1)
  BY Sizes
<1>2. e \in Int /\ e > 0
  OBVIOUS
<1>3. t \in Int /\ ((0 <= e * t /\ e * t <= n) \/ (n <= e * t /\ e * t <= 0))
  <2> HIDE DEF e
  <2> QED
    BY <1>2, W!TruncatedWithin
<1>4. -(d * g) <= n /\ n <= d * (g - 1)
  OBVIOUS
<1>5. d * c * t = d * p /\ e * t = d * p /\ p \in Int
  BY <1>3
<1> HIDE DEF g, t, p, e
<1>6. p \in E!Raws
  <2>1. d * p \in Int /\ d * g \in Int /\ d * (g - 1) \in Int /\ d * (-g) = -(d * g) /\ d * 0 = 0
    BY <1>1, <1>5
  <2>2. -(d * g) <= d * p /\ d * p <= d * (g - 1)
    <3>1. 0 <= d * g /\ 0 <= d * (g - 1)
      BY <1>1
    <3> QED
      BY <3>1, <2>1, <1>2, <1>3, <1>4, <1>5
  <2>3. -g <= p
    <3> SUFFICES ASSUME p < -g PROVE FALSE
      BY <1>1, <1>5
    <3>1. p * d + d <= (-g) * d /\ p * d = d * p /\ (-g) * d = -(d * g)
      BY <1>1, <1>5, MultipleOrder
    <3> QED
      BY <3>1, <2>1, <2>2
  <2>4. p <= g - 1
    <3> SUFFICES ASSUME g - 1 < p PROVE FALSE
      BY <1>1, <1>5
    <3>1. (g - 1) * d + d <= p * d /\ p * d = d * p /\ (g - 1) * d = d * (g - 1)
      BY <1>1, <1>5, MultipleOrder
    <3> QED
      BY <3>1, <2>1, <2>2
  <2> QED
    BY <2>3, <2>4, <1>1, <1>5
<1>7. E!Truncate(n, e) = t /\ \A z : E!Rounded(n, e, z) = W!Rounded(n, e, z)
  BY SameRounded DEF t
<1> QED
  BY <1>5, <1>6, <1>7 DEF E!OnGrid, e, t, p

\* A midpoint on a coarser grid.
LEMMA MidpointOnGridRight ==
  ASSUME Chosen, NEW a \in E!Raws, NEW b \in E!Raws, NEW mode \in W!Modes,
         request.decimals \in 0 .. D - 1
  PROVE  IF Odd(a, b) /\ mode = "exact"
           THEN E!OnGrid(a + b, 2, grid, mode) = R!Failure("inexact")
           ELSE /\ MovedHalf(a, b, mode) \in E!Raws /\ HalfMode(a, b, mode) \in W!Modes
                /\ E!OnGrid(a + b, 2, grid, mode)
                     = E!OnGrid(MovedHalf(a, b, mode), 1, grid, HalfMode(a, b, mode))
<1> DEFINE l == Lower(a, b)
           n == a + b
           odd == Odd(a, b)
           g == 2 ^ (Bits - 1)
           c == grid
           y == MovedHalf(a, b, mode)
           m == HalfMode(a, b, mode)
<1>1. /\ n \in Int /\ l \in Int /\ odd \in BOOLEAN
      /\ n = 2 * l + (IF odd THEN 1 ELSE 0)
      /\ l \in E!Raws /\ (odd => l + 1 \in E!Raws)
      /\ -g <= l /\ (odd => l + 1 < g)
  BY HalvedSum
<1>2. g \in Nat /\ g > 0 /\ E!Raws = (-g) .. (g - 1)
  BY Sizes
<1>3. c \in Nat /\ c > 0 /\ c % 2 = 0 /\ c \in Int
  BY GridSize
<1>4. -(2 * g) <= n /\ n <= 2 * (g - 1)
  BY <1>2
<1>5. y = IF odd /\ (mode = "ceil" \/ (mode = "toward_zero" /\ l < 0)) THEN l + 1 ELSE l
  BY DEF MovedHalf
<1>6. m = IF odd /\ /\ mode \in {"nearest_even", "nearest_away"}
                    /\ RemainderOf(l, c) \in {c \div 2, -(c \div 2)}
            THEN "ceil" ELSE mode
  BY DEF HalfMode
<1>7. LET t == W!Truncate(n, 2 * c)
          z == W!Rounded(n, 2 * c, mode)
      IN E!OnGrid(n, 2, c, mode)
           = IF mode = "exact" /\ n # 2 * c * t THEN E!Error("inexact")
             ELSE IF c * z \notin E!Raws THEN E!Error("overflow") ELSE E!Result(c * z)
  <2> HIDE DEF n, c
  <2>1. 2 \in Int /\ 2 > 0
    OBVIOUS
  <2>2. n \in Int /\ c \in Int /\ c > 0 /\ -(2 * 2 ^ (Bits - 1)) <= n
        /\ n <= 2 * (2 ^ (Bits - 1) - 1)
    BY <1>1, <1>3, <1>4 DEF g
  <2> QED
    BY <2>1, <2>2, WithinType
<1>8. y \in E!Raws
  BY <1>1, <1>5
<1>9. \A z : E!OnGrid(y, 1, c, z)
           = IF z = "exact" /\ y # c * W!Truncate(y, c) THEN E!Error("inexact")
             ELSE IF c * W!Rounded(y, c, z) \notin E!Raws THEN E!Error("overflow")
                  ELSE E!Result(c * W!Rounded(y, c, z))
  <2> HIDE DEF y, c
  <2> TAKE z
  <2>1. y \in Int /\ 1 * c = c /\ 1 * c * W!Truncate(y, c) = c * W!Truncate(y, c)
    BY <1>2, <1>3, <1>8
  <2>2. 1 \in Int /\ 1 > 0 /\ -(1 * 2 ^ (Bits - 1)) <= y /\ y <= 1 * (2 ^ (Bits - 1) - 1)
    <3>1. 1 * g = g /\ 1 * (g - 1) = g - 1 /\ -g <= y /\ y <= g - 1
      BY <1>2, <1>8
    <3> QED
      BY <3>1 DEF g
  <2>3. LET t == W!Truncate(y, 1 * c)
            v == W!Rounded(y, 1 * c, z)
        IN E!OnGrid(y, 1, c, z)
             = IF z = "exact" /\ y # 1 * c * t THEN E!Error("inexact")
               ELSE IF c * v \notin E!Raws THEN E!Error("overflow") ELSE E!Result(c * v)
    BY <2>1, <2>2, <1>3, WithinType
  <2> QED
    BY <2>1, <2>3
<1> HIDE DEF l, n, odd, g, c, y, m
<1>10. ASSUME odd, mode = "exact" PROVE E!OnGrid(n, 2, c, mode) = R!Failure("inexact")
  <2> DEFINE t == W!Truncate(n, 2 * c)
             p == c * t
  <2>1. 2 * c * t = 2 * p /\ p \in Int
    <3>1. 2 * c \in Int /\ 2 * c > 0
      BY <1>3
    <3>2. t \in Int
      BY <3>1, <1>1, W!TruncateMeans
    <3> HIDE DEF t
    <3> QED
      BY <3>2, <1>3
  <2> HIDE DEF p
  <2>2. n # 2 * p
    BY <2>1, <1>1, <1>10
  <2> QED
    BY <2>1, <2>2, <1>7, <1>10, Answers
<1>11. ASSUME ~odd
       PROVE  m \in W!Modes /\ E!OnGrid(n, 2, c, mode) = E!OnGrid(y, 1, c, m)
  <2>1. y = l /\ m = mode /\ n = 2 * l
    BY <1>1, <1>5, <1>6, <1>11
  <2>2. /\ W!Rounded(n, 2 * c, mode) = W!Rounded(l, c, mode)
        /\ W!Truncate(n, 2 * c) = W!Truncate(l, c)
    BY <2>1, <1>1, <1>3, EvenRounds
  <2> DEFINE t == W!Truncate(l, c)
             p == c * t
  <2>3. t \in Int
    BY <1>1, <1>3, W!TruncateMeans
  <2> HIDE DEF t
  <2>4. 2 * c * t = 2 * p /\ p \in Int
    BY <2>3, <1>3
  <2> HIDE DEF p
  <2>5. n # 2 * p <=> l # p
    BY <2>1, <2>4, <1>1
  <2> QED
    BY <2>1, <2>2, <2>4, <2>5, <1>7, <1>9 DEF t, p
<1>12. ASSUME odd, mode # "exact"
       PROVE  m \in W!Modes /\ E!OnGrid(n, 2, c, mode) = E!OnGrid(y, 1, c, m)
  <2>1. /\ m \in W!Modes /\ m # "exact"
        /\ W!Rounded(2 * l + 1, 2 * c, mode) = W!Rounded(y, c, m)
    <3>1. y = IF mode = "ceil" \/ (mode = "toward_zero" /\ l < 0) THEN l + 1 ELSE l
      BY <1>5, <1>12
    <3>2. m = IF /\ mode \in {"nearest_even", "nearest_away"}
                 /\ RemainderOf(l, c) \in {c \div 2, -(c \div 2)}
                THEN "ceil" ELSE mode
      BY <1>6, <1>12
    <3>3. /\ l \in Int /\ c \in Nat /\ c > 0 /\ c % 2 = 0
          /\ mode \in W!Modes /\ mode # "exact"
      BY <1>1, <1>3, <1>12
    <3>4. HalfMoved(l, c, mode, y, m)
      BY <3>1, <3>2, <3>3 DEF HalfMoved
    <3> QED
      BY <3>4, OddRounds
  <2>2. n = 2 * l + 1
    BY <1>1, <1>12
  <2> QED
    BY <2>1, <2>2, <1>7, <1>9, <1>12
<1> QED
  BY <1>1, <1>8, <1>10, <1>11, <1>12 DEF odd, n, c, y, m

-----------------------------------------------------------------------------
(* Every answer is the right one                                           *)

\* What ExactArithmetic makes of the values that a stage works on, and what it
\* would be in a type as wide as the word.
InType(mode) ==
  IF Divided THEN E!OnGrid(numerator, divisor, 1, mode) ELSE E!OnGrid(x, 1, grid, mode)
InAWord(mode) ==
  IF Divided THEN W!OnGrid(numerator, divisor, 1, mode) ELSE W!OnGrid(x, 1, grid, mode)

Delivering == stage \in {"inline", "kernel", "signed", "general", "quantize", "narrow"}

\* The call is answered once, with what ExactArithmetic says.
Asked == IF stage = "idle" THEN request = E!NoRequest ELSE request \in E!Requests
Answered == answer = IF stage = "answered" THEN E!RightAnswer(request) ELSE E!NoAnswer

\* A call starts from its first argument, in its own mode.
Fresh ==
  /\ stage = "dispatch" => x = request.a /\ kmode = request.rounding
  /\ stage \in {"idle", "dispatch", "inline", "unchecked"} => ~retried

\* What a kernel works on has the call's answer; a mode that narrow_checked has
\* replaced was exact.
Meant ==
  Delivering =>
    /\ kmode \in W!Modes
    /\ E!RightAnswer(request) = InType(IF retried THEN "exact" ELSE kmode)
    /\ ~Divided => x \in E!Raws /\ request.decimals \in 0 .. D - 1

\* narrow_checked has a word's answer, and reruns what was inexact in a word.
Narrowing ==
  /\ stage = "narrow" => result = InAWord(kmode) /\ Bits # Word
  /\ Delivering /\ retried =>
       kmode = "toward_zero" /\ InAWord("exact").error = "inexact" /\ Bits # Word

\* The stages that divide by the machine have a type or a mode for it.
Shortcut ==
  /\ stage = "inline" => Bits = Word /\ CommonRounding
  /\ stage = "signed" => CommonRounding
  /\ stage = "unchecked" => Vouched /\ kmode = request.rounding

Meaning == Asked /\ Answered /\ Fresh /\ Meant /\ Narrowing /\ Shortcut

\* Nothing that is meant changes with the stage alone.
LEMMA AnswerStays ==
  ASSUME UNCHANGED type, UNCHANGED request
  PROVE  /\ E!RightAnswer(request)' = E!RightAnswer(request)
         /\ E!Requests' = E!Requests /\ E!Raws' = E!Raws
         /\ Divided' = Divided
<1>1. Word' = Word /\ Bits' = Bits /\ Radix' = Radix /\ D' = D /\ request' = request
  BY DEF type
<1>2. E!Raws' = E!Raws
  BY <1>1 DEF E!Raws
<1>3. \A n, d, g, mode : E!OnGrid(n, d, g, mode)' = E!OnGrid(n, d, g, mode)
  BY <1>2 DEF E!OnGrid
<1>4. E!Scale' = E!Scale /\ \A decimals : E!Grid(decimals)' = E!Grid(decimals)
  BY <1>1 DEF E!Scale, E!Grid
<1>5. E!RightAnswer(request)' = E!RightAnswer(request)
  BY <1>1, <1>3, <1>4 DEF E!RightAnswer
<1>6. E!Requests' = E!Requests
  BY <1>1, <1>2 DEF E!Requests
<1> QED
  BY <1>1, <1>2, <1>5, <1>6 DEF Divided

\* What a value means depends on the type and the call, not on the stage.
LEMMA MeaningStays ==
  ASSUME UNCHANGED type, UNCHANGED request, UNCHANGED <<x, numerator, divisor>>
  PROVE  \A mode : /\ InType(mode)' = InType(mode)
                   /\ InAWord(mode)' = InAWord(mode)
<1>1. Word' = Word /\ Bits' = Bits /\ Radix' = Radix /\ D' = D /\ request' = request
      /\ x' = x /\ numerator' = numerator /\ divisor' = divisor
  BY DEF type
<1>2. E!Raws' = E!Raws /\ W!Raws' = W!Raws
  BY <1>1 DEF E!Raws, W!Raws
<1>3. \A n, d, g, mode : /\ E!OnGrid(n, d, g, mode)' = E!OnGrid(n, d, g, mode)
                         /\ W!OnGrid(n, d, g, mode)' = W!OnGrid(n, d, g, mode)
  BY <1>2 DEF E!OnGrid, W!OnGrid
<1>4. grid' = grid /\ Divided' = Divided
  BY <1>1 DEF grid, Divided
<1> QED
  BY <1>1, <1>3, <1>4 DEF InType, InAWord

\* Replying what is right ends the call.
LEMMA RepliesRight ==
  ASSUME Meaning, stage \notin {"idle", "answered"}, Reply(E!RightAnswer(request))
  PROVE  Meaning' /\ E!Respond
<1>1. /\ stage' = "answered" /\ answer' = E!RightAnswer(request)
      /\ UNCHANGED type /\ UNCHANGED request
  BY DEF Reply
<1>2. E!RightAnswer(request)' = E!RightAnswer(request) /\ E!Requests' = E!Requests
  BY <1>1, AnswerStays
<1>3. request \in E!Requests /\ answer = E!NoAnswer
  BY DEF Meaning, Asked, Answered
<1>4. Meaning'
  BY <1>1, <1>2, <1>3
     DEF Meaning, Asked, Answered, Fresh, Delivering, Meant, Narrowing, Shortcut
<1>5. request # E!NoRequest
  BY <1>3 DEF E!Requests, E!NoRequest, E!Request, E!Ops
<1>6. UNCHANGED E!type
  BY <1>1 DEF type, E!type
<1> QED
  BY <1>1, <1>3, <1>4, <1>5, <1>6 DEF E!Respond

\* A kernel hands on what it works on.
LEMMA HandsOn ==
  ASSUME Meaning, Delivering, stage' \in {"signed", "general"},
         stage' = "signed" => CommonRounding,
         UNCHANGED <<type, request, answer, build, x, kmode, kernel, retried>>
  PROVE  Meaning' /\ UNCHANGED E!vars
<1>1. /\ UNCHANGED type /\ UNCHANGED request /\ UNCHANGED <<x, numerator, divisor>>
      /\ UNCHANGED answer /\ kmode' = kmode /\ retried' = retried
      /\ Bits' = Bits /\ Word' = Word /\ D' = D
  BY DEF type, kernel
<1>2. /\ E!Requests' = E!Requests /\ E!Raws' = E!Raws /\ Divided' = Divided
      /\ E!RightAnswer(request)' = E!RightAnswer(request)
  BY <1>1, AnswerStays
<1>3. \A mode : InType(mode)' = InType(mode) /\ InAWord(mode)' = InAWord(mode)
  BY <1>1, MeaningStays
<1>4. stage \notin {"idle", "answered"} /\ stage' \notin {"idle", "answered"}
  BY DEF Delivering
<1>5. Asked' /\ Answered' /\ Fresh'
  BY <1>1, <1>2, <1>4 DEF Meaning, Asked, Answered, Fresh, E!NoAnswer, E!Error
<1>6. Meant'
  BY <1>1, <1>2, <1>3 DEF Meaning, Meant
<1>7. Narrowing'
  BY <1>1, <1>3 DEF Meaning, Narrowing
<1>8. Shortcut'
  BY <1>1 DEF Shortcut, CommonRounding
<1>9. UNCHANGED E!vars
  BY <1>1 DEF E!vars, E!type, type
<1> QED
  BY <1>5, <1>6, <1>7, <1>8, <1>9 DEF Meaning

\* What a kernel divides, or places on the coarser grid.
LEMMA Material ==
  ASSUME IInv, Meaning, Delivering
  PROVE  /\ Divided => /\ numerator \in Int /\ divisor \in Int /\ divisor # 0
                       /\ Absolute(divisor) <= 2 ^ (Word - 1)
                       /\ request.op = "mul" => divisor > 0
         /\ ~Divided => /\ stage \in {"quantize", "narrow"} /\ x \in E!Raws /\ x \in Int
                        /\ request.decimals \in 0 .. D - 1
                        /\ grid \in Nat /\ grid > 0
<1>1. ASSUME Divided
      PROVE  /\ numerator \in Int /\ divisor \in Int /\ divisor # 0
             /\ Absolute(divisor) <= 2 ^ (Word - 1)
             /\ request.op = "mul" => divisor > 0
  <2> DEFINE h == 2 ^ (Word - 1)
  <2>1. numerator = Numerator /\ divisor = Denominator /\ divisor # 0 /\ stage # "idle"
    BY <1>1 DEF IInv, Loaded, Dividing, Delivering
  <2>2. /\ W!DoubleWord(numerator, h)
        /\ divisor \in Int /\ -h <= divisor /\ divisor < h
        /\ request.op = "mul" => divisor = scale
    BY <1>1, <2>1, Operands DEF IInv
  <2>3. h \in Nat /\ scale \in Nat /\ 0 < scale
    BY Sizes DEF IInv
  <2> HIDE DEF h
  <2>4. numerator \in Int /\ Absolute(divisor) <= h
    BY <2>2, <2>3 DEF W!DoubleWord, Absolute
  <2> QED
    BY <2>1, <2>2, <2>3, <2>4 DEF h
<1>2. ASSUME ~Divided
      PROVE  /\ stage \in {"quantize", "narrow"} /\ x \in E!Raws /\ x \in Int
             /\ request.decimals \in 0 .. D - 1
             /\ grid \in Nat /\ grid > 0
  <2>1. stage \in {"quantize", "narrow"}
    BY <1>2 DEF IInv, Loaded, Dividing, Delivering
  <2>2. x \in E!Raws /\ request.decimals \in 0 .. D - 1
    BY <1>2 DEF Meaning, Meant
  <2>3. grid \in Nat /\ grid > 0
    BY <2>2, GridSize DEF IInv
  <2>4. x \in Int
    BY <2>2, Sizes DEF IInv
  <2> QED
    BY <2>1, <2>2, <2>3, <2>4
<1> QED
  BY <1>1, <1>2

\* What narrow_checked makes of a word's answer.
LEMMA TypeOfWord ==
  ASSUME IInv, Meaning, Delivering, NEW mode \in W!Modes
  PROVE  LET w == InAWord(mode)
             z == InAWord("toward_zero")
         IN /\ Bits = Word => InType(mode) = w
            /\ w.error # "inexact" =>
                 InType(mode) = IF w.error = "none" THEN Ranged(w.value) ELSE w
            /\ w.error = "inexact" =>
                 InType(mode) = IF z.error = "none" /\ ~InRange(z.value)
                                  THEN E!Error("overflow") ELSE E!Error("inexact")
<1>1. CASE Divided
  <2>1. /\ Chosen /\ numerator \in Int /\ divisor \in Int /\ divisor # 0
        /\ 1 \in Nat /\ 1 > 0 /\ divisor * 1 # 0
    BY <1>1, Material DEF IInv
  <2>2. LET w == W!OnGrid(numerator, divisor, 1, mode)
            z == W!OnGrid(numerator, divisor, 1, "toward_zero")
            e == E!OnGrid(numerator, divisor, 1, mode)
        IN /\ Bits = Word => e = w
           /\ w.error # "inexact" => e = IF w.error = "none" THEN Ranged(w.value) ELSE w
           /\ w.error = "inexact" =>
                e = IF z.error = "none" /\ ~InRange(z.value) THEN E!Error("overflow")
                                                              ELSE E!Error("inexact")
    BY <2>1, NarrowRight
  <2> QED
    BY <1>1, <2>2 DEF InType, InAWord
<1>2. CASE ~Divided
  <2>1. /\ Chosen /\ x \in Int /\ 1 \in Int /\ 1 # 0
        /\ grid \in Nat /\ grid > 0 /\ 1 * grid # 0
    BY <1>2, Material DEF IInv
  <2>2. LET w == W!OnGrid(x, 1, grid, mode)
            z == W!OnGrid(x, 1, grid, "toward_zero")
            e == E!OnGrid(x, 1, grid, mode)
        IN /\ Bits = Word => e = w
           /\ w.error # "inexact" => e = IF w.error = "none" THEN Ranged(w.value) ELSE w
           /\ w.error = "inexact" =>
                e = IF z.error = "none" /\ ~InRange(z.value) THEN E!Error("overflow")
                                                              ELSE E!Error("inexact")
    BY <2>1, NarrowRight
  <2> QED
    BY <1>2, <2>2 DEF InType, InAWord
<1> QED
  BY <1>1, <1>2

\* A kernel that has a word's answer delivers it: to the caller, or to narrow_checked.
LEMMA DeliversRight ==
  ASSUME IInv, Meaning, Delivering, Deliver(InAWord(kmode))
  PROVE  Meaning' /\ (E!Respond \/ UNCHANGED E!vars)
<1>1. kmode \in W!Modes /\ E!RightAnswer(request) = InType(IF retried THEN "exact" ELSE kmode)
  BY DEF Meaning, Meant
<1>2. CASE Bits = Word
  <2>1. ~retried
    BY <1>2 DEF Meaning, Narrowing
  <2>2. InType(kmode) = InAWord(kmode)
    BY <1>1, <1>2, TypeOfWord
  <2>3. Reply(E!RightAnswer(request))
    BY <1>1, <1>2, <2>1, <2>2 DEF Deliver
  <2> QED
    BY <2>3, RepliesRight DEF Delivering
<1>3. CASE Bits # Word
  <2>1. /\ stage' = "narrow" /\ result' = InAWord(kmode)
        /\ UNCHANGED type /\ UNCHANGED request /\ UNCHANGED <<x, numerator, divisor>>
        /\ UNCHANGED answer /\ kmode' = kmode /\ retried' = retried
        /\ Bits' = Bits /\ Word' = Word /\ D' = D
    BY <1>3 DEF Deliver, type
  <2>2. /\ E!Requests' = E!Requests /\ E!Raws' = E!Raws /\ Divided' = Divided
        /\ E!RightAnswer(request)' = E!RightAnswer(request)
    BY <2>1, AnswerStays
  <2>3. \A mode : InType(mode)' = InType(mode) /\ InAWord(mode)' = InAWord(mode)
    BY <2>1, MeaningStays
  <2>4. stage \notin {"idle", "answered"}
    BY DEF Delivering
  <2>5. Asked' /\ Answered' /\ Fresh'
    BY <2>1, <2>2, <2>4 DEF Meaning, Asked, Answered, Fresh, E!NoAnswer, E!Error
  <2>6. Meant'
    BY <2>1, <2>2, <2>3 DEF Meaning, Meant
  <2>7. InAWord(kmode)' = InAWord(kmode)
    BY <2>1, <2>3 DEF InAWord
  <2>8. Narrowing'
    BY <1>3, <2>1, <2>3, <2>7 DEF Meaning, Narrowing
  <2>9. Shortcut'
    BY <2>1 DEF Shortcut
  <2>10. UNCHANGED E!vars
    BY <2>1 DEF E!vars, E!type, type
  <2> QED
    BY <2>5, <2>6, <2>8, <2>9, <2>10 DEF Meaning
<1> QED
  BY <1>2, <1>3

\* quantize() rounds to the grid, or delivers the error that names why not.
LEMMA QuantizeKernelRight ==
  ASSUME IInv, Meaning, QuantizeKernel
  PROVE  Meaning' /\ (E!Respond \/ UNCHANGED E!vars)
<1>1. stage = "quantize" /\ Deliver(QuantizeResult)
  BY DEF QuantizeKernel, QuantizeResult
<1>2. Delivering /\ ~Divided
  BY <1>1 DEF Delivering, IInv, Loaded
<1>3. x \in E!Raws /\ request.decimals \in 0 .. D - 1 /\ kmode \in W!Modes
  BY <1>2 DEF Meaning, Meant
<1>4. QuantizeResult = InAWord(kmode)
  BY <1>2, <1>3, QuantizeRight DEF IInv, InAWord
<1> QED
  BY <1>1, <1>2, <1>4, DeliversRight

\* Division by magnitudes delivers the rounded quotient, or overflow.
LEMMA DivideGeneralRight ==
  ASSUME IInv, Meaning, DivideGeneral
  PROVE  Meaning' /\ (E!Respond \/ UNCHANGED E!vars)
<1>1. stage = "general" /\ Delivering /\ Divided
  BY DEF DivideGeneral, Delivering, IInv, Loaded, Dividing
<1>2. /\ numerator \in Int /\ divisor \in Int /\ divisor # 0
      /\ Absolute(divisor) <= 2 ^ (Word - 1) /\ kmode \in W!Modes
  BY <1>1, Material DEF Meaning, Meant
<1> DEFINE negative == (numerator < 0) # (divisor < 0)
           unum == R!Magnitude(numerator)
           udiv == R!Magnitude(divisor)
           r == IF unum \div M >= udiv THEN R!Failure("overflow")
                ELSE WithSign(R!RoundMagnitude(unum \div udiv, unum % udiv, udiv,
                                               negative, kmode, Limit(negative)),
                              negative)
<1>3. Deliver(r)
  BY DEF DivideGeneral
<1>4. W!OnGrid(numerator, divisor, 1, kmode) = r
  BY <1>2, GeneralRight DEF IInv
<1> HIDE DEF r
<1>5. Deliver(InAWord(kmode))
  BY <1>1, <1>3, <1>4 DEF InAWord
<1> QED
  BY <1>1, <1>5, DeliversRight

\* What a machine division leads to, once it is rounded.
LEMMA Machine ==
  ASSUME IInv, Meaning, stage \in {"inline", "signed"}
  PROVE  LET v == W!Rounded(numerator, divisor, kmode)
         IN /\ Divided /\ Delivering /\ v \in Int
            /\ stage = "signed" => AdjustedKernel = v
            /\ stage = "inline" => AdjustedInline = v
            /\ InAWord(kmode) = IF InWord(v) THEN R!Value(v) ELSE R!Failure("overflow")
<1> DEFINE v == W!Rounded(numerator, divisor, kmode)
<1>1. Divided /\ Delivering
  BY DEF IInv, Loaded, Dividing, Delivering
<1>2. /\ numerator \in Int /\ divisor \in Int /\ divisor # 0
      /\ Absolute(divisor) <= 2 ^ (Word - 1)
      /\ request.op = "mul" => divisor > 0
  BY <1>1, Material
<1>3. CommonRounding
  BY DEF Meaning, Shortcut
<1>4. InWord(Quotient(numerator, divisor))
  BY IInvNoTrap DEF NoDivideTrap
<1>5. kmode \in W!Modes /\ kmode # "exact"
  BY <1>3 DEF CommonRounding, W!Modes
<1>6. /\ AdjustedKernel = v
      /\ request.op = "mul" /\ divisor > 0 => AdjustedInline = v
      /\ request.op # "mul" => AdjustedInline = v
  BY <1>2, <1>3, AdjustedRight DEF IInv
<1>7. /\ v \in Int
      /\ W!OnGrid(numerator, divisor, 1, kmode)
           = IF InWord(v) THEN E!Result(v) ELSE E!Error("overflow")
  BY <1>2, <1>4, <1>5, FittingAnswer DEF IInv
<1> HIDE DEF v
<1> QED
  BY <1>1, <1>2, <1>6, <1>7, Answers DEF InAWord, v

\* A signed machine division delivers the rounded quotient.
LEMMA DivideSignedRight ==
  ASSUME IInv, Meaning, DivideSigned
  PROVE  Meaning' /\ (E!Respond \/ UNCHANGED E!vars)
<1>1. stage = "signed" /\ InWord(AdjustedKernel) /\ Deliver(R!Value(AdjustedKernel))
  BY DEF DivideSigned
<1>2. Delivering /\ R!Value(AdjustedKernel) = InAWord(kmode)
  BY <1>1, Machine
<1> QED
  BY <1>1, <1>2, DeliversRight

\* The inline operations of the assembly build answer right away.
LEMMA InlineRight ==
  ASSUME IInv, Meaning, InlineMultiply \/ InlineDivide
  PROVE  Meaning' /\ E!Respond
<1>1. stage = "inline" /\ Bits = Word /\ ~retried
  BY DEF InlineMultiply, InlineDivide, Meaning, Shortcut, Fresh
<1>2. Reply(InAWord(kmode)) /\ Delivering
  <2>1. CASE InlineMultiply
    <3>1. InWord(AdjustedInline)
      BY <2>1, IInvHeadroom DEF RoundingHeadroom, InlineMultiply
    <3>2. R!Value(AdjustedInline) = InAWord(kmode) /\ Delivering
      BY <1>1, <3>1, Machine
    <3> QED
      BY <2>1, <3>2 DEF InlineMultiply
  <2>2. CASE InlineDivide
    <3>1. /\ Delivering
          /\ InAWord(kmode) = IF InWord(AdjustedInline) THEN R!Value(AdjustedInline)
                              ELSE R!Failure("overflow")
      BY <1>1, Machine
    <3> QED
      BY <2>2, <3>1 DEF InlineDivide
  <2> QED
    BY <2>1, <2>2
<1>3. E!RightAnswer(request) = InType(kmode) /\ kmode \in W!Modes
  BY <1>1, <1>2 DEF Meaning, Meant
<1>4. InType(kmode) = InAWord(kmode)
  BY <1>1, <1>2, <1>3, TypeOfWord
<1> QED
  BY <1>1, <1>2, <1>3, <1>4, RepliesRight

\* narrow_checked answers, or reruns the kernel to see what an inexact result hides.
LEMMA NarrowAnswers ==
  ASSUME IInv, Meaning, Narrow
  PROVE  Meaning' /\ E!Respond
<1>1. /\ stage = "narrow" /\ ~retried /\ result.error # "inexact"
      /\ Reply(IF result.error = "none" THEN Ranged(result.value) ELSE result)
  BY DEF Narrow
<1>2. /\ Delivering /\ kmode \in W!Modes /\ result = InAWord(kmode)
      /\ E!RightAnswer(request) = InType(kmode)
  BY <1>1 DEF Meaning, Meant, Narrowing, Delivering
<1>3. InType(kmode) = IF result.error = "none" THEN Ranged(result.value) ELSE result
  BY <1>1, <1>2, TypeOfWord
<1> QED
  BY <1>1, <1>2, <1>3, RepliesRight

\* The truncated rerun tells an overflow from an inexact result.
LEMMA NarrowRetriedAnswers ==
  ASSUME IInv, Meaning, NarrowRetried
  PROVE  Meaning' /\ E!Respond
<1>1. /\ stage = "narrow" /\ retried
      /\ Reply(IF result.error = "none" /\ ~InRange(result.value)
                 THEN R!Failure("overflow") ELSE R!Failure("inexact"))
  BY DEF NarrowRetried
<1>2. /\ Delivering /\ result = InAWord("toward_zero") /\ InAWord("exact").error = "inexact"
      /\ E!RightAnswer(request) = InType("exact")
  BY <1>1 DEF Meaning, Meant, Narrowing, Delivering
<1>3. "exact" \in W!Modes
  BY DEF W!Modes
<1>4. InType("exact") = IF result.error = "none" /\ ~InRange(result.value)
                          THEN E!Error("overflow") ELSE E!Error("inexact")
  BY <1>2, <1>3, TypeOfWord
<1>5. InType("exact") = IF result.error = "none" /\ ~InRange(result.value)
                          THEN R!Failure("overflow") ELSE R!Failure("inexact")
  BY <1>4, Answers
<1> QED
  BY <1>1, <1>2, <1>5, RepliesRight

\* Rerunning the kernel changes the mode and forgets nothing.
LEMMA NarrowRetryRight ==
  ASSUME IInv, Meaning, NarrowRetry
  PROVE  Meaning' /\ UNCHANGED E!vars
<1>1. /\ stage = "narrow" /\ ~retried /\ result.error = "inexact"
      /\ stage' \in {"kernel", "quantize"} /\ kmode' = "toward_zero" /\ retried' = TRUE
      /\ UNCHANGED type /\ UNCHANGED request /\ UNCHANGED <<x, numerator, divisor>>
      /\ UNCHANGED answer /\ Bits' = Bits /\ Word' = Word /\ D' = D
  BY DEF NarrowRetry, KernelStage, type, kernel
<1>2. /\ Delivering /\ result = InAWord(kmode) /\ Bits # Word
      /\ E!RightAnswer(request) = InType(kmode)
  BY <1>1 DEF Meaning, Meant, Narrowing, Delivering
<1>3. kmode = "exact"
  <2>1. InAWord(kmode).error = "inexact"
    BY <1>1, <1>2
  <2> QED
    BY <2>1 DEF InAWord, W!OnGrid, W!Error, W!Result
<1>4. /\ E!Requests' = E!Requests /\ E!Raws' = E!Raws /\ Divided' = Divided
      /\ E!RightAnswer(request)' = E!RightAnswer(request)
  BY <1>1, AnswerStays
<1>5. \A mode : InType(mode)' = InType(mode) /\ InAWord(mode)' = InAWord(mode)
  BY <1>1, MeaningStays
<1>6. Asked' /\ Answered' /\ Fresh'
  BY <1>1, <1>4 DEF Meaning, Asked, Answered, Fresh, E!NoAnswer, E!Error
<1>7. Meant'
  <2>1. "toward_zero" \in W!Modes /\ W!Modes' = W!Modes
    BY DEF W!Modes
  <2> QED
    BY <2>1, <1>1, <1>2, <1>3, <1>4, <1>5 DEF Meaning, Meant
<1>8. Narrowing'
  BY <1>1, <1>2, <1>3, <1>5 DEF Narrowing
<1>9. Shortcut'
  BY <1>1 DEF Shortcut
<1>10. UNCHANGED E!vars
  BY <1>1 DEF E!vars, E!type, type
<1> QED
  BY <1>6, <1>7, <1>8, <1>9, <1>10 DEF Meaning

\* Choosing a division, or giving up on one, answers nothing.
LEMMA KernelRight ==
  ASSUME IInv, Meaning, Kernel \/ RoundingOverflows
  PROVE  Meaning' /\ UNCHANGED E!vars
<1>1. /\ Delivering /\ stage' \in {"signed", "general"}
      /\ stage' = "signed" => CommonRounding
      /\ UNCHANGED <<type, request, answer, build, x, kmode, kernel, retried>>
  BY DEF Kernel, RoundingOverflows, Delivering
<1> QED
  BY <1>1, HandsOn

-----------------------------------------------------------------------------
(* The operations, one by one                                              *)

\* What a call starts with.
LEMMA Dispatched ==
  ASSUME IInv, Meaning, stage = "dispatch"
  PROVE  /\ request.a \in E!Raws /\ request.b \in E!Raws /\ request.c \in E!Raws
         /\ request \in E!Requests /\ request.rounding \in W!Modes
         /\ x = request.a /\ kmode = request.rounding /\ ~retried
         /\ D \in Nat /\ request.decimals \in 0 .. D + 1
<1>1. request \in E!Requests
  BY DEF Meaning, Asked
<1>2. D \in Nat
  <2>1. PICK t \in Types : Word = t[1] /\ Bits = t[2] /\ Radix = t[3] /\ D = t[4]
    BY DEF IInv, Chosen
  <2> QED
    BY <2>1, TypesAssumption
<1> QED
  BY <1>1, <1>2 DEF Meaning, Fresh, E!Requests, E!RoundingModes, W!Modes

\* Operations on raw values have no rounding to do.
LEMMA WholeOperationsRight ==
  ASSUME IInv, Meaning, Add \/ Sub \/ Negate \/ Abs \/ RemainderOp
  PROVE  Meaning' /\ E!Respond
<1> DEFINE a == request.a
           b == request.b
<1>1. stage = "dispatch" /\ a \in E!Raws /\ b \in E!Raws /\ a \in Int /\ b \in Int
  <2>1. stage = "dispatch"
    BY DEF Add, Sub, Negate, Abs, RemainderOp
  <2> QED
    BY <2>1, Dispatched, Sizes DEF IInv
<1>2. Reply(E!RightAnswer(request))
  <2>1. CASE Add
    <3>1. E!RightAnswer(request) = E!OnGrid(a + b, 1, 1, "exact")
      BY <2>1 DEF Add, E!RightAnswer
    <3>2. E!RightAnswer(request) = Sum(a, b)
      BY <3>1, <1>1, SumRight DEF IInv
    <3> QED
      BY <2>1, <3>2 DEF Add
  <2>2. CASE Sub
    <3>1. E!RightAnswer(request) = E!OnGrid(a - b, 1, 1, "exact")
      BY <2>2 DEF Sub, E!RightAnswer
    <3>2. E!RightAnswer(request) = Difference(a, b)
      BY <3>1, <1>1, SumRight DEF IInv
    <3> QED
      BY <2>2, <3>2 DEF Sub
  <2>3. CASE Negate
    <3>1. E!RightAnswer(request) = E!OnGrid(-a, 1, 1, "exact")
      BY <2>3 DEF Negate, E!RightAnswer
    <3>2. E!RightAnswer(request) = Negated(a)
      BY <3>1, <1>1, NegatedRight DEF IInv
    <3> QED
      BY <2>3, <3>2 DEF Negate
  <2>4. CASE Abs
    <3>1. E!RightAnswer(request) = E!OnGrid(E!Distance(a, 0, 1), 1, 1, "exact")
      BY <2>4 DEF Abs, E!RightAnswer
    <3>2. E!Distance(a, 0, 1) = IF a < 0 THEN -a ELSE a
      <4> DEFINE e == 0 - a * 1
      <4>1. e = -a /\ e \in Int /\ -e = a
        BY <1>1
      <4>2. E!Distance(a, 0, 1) = IF e < 0 THEN -e ELSE e
        BY DEF E!Distance
      <4> HIDE DEF e, a
      <4> QED
        BY <4>1, <4>2, <1>1
    <3> HIDE DEF a
    <3>3. CASE a < 0
      <4>1. E!RightAnswer(request) = Negated(a)
        BY <3>1, <3>2, <3>3, <1>1, NegatedRight DEF IInv
      <4> QED
        BY <2>4, <3>3, <4>1 DEF Abs, a
    <3>4. CASE ~(a < 0)
      <4>1. E!RightAnswer(request) = R!Value(a)
        BY <3>1, <3>2, <3>4, <1>1, NegatedRight DEF IInv
      <4> QED
        BY <2>4, <3>4, <4>1 DEF Abs, a
    <3> QED
      BY <3>3, <3>4
  <2>5. CASE RemainderOp
    <3>1. E!RightAnswer(request) = IF b = 0 THEN E!Error("division_by_zero")
                                   ELSE E!Result(a - b * E!Truncate(a, b))
      BY <2>5 DEF RemainderOp, E!RightAnswer
    <3>2. b # 0 => RemainderOf(a, b) = a - b * E!Truncate(a, b)
      BY <1>1, RemainderRight
    <3>3. E!RightAnswer(request) = IF b = 0 THEN R!Failure("division_by_zero")
                                   ELSE R!Value(RemainderOf(a, b))
      BY <3>1, <3>2, Answers
    <3> QED
      BY <2>5, <3>3 DEF RemainderOp
  <2> QED
    BY <2>1, <2>2, <2>3, <2>4, <2>5
<1> QED
  BY <1>1, <1>2, RepliesRight

\* The calls answered before a grid is needed.
LEMMA GridOperationsAnswer ==
  ASSUME IInv, Meaning, Midpoint \/ InvalidPrecision \/ QuantizeSame
  PROVE  Meaning' /\ E!Respond
<1>1. stage = "dispatch"
  BY DEF Midpoint, InvalidPrecision, QuantizeSame
<1>2. /\ request.a \in E!Raws /\ request.b \in E!Raws /\ request.rounding \in W!Modes
      /\ x = request.a /\ kmode = request.rounding
      /\ D \in Nat /\ request.decimals \in 0 .. D + 1 /\ Chosen
  BY <1>1, Dispatched DEF IInv
<1>3. E!Grid(D) = 1
  BY <1>2, GridSize
<1>4. Reply(E!RightAnswer(request))
  <2>1. CASE Midpoint
    <3>1. E!RightAnswer(request) = E!OnGrid(request.a + request.b, 2, 1, kmode)
      BY <2>1, <1>2, <1>3 DEF Midpoint, E!RightAnswer
    <3> DEFINE l == Lower(request.a, request.b)
               odd == Odd(request.a, request.b)
    <3>2. E!RightAnswer(request)
            = IF odd /\ kmode = "exact" THEN R!Failure("inexact")
              ELSE R!Value(l + R!Indicator(odd /\ MidpointIncrement(l, kmode)))
      BY <3>1, <1>2, MidpointRight
    <3> QED
      BY <2>1, <3>2 DEF Midpoint
  <2>2. CASE InvalidPrecision
    <3>1. E!RightAnswer(request) = E!Error("invalid_precision")
      BY <2>2 DEF InvalidPrecision, E!RightAnswer
    <3> QED
      BY <2>2, <3>1, Answers DEF InvalidPrecision
  <2>3. CASE QuantizeSame
    <3>1. E!RightAnswer(request) = E!OnGrid(x, 1, 1, kmode)
      BY <2>3, <1>2, <1>3 DEF QuantizeSame, E!RightAnswer
    <3>2. x \in Int /\ x \in E!Raws /\ kmode \in W!Modes
      BY <1>2, Sizes
    <3>3. E!RightAnswer(request) = E!Result(x)
      BY <3>1, <3>2, WholeAnswer
    <3> QED
      BY <2>3, <3>3, Answers DEF QuantizeSame
  <2> QED
    BY <2>1, <2>2, <2>3
<1> QED
  BY <1>1, <1>4, RepliesRight

\* A value and a mode that mean the call's answer on the coarser grid.
LEMMA GriddingRight ==
  ASSUME IInv, Meaning, stage = "dispatch", stage' = "quantize", ~Divided,
         request.decimals \in 0 .. D - 1,
         x' \in E!Raws, kmode' \in W!Modes,
         E!RightAnswer(request) = E!OnGrid(x', 1, grid, kmode'),
         UNCHANGED <<type, request, answer, retried>>
  PROVE  Meaning' /\ UNCHANGED E!vars
<1>1. /\ UNCHANGED type /\ UNCHANGED request /\ UNCHANGED answer
      /\ Bits' = Bits /\ Word' = Word /\ D' = D /\ Radix' = Radix
  BY DEF type
<1>2. /\ E!Requests' = E!Requests /\ E!Raws' = E!Raws /\ Divided' = Divided
      /\ E!RightAnswer(request)' = E!RightAnswer(request)
  BY <1>1, AnswerStays
<1>3. ~retried /\ ~retried'
  BY Dispatched
<1>4. Asked' /\ Answered' /\ Fresh'
  BY <1>1, <1>2, <1>3 DEF Meaning, Asked, Answered, Fresh, E!NoAnswer, E!Error
<1>5. Meant'
  <2>1. W!Modes' = W!Modes
    BY DEF W!Modes
  <2>2. grid' = grid
    BY <1>1 DEF grid
  <2>3. \A n, d, g, mode : E!OnGrid(n, d, g, mode)' = E!OnGrid(n, d, g, mode)
    BY <1>1 DEF E!OnGrid, E!Raws
  <2>4. InType(kmode)' = E!OnGrid(x', 1, grid, kmode')
    BY <2>2, <2>3, <1>2 DEF InType
  <2> QED
    BY <1>1, <1>2, <1>3, <2>1, <2>4 DEF Meant, Delivering, InType
<1>6. Narrowing' /\ Shortcut'
  BY <1>3 DEF Narrowing, Shortcut
<1>7. UNCHANGED E!vars
  BY <1>1 DEF E!vars, E!type, type
<1> QED
  BY <1>4, <1>5, <1>6, <1>7 DEF Meaning

\* A coarser grid is the kernel's work.
LEMMA QuantizeStarts ==
  ASSUME IInv, Meaning, Quantize
  PROVE  Meaning' /\ UNCHANGED E!vars
<1>1. /\ stage = "dispatch" /\ stage' = "quantize" /\ request.op = "quantize"
      /\ request.decimals < D /\ x' = x /\ kmode' = kmode
      /\ UNCHANGED <<type, request, answer, retried>>
  BY DEF Quantize
<1>2. /\ request.a \in E!Raws /\ request.rounding \in W!Modes
      /\ x = request.a /\ kmode = request.rounding
      /\ D \in Nat /\ request.decimals \in 0 .. D + 1 /\ Chosen
  BY <1>1, Dispatched DEF IInv
<1>3. request.decimals \in 0 .. D - 1 /\ ~(request.decimals > D)
  BY <1>1, <1>2
<1>4. E!Grid(request.decimals) = grid
  BY <1>2, <1>3, GridSize
<1>5. E!RightAnswer(request) = E!OnGrid(x', 1, grid, kmode')
  BY <1>1, <1>2, <1>3, <1>4 DEF E!RightAnswer
<1>6. ~Divided
  BY <1>1 DEF Divided
<1> QED
  BY <1>1, <1>2, <1>3, <1>5, <1>6, GriddingRight

\* midpoint() quantizes half the sum; half an odd sum, by a mode that makes up for it.
LEMMA MidpointStarts ==
  ASSUME IInv, Meaning, MidpointOnGrid
  PROVE  Meaning' /\ (E!Respond \/ UNCHANGED E!vars)
<1> DEFINE a == request.a
           b == request.b
           odd == Odd(a, b)
<1>1. stage = "dispatch" /\ request.op = "midpoint" /\ request.decimals < D
  BY DEF MidpointOnGrid
<1>2. /\ a \in E!Raws /\ b \in E!Raws /\ kmode \in W!Modes /\ kmode = request.rounding
      /\ D \in Nat /\ request.decimals \in 0 .. D + 1 /\ Chosen
  BY <1>1, Dispatched DEF IInv
<1>3. request.decimals \in 0 .. D - 1 /\ ~(request.decimals > D)
  BY <1>1, <1>2
<1>4. E!Grid(request.decimals) = grid
  BY <1>2, <1>3, GridSize
<1>5. E!RightAnswer(request) = E!OnGrid(a + b, 2, grid, kmode)
  BY <1>1, <1>2, <1>3, <1>4 DEF E!RightAnswer
<1>6. IF odd /\ kmode = "exact"
        THEN E!OnGrid(a + b, 2, grid, kmode) = R!Failure("inexact")
        ELSE /\ MovedHalf(a, b, kmode) \in E!Raws /\ HalfMode(a, b, kmode) \in W!Modes
             /\ E!OnGrid(a + b, 2, grid, kmode)
                  = E!OnGrid(MovedHalf(a, b, kmode), 1, grid, HalfMode(a, b, kmode))
  BY <1>2, <1>3, MidpointOnGridRight
<1>7. CASE odd /\ kmode = "exact"
  <2>1. Reply(R!Failure("inexact"))
    BY <1>7 DEF MidpointOnGrid
  <2>2. E!RightAnswer(request) = R!Failure("inexact")
    BY <1>5, <1>6, <1>7
  <2> QED
    BY <2>1, <2>2, <1>1, RepliesRight
<1>8. CASE ~(odd /\ kmode = "exact")
  <2>1. /\ x' = MovedHalf(a, b, kmode) /\ kmode' = HalfMode(a, b, kmode)
        /\ stage' = "quantize" /\ UNCHANGED <<type, request, answer, retried>>
    BY <1>8 DEF MidpointOnGrid, MovedHalf, HalfMode
  <2>2. /\ x' \in E!Raws /\ kmode' \in W!Modes
        /\ E!RightAnswer(request) = E!OnGrid(x', 1, grid, kmode')
    BY <2>1, <1>5, <1>6, <1>8
  <2>3. ~Divided
    BY <1>1 DEF Divided
  <2> QED
    BY <2>1, <2>2, <2>3, <1>1, <1>3, GriddingRight
<1> QED
  BY <1>7, <1>8

-----------------------------------------------------------------------------

\* The answer of a call that divides.
LEMMA DividedAnswer ==
  ASSUME Divided
  PROVE  E!RightAnswer(request) = E!OnGrid(Numerator, Denominator, 1, request.rounding)
<1>1. CASE request.op = "mul"
  BY <1>1 DEF E!RightAnswer, Numerator, Denominator, E!Scale, scale
<1>2. CASE request.op = "div"
  BY <1>2 DEF E!RightAnswer, Numerator, Denominator, E!Scale, scale
<1>3. CASE request.op = "mul_div"
  BY <1>3 DEF E!RightAnswer, Numerator, Denominator, E!Scale, scale
<1> QED
  BY <1>1, <1>2, <1>3 DEF Divided

\* A zero divisor is an error before it is divided by.
LEMMA ZeroDivisorRejected ==
  ASSUME IInv, Meaning, RejectZeroDivisor
  PROVE  Meaning' /\ E!Respond
<1>1. /\ stage = "dispatch" /\ Divided /\ Denominator = 0
      /\ Reply(R!Failure("division_by_zero"))
  BY DEF RejectZeroDivisor
<1>2. E!RightAnswer(request) = E!Error("division_by_zero")
  BY <1>1, DividedAnswer DEF E!OnGrid
<1> QED
  BY <1>1, <1>2, Answers, RepliesRight

\* The numerator and the divisor are the quotient of the call.
LEMMA DispatchRight ==
  ASSUME IInv, Meaning, Dispatch
  PROVE  Meaning' /\ UNCHANGED E!vars
<1>1. /\ stage = "dispatch" /\ Divided
      /\ numerator' = Numerator /\ divisor' = Denominator
      /\ stage' \in {"inline", "kernel"}
      /\ stage' = "inline" => Bits = Word /\ CommonRounding
      /\ UNCHANGED type /\ UNCHANGED request /\ UNCHANGED answer
      /\ kmode' = kmode /\ retried' = retried
      /\ Bits' = Bits /\ Word' = Word /\ D' = D /\ Radix' = Radix
  BY DEF Dispatch, type
<1>2. /\ E!Requests' = E!Requests /\ E!Raws' = E!Raws /\ Divided' = Divided
      /\ E!RightAnswer(request)' = E!RightAnswer(request)
  BY <1>1, AnswerStays
<1>3. ~retried /\ kmode = request.rounding /\ kmode \in W!Modes
  BY <1>1, Dispatched
<1>4. Asked' /\ Answered' /\ Fresh'
  BY <1>1, <1>2, <1>3 DEF Meaning, Asked, Answered, Fresh, E!NoAnswer, E!Error
<1>5. Meant'
  <2>1. W!Modes' = W!Modes
    BY DEF W!Modes
  <2>2. \A n, d, g, mode : E!OnGrid(n, d, g, mode)' = E!OnGrid(n, d, g, mode)
    BY <1>1 DEF E!OnGrid, E!Raws
  <2>3. InType(kmode)' = E!OnGrid(Numerator, Denominator, 1, kmode)
    BY <2>2, <1>1, <1>2 DEF InType
  <2>4. E!RightAnswer(request)' = InType(kmode)'
    BY <2>3, <1>1, <1>2, <1>3, DividedAnswer
  <2> QED
    BY <1>1, <1>2, <1>3, <2>1, <2>4 DEF Meant, Delivering
<1>6. Narrowing'
  BY <1>1, <1>3 DEF Narrowing
<1>7. Shortcut'
  BY <1>1 DEF Shortcut, CommonRounding
<1>8. UNCHANGED E!vars
  BY <1>1 DEF E!vars, E!type, type
<1> QED
  BY <1>4, <1>5, <1>6, <1>7, <1>8 DEF Meaning

-----------------------------------------------------------------------------
(* Unchecked operations                                                    *)

\* Wrapping changes no sum that the caller vouches for.
LEMMA UncheckedSumRight ==
  ASSUME IInv, Meaning, UncheckedSum
  PROVE  Meaning' /\ E!Respond
<1> DEFINE a == request.a
           b == request.b
           g == 2 ^ (Bits - 1)
<1>1. stage = "dispatch" /\ Vouched
  BY DEF UncheckedSum
<1>2. a \in E!Raws /\ b \in E!Raws
  BY <1>1, Dispatched
<1>3. /\ g \in Nat /\ g > 0 /\ E!Raws = (-g) .. (g - 1)
      /\ \A v \in (-2 * g) .. (2 * g - 1) :
           Wrapped(v) = IF v < -g THEN v + 2 * g ELSE IF v >= g THEN v - 2 * g ELSE v
  BY TypeRange DEF IInv
<1> HIDE DEF a, b, g
<1>4. a \in Int /\ b \in Int
  BY <1>2, <1>3
<1>5. ASSUME NEW v \in Int, E!RightAnswer(request) = E!OnGrid(v, 1, 1, "exact")
      PROVE  E!RightAnswer(request) = R!Value(v) /\ v \in E!Raws /\ Wrapped(v) = v
  <2>1. E!RightAnswer(request) = IF v \in E!Raws THEN R!Value(v) ELSE R!Failure("overflow")
    BY <1>5, WholeExact
  <2>2. v \in E!Raws
    <3> SUFFICES ASSUME v \notin E!Raws PROVE FALSE
      OBVIOUS
    <3>1. E!RightAnswer(request).error = "overflow"
      BY <2>1, Answers
    <3> QED
      BY <3>1, <1>1 DEF Vouched
  <2>3. v \in (-2 * g) .. (2 * g - 1) /\ ~(v < -g) /\ ~(v >= g)
    BY <2>2, <1>3
  <2> QED
    BY <2>1, <2>2, <2>3, <1>3
<1>6. Reply(E!RightAnswer(request))
  <2>1. CASE request.op = "add"
    <3>1. E!RightAnswer(request) = E!OnGrid(a + b, 1, 1, "exact") /\ a + b \in Int
      BY <2>1, <1>4 DEF E!RightAnswer, a, b
    <3>2. E!RightAnswer(request) = R!Value(Wrapped(a + b))
      BY <3>1, <1>5
    <3> QED
      BY <2>1, <3>2 DEF UncheckedSum, a, b
  <2>2. CASE request.op = "sub"
    <3>1. E!RightAnswer(request) = E!OnGrid(a - b, 1, 1, "exact") /\ a - b \in Int
      BY <2>2, <1>4 DEF E!RightAnswer, a, b
    <3>2. E!RightAnswer(request) = R!Value(Wrapped(a - b))
      BY <3>1, <1>5
    <3> QED
      BY <2>2, <3>2 DEF UncheckedSum, a, b
  <2>3. CASE request.op = "negate"
    <3>1. E!RightAnswer(request) = E!OnGrid(-a, 1, 1, "exact") /\ -a \in Int
      BY <2>3, <1>4 DEF E!RightAnswer, a
    <3>2. E!RightAnswer(request) = R!Value(-a)
      BY <3>1, <1>5
    <3> QED
      BY <2>3, <3>2 DEF UncheckedSum, a
  <2>4. CASE request.op = "abs"
    <3>1. E!RightAnswer(request) = E!OnGrid(Absolute(a), 1, 1, "exact") /\ Absolute(a) \in Int
      BY <2>4, <1>4 DEF E!RightAnswer, E!Distance, Absolute, a
    <3>2. E!RightAnswer(request) = R!Value(Absolute(a))
      BY <3>1, <1>5
    <3> QED
      BY <2>4, <3>2 DEF UncheckedSum, a
  <2> QED
    BY <2>1, <2>2, <2>3, <2>4 DEF UncheckedSum
<1> QED
  BY <1>1, <1>6, RepliesRight

\* The quotient that the caller vouches for rounds into the type.
LEMMA UncheckedProductRight ==
  ASSUME IInv, Meaning, UncheckedProduct
  PROVE  Meaning' /\ UNCHANGED E!vars
<1>1. /\ stage = "dispatch" /\ stage' = "unchecked" /\ Vouched
      /\ UNCHANGED type /\ UNCHANGED request /\ UNCHANGED answer
      /\ kmode' = kmode /\ retried' = retried
  BY DEF UncheckedProduct
<1>2. /\ E!Requests' = E!Requests
      /\ E!RightAnswer(request)' = E!RightAnswer(request)
  BY <1>1, AnswerStays
<1>3. ~retried /\ kmode = request.rounding
  BY <1>1, Dispatched
<1>4. Asked' /\ Answered' /\ Fresh'
  BY <1>1, <1>2, <1>3 DEF Meaning, Asked, Answered, Fresh, E!NoAnswer, E!Error
<1>5. Meant' /\ Narrowing'
  BY <1>1 DEF Meant, Narrowing, Delivering
<1>6. Shortcut'
  BY <1>1, <1>2, <1>3 DEF Shortcut, Vouched
<1>7. UNCHANGED E!vars
  BY <1>1 DEF E!vars, E!type, type
<1> QED
  BY <1>4, <1>5, <1>6, <1>7 DEF Meaning

\* The sign of a product that is not zero.
LEMMA SignOfProduct ==
  ASSUME NEW a \in Int, NEW b \in Int, a * b # 0
  PROVE  a * b < 0 <=> OppositeSigns(a, b)
<1>1. a # 0 /\ b # 0
  OBVIOUS
<1>2. \A u, v \in Int : u > 0 /\ v > 0 => u * v > 0
  OBVIOUS
<1>3. CASE a > 0 /\ b > 0
  BY <1>2, <1>3 DEF OppositeSigns
<1>4. CASE a < 0 /\ b < 0
  <2>1. (-a) * (-b) = a * b /\ -a > 0 /\ -b > 0
    BY <1>4
  <2>2. a * b > 0
    BY <2>1, <1>2
  <2> QED
    BY <2>2, <1>4 DEF OppositeSigns
<1>5. CASE a > 0 /\ b < 0
  <2>1. a * (-b) = -(a * b) /\ -b > 0 /\ a * b \in Int
    BY <1>5
  <2>2. a * (-b) > 0
    BY <2>1, <1>2, <1>5
  <2> QED
    BY <2>1, <2>2, <1>5 DEF OppositeSigns
<1>6. CASE a < 0 /\ b > 0
  <2>1. (-a) * b = -(a * b) /\ -a > 0 /\ a * b \in Int
    BY <1>6
  <2>2. (-a) * b > 0
    BY <2>1, <1>2, <1>6
  <2> QED
    BY <2>1, <2>2, <1>6 DEF OppositeSigns
<1> QED
  BY <1>1, <1>3, <1>4, <1>5, <1>6

\* What an unchecked division rounds to, where its sign matters at all.
LEMMA UncheckedRounds ==
  ASSUME Chosen, Representable, stage # "idle", Divided,
         numerator = Numerator, divisor = Denominator, divisor # 0,
         kmode \in W!Modes, kmode = "exact" => Remainder(numerator, divisor) = 0
  PROVE  UncheckedRound(Quotient(numerator, divisor), Remainder(numerator, divisor),
                        UncheckedNegative)
           = W!Rounded(numerator, divisor, kmode)
<1> DEFINE n == numerator
           d == divisor
           negative == UncheckedNegative
           q == Quotient(n, d)
           r == Remainder(n, d)
           k == W!Magnitude(r)
           c == Absolute(d)
           a == request.a
           b == IF request.op = "div" THEN scale ELSE request.b
<1>1. n \in Int /\ d \in Int /\ n = a * b /\ a \in Int /\ b \in Int
  <2>1. W!DoubleWord(Numerator, 2 ^ (Word - 1)) /\ Denominator \in Int
    BY Operands
  <2>2. n \in Int /\ d \in Int
    BY <2>1 DEF W!DoubleWord
  <2>3. a \in Int /\ request.b \in Int /\ scale \in Int
    BY Sizes DEF Representable
  <2> QED
    BY <2>2, <2>3 DEF Numerator
<1>2. negative \in BOOLEAN
  BY DEF UncheckedNegative, OppositeSigns
<1>3. negative <=> OppositeSigns(a, b) # (d < 0)
  BY DEF UncheckedNegative
<1>4. /\ W!Quotient(n, d) = q /\ W!Remainder(n, d) = r /\ W!Absolute(d) = c
  BY SameDivision DEF W!Absolute, Absolute
<1> HIDE DEF negative, a, b
<1>5. r # 0 => (negative <=> (n < 0) # (d < 0))
  <2> SUFFICES ASSUME r # 0 PROVE negative <=> (n < 0) # (d < 0)
    OBVIOUS
  <2>1. n # 0
    <3> SUFFICES ASSUME n = 0 PROVE r = 0
      OBVIOUS
    <3>1. Absolute(n) = 0 /\ c \in Int /\ c > 0
      BY <1>1 DEF Absolute
    <3>2. Absolute(n) \div c = 0
      <4> HIDE DEF c
      <4> QED
        BY <3>1
    <3>3. q = 0
      BY <3>2 DEF Quotient
    <3>4. r = n - d * q
      BY DEF Remainder
    <3> HIDE DEF q, r
    <3> QED
      BY <3>3, <3>4, <1>1
  <2>2. n < 0 <=> OppositeSigns(a, b)
    BY <2>1, <1>1, SignOfProduct
  <2>3. OppositeSigns(a, b) = (n < 0)
    BY <2>2 DEF OppositeSigns
  <2> QED
    BY <2>3, <1>3
<1>6. LET z == IF W!MovesOut(q, k, c, negative, kmode)
                 THEN IF negative THEN q - 1 ELSE q + 1 ELSE q
      IN q \in Int /\ W!Rounded(n, d, kmode) = z
  <2> HIDE DEF q, r, c
  <2> QED
    BY <1>1, <1>2, <1>4, <1>5, W!QuotientRounds DEF r
<1>7. r \in Int /\ c \in Int /\ k \in Int /\ k = Absolute(r) /\ (k = 0 <=> r = 0)
  <2>1. r \in Int
    BY <1>1, <1>6 DEF Remainder
  <2> HIDE DEF r
  <2> QED
    BY <2>1, <1>1 DEF W!Magnitude, Absolute
<1> HIDE DEF q, r, k, c
<1>8. UncheckedRound(q, r, negative)
        = IF W!MovesOut(q, k, c, negative, kmode)
            THEN IF negative THEN q - 1 ELSE q + 1 ELSE q
  <2> DEFINE rest == c - k
             away == \/ kmode = "floor" /\ negative
                     \/ kmode = "ceil" /\ ~negative
                     \/ kmode = "nearest_even" /\ (k > rest \/ (k = rest /\ q % 2 = 1))
                     \/ kmode = "nearest_away" /\ k >= rest
  <2>1. UncheckedRound(q, r, negative)
          = IF r = 0 \/ ~away THEN q ELSE IF negative THEN q - 1 ELSE q + 1
    BY <1>7 DEF UncheckedRound, c
  <2>2. /\ k > rest <=> 2 * k > c
        /\ k = rest <=> 2 * k = c
        /\ k >= rest <=> 2 * k >= c
    BY <1>7
  <2> HIDE DEF rest
  <2>3. W!MovesOut(q, k, c, negative, kmode) <=> r # 0 /\ away
    BY <2>2, <1>7 DEF W!MovesOut, W!MovesUp
  <2> HIDE DEF away
  <2> QED
    BY <2>1, <2>3
<1> QED
  BY <1>6, <1>8 DEF q, r, negative

\* An unchecked division rounds as the checked one does.
LEMMA UncheckedDivideRight ==
  ASSUME IInv, Meaning, UncheckedDivide
  PROVE  Meaning' /\ E!Respond
<1> DEFINE n == numerator
           d == divisor
           v == W!Rounded(n, d, kmode)
           g == 2 ^ (Bits - 1)
<1>1. /\ stage = "unchecked" /\ Divided /\ n = Numerator /\ d = Denominator /\ d # 0
      /\ Chosen /\ Representable /\ Vouched /\ kmode = request.rounding
      /\ request \in E!Requests
  BY DEF UncheckedDivide, IInv, Loaded, Dividing, Meaning, Shortcut, Asked
<1>2. kmode \in W!Modes
  BY <1>1 DEF E!Requests, E!RoundingModes, W!Modes
<1>3. n \in Int /\ d \in Int
  <2>1. W!DoubleWord(Numerator, 2 ^ (Word - 1)) /\ Denominator \in Int
    BY <1>1, Operands
  <2> QED
    BY <2>1, <1>1 DEF W!DoubleWord
<1>4. v \in Int
  BY <1>1, <1>2, <1>3, W!RoundedOutward
<1>5. E!RightAnswer(request) = E!OnGrid(n, d, 1, kmode)
  BY <1>1, DividedAnswer
<1>6. E!OnGrid(n, d, 1, kmode).error = "none"
  BY <1>1, <1>5 DEF Vouched
<1>7. /\ E!OnGrid(n, d, 1, kmode) = E!Result(v) /\ v \in E!Raws
      /\ kmode = "exact" => n = d * Quotient(n, d)
  <2> DEFINE t == E!Truncate(n, d)
             y == E!Rounded(n, d, kmode)
  <2>1. y = v /\ t = Quotient(n, d)
    BY <1>1, <1>3, SameRounded, QuotientTruncates
  <2>2. t \in Int
    BY <2>1, <1>1, <1>3, W!QuotientRounds DEF Quotient, Absolute
  <2> HIDE DEF v
  <2>3. d * 1 = d /\ 1 * t = t /\ 1 * y = y /\ d * 1 * t = d * t
    <3> HIDE DEF t, y
    <3> QED
      BY <1>3, <1>4, <2>1, <2>2
  <2>4. E!OnGrid(n, d, 1, kmode)
          = IF t \notin E!Raws THEN E!Error("overflow")
            ELSE IF kmode = "exact" /\ n # d * t THEN E!Error("inexact")
            ELSE IF y \notin E!Raws THEN E!Error("overflow") ELSE E!Result(y)
    BY <2>3, <1>1 DEF E!OnGrid
  <2> HIDE DEF t, y
  <2>5. E!Error("overflow").error = "overflow" /\ E!Error("inexact").error = "inexact"
    BY Answers
  <2> QED
    BY <2>1, <2>4, <2>5, <1>6
<1>8. kmode = "exact" => Remainder(n, d) = 0
  <2> SUFFICES ASSUME kmode = "exact" PROVE Remainder(n, d) = 0
    OBVIOUS
  <2> DEFINE p == d * Quotient(n, d)
  <2>1. n = p
    BY <1>7
  <2>2. Remainder(n, d) = n - p
    BY DEF Remainder
  <2> HIDE DEF p
  <2> QED
    BY <2>1, <2>2, <1>3
<1>9. UncheckedRound(Quotient(n, d), Remainder(n, d), UncheckedNegative) = v
  BY <1>1, <1>2, <1>8, UncheckedRounds
<1>10. Wrapped(v) = v
  <2>1. /\ g \in Nat /\ g > 0 /\ E!Raws = (-g) .. (g - 1)
        /\ \A u \in (-2 * g) .. (2 * g - 1) :
             Wrapped(u) = IF u < -g THEN u + 2 * g ELSE IF u >= g THEN u - 2 * g ELSE u
    BY <1>1, TypeRange
  <2> HIDE DEF g, v
  <2>2. v \in (-2 * g) .. (2 * g - 1) /\ ~(v < -g) /\ ~(v >= g)
    BY <2>1, <1>7
  <2> QED
    BY <2>1, <2>2
<1>11. Reply(R!Value(v))
  BY <1>9, <1>10 DEF UncheckedDivide
<1>12. E!RightAnswer(request) = R!Value(v)
  BY <1>5, <1>7, Answers
<1> QED
  BY <1>1, <1>11, <1>12, RepliesRight

-----------------------------------------------------------------------------
(* The whole                                                               *)

\* A call is one ExactArithmetic admits.
LEMMA CallRight ==
  ASSUME IInv, Meaning, Call
  PROVE  Meaning' /\ E!Call
<1>1. /\ stage = "idle" /\ stage' = "dispatch"
      /\ x' = request'.a /\ kmode' = request'.rounding
      /\ UNCHANGED type /\ UNCHANGED answer /\ retried' = retried
  BY DEF Call
<1>2. request = E!NoRequest /\ answer = E!NoAnswer /\ ~retried
  BY <1>1 DEF Meaning, Asked, Answered, Fresh
<1>3. D \in Nat /\ 0 \in E!Raws
  <2>1. PICK t \in Types : Word = t[1] /\ Bits = t[2] /\ Radix = t[3] /\ D = t[4]
    BY DEF IInv, Chosen
  <2>2. D \in Nat
    BY <2>1, TypesAssumption
  <2> QED
    BY <2>2, Sizes DEF IInv
<1>4. request' \in E!Requests
  <2>1. PICK op \in E!Ops, a \in E!Raws :
          \E b \in IF Takes(op, "b") THEN E!Raws ELSE {0},
             c \in IF Takes(op, "c") THEN E!Raws ELSE {0},
             decimals \in IF Takes(op, "decimals") THEN 0 .. D + 1 ELSE {D},
             rounding \in IF Takes(op, "rounding") THEN R!Modes ELSE {"exact"} :
            request' = E!Request(op, a, b, c, decimals, rounding)
    BY DEF Call
  <2>2. PICK b \in IF Takes(op, "b") THEN E!Raws ELSE {0},
             c \in IF Takes(op, "c") THEN E!Raws ELSE {0},
             decimals \in IF Takes(op, "decimals") THEN 0 .. D + 1 ELSE {D},
             rounding \in IF Takes(op, "rounding") THEN R!Modes ELSE {"exact"} :
          request' = E!Request(op, a, b, c, decimals, rounding)
    BY <2>1
  <2>3. b \in E!Raws /\ c \in E!Raws
    BY <1>3
  <2>4. decimals \in 0 .. D + 1
    BY <1>3
  <2>5. rounding \in E!RoundingModes
    BY DEF R!Modes, E!RoundingModes
  <2> QED
    BY <2>2, <2>3, <2>4, <2>5 DEF E!Request, E!Requests
<1>5. E!Requests' = E!Requests
  <2>1. Bits' = Bits /\ D' = D
    BY <1>1 DEF type
  <2> QED
    BY <2>1 DEF E!Requests, E!Raws
<1>6. Asked' /\ Answered' /\ Fresh'
  BY <1>1, <1>2, <1>4, <1>5 DEF Asked, Answered, Fresh, E!NoAnswer, E!Error
<1>7. Meant' /\ Narrowing' /\ Shortcut'
  BY <1>1 DEF Meant, Narrowing, Shortcut, Delivering
<1>8. UNCHANGED E!type
  BY <1>1 DEF type, E!type
<1> QED
  BY <1>1, <1>2, <1>4, <1>6, <1>7, <1>8 DEF Meaning, E!Call

\* There is always an answer.
LEMMA AnswerIsOne ==
  ASSUME NEW r \in E!Requests
  PROVE  E!RightAnswer(r) # E!NoAnswer
<1>1. \A n, d, g, mode : E!OnGrid(n, d, g, mode) # E!NoAnswer
  BY DEF E!OnGrid, E!NoAnswer, E!Error, E!Result
<1>2. \A v : E!Result(v) # E!NoAnswer
  BY DEF E!NoAnswer, E!Error, E!Result
<1>3. /\ E!Error("division_by_zero") # E!NoAnswer
      /\ E!Error("invalid_precision") # E!NoAnswer
  BY DEF E!NoAnswer, E!Error
<1>4. r.op \in E!Ops
  BY DEF E!Requests
<1> QED
  BY <1>1, <1>2, <1>3, <1>4 DEF E!RightAnswer, E!Ops

\* After the answer is taken, nothing of the call is left.
LEMMA ReturnRight ==
  ASSUME Meaning, Return
  PROVE  Meaning' /\ E!Return
<1>1. /\ stage = "answered" /\ stage' = "idle"
      /\ request' = E!NoRequest /\ answer' = E!NoAnswer /\ retried' = FALSE
      /\ UNCHANGED type
  BY DEF Return
<1>2. answer # E!NoAnswer
  BY <1>1, AnswerIsOne DEF Meaning, Asked, Answered
<1>3. Meaning'
  BY <1>1 DEF Meaning, Asked, Answered, Fresh, Delivering, Meant, Narrowing, Shortcut,
              E!NoAnswer, E!Error, E!NoRequest, E!Request
<1>4. UNCHANGED E!type
  BY <1>1 DEF type, E!type
<1> QED
  BY <1>1, <1>2, <1>3, <1>4 DEF E!Return

\* Every step keeps the invariant and is a step of ExactArithmetic or a stutter.
LEMMA NextMeaning ==
  ASSUME IInv, Meaning, [Next]_vars
  PROVE  Meaning' /\ [E!Next]_(E!vars)
<1>1. ASSUME Meaning' /\ (E!Respond \/ UNCHANGED E!vars)
      PROVE  Meaning' /\ [E!Next]_(E!vars)
  BY <1>1 DEF E!Next
<1>2. CASE Call
  BY <1>2, CallRight DEF E!Next
<1>3. CASE Return
  BY <1>3, ReturnRight DEF E!Next
<1>4. CASE Add \/ Sub \/ Negate \/ Abs \/ RemainderOp
  BY <1>1, <1>4, WholeOperationsRight
<1>5. CASE Midpoint \/ InvalidPrecision \/ QuantizeSame
  BY <1>1, <1>5, GridOperationsAnswer
<1>6. CASE Quantize
  BY <1>1, <1>6, QuantizeStarts
<1>7. CASE MidpointOnGrid
  BY <1>1, <1>7, MidpointStarts
<1>8. CASE QuantizeKernel
  BY <1>1, <1>8, QuantizeKernelRight
<1>9. CASE RejectZeroDivisor
  BY <1>1, <1>9, ZeroDivisorRejected
<1>10. CASE Dispatch
  BY <1>1, <1>10, DispatchRight
<1>11. CASE InlineMultiply \/ InlineDivide
  BY <1>1, <1>11, InlineRight
<1>12. CASE Kernel \/ RoundingOverflows
  BY <1>1, <1>12, KernelRight
<1>13. CASE DivideSigned
  BY <1>1, <1>13, DivideSignedRight
<1>14. CASE DivideGeneral
  BY <1>1, <1>14, DivideGeneralRight
<1>15. CASE NarrowRetry
  BY <1>1, <1>15, NarrowRetryRight
<1>16. CASE Narrow
  BY <1>1, <1>16, NarrowAnswers
<1>17. CASE NarrowRetried
  BY <1>1, <1>17, NarrowRetriedAnswers
<1>18. CASE UncheckedSum
  BY <1>1, <1>18, UncheckedSumRight
<1>19. CASE UncheckedProduct
  BY <1>1, <1>19, UncheckedProductRight
<1>20. CASE UncheckedDivide
  BY <1>1, <1>20, UncheckedDivideRight
<1>21. CASE UNCHANGED vars
  <2>1. /\ UNCHANGED type /\ UNCHANGED request /\ UNCHANGED <<x, numerator, divisor>>
        /\ UNCHANGED answer /\ stage' = stage /\ kmode' = kmode /\ retried' = retried
        /\ result' = result /\ Bits' = Bits /\ Word' = Word /\ D' = D
    BY <1>21 DEF vars, type, kernel
  <2>2. /\ E!Requests' = E!Requests /\ E!Raws' = E!Raws /\ Divided' = Divided
        /\ E!RightAnswer(request)' = E!RightAnswer(request)
    BY <2>1, AnswerStays
  <2>3. \A mode : InType(mode)' = InType(mode) /\ InAWord(mode)' = InAWord(mode)
    BY <2>1, MeaningStays
  <2>4. Asked' /\ Answered' /\ Fresh'
    BY <2>1, <2>2 DEF Meaning, Asked, Answered, Fresh, E!NoAnswer, E!Error,
                      E!NoRequest, E!Request
  <2>5. Meant'
    BY <2>1, <2>2, <2>3 DEF Meaning, Meant, Delivering
  <2>6. InAWord(kmode)' = InAWord(kmode)
    BY <2>1, <2>3 DEF InAWord
  <2>7. Narrowing'
    BY <2>1, <2>3, <2>6 DEF Meaning, Narrowing, Delivering
  <2>8. Shortcut'
    BY <2>1, <2>2 DEF Meaning, Shortcut, CommonRounding, Vouched
  <2>9. UNCHANGED E!vars
    BY <2>1 DEF E!vars, E!type, type
  <2> QED
    BY <2>4, <2>5, <2>7, <2>8, <2>9 DEF Meaning
<1>22. Next \/ UNCHANGED vars
  OBVIOUS
<1> QED
  BY <1>2, <1>3, <1>4, <1>5, <1>6, <1>7, <1>8, <1>9, <1>10, <1>11, <1>12, <1>13, <1>14,
     <1>15, <1>16, <1>17, <1>18, <1>19, <1>20, <1>21, <1>22 DEF Next, Work

\* Before the first call, nothing is asked and nothing answered.
LEMMA InitMeaning == Init => Meaning /\ E!Init
<1> SUFFICES ASSUME Init PROVE Meaning /\ E!Init
  OBVIOUS
<1>1. PICK t \in Types : Word = t[1] /\ Bits = t[2] /\ Radix = t[3] /\ D = t[4]
  BY DEF Init
<1>2. Bits \in Nat /\ Radix \in Nat /\ D \in Nat
  BY <1>1, TypesAssumption
<1>3. Meaning
  BY DEF Init, Meaning, Asked, Answered, Fresh, Delivering, Meant, Narrowing, Shortcut
<1> QED
  BY <1>2, <1>3 DEF Init, E!Init

\* Every step is one of ExactArithmetic or a stutter: on either build, checked or
\* unchecked, for words and types of any size, the one right answer or none.
THEOREM AnswersExactly == Spec => ImplementsExactArithmetic
<1>1. Init => IInv /\ Meaning /\ E!Init
  BY InitIInv, InitMeaning
<1>2. IInv /\ Meaning /\ [Next]_vars => IInv' /\ Meaning' /\ [E!Next]_(E!vars)
  BY NextIInv, NextMeaning
<1> QED
  BY <1>1, <1>2, PTL DEF Spec, ImplementsExactArithmetic
=============================================================================
