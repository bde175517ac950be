---------------------------- MODULE KnuthDivision ----------------------------
(***************************************************************************)
(* divmod() of src/bigint.cpp over divmod64() and divmod_knuth() of        *)
(* src/limbs.hpp: long division of Lnum limbs by Lden limbs.  A vector of  *)
(* limbs is a function from its indices, the least significant limb at 0.  *)
(* The multiply-subtract and the add-back go limb by limb, as in the code, *)
(* so that the borrows and carries between limbs are part of the model.    *)
(***************************************************************************)
EXTENDS Integers

CONSTANTS
  W,                       \* bits of a limb: 64 in the code
  Lnum, Lden               \* limbs of the numerator and of the divisor

B == 2 ^ W
Digits == 0 .. B - 1
Numerators == 0 .. B ^ Lnum - 1
Divisors == 0 .. B ^ Lden - 1

VARIABLES
  stage,                   \* where the call is
  num, den,                \* the arguments
  j,                       \* the quotient limb being computed
  u,                       \* the dividend, normalised, and then its remainder
  q,                       \* the quotient's limbs
  qhat, rhat, carry,       \* the estimate of limb j and its rest
  product,                 \* ph:pl, qhat times the divisor's second limb
  i,                       \* the limb the inner loop is at
  borrow,                  \* the borrow, or add_carry, into limb i
  answer

vars == <<stage, num, den, j, u, q, qhat, rhat, carry, product, i, borrow, answer>>
call == <<num, den>>
estimate == <<qhat, rhat, carry, product>>
inner == <<i, borrow>>

WD == INSTANCE WideDivision WITH QuotientLimit <- B ^ Lnum

Limb(x, k) == (x \div B ^ k) % B

\* The number that the first l limbs of x stand for.
Value(x, l) ==
  LET below[k \in Nat] == IF k = 0 THEN 0 ELSE below[k - 1] + x[k - 1] * B ^ (k - 1)
  IN below[l]

ActiveLimbs(x) == CHOOSE k \in 0 .. Lnum : x < B ^ k /\ \A l \in 0 .. k - 1 : x >= B ^ l

Zeros(l) == [k \in 0 .. l - 1 |-> 0]
NoLimbs == [k \in {} |-> 0]

\* The divisor's limbs, and the divisor shifted until its top bit is set.
n == ActiveLimbs(den)
shift == CHOOSE s \in 0 .. W - 1 :
           B ^ n <= 2 * den * 2 ^ s /\ den * 2 ^ s < B ^ n
Normalised == den * 2 ^ shift
v1 == Limb(Normalised, n - 1)
v2 == Limb(Normalised, n - 2)

Init ==
  /\ stage = "idle" /\ answer = WD!NoCall
  /\ num = 0 /\ den = 0 /\ j = 0 /\ i = 0 /\ borrow = 0
  /\ u = NoLimbs /\ q = NoLimbs
  /\ qhat = 0 /\ rhat = 0 /\ carry = FALSE /\ product = 0

Call ==
  /\ stage = "idle"
  /\ num' \in Numerators /\ den' \in Divisors
  /\ stage' = "divide"
  /\ answer' = WD!Pending
  /\ UNCHANGED <<j, u, q, estimate, inner>>

Reply(a) == stage' = "answered" /\ answer' = a

RejectZero ==
  /\ stage = "divide" /\ den = 0
  /\ Reply(WD!Answer("division_by_zero", 0, 0))
  /\ UNCHANGED <<call, j, u, q, estimate, inner>>

\* Fewer limbs than the divisor has: the numerator is the remainder.
FewerLimbs ==
  /\ stage = "divide" /\ den # 0 /\ ActiveLimbs(num) < n
  /\ Reply(WD!Answer("quotient", 0, num))
  /\ UNCHANGED <<call, j, u, q, estimate, inner>>

\* divmod64: from the highest nonzero limb down, the remainder in rhat.
StartLimbDivision ==
  /\ stage = "divide" /\ n = 1 /\ ActiveLimbs(num) >= n
  /\ stage' = "limbs"
  /\ j' = ActiveLimbs(num)
  /\ q' = Zeros(Lnum)
  /\ UNCHANGED <<call, u, estimate, inner, answer>>

DivideLimb ==
  /\ stage = "limbs" /\ j > 0
  /\ LET rest == rhat * B + Limb(num, j - 1)
     IN q' = [q EXCEPT ![j - 1] = rest \div den] /\ rhat' = rest % den
  /\ j' = j - 1
  /\ UNCHANGED <<stage, call, u, qhat, carry, product, inner, answer>>

LimbsDivided ==
  /\ stage = "limbs" /\ j = 0
  /\ Reply(WD!Answer("quotient", Value(q, Lnum), rhat))
  /\ UNCHANGED <<call, j, u, q, estimate, inner>>

\* Algorithm D proper.
Normalise ==
  /\ stage = "divide" /\ n > 1 /\ ActiveLimbs(num) >= n
  /\ stage' = "digit"
  /\ j' = ActiveLimbs(num) - n
  /\ u' = [k \in 0 .. Lnum |-> Limb(num * 2 ^ shift, k)]
  /\ q' = Zeros(Lnum)
  /\ UNCHANGED <<call, estimate, inner, answer>>

EstimateDigit ==
  /\ stage = "digit"
  /\ IF u[j + n] = v1
       THEN /\ qhat' = B - 1
            /\ rhat' = (u[j + n - 1] + v1) % B
            /\ carry' = (rhat' < u[j + n - 1])
       ELSE /\ qhat' = (u[j + n] * B + u[j + n - 1]) \div v1
            /\ rhat' = (u[j + n] * B + u[j + n - 1]) % v1
            /\ carry' = FALSE
  /\ product' = qhat' * v2
  /\ stage' = "correct"
  /\ UNCHANGED <<call, j, u, q, inner, answer>>

TooLarge == ~carry /\ product > rhat * B + u[j + n - 2]

\* Mutants: rhat does not wrap; the product is not kept in step.
CorrectUnwrapped ==
  /\ stage = "correct" /\ TooLarge
  /\ qhat' = qhat - 1 /\ product' = product - v2
  /\ rhat' = rhat + v1 /\ carry' = (rhat' >= B)
  /\ UNCHANGED <<stage, call, j, u, q, inner, answer>>
CorrectStale ==
  /\ stage = "correct" /\ TooLarge
  /\ qhat' = qhat - 1
  /\ rhat' = (rhat + v1) % B /\ carry' = (rhat' < rhat)
  /\ UNCHANGED <<stage, call, j, u, q, product, inner, answer>>

\* The product is kept in step with the estimate.
Correct ==
  /\ stage = "correct" /\ TooLarge
  /\ qhat' = qhat - 1
  /\ product' = product - v2
  /\ rhat' = (rhat + v1) % B
  /\ carry' = (rhat' < rhat)
  /\ UNCHANGED <<stage, call, j, u, q, inner, answer>>

Corrected ==
  /\ stage = "correct" /\ ~TooLarge
  /\ stage' = "subtract"
  /\ i' = 0 /\ borrow' = 0
  /\ UNCHANGED <<call, j, u, q, estimate, answer>>

\* One limb of u[j .. j+n] -= qhat * v.
SubtractLimb ==
  /\ stage = "subtract" /\ i < n
  /\ LET p == qhat * Limb(Normalised, i)
         sub == ((p % B) + borrow) % B
         wrapped == IF sub < (p % B) THEN 1 ELSE 0
         below == IF u[j + i] < sub THEN 1 ELSE 0
     IN /\ u' = [u EXCEPT ![j + i] = (@ - sub) % B]
        /\ borrow' = (wrapped + p \div B + below) % B
  /\ i' = i + 1
  /\ UNCHANGED <<stage, call, j, q, estimate, answer>>

\* Digit j is done: take it and go on to the next, or leave the loop.
StoreDigit(digit) ==
  /\ q' = [q EXCEPT ![j] = digit]
  /\ IF j = 0 THEN stage' = "remainder" /\ j' = 0
              ELSE stage' = "digit" /\ j' = j - 1

DigitRight ==
  /\ stage = "subtract" /\ i = n /\ u[j + n] >= borrow
  /\ u' = [u EXCEPT ![j + n] = @ - borrow]
  /\ StoreDigit(qhat)
  /\ UNCHANGED <<call, estimate, inner, answer>>

\* The estimate was one too large after all: add the divisor back.
StartAddBack ==
  /\ stage = "subtract" /\ i = n /\ u[j + n] < borrow
  /\ stage' = "addback"
  /\ qhat' = qhat - 1
  /\ i' = 0 /\ borrow' = 0
  /\ UNCHANGED <<call, j, u, q, rhat, carry, product, answer>>

\* Mutant: a carry into an all-ones limb is forgotten.
AddBackLimbCarryLost ==
  /\ stage = "addback" /\ i < n
  /\ LET sum == (u[j + i] + Limb(Normalised, i) + borrow) % B
     IN /\ u' = [u EXCEPT ![j + i] = sum]
        /\ borrow' = IF sum < u[j + i] THEN 1 ELSE 0
  /\ i' = i + 1
  /\ UNCHANGED <<stage, call, j, q, estimate, answer>>

AddBackLimb ==
  /\ stage = "addback" /\ i < n
  /\ LET sum == (u[j + i] + Limb(Normalised, i) + borrow) % B
     IN /\ u' = [u EXCEPT ![j + i] = sum]
        /\ borrow' = IF sum < u[j + i] \/ (borrow = 1 /\ sum = u[j + i]) THEN 1 ELSE 0
  /\ i' = i + 1
  /\ UNCHANGED <<stage, call, j, q, estimate, answer>>

\* Mutant: the top limb keeps what the borrow should have cleared.
AddedBackTopKept ==
  /\ stage = "addback" /\ i = n
  /\ StoreDigit(qhat)
  /\ UNCHANGED <<call, u, estimate, inner, answer>>

AddedBack ==
  /\ stage = "addback" /\ i = n
  /\ u' = [u EXCEPT ![j + n] = 0]
  /\ StoreDigit(qhat)
  /\ UNCHANGED <<call, estimate, inner, answer>>

\* Mutant: the bits of the next limb are not shifted in.
UnnormaliseLimbwise ==
  /\ stage = "remainder"
  /\ LET limb == [k \in 0 .. n - 1 |-> u[k] \div 2 ^ shift]
     IN Reply(WD!Answer("quotient", Value(q, Lnum), Value(limb, n)))
  /\ UNCHANGED <<call, j, u, q, estimate, inner>>

\* The remainder's limb k takes its high bits from u[k + 1].
Unnormalise ==
  /\ stage = "remainder"
  /\ LET limb == [k \in 0 .. n - 1 |->
                    ((u[k] + B * u[k + 1]) \div 2 ^ shift) % B]
     IN Reply(WD!Answer("quotient", Value(q, Lnum), Value(limb, n)))
  /\ UNCHANGED <<call, j, u, q, estimate, inner>>

Return ==
  /\ stage = "answered"
  /\ stage' = "idle" /\ answer' = WD!NoCall
  /\ num' = 0 /\ den' = 0 /\ j' = 0 /\ i' = 0 /\ borrow' = 0
  /\ u' = NoLimbs /\ q' = NoLimbs
  /\ qhat' = 0 /\ rhat' = 0 /\ carry' = FALSE /\ product' = 0

Work ==
  \/ RejectZero \/ FewerLimbs \/ StartLimbDivision \/ DivideLimb \/ LimbsDivided
  \/ Normalise \/ EstimateDigit \/ Correct \/ Corrected
  \/ SubtractLimb \/ DigitRight \/ StartAddBack \/ AddBackLimb \/ AddedBack
  \/ Unnormalise

Next == Call \/ Work \/ Return

\* The call runs to its end without suspending.
Spec == Init /\ [][Next]_vars /\ WF_vars(Work)

-----------------------------------------------------------------------------
(* Properties *)

TypeOK ==
  /\ stage \in {"idle", "divide", "limbs", "digit", "correct", "subtract",
                "addback", "remainder", "answered"}
  /\ num \in Numerators /\ den \in Divisors
  /\ j \in 0 .. Lnum /\ i \in 0 .. Lden
  /\ \A k \in DOMAIN u : u[k] \in Digits
  /\ \A k \in DOMAIN q : q[k] \in Digits
  /\ qhat \in Digits /\ rhat \in Digits /\ borrow \in Digits
  /\ carry \in BOOLEAN
  /\ product \in 0 .. B * B - 1

\* Before digit j is estimated, the digits already stored and what is left in
\* u are the numerator, and the left-over is below the divisor at that place.
NumeratorConserved ==
  stage \in {"digit", "remainder"} =>
    /\ num * 2 ^ shift = Value(q, Lnum) * Normalised + Value(u, Lnum + 1)
    /\ Value(u, Lnum + 1) < Normalised * (IF stage = "digit" THEN B ^ (j + 1) ELSE 1)

\* With a divisor of three limbs or more the corrected estimate can still be
\* one too large, never more and never too small: one add-back is enough.
EstimateWithinOne ==
  stage = "subtract" /\ i = 0 =>
    LET digit == (Value(u, Lnum + 1) \div B ^ j) \div Normalised
    IN qhat \in {digit, digit + 1}

\* When the divisor has been added back, its carry out of the top limb must
\* cancel the borrow, which is why the code may store zero there.
AddBackCarriesOut == stage = "addback" /\ i = n => borrow = 1

\* divmod answers every call as WideDivision promises, and it does answer.
ImplementsWideDivision == WD!Spec
=============================================================================
