----------------------------- MODULE DivideDigit -----------------------------
(***************************************************************************)
(* One quotient digit of a two-limb division: divide_digit() of            *)
(* src/native.hpp and its portable twin in src/division.hpp.  The caller   *)
(* holds a remainder smaller than the normalised two-limb divisor, appends *)
(* the next limb of the numerator to it, and receives one quotient digit   *)
(* and the new remainder.  A limb is a digit in radix B (2^64 in the       *)
(* code); the same steps are taken here for an arbitrary radix.            *)
(*                                                                         *)
(* A call starts at Call and ends at Return, where the caller has taken    *)
(* the digit; `given` and `corrections` are history variables.             *)
(***************************************************************************)
EXTENDS Integers

CONSTANT B               \* the radix of a limb: 2^64 in the code

ASSUME RadixAssumption == B \in Nat /\ B >= 2

VARIABLES
  pc,          \* "idle", "estimate", "correct" or "done"
  remainder,   \* in: what is left of the numerator; out: the new remainder
  next,        \* the limb appended to the remainder
  v1, v0,      \* the limbs of the normalised divisor
  quotient,    \* the digit, first estimated and then corrected
  rhat,        \* low limb of (remainder - quotient * v1)
  carry,       \* did rhat exceed one limb?
  given,       \* history: the remainder the call was given
  corrections  \* history: how often the estimate was lowered

vars == <<pc, remainder, next, v1, v0, quotient, rhat, carry, given, corrections>>
call == <<next, v1, v0, given>>

Digits == 0 .. B - 1
High(x) == x \div B
Low(x) == x % B

Divisor == v1 * B + v0
Dividend == given * B + next      \* the numerator this digit divides

\* Mutant: the divisor is not normalised.
CallableUnnormalised(r, n, d1, d0) ==
  /\ r \in Nat /\ n \in Digits /\ d1 \in Digits \ {0} /\ d0 \in Digits
  /\ r < d1 * B + d0

\* The caller's obligations: a normalised divisor, and a remainder below it.
Callable(r, n, d1, d0) ==
  /\ r \in Nat /\ n \in Digits /\ d1 \in Digits /\ d0 \in Digits
  /\ 2 * d1 >= B
  /\ r < d1 * B + d0

Init ==
  /\ pc = "idle" /\ carry = FALSE
  /\ remainder = 0 /\ next = 0 /\ v1 = 0 /\ v0 = 0
  /\ quotient = 0 /\ rhat = 0 /\ given = 0 /\ corrections = 0

Call(r, n, d1, d0) ==
  /\ pc = "idle"
  /\ Callable(r, n, d1, d0)
  /\ pc' = "estimate"
  /\ remainder' = r /\ given' = r
  /\ next' = n /\ v1' = d1 /\ v0' = d0
  /\ UNCHANGED <<quotient, rhat, carry, corrections>>

\* Mutant: the saturated estimate is one past the largest digit.
EstimateOversaturated ==
  /\ pc = "estimate" /\ High(remainder) = v1
  /\ pc' = "correct"
  /\ quotient' = B
  /\ rhat' = Low(remainder) /\ carry' = FALSE
  /\ UNCHANGED <<call, remainder, corrections>>

\* Equal leading limbs: the estimate saturates at the largest digit.
EstimateSaturated ==
  /\ pc = "estimate"
  /\ High(remainder) = v1
  /\ pc' = "correct"
  /\ quotient' = B - 1
  /\ rhat' = (Low(remainder) + v1) % B
  /\ carry' = (rhat' < Low(remainder))
  /\ UNCHANGED <<call, remainder, corrections>>

\* Otherwise div128by64 divides the two leading limbs by v1.
EstimateDivided ==
  /\ pc = "estimate"
  /\ High(remainder) # v1
  /\ pc' = "correct"
  /\ quotient' = remainder \div v1
  /\ rhat' = remainder % v1
  /\ carry' = FALSE
  /\ UNCHANGED <<call, remainder, corrections>>

\* Mutant: the estimate is lowered at equality too.
TooLargeOrEqual == ~carry /\ quotient * v0 >= rhat * B + next

\* quotient * v0 exceeds rhat:next, so the estimate is still too large.
TooLarge == ~carry /\ quotient * v0 > rhat * B + next

\* Mutant: the carry is noticed one step early.
CorrectCarryEarly ==
  /\ pc = "correct" /\ TooLarge
  /\ quotient' = quotient - 1 /\ rhat' = (rhat + v1) % B
  /\ carry' = (rhat + v1 >= B - 1)
  /\ corrections' = corrections + 1
  /\ UNCHANGED <<call, remainder, pc>>

\* Mutant: the loop tests the same estimate again.
CorrectNothing == pc = "correct" /\ TooLarge /\ UNCHANGED vars

Correct ==
  /\ pc = "correct"
  /\ TooLarge
  /\ quotient' = quotient - 1
  /\ rhat' = (rhat + v1) % B
  /\ carry' = (rhat' < rhat)
  /\ corrections' = corrections + 1
  /\ UNCHANGED <<call, remainder, pc>>

\* The two-limb subtraction wraps modulo B^2.
Finish ==
  /\ pc = "correct"
  /\ ~TooLarge
  /\ remainder' = (rhat * B + next - quotient * v0) % (B * B)
  /\ pc' = "done"
  /\ UNCHANGED <<call, quotient, rhat, carry, corrections>>

Return ==
  /\ pc = "done"
  /\ pc' = "idle" /\ carry' = FALSE
  /\ remainder' = 0 /\ next' = 0 /\ v1' = 0 /\ v0' = 0
  /\ quotient' = 0 /\ rhat' = 0 /\ given' = 0 /\ corrections' = 0

Step == EstimateSaturated \/ EstimateDivided \/ Correct \/ Finish

AnyCall ==
  /\ pc = "idle"
  /\ \E r \in 0 .. B * B - 1, n, d1, d0 \in Digits : Call(r, n, d1, d0)

Next ==
  \/ AnyCall
  \/ Step
  \/ Return

\* A call in progress runs to its end: the code never suspends inside it.
Spec == Init /\ [][Next]_vars /\ WF_vars(Step)

-----------------------------------------------------------------------------
(* Properties *)

TypeOK ==
  /\ pc \in {"idle", "estimate", "correct", "done"}
  /\ carry \in BOOLEAN
  /\ remainder \in 0 .. B * B - 1 /\ given \in 0 .. B * B - 1
  /\ next \in Digits /\ v1 \in Digits /\ v0 \in Digits
  /\ quotient \in Digits /\ rhat \in Digits
  /\ corrections \in Nat

\* The digit is floor(dividend / divisor) and the remainder what it leaves,
\* although the estimate may be two too large and the subtraction may wrap.
DigitExact ==
  pc = "done" =>
    /\ Dividend = quotient * Divisor + remainder
    /\ remainder < Divisor

\* The estimate never falls below the true digit, so it is only ever lowered
\* and no add-back stage is needed (native.hpp, "For a TWO-limb divisor ...").
EstimateNeverBelow ==
  pc \in {"correct", "done"} => Dividend < (quotient + 1) * Divisor

\* Normalising the divisor bounds the loop: two corrections at most.
AtMostTwoCorrections == corrections <= 2

\* When rhat carried, the subtraction does borrow: the limb rhat lost and the
\* borrow cancel, which is why the wrapped difference is the remainder.
CarryCancelsBorrow ==
  pc = "correct" /\ carry => quotient * v0 > rhat * B + next

\* Every call delivers its digit.
CallReturns == (pc = "estimate") ~> (pc = "done")
=============================================================================
