---------------------------- MODULE DivideNarrow ----------------------------
(***************************************************************************)
(* divide_narrow() of src/native.hpp and src/division.hpp: four limbs by   *)
(* two, when the quotient is proven to fit two limbs.  Easy shapes are     *)
(* answered directly; the rest is normalised so that the divisor's top bit *)
(* is set and divided digit by digit with the machine of DivideDigit.  The *)
(* same wide values are shared: the caller's remainder goes in and out of  *)
(* every digit.                                                            *)
(***************************************************************************)
EXTENDS Integers

CONSTANT W                 \* bits of a limb: 64 in the code

B == 2 ^ W
Wide == B * B              \* a two-limb word holds 0 .. Wide - 1

VARIABLES
  stage,                   \* where the call is
  num, den,                \* the arguments
  shift,                   \* how far the divisor was shifted left
  rem, low,                \* the normalised numerator: two limbs each
  qhigh, answer,
  \* the variables of one digit division
  pc, remainder, next, v1, v0, quotient, rhat, carry, given, corrections

digitVars ==
  <<pc, remainder, next, v1, v0, quotient, rhat, carry, given, corrections>>
vars == <<stage, num, den, shift, rem, low, qhigh, answer, digitVars>>

D == INSTANCE DivideDigit
WD == INSTANCE WideDivision
        WITH Numerators <- 0 .. Wide * Wide - 1, Divisors <- 0 .. Wide - 1,
             QuotientLimit <- Wide

Hi == num \div Wide
Lo == num % Wide

\* The leading zero bits of a nonzero limb.
CountlZero(x) == CHOOSE s \in 0 .. W - 1 : B <= 2 * x * 2 ^ s /\ x * 2 ^ s < B

Init ==
  /\ stage = "idle"
  /\ num = 0 /\ den = 0 /\ shift = 0 /\ rem = 0 /\ low = 0 /\ qhigh = 0
  /\ answer = WD!NoCall
  /\ D!Init

Call ==
  /\ stage = "idle"
  /\ num' \in 0 .. Wide * Wide - 1 /\ den' \in 0 .. Wide - 1
  /\ stage' = "divide"
  /\ answer' = WD!Pending
  /\ UNCHANGED <<shift, rem, low, qhigh, digitVars>>

Reply(a) ==
  /\ stage' = "answered"
  /\ answer' = a
  /\ UNCHANGED <<num, den, shift, rem, low, qhigh, digitVars>>

RejectZero ==
  /\ stage = "divide"
  /\ den = 0
  /\ Reply(WD!Answer("division_by_zero", 0, 0))

\* floor(num / den) fits two limbs iff the high half is below the divisor.
RejectWide ==
  /\ stage = "divide"
  /\ den # 0 /\ Hi >= den
  /\ Reply(WD!Answer("overflow", 0, 0))

\* Nothing in the high half: an ordinary two-limb division, that of native.hpp.
\* The portable divide128 called instead is PortableDivide128, with its one
\* deviation; its callers see to such numerators themselves before they come here.
DivideLow ==
  /\ stage = "divide"
  /\ Hi < den /\ Hi = 0
  /\ Reply(WD!Answer("quotient", Lo \div den, Lo % den))

\* A one-limb divisor: two divisions of two limbs by one, the remainder of
\* the first leading the second.
DivideByLimb ==
  /\ stage = "divide"
  /\ Hi < den /\ Hi # 0 /\ den < B
  /\ LET top == Hi * B + Lo \div B
         bottom == (top % den) * B + (Lo % B)
     IN Reply(WD!Answer("quotient",
                        (top \div den) * B + bottom \div den, bottom % den))

\* Mutant: the first digit may be one.
FitsOneLimbOrEqual == num \div (Wide * B) = 0 /\ num \div B <= den

\* When the three leading limbs are below the divisor the first digit is
\* known to be zero, and the next limb is taken in at once.
FitsOneLimb == num \div (Wide * B) = 0 /\ num \div B < den

Normalise ==
  /\ stage = "divide"
  /\ Hi < den /\ Hi # 0 /\ den >= B
  /\ shift' = CountlZero(den \div B)
  /\ low' = (Lo * 2 ^ shift') % Wide
  /\ LET top == ((Hi * 2 ^ shift') % Wide) + (Lo * 2 ^ shift') \div Wide
     IN rem' = IF FitsOneLimb THEN (top * B + low' \div B) % Wide ELSE top
  /\ stage' = IF FitsOneLimb THEN "low" ELSE "high"
  /\ UNCHANGED <<num, den, qhigh, answer, digitVars>>

NextLimb == IF stage = "high" THEN low \div B ELSE low % B

DigitCall ==
  /\ stage \in {"high", "low"}
  /\ LET v == den * 2 ^ shift
     IN D!Call(rem, NextLimb, v \div B, v % B)
  /\ UNCHANGED <<stage, num, den, shift, rem, low, qhigh, answer>>

DigitStep ==
  /\ D!Step
  /\ UNCHANGED <<stage, num, den, shift, rem, low, qhigh, answer>>

\* Mutant: the first digit is lost.
HighDigitLost ==
  /\ stage = "high" /\ pc = "done"
  /\ rem' = remainder /\ stage' = "low" /\ D!Return
  /\ UNCHANGED <<num, den, shift, low, qhigh, answer>>

HighDigit ==
  /\ stage = "high" /\ pc = "done"
  /\ rem' = remainder /\ qhigh' = quotient
  /\ stage' = "low"
  /\ D!Return
  /\ UNCHANGED <<num, den, shift, low, answer>>

\* Mutant: the remainder is not shifted back.
LowDigitUnshifted ==
  /\ stage = "low" /\ pc = "done"
  /\ answer' = WD!Answer("quotient", qhigh * B + quotient, remainder)
  /\ stage' = "answered" /\ D!Return
  /\ UNCHANGED <<num, den, shift, rem, low, qhigh>>

LowDigit ==
  /\ stage = "low" /\ pc = "done"
  /\ answer' = WD!Answer("quotient", qhigh * B + quotient,
                         remainder \div 2 ^ shift)
  /\ stage' = "answered"
  /\ D!Return
  /\ UNCHANGED <<num, den, shift, rem, low, qhigh>>

Return ==
  /\ stage = "answered"
  /\ stage' = "idle"
  /\ num' = 0 /\ den' = 0 /\ shift' = 0 /\ rem' = 0 /\ low' = 0 /\ qhigh' = 0
  /\ answer' = WD!NoCall
  /\ UNCHANGED digitVars

Work ==
  \/ RejectZero \/ RejectWide \/ DivideLow \/ DivideByLimb \/ Normalise
  \/ DigitCall \/ DigitStep \/ HighDigit \/ LowDigit

Next == Call \/ Work \/ Return

\* The call runs to its end without suspending.
Spec == Init /\ [][Next]_vars /\ WF_vars(Work)

-----------------------------------------------------------------------------
(* Properties *)

Word == 0 .. Wide - 1

\* Whenever a digit is requested, the normalised divisor has its top bit set
\* and the remainder is below it: otherwise the hardware divide would trap.
DigitPrecondition ==
  stage \in {"high", "low"} /\ pc = "idle" =>
    LET v == den * 2 ^ shift
    IN D!Callable(rem, NextLimb, v \div B, v % B)

\* Between the digits, the quotient so far, the remainder and the limbs still
\* to come are the normalised numerator.
NumeratorConserved ==
  stage = "low" /\ pc = "idle" =>
    num * 2 ^ shift = qhigh * B * den * 2 ^ shift + rem * B + (low % B)

\* divide_narrow answers every call as WideDivision promises, and it does
\* answer.
ImplementsWideDivision == WD!Spec
=============================================================================
