-------------------------- MODULE PortableDivide128 --------------------------
(***************************************************************************)
(* divide128() and divide128by64() of src/detail.hpp as compiled without a *)
(* 128-bit integer (FIXEDWIDE_FORCE_PORTABLE): two limbs by two.  The code *)
(* reads differently from divide_digit(): the loop that lowers the         *)
(* estimate is skipped when the estimate is the largest digit, and the     *)
(* product it compares is not refreshed while the estimate goes down.      *)
(*                                                                         *)
(* Callers rule a zero divisor out.                                        *)
(***************************************************************************)
EXTENDS Integers

CONSTANT W                 \* bits of a limb: 64 in the code

B == 2 ^ W
Wide == B * B

VARIABLES
  stage,                   \* "idle", "divide", "correct", "subtract" or "answered"
  num, den,                \* the arguments
  qhat, rhat,              \* the estimated digit and the low limb of its rest
  product,                 \* ph:pl, the estimate times v0
  answer                   \* the pair returned

vars == <<stage, num, den, qhat, rhat, product, answer>>
call == <<num, den>>

WD == INSTANCE WideDivision
        WITH Numerators <- 0 .. Wide - 1, Divisors <- 1 .. Wide - 1,
             QuotientLimit <- Wide

\* The normalised divisor v1:v0 and numerator u2:u1:u0.
CountlZero(x) == CHOOSE s \in 0 .. W - 1 : B <= 2 * x * 2 ^ s /\ x * 2 ^ s < B
shift == CountlZero(den \div B)
v1 == (den * 2 ^ shift) \div B
v0 == (den * 2 ^ shift) % B
u2 == (num * 2 ^ shift) \div Wide
u1 == ((num * 2 ^ shift) \div B) % B
u0 == (num * 2 ^ shift) % B

Init ==
  /\ stage = "idle"
  /\ num = 0 /\ den = 0 /\ qhat = 0 /\ rhat = 0 /\ product = 0
  /\ answer = WD!NoCall

Call ==
  /\ stage = "idle"
  /\ num' \in 0 .. Wide - 1 /\ den' \in 1 .. Wide - 1
  /\ stage' = "divide"
  /\ answer' = WD!Pending
  /\ UNCHANGED <<qhat, rhat, product>>

Reply(q, r) ==
  /\ stage' = "answered"
  /\ answer' = WD!Answer("quotient", q, r)
  /\ UNCHANGED <<call, qhat, rhat, product>>

\* divide128by64: the high limb first, its remainder leading the low one.
DivideByLimb ==
  /\ stage = "divide" /\ den < B
  /\ LET qhigh == (num \div B) \div den
         rest == ((num \div B) % den) * B + (num % B)
     IN Reply(qhigh * B + rest \div den, rest % den)

NumeratorBelow ==
  /\ stage = "divide" /\ den >= B /\ num < den
  /\ Reply(0, num)

Estimate ==
  /\ stage = "divide" /\ den >= B /\ num >= den
  /\ IF u2 = v1
       THEN qhat' = B - 1 /\ rhat' = (u1 + v1) % B
       ELSE qhat' = (u2 * B + u1) \div v1 /\ rhat' = (u2 * B + u1) % v1
  /\ product' = qhat' * v0
  /\ stage' = "correct"
  /\ UNCHANGED <<call, answer>>

\* Mutant: equality lowers the estimate too.
LowerOrEqual == qhat # B - 1 /\ product >= rhat * B + u0

\* The loop condition: a saturated estimate is taken as it is.
Lower == qhat # B - 1 /\ product > rhat * B + u0

\* Mutant: rhat stays behind.
CorrectQuotientOnly ==
  /\ stage = "correct" /\ Lower /\ qhat > 0
  /\ qhat' = qhat - 1
  /\ UNCHANGED <<stage, call, rhat, product, answer>>

\* One round; a carry out of rhat leaves the loop with rhat as it was.
Correct ==
  /\ stage = "correct"
  /\ Lower
  /\ qhat' = qhat - 1
  /\ IF rhat + v1 >= B
       THEN stage' = "subtract" /\ rhat' = rhat
       ELSE stage' = "correct" /\ rhat' = rhat + v1
  /\ UNCHANGED <<call, product, answer>>

LeaveLoop ==
  /\ stage = "correct"
  /\ ~Lower
  /\ stage' = "subtract"
  /\ UNCHANGED <<call, qhat, rhat, product, answer>>

\* The two-limb product and difference wrap.
Subtract ==
  /\ stage = "subtract"
  /\ Reply(qhat, (num - den * qhat) % Wide)

Return ==
  /\ stage = "answered"
  /\ stage' = "idle"
  /\ num' = 0 /\ den' = 0 /\ qhat' = 0 /\ rhat' = 0 /\ product' = 0
  /\ answer' = WD!NoCall

Work ==
  DivideByLimb \/ NumeratorBelow \/ Estimate \/ Correct \/ LeaveLoop \/ Subtract

Next == Call \/ Work \/ Return

Spec == Init /\ [][Next]_vars /\ WF_vars(Work)

-----------------------------------------------------------------------------
(* Properties *)

Answered == stage = "answered"
Right == WD!RightAnswer(num, den)

\* The only wrong answers come from a saturated estimate, they are exactly
\* one too high, and the divisor's normalised high limb is at its minimum.
WrongOnlyWhenSaturated ==
  Answered /\ answer # Right =>
    /\ answer.q = B - 1 /\ answer.q = Right.q + 1
    /\ 2 * v1 = B
    /\ num \div B = B - 1

\* Although the loop compares the product of the first estimate after the
\* estimate went down, it never lowers it below the true quotient.
StaleProductHarmless ==
  stage \in {"correct", "subtract"} => qhat >= num \div den

=============================================================================
