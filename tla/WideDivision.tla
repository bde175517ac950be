---------------------------- MODULE WideDivision ----------------------------
(***************************************************************************)
(* What a wide division promises its caller, whatever algorithm runs       *)
(* behind it: a zero divisor and a quotient beyond the result type are     *)
(* reported, and every other call is answered with the exact quotient and  *)
(* the remainder below the divisor.  error.hpp states the promise: "no     *)
(* operation returns a wrong answer in place of an error".                 *)
(***************************************************************************)
EXTENDS Integers

CONSTANTS
  Numerators,      \* the numerators a caller may pass
  Divisors         \* the divisors a caller may pass

VARIABLES
  QuotientLimit,   \* quotients from here on do not fit the result type; fixed
  num, den, answer

vars == <<QuotientLimit, num, den, answer>>

Answer(status, q, r) == [status |-> status, q |-> q, r |-> r]
NoCall == Answer("idle", 0, 0)
Pending == Answer("pending", 0, 0)

\* The only right answer to a call.
RightAnswer(n, d) ==
  IF d = 0 THEN Answer("division_by_zero", 0, 0)
  ELSE IF n \div d >= QuotientLimit THEN Answer("overflow", 0, 0)
  ELSE Answer("quotient", n \div d, n % d)

Init == QuotientLimit \in Nat /\ num = 0 /\ den = 0 /\ answer = NoCall

Call ==
  /\ answer = NoCall
  /\ num' \in Numerators /\ den' \in Divisors
  /\ answer' = Pending
  /\ UNCHANGED QuotientLimit

Respond ==
  /\ answer = Pending
  /\ answer' = RightAnswer(num, den)
  /\ UNCHANGED <<QuotientLimit, num, den>>

\* The caller takes the answer.
Return ==
  /\ answer \notin {NoCall, Pending}
  /\ num' = 0 /\ den' = 0 /\ answer' = NoCall
  /\ UNCHANGED QuotientLimit

Next == Call \/ Respond \/ Return

Spec == Init /\ [][Next]_vars /\ WF_vars(Respond)
=============================================================================
