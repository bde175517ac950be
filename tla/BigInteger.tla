----------------------------- MODULE BigInteger -----------------------------
(***************************************************************************)
(* bigint.cpp: the checked divisions of a wide integer (256 bits) by one   *)
(* of half its width (128 bits), on top of the wide integers.  Magnitudes  *)
(* are divided by divmod64 or divmod_knuth, which appear by their results; *)
(* KnuthDivision models them.                                              *)
(***************************************************************************)
EXTENDS WideInteger

R == INSTANCE Rounding WITH M <- 2 ^ Bits

HalfBits == Bits \div 2
HalfAll == 2 ^ HalfBits
Halves == {v % HalfAll : v \in Samples[type]}
Checked == {"divmod", "signed_divmod"}

CheckedCall ==
  /\ stage = "idle"
  /\ \E b \in Halves :
       \/ \E op \in Checked, a \in Samples[type] : Begin(op, a, b, 0, "exact")
       \/ \E a \in Samples[type], mode \in R!Modes : Begin("divide_to_half", a, b, 0, mode)
       \/ \E a, c \in Halves, mode \in R!Modes : Begin("mul_div", a, b, c, mode)

NegativeHalf(v) == v >= HalfAll \div 2
MagnitudeOf(v) == A!Magnitude(v, Bits)
HalfMagnitude(v) == A!Magnitude(v, HalfBits)

RejectZero ==
  /\ \/ (\E op \in Checked \union {"divide_to_half"} : Op(op)) /\ request.b = 0
     \/ Op("mul_div") /\ request.c = 0
  /\ Respond(A!Failure("division_by_zero"))

Divmod ==
  /\ Op("divmod") /\ request.b # 0
  /\ Reply(<<request.a \div request.b, request.a % request.b>>)

\* Mutant: min / -1 is not recognised, and the negation wraps back to min.
SignedDivmodUnchecked ==
  /\ Op("signed_divmod") /\ request.b # 0
  /\ LET a == request.a  b == request.b
         n == MagnitudeOf(a)  d == HalfMagnitude(b)
     IN Reply(<<Signed(n \div d, Negative(a) # NegativeHalf(b), Bits),
                Signed(n % d, Negative(a), HalfBits)>>)

\* The quotient truncates, the remainder has the numerator's sign, and min / -1
\* has no quotient.
SignedDivmod ==
  /\ Op("signed_divmod") /\ request.b # 0
  /\ LET a == request.a  b == request.b
         n == MagnitudeOf(a)  d == HalfMagnitude(b)
     IN IF a = All \div 2 /\ b = HalfAll - 1 THEN Respond(A!Failure("overflow"))
        ELSE Reply(<<Signed(n \div d, Negative(a) # NegativeHalf(b), Bits),
                     Signed(n % d, Negative(a), HalfBits)>>)

\* A quotient rounded into half the width: range, then exactness, then the limit.
RoundedHalf(n, d, sign) ==
  LET limit == HalfAll \div 2 - 1 + Indicator(sign)
      r == R!RoundMagnitude(n \div d, n % d, d, sign, request.rounding, limit)
  IN IF n \div d > limit THEN A!Failure("overflow")
     ELSE IF r.error # "none" THEN A!Failure(r.error)
     ELSE A!Value(<<Signed(r.value, sign, HalfBits)>>)

DivideToHalf ==
  /\ Op("divide_to_half") /\ request.b # 0
  /\ Respond(RoundedHalf(MagnitudeOf(request.a), HalfMagnitude(request.b),
                         Negative(request.a) # NegativeHalf(request.b)))

MulDiv ==
  /\ Op("mul_div") /\ request.c # 0
  /\ LET a == request.a  b == request.b  c == request.c
     IN Respond(RoundedHalf(HalfMagnitude(a) * HalfMagnitude(b), HalfMagnitude(c),
                            (NegativeHalf(a) # NegativeHalf(b)) # NegativeHalf(c)))

CheckedWork == RejectZero \/ Divmod \/ SignedDivmod \/ DivideToHalf \/ MulDiv

IntegerNext == Next \/ CheckedCall \/ CheckedWork
IntegerSpec == Init /\ [][IntegerNext]_vars /\ WF_vars(Work \/ CheckedWork)
=============================================================================
