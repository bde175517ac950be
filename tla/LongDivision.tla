---------------------------- MODULE LongDivision ----------------------------
(***************************************************************************)
(* The library's long divisions side by side: which one a caller reaches   *)
(* is settled by its type and its build, and each promises what            *)
(* WideDivision states.                                                    *)
(*   narrow    divide_narrow, on 64-bit limbs                              *)
(*   portable  divide128 where the compiler has no 128-bit integer         *)
(*   knuth     divmod, for any number of limbs                             *)
(* The call, its answer and the estimate are shared; the variables of the  *)
(* other divisions rest.                                                   *)
(***************************************************************************)
EXTENDS Integers

CONSTANTS
  W,                       \* bits of a limb
  PortableW,               \* of the portable division: deviations need 3
  Lnum, Lden               \* limbs of the operands of divmod

ASSUME WidthAssumption == W \in Nat \ {0} /\ PortableW \in Nat \ {0}
ASSUME LimbsAssumption == Lnum \in Nat /\ Lden \in Nat /\ 1 < Lden /\ Lden <= Lnum
ASSUME PowersAssumption ==     \* what defines a power, for the exponents used
  /\ 2 ^ 0 = 1 /\ \A k \in 0 .. W + PortableW : 2 ^ (k + 1) = 2 * 2 ^ k
  /\ (2 ^ W) ^ 0 = 1 /\ \A k \in 0 .. Lnum : (2 ^ W) ^ (k + 1) = 2 ^ W * (2 ^ W) ^ k

VARIABLES
  method,                  \* which division, chosen once
  stage, num, den, answer, \* a call
  shift, rem, low, qhigh,  \* of divide_narrow
  pc, remainder, next, v1, v0, quotient, given, corrections,
  qhat, rhat, carry, product,
  j, u, q, i, borrow       \* of divmod

narrowOnly == <<shift, rem, low, qhigh, pc, remainder, next, v1, v0, quotient,
                given, corrections>>
knuthOnly == <<j, u, q, i, borrow>>
vars == <<method, stage, num, den, answer, narrowOnly, qhat, rhat, carry, product, knuthOnly>>

N == INSTANCE DivideNarrow
P == INSTANCE PortableDivide128 WITH W <- PortableW
K == INSTANCE KnuthDivision

Init ==
  /\ method \in {"narrow", "portable", "knuth"}
  /\ N!Init /\ P!Init /\ K!Init

Narrow ==
  /\ method = "narrow" /\ N!Next
  /\ UNCHANGED <<method, qhat, product, knuthOnly>>
Portable ==
  /\ method = "portable" /\ P!Next
  /\ UNCHANGED <<method, narrowOnly, carry, knuthOnly>>
Knuth ==
  /\ method = "knuth" /\ K!Next
  /\ UNCHANGED <<method, narrowOnly>>

Next == Narrow \/ Portable \/ Knuth

\* A division runs to its end without suspending.
Dividing == stage \notin {"idle", "answered"} /\ Next

Spec == Init /\ [][Next]_vars /\ WF_vars(Dividing)

-----------------------------------------------------------------------------
(* Properties *)

TypeOK == method = "knuth" => K!TypeOK

\* divide_digit is only called with a normalised divisor above the remainder:
\* otherwise its hardware divide would trap.
DigitPrecondition == method = "narrow" => N!DigitPrecondition

\* No digit and no limb is lost between two steps of a long division.
NumeratorConserved ==
  /\ method = "narrow" => N!NumeratorConserved
  /\ method = "knuth" => K!NumeratorConserved

\* divmod: after the correction, the estimate of a digit is at most one too
\* large, so that one add-back is enough; and the add-back carries out of the
\* top limb, which cancels the borrow.
EstimateWithinOne == method = "knuth" => K!EstimateWithinOne
AddBackCarriesOut == method = "knuth" => K!AddBackCarriesOut

\* The portable division is wrong only where its estimate saturates, and then
\* by one; its comparison with a stale product is harmless.
WrongOnlyWhenSaturated == method = "portable" => P!WrongOnlyWhenSaturated
StaleProductHarmless == method = "portable" => P!StaleProductHarmless

\* Every division answers every call, and as WideDivision promises but for
\* that deviation of the portable one.
Exact == INSTANCE WideDivision WITH
  Numerators <- 0 .. K!B ^ Lnum - 1,
  Divisors <- 0 .. K!B ^ Lden - 1,
  QuotientLimit <- IF method = "narrow" THEN N!Wide ELSE K!B ^ Lnum,
  answer <- IF method = "portable" /\ stage = "answered" THEN P!Right ELSE answer
ImplementsWideDivision == Exact!Spec
=============================================================================
