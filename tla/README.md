# fixedwide: a verification project

`fixedwide` is a C++20 library of fixed-point decimals: a value is a raw integer
of 8 to 256 bits divided by `10^D`. Every operation returns the exact result,
rounded by a named mode, or a named error; none may return a wrong answer
(`include/fixedwide/error.hpp:7-8`). The library keeps no global state, starts
no thread and persists nothing. What makes it hard is numerical and sequential:
divisions built from narrower divisions whose corrections a random test almost
never meets, several ways of deciding one rounding, ranges that are checked
after a fast path has already computed, and batches that read ahead of the rows
they write.

This directory holds TLA+ modules translated from the code, TLC
configurations that check them on small words and small batches, and TLAPS
proofs for words, radices, contexts and formulas of every size.
`PROJECT.json` lists the runs, the theorems, the hazards, the mutations every
property must catch, and the source lines behind every definition.

## Inventory

| Part | Source | State and operations | Status |
|---|---|---|---|
| two-limb division | `src/native.hpp`, `src/division.hpp` | `divide_digit`, `divide_narrow`: an estimate and its correction loop, digit after digit | modelled |
| portable two-limb division | `src/detail.hpp` | `divide128` without a 128-bit machine integer | modelled |
| multi-limb division | `src/limbs.hpp`, `src/bigint.cpp` | `divmod64`, `divmod_knuth`; borrow and carry between limbs | modelled |
| rounding | `src/detail.hpp`, `include/fixedwide/arithmetic.hpp` | five modes, `round_magnitude`, four shortcuts for nearest-even | modelled |
| same-type arithmetic to one word | `src/arithmetic.cpp`, `include/fixedwide/arithmetic.hpp` | add, sub, negate, abs, mul, div, mul_div, midpoint, remainder, quantize; a fast path, a kernel, a rerun | modelled |
| same-type arithmetic of 128 and 256 bits | the same files, `src/native.hpp` | inline, native, portable and four-limb paths chosen by build and by value | modelled |
| constexpr arithmetic | `include/fixedwide/detail/constexpr_arith.hpp` | a second implementation, limb by limb and bit by bit | modelled |
| unchecked arithmetic | `include/fixedwide/unchecked.hpp` | the operations without their checks, for callers that vouch for an answer | modelled |
| overflow helpers | `include/fixedwide/detail/overflow.hpp` | sign tests and a division instead of builtins | modelled |
| checked context | `include/fixedwide/checked.hpp` | the first error of a formula; `record`, `take`, `result`, copies | modelled |
| batch scheduler | `include/fixedwide/batch.hpp`, `detail/batch_simd.hpp` | `for_each`, `transform`, `transform_reduce`, in blocks or vector tiles | modelled |
| batch multiplication | `include/fixedwide/detail/batch_multiply.hpp`, `batch_simd.hpp` | a prepared reciprocal, a product split around its division, the certificate of a vector lane | modelled |
| mixed-width arithmetic | `src/mixed.cpp`, `include/fixedwide/mixed.hpp`, `detail/mixed_native.hpp` | casts, sums, products, quotients and comparison across types: native, same-scale, attempted, kernel and constant-expression paths | modelled |
| text | `src/chars.cpp`, `include/fixedwide/chars.hpp`, `detail/decimal_scan.hpp` | `scan_decimal`, `parse_fixed_kernel` (fast and general path), `format_fixed_kernel` | modelled |
| integer text | `src/integer_chars.cpp` | reading and writing by chunks | modelled |
| floating point | `include/fixedwide/detail/from_float.hpp`, `to_float.hpp`, `src/floating.cpp` | `from_float` on its fast path and by its kernel, `to_float` on its fast path | modelled |
| floating-point output of the widest types | `src/floating.cpp` | `to_float_kernel` | not modelled |
| wide integers | `include/fixedwide/wide.hpp`, `src/limbs.hpp`, `src/detail.hpp` | arithmetic, shifts, comparison and division on limbs | modelled |
| checked wide division | `src/bigint.cpp`, `include/fixedwide/bigint.hpp` | signed and unsigned `divmod`, `divide_to_i128`, `mul_div` | modelled |
| fixed-point type, logarithm, binary encoding, stream adapters | `include/fixedwide/` | | not modelled, see below |

How they interact: everything is a call that returns. A public operation
(`arithmetic.hpp`) tries an inline path, else calls a kernel of
`arithmetic.cpp`, which divides by the primitives of `detail.hpp`,
`native.hpp` or `limbs.hpp` and rounds with `round_magnitude`. A constant
expression takes none of these but `constexpr_arith.hpp`. A `Checked` context calls operations and folds their results. `batch::for_each` calls user
callbacks, map and commit, and they share the input and output arrays: the only
place where code the library does not control runs in the middle of a library
loop.

## The modules

| Module | What it is | How it corresponds to the code |
|---|---|---|
| `WideDivision` | abstract specification of any division: asked, it answers with the exact quotient and remainder | the contract of the division helpers |
| `DivideDigit` | the estimate-and-correct step for any radix `B` | one action per branch of `divide_digit`: the saturated and the divided estimate, a turn of the loop, the closing subtraction. `rhat` and the difference wrap as in the code |
| `DivideNarrow` | `divide_narrow` over four limbs | normalising shift, skipped first digit, digits, shift back; each digit is the result `DivideDigit` is proved to give |
| `PortableDivide128` | the portable `divide128` | every step, the product that is not refreshed and the loop's saturation test included |
| `KnuthDivision` | `divmod`, `divmod64`, `divmod_knuth` | limb by limb: estimate, multiply-and-subtract with its borrow, add-back with its carry, remainder shift |
| `LongDivision` | the three divisions side by side | a caller reaches one by its type and its build; call, answer and estimate are shared |
| `Rounding` | modes, `round_magnitude`, shortcuts, on words of `M` values | operators, one per function |
| `ExactRounding`, `ExactArithmetic` | abstract specification: the exact rational, rounded, in range or the error `error.hpp` gives precedence to | written from the contract, not from the kernels |
| `MachineWord` | signed words, the machine division of two words by one, and the range tests before it | operators; the division's quotient may not fit, which traps |
| `FixedArithmetic` | the operations as they run on one word: inline path, kernel, range check, rerun for an inexact kernel of a narrow type; and unchecked | one action per stage; sums overflow by the flag or by the signs, by the build |
| `DoubleArithmetic` | the operations on two words | one action per path: `asm` (inline, operands of one word), `native` (the compiler's double word, narrowed where a test allows), `portable` (two limbs), `quad` (four limbs) |
| `ConstexprArithmetic` | the same, as a constant expression evaluates it | schoolbook limbs and a bit loop, as functions of the limbs; one action per operation |
| `ExactMixed` | abstract specification of mixed-width arithmetic: operands as rationals, the result rounded once into the destination | the contract of `mixed.hpp` |
| `MixedArithmetic` | the paths of a mixed call on the three builds (gcc, clang, portable) | one action per path; the type bounds, the attempts and what makes them decline, the modular exact quotient, the tiers with their estimate of bits, the comparison of a constant expression limb by limb. Elsewhere values are integers, and `terms` and `wides` record what the code had to hold in a pair of limbs or in a tier |
| `BatchMultiply` | the product of a row by a prepared factor, by an unprepared one, and of a vector lane; refines `ExactMixed` | preparing, certifying a lane by rebuilding its value, splitting a product around the division are actions; what falls back to `mul_to` has the exact answer |
| `ModularArithmetic` | abstract specification of wide integers: patterns as integers modulo a power of two | the contract of `wide.hpp` and `bigint.hpp` |
| `WideInteger` | the portable wide integers, for any limb and any number of limbs | loops over limbs (sum, product row, shift) and bits (division) run one step at a time; two-limb types write the same loops out |
| `BigInteger` | the checked divisions on top of them | signs, `min / -1`, zero, the overflow of a quotient |
| `ExactText` | abstract specification of text: a grammar, the number a text denotes, the shortest text for a value | the grammar of `docs/api_reference.md` and the errors of `error.hpp` |
| `TextConversion` | reading and writing as they run | scanning is one step; then one action per turn of the digit loop, of the zero padding and for the rounding; writing is one step per outcome. Characters are numbers, the digits themselves |
| `IntegerText` | the same for wide integers, added to `TextConversion` | one action per chunk of digits |
| `ExactFloat` | abstract specification of floats: what a bit pattern stands for, and the float nearest to a decimal | the contract of `floating.hpp` |
| `FloatConversion` | the two conversions | decoding, the product by a power of five, the shift, the division and its one correction are actions; widths of the intermediates are computed as in the code |
| `CheckedContext` | contexts running a formula to its end, next to the early-return program | `take`, `record`, `result`, copies; of the operations, `add` and `div` stand for all (they differ only in what they hand to `take`) |
| `RowByRow` | abstract batch: map a row, commit it, next row | the documented meaning of `docs/batch.md` |
| `Batch` | blocks, tiles, tails, with input and output aliased | `for_each` and its three commits; a tile may certify any subset of the elements that can be mapped (`BatchMultiply` says which) |
| `IntegerLemmas`, `MachineWordProof`, `DivideDigitProof`, `LongDivisionProof`, `FixedArithmeticProof`, `DoubleArithmeticProof`, `WideIntegerProof`, `ComponentProofs` | proofs | see below |

Composition. A division inside the arithmetic modules appears by its result,
which `LongDivision` shows to be exact, or by `PortableDivide128`'s result, its
deviation included (`DoubleArithmetic`, `DivideByPair`). `divide_narrow` over a
numerator of two limbs (`DivideLow`) is the exact division of `src/native.hpp`;
the portable build calls `divide128` there, but no caller comes with such a
numerator. Where two builds compute one number in two ways, one of them is written
out: the two-word product follows `src/native.hpp`, and the modular inverse of
`mixed_native.hpp` is what its Newton steps arrive at.

A limb is a digit in radix `B` or a word of `W` or `Word` bits; a word is 64 in
the code and two to eight bits in a run. Nothing in these algorithms depends on
the 64: they use the radix, the half of it and the wrap, all kept.
A vector lane is computed as the code computes it, one lane at a time; assembly
operands and allocation are not modelled, only what they deliver.

Some definitions are marked "Mutant": the way a plausible bug would write the
next definition. No specification uses them. They are there so that each
property can be shown to notice a bug (`PROJECT.json`, "mutants").

## The runs

| Run | Instance | What it shows |
|---|---|---|
| `digit` | radix 8, every legal call | digit and remainder exact, estimate never too low, at most two corrections, lost limb and borrow cancel, every call returns |
| `long_division` | 2-bit limbs (3-bit for the portable one), every argument: four limbs by two, four by up to three, two by two | the precondition of a digit, on which a hardware division would trap, holds at each call; nothing is lost between digits and across borrows; the estimate is at most one off and the add-back carries out; the portable division deviates only after a saturated estimate and its stale product costs nothing; implements `WideDivision` |
| `fixed_arithmetic` | a type as wide as its 4-bit word and a 4-bit type in an 8-bit word, `10^D` played by 6, every argument | no machine division traps, inline rounding has headroom, implements `ExactArithmetic`, also for a narrow type whose range is checked last, on portable overflow tests, and unchecked; every call is answered, however often a kernel is retried |
| `double_arithmetic` | two words of 4 bits, scales of one signed word, one unsigned word and two words, on five paths | no division traps, implements `ExactArithmetic` but for the deviation of the portable division |
| `portable_arithmetic_wrong` | the portable path alone | *violation*: the finding below |
| `checked` | 2 contexts, 3-bit values, 3 steps | publishes what the early-return program returns |
| `mixed` | a limb of 4 bits, radix 6; types of 3, 4, 8 and 16 bits with up to two decimals; their bounds, a tie, multiples of a power and values that overflow | no value computed in a pair of limbs overflows it, no tier is narrower than a value put in it; implements `ExactMixed` |
| `batch_multiply` | a word of 8 bits, radix 6; rows of one and two words, factors of three scales, every mode, with and without assembly | the prepared divisor divides exactly; prepared, split or certified, a product is the mixed multiplication's answer |
| `batch` | up to 5 rows, 2 elements, blocks of 1-3, tile of 2 | mapping ahead is never visible; implements `RowByRow` |
| `text` | radix 4, a word of 4 bits, types of 4 and 6 bits; about 1,600 texts up to and beyond the longest one; every value with every option; integers of two types around their limits | the accumulator never wraps, on the unchecked path for lack of digits; implements `ExactText`, so exponents may saturate and chunks be checked one by one unseen |
| `floating` | a word of 6 bits; every pattern of four formats into types of one word and more, every value of such types into each format, every mode | one correction of the truncated reciprocal is enough, the chosen widths hold every intermediate; implements `ExactFloat` |
| `wide_integer` | two and four limbs of 2 bits, two of 4 | a bit step conserves the dividend, a carry fits its limb; implements `ModularArithmetic` |

Why the bounds are enough. In the division runs the interesting cases are
proportions: a saturated estimate, zero, one and two corrections, an add-back,
a wrapped subtraction. All occur with limbs of two or three bits. `digit`
uses radix 8 since two corrections with a carry need more than radix 4. Four
by three limbs is the least size where `divmod_knuth` has both several
quotient digits and a middle limb. The scale 6 is even and not a power of two,
like ten, so ties exist and scaled divisions leave remainders. Four-bit types hold
scaled values on both sides of a bound; they are too small for a product to fall
in the slab that the headroom of the inline multiplication excludes, so the run
shows the bound is safe, not that it is the largest safe one. In
`double_arithmetic` every operation takes the bounds of a word and of two words,
the scales and their neighbours, and a scale of each size so that every test of
a path is passed and failed; exhaustive operands would be two to the
twenty-fourth per scale. The types of `mixed` are chosen so that every path occurs: a native call that scales
up needs a type of less than a limb, since six to the first already claims three
bits; a pair with a decimal times a limb asks for the exact shortcut, which a negative
multiple of six gets and a candidate that wrapped does not; four limbs
wrap in a same-scale sum. Tiers of eight and sixteen limbs are beyond TLC's
integers: `TierHolds` speaks of those of two and four limbs, the answers of all
are compared. The comparison of a constant expression has limbs twice as long,
so that half a limb holds the radix, and a value that needs the limb above a
raw value's. In `batch_multiply` the radix 6 has a power that leaves two above
half a word, as ten to the tenth does above 32 bits, and twice an odd number
keeps the modular inverse what it is. In `floating` the formats differ in
precision, range and in whether the leading bit is stored; the word of six bits
has products of one, two, three and four words. In `text` a radix
of four has digits below, at and above the half; two digits fit the word of
four bits, so a type of six bits takes the general path, and an exponent of two
digits passes the cap; the table of digits gives the wider type one too many, as
`decimal_scan.hpp:73` does for 256 bits. Texts are all short ones over the alphabet, all short
mantissas with eight kinds of exponent, and longer ones around the types'
bounds. Three steps make a failure, a second
failure caused by its placeholder, and a recovery that must not be seen. Five
rows make two full blocks of two and a tail, and each block size from below to
above the tile.

Fairness. `DivideDigit`, `LongDivision`, `FixedArithmetic`, `ConstexprArithmetic`
(and `DoubleArithmetic` in it), `MixedArithmetic`, `BatchMultiply`, `BigInteger`
(and `WideInteger`) and `Batch` assume weak fairness of the steps inside a call
and of nothing else: a call is straight-line code with loops, on one thread,
that never waits. No fairness is assumed of callers. In `ConstexprArithmetic`
a call is one action, and its fairness is stated of the change of `stage` alone,
which is enabled in the same states. `IntegerText` and `FloatConversion`
are checked for safety and deadlock only: their calls take each step once or
count characters down, and evaluating their fairness costs TLC more than the
bound of a run. `CheckedContext` has none
and stops at its bound `MaxSteps`, so deadlock is not checked there.

## What is proved

*One quotient digit, for every radix* (`DivideDigitProof`). `DigitExact` is not
inductive: that the closing subtraction yields the remainder depends on how
`rhat`, its lost limb and the estimate are tied. The invariant `IInv` adds
that the call was legal (`Loaded`), that a fresh estimate has lowered
nothing (`Unlowered`), that the remainder is untouched until the end
(`Kept`), and the balance (`Balanced`)

    remainder = quotient * v1 + rhat + (IF carry THEN B ELSE 0)

with the estimate never below the true digit. From it follow `TypeCorrect`,
`DigitCorrect`, `CorrectionBound` (two corrections because `2 * v1 >= B`),
`NeverBelow`, and `CarryPaidBack`: the limb that `rhat` loses is the one the
closing subtraction borrows. Assumption: `RadixAssumption`, `B >= 2`.

*Two-limb division, for limbs of every size* (`LongDivisionProof`). For
`divide_narrow` the invariant says that quotient so far, remainder and limbs to
come stand for the shifted dividend (`NarrowConserves`); with the digit's
invariant above, of which each digit is an instance, every digit call is legal
(`DigitCallsLegal`) and every step is a step of `WideDivision`
(`NarrowImplements`), so each call gets the exact quotient and remainder. For
the portable `divide128`, `PortableDeviation` and `StaleProductNeverLowers`:
the product that is not refreshed is harmless because, after one correction, it
is at most half of two limbs and the loop has no reason to turn again; and only
a divisor whose high limb is 1, shifted by all bits but one, lets the estimate
saturate. `WideDivision`'s promise is not proved of it, since it does not hold.

*divmod, for limbs of every size and any number of them* (`LongDivisionProof`).
The invariant `KnuthInv` follows a division through its inner loops. `KRest` is
the shifted dividend less the digits found so far times the divisor, `KPlace`
the divisor at the place of digit `j`, and `KDigit` their quotient, the digit to be found.
Outside the loops the limbs `u` hold `KRest`, which is below `KPlace * B`
(`KPlaced`, `KBetween`). The estimate keeps its balance with its rest and is
never below `KDigit` (`KEstimated`). While limbs are subtracted or added back,
the limbs done, the borrow owed to limb `i` and the part of the divisor already
taken add up to the same number (`KSubtracting`, `KAdding`). The argument:

  - The estimate divides a window of three limbs by the divisor's top two
    (`Window`). It is never too low (`WindowNeverLow`). Once the second limb no
    longer lowers it, it is one too high at most, because the divisor is
    normalised (`WindowEstimate`): `EstimateClose`.
  - One limb of the subtraction hands on a borrow that is itself a limb, though
    the code adds three numbers to make it (`SubtractOneLimb`); one limb of the
    add-back hands on a carry of one exactly when the sum wraps (`AddOneLimb`).
    Each leaves the total as it was (`SubtractKeeps`, `AddKeeps`).
  - At the top limb the comparison with the borrow tells a right estimate from
    one that is one too high, and the add-back then carries out, so that the
    zero the code stores is what is left there (`CarryMeetsBorrow`).
  - Storing the digit leaves `u` below the divisor at the next place
    (`Conserved`); after the last one, a limb of the remainder is cut out of two
    limbs of `u` (`UnnormalisedLimb`).

`KnuthImplements` follows: every step is a step of `WideDivision`, by Algorithm
D, by one limb (`KLimbwise`) and with fewer limbs than the divisor's.
`TypeCorrect` is the type invariant. A number in limbs is a sum over a recursive
function; its laws (`ValueSum`, `ValueSet`, `ValueLimbs`, `LimbsOfValue`) are
shown with least counterexamples. TLC checked `KnuthInv` on limbs of one bit
(five limbs by up to four) and two bits (four by up to three) before it was
proved. Assumptions: `LimbsAssumption`, `WidthAssumption` and
`PowersAssumption`.

*Rounding and the machine division, for words of every size*
(`MachineWordProof`). The threshold of `nearest_even_increment`, the doubled
remainder of `nearest_even_inc` and the signed adjustment of the inline
multiplication never wrap and all decide what the mode's definition decides.
`MagnitudeRounds`, `QuotientRounds` and `ShortcutsRound` carry this to signed
quotients: a magnitude with a sign, a truncated quotient moved away from zero and
the three shortcuts of `nearest_even` all give the integer that `ExactRounding`
defines by distances. `RoundMagnitudeRight`: a value `round_magnitude` delivers is within its limit
and is the rounding its mode names. `InexactMeansTruncatable`: when it answers
inexact, truncating the same quotient succeeds, on which the rerun of narrow
types relies. `MachineDivisionFits`: what `quotient_fits_signed64` and its
inline copies let through has a quotient of one signed word, `min / -1`
excluded. (The converse does not hold, and need not: a refused division takes
the general path.) `MultiplicationLeavesRoom`: what the inline multiplication's
test lets through can take its rounding unchecked. The hypotheses (`WordWraps`,
`WordHalves`, `DoubleWord`) say only that a word has an even number of values,
half of them negative, and that the high word is a signed word.

*Same-type arithmetic, for words and types of every size*
(`FixedArithmeticProof`). `NeverTraps` and `RoundingFits` are `NoDivideTrap` and
`RoundingHeadroom` of every reachable state. The invariant follows the numbers:
a call is made with values of its type (`Representable`), what a stage divides
is that call's numerator and denominator, also when `narrow_checked` reruns the
kernel (`Loaded`), and it has passed the test of its stage (`Tested`). The
products of such values are the double words `MachineWordProof` speaks of. An
unchecked division has no test: that its caller vouches for a representable
rounded result bounds the truncated quotient too (`VouchedFits`).

`AnswersExactly` is `ImplementsExactArithmetic`: every step is a step of
`ExactArithmetic` or a stutter, so that each answer is the exactly rounded one or
the error that is due. `Meaning` is added to the invariant for it: while a kernel
is at work, what it works on, rounded into the type in the mode in force, is the
answer to the request (`Meant`), and a narrow type's result is that answer in the
word (`Narrowing`). The argument, from the operations inwards:

  - `add`, `sub`, `negate` and `remainder` are whole (`SumRight`, `NegatedRight`,
    `RemainderRight`): the flag, the signs and the remainder by `-1` agree with
    the integers.
  - `midpoint` never forms `a + b`. Bit by bit, the common and half the
    differing bits are its half, rounded down (`CommonAndDiffering`,
    `LowerIsFloor`). On a grid, half an odd sum is no integer; the integer that is
    quantized instead, and the mode replaced when a tie is at stake, give the
    same value (`OddRounds`), which needs the grid to be even: ten is.
  - `quantize` rounds the magnitude and tests the product with the grid twice,
    for the word and for the type's sign (`MulOverflowsRight`, `QuantizeRight`).
  - A division by magnitudes, by the machine and inline gives the rounded quotient
    or overflow (`GeneralRight`, `AdjustedRight`).
  - `narrow_checked`: an answer in the word is the type's if it is in range, an
    overflow of the word is one of the type, and an inexact one hides an overflow
    exactly if the truncated rerun leaves the type's range (`TypeOfWord`,
    `NarrowRight`).
  - Unchecked, the signs of the factors are the sign of a nonzero remainder, and
    what the caller vouches for does not wrap (`SignOfProduct`, `UncheckedRounds`).

TLC checked `Meaning` on the types of the run before it was proved. Assumptions:
`TypesAssumption` (a type is as wide as its word or at most half of it, the
radix is even and the scale below the type's upper half) and `PowersAssumption`.

*Arithmetic of two words, for words and types of every size*
(`DoubleArithmeticProof`). `DoubleNeverTraps` is `NoDivideTrap` of every path, the
constant expression's included. A machine division of two words by one is given
only what passed its test: the range of the quotient, or, for a product of two
one-word factors, the inline multiplication's. The compiler's division of a
double word would trap on its minimum by `-1` as well. That cannot arise: a
numerator that reaches it is scaled and was found within `i128_max` either way,
or is a product of one-word factors (`ScaledSignable`, `NarrowProduct`,
`SignableDivides`). The other paths divide magnitudes. The invariant says this
of every stage that divides (`Loaded`).

`CompiledExact` is the refinement: on every path of a compiled program (`Compiled`
leaves out only the constant expression) each step is a step of `ExactArithmetic`
or a stutter, but for the division the portable path gets wrong, and
`CompiledAnswers` that on the other paths every answer is the right one. `Meaning`
is added to the invariant: what a stage divides, with its signs (`BySigns`) or as
magnitudes with the sign beside them (`ByMagnitudes`), rounds to the call's answer.
The argument:

  - a sum whose wrapped result has the wrong sign is the one that is out of range
    (`SumRight`, `SignRight`);
  - four partial products and their carries are the product (`Columns`,
    `ProductRight`), and the division by words is exact, the one by two limbs but
    for `Misdivided` (`ByWordRight`, `Divide128Right`), which needs the portable path
    and a divisor of more than a word (`MisdividesPortably`);
  - the magnitude is rounded, or overflows, as the quotient does (`FinishedRight`).
    For this a double word is taken as the one word of another machine, and the
    lemmas of `FixedArithmeticProof` are instantiated for it (`F`);
  - each short cut agrees with that, although it rounds in its own way: the
    addition within a word (`InlineMultiplyRight`), the high limb taken from the
    signs before the addition (`RoundWideRight`), two unsigned divisions
    (`SlabRight`), the parity of a wrapped quotient (`MachineRight`);
  - which short cut is taken decides nothing: `MulRight`, `DivRight` and
    `MulDivRight` hand the same quotient to any of them.

Assumptions: `WordAssumption`, `TypesAssumption`, `OperandsAssumption` (operands are
values of the type) and `PowersAssumption`.

*The prepared divisor, for words of every size* (`ComponentProofs`). The
truncated reciprocal falls short by less than one quotient: what is left,
times `M`, is `value * s + t * divisor` for the remainders `s` of the
reciprocal and `t` of the product, less than `2 * divisor * M`.
`LimbDividedExactly` and `PreparedDividesExactly` follow, with the high limb
that the machine's division is given below the divisor. `PreparedExact` carries
them to every plan: the greatest common divisor that is taken out is at least
one, whence the divisor is below `M`, and the product of a row by the reduced
factor fits two words. That the recursive `gcd` is what its equation says, and
its bounds, are shown with least counterexamples in place of induction.

*Wide integers, for limbs of any even size and any even number of them*
(`WideIntegerProof`). `IntegersAreModular` is `ImplementsModularArithmetic` but
for its fairness: every step of every operation of `WideInteger` and `BigInteger`
is a step of `ModularArithmetic` or a stutter. There are two halves to it.

The loops need the inductive invariant `IInv`, which says what each has computed
when it stops between two turns:

  - A sum or a difference: the limbs done are those of the exact one below that
    place, and the carry or borrow is what is owed above (`SumGrows`,
    `DifferenceGrows`). The code tells a carry by comparing the wrapped sum with an
    operand; when a carry came in, an equal sum has wrapped too (`SumLimbSums`).
  - A product: what is written, the carry in its place and, if the type drops the
    upper limbs, a multiple of the type's width make up the rows done and the part of
    the row at work (`PutGrows`, `ProductLimbMultiplies`, `NextRowMultiplies`). The
    carry is one limb since a product of two limbs, a limb written and a carry fit
    two together (`ProductCarry`). Carrying on above a row ends by the top, as the
    rows so far fit their width (`TopCarriesNothing`).
  - A division by bits: quotient, remainder and bits to come are the dividend, and
    the remainder is below the divisor. Doubling it loses no bit, although the divisor
    may have its top bit set: it is at most the bits taken, which are not all yet
    (`DivideBitDivides`). `NoBitLost` is `BitsConserved`.
  - A division of two limbs by one: there the remainder starts as the upper limb, a
    bit may be shifted out, and the code looks at it before it shifts
    (`WordBitDivides`).

The operations without a loop are shown to compute their integers: `mul64x64`
with its four partial products (`WordRight`); two-limb products and negation
(`TwoLimbProduct`, `NegatedLimbs`); shifts by whole limbs and by the bits left over,
with the sign in front (`ShiftLeftRight`, `ShiftRightRight`); bit operators limb by
limb (`BitwiseRight`); the width (`BitWidthRight`); widening (`ExtendRight`);
comparison from the top limb down (`LessRight`). Signed divisions go by
magnitudes, the minimum's included, and truncate (`SignedDivmodRight`,
`CheckedRight`); only the minimum divided by `-1` overflows (`OnlyMinOverflows`).
TLC checked `IInv` on the types of the run before it was proved. Assumptions:
`ShapesAssumption` (two limbs at least, as in the code, where a limb is 64 bits and
there are two or four) and `PowersAssumption`.

*Batches, for every length, block, tile and certification* (`ComponentProofs`). The
rows before the current one are written with their results, those from it on
hold their inputs, and what was mapped ahead was mapped from them. Hence
`MappedAheadIsCurrent`, `WrittenIsPrefix` and `FailureIsFirst`, and
`BlockedIsPlain`: each step is a step of `RowByRow` or a stutter, so a caller
cannot tell blocks and tiles from a plain loop.

*The checked context, for any contexts, width and length*
(`ComponentProofs`). `PublishesEarlyReturn` joined with the types is
inductive: while no error is recorded the two evaluations hold the same value,
so the next operation gives both the same. The proof needs that each operation
answers in its type, and uses nothing else of it. `ErrorIsFirst` proves that a
context's error changes only when another context is copied over it.
Assumptions: `PlaceholderAssumption` (zero is a value), `StepsAssumption`.

*The accumulator of a text, for any word, radix, texts and types*
(`ComponentProofs`). `AccumulatorHolds` is `AccumulatorFits`. On the fast path
nothing is tested: the accumulator is below `DigitBase` to the number of digits taken
(`Taken`), at most `keep` of them, and `keep` digits fit a word. Elsewhere the test
of each digit against the cutoff and the last digit, and of each zero against
the cutoff, keeps it within the limit of the type (`TakeDigitAccumulates`,
`PadAccumulates`). The invariant also says that the mantissa that was scanned has
digits and points only, which `scan_decimal` checks before the loop
(`MantissaScanned`). Assumptions: `WordAssumption`, `TextsAssumption`,
`TypesAssumption`, `TextPowersAssumption`.

*Mixed widths, for limbs of any size and any types* (`ComponentProofs`).
`PairsHold` is `PairNeverOverflows`, whose violation would be undefined behaviour:

  - What the types admit is bounded by their bits: a digit of the scale counts
    `DigitBits`, and every type has room for its own scale, which bounds a
    denominator that is a power alone (`NativeCombined`, `NativeDenominator`).
  - What the scaling test lets through fits, as truncation towards zero makes both of
    its quotients safe (`ScalableHolds`); the product by limbs gives up on everything
    a pair cannot hold (`ByLimbsFits`).
  - The quotient recovered with a modular inverse is one signed limb: a divisor of one
    limb has an odd part (`OddPart`), and that an inverse modulo each power of two
    (`InverseByBits`).

`TiersHold` is `TierHolds` and more. TLC's integers end at 31 bits, so the run says
nothing of wider tiers; the theorem says of each that the magnitudes fit it
(`TierWide`). The estimate of a power, three digits to ten bits, never
under-estimates (`PowerEstimated`, by its cube), the bits of a product are at most
those of its factors, and the last tier has room for any product at any scale
(`NumeratorFits`, `DenominatorFits`, `TierAssumption`).

Assumptions: `LimbAssumption`, `DivisorsAssumption`, `RadixAssumption`,
`RawAssumption` (a value is one of its type, which has room for its scale),
`TierAssumption`, and `Exponentiation`, the equations that define a power, for every
exponent. TLC evaluates all of them but the last, whose powers exceed its
integers.

*Floating point, for words, formats and types of any size* (`ComponentProofs`). The
widths of the intermediates and the form of the division are chosen from the types
alone. `FloatInv` says what each stage hands to the next:

  - `FloatWidthsHold` is `WidthsSuffice`. A significand has the format's precision and
    5^D the bits of `ScaleBits`, so their product fits the sum of both (`WidthHolds`);
    what is shifted left has been compared with the limit (`ShiftInv`). The numerator
    has `K` bits whatever the value's (`NormaliseInv`), so that the quotient has one or
    two more than the precision (`QuotientBits`). No source of `to_float` lies more than
    two places below the normal numbers (`PowerBound`, from 10^D below the format's
    range), so there are bits left to keep when the rest is rounded away.
  - `CorrectionHolds` is `OneCorrectionIsEnough`. The product by the truncated
    reciprocal is the quotient or one less (`TruncatedReciprocal`). The reciprocal has no
    more bits than the quotient, as an odd divisor is no power of two
    (`ReciprocalBits`); so by one limb, by three with their carries, by four words at
    once or by halves the code gets the same number (`EstimateIs`). Two low words
    show the remainder (`RemainderIs`), and `divq` gets a high word below its divisor
    (`DivisorAboveHighWord`).

Assumptions: `FloatAssumption`, `FormatsAssumption` and `Exponentiation`.

Facts about products, remainders, least members, sums, and the limbs and digits
of a long division are in `IntegerLemmas`. The
provers know nothing of `b ^ k`. Modules whose proofs need more assume the two
equations that define a power, for the exponents in use
(`PowersAssumption`); TLC evaluates these on the instances, where they hold by
its own definition of powers.

## What is only model-checked

Liveness: `CallReturns`, `AnswersEveryCall` and the fair parts of the
refinements, which are beyond the provers. The refinements of the constant
expression's arithmetic (the path `consteval` of `ImplementsExactArithmetic` in
`DoubleArithmetic`), of mixed widths (`ImplementsExactMixed`), of batch multiplication
(`ImplementsExactMultiply`, whose certificate of a lane is left to TLC), and of text
and floating point (`ImplementsExactText`, `ImplementsExactFloat`). No step of them
is out of the provers' reach as far as is known; they have not been attempted. Every
invariant that a run checks is proved.

## Finding

The portable `divide128` (`src/detail.hpp:345`, compiled when there is no
128-bit machine integer) runs its correction loop only while
`qhat != ~0ULL`. The test can only be meant for an estimate that was *set* to
the largest limb because the leading limbs are equal, which never happens here:
the limb shifted out is below the normalised divisor's. But the estimate may be
*computed* as the largest limb and still be one too high. The quotient is then
one too high and the remainder not below the divisor. With 3-bit limbs:
numerator 56, divisor 9 gives quotient 7 (exact: 6); with 64-bit limbs
`2^128 - 2^64` over `2^64 + 1` gives `2^64 - 1` (exact: `2^64 - 2`).
`long_division` shows that the deviation is confined to that case,
`double_arithmetic` that on the portable path nothing else goes wrong, and
`portable_arithmetic_wrong` that it reaches a public operation: a 128-bit `div`
answers one unit too high, where `error.hpp:8` promises that no operation
returns a wrong answer in place of an error.

## Not modelled

- `to_float_kernel` (`src/floating.cpp`), which serves types of more than two
  words: it computes in the host's floating point, under the rounding mode in
  force, and `floating.hpp:70` promises no particular result. There is nothing
  exact to state.
- `log10.hpp`: a constant expression over a table of powers of ten, right or
  wrong for each of 255 bit widths. The tests try both ends of each, and these
  numbers are beyond TLC's integers.
- `fixed.hpp`: a raw integer with a compile-time scale. Bounds and scale appear
  in the arithmetic modules; its conversions are checked by the compiler.
- `binary.hpp`, `hash.hpp`, `format.hpp`, `iostream.hpp`, `string.hpp`,
  `literal.hpp`: byte order, I/O and thin adapters over the text conversion.
- A float's place in memory, and the layout of vector registers.
- The native double word of the compiler in `wide.hpp` is the machine's own.

## Plan

What is left is proof. In order: the constant expression's arithmetic of two words;
the answers of `from_float`, then of `to_float`, whose widths and quotient are known to
be right; the certificate of a lane (`Accepted`) for every odd factor of the
denominator; the answers of `MixedArithmetic`, whose paths are known not to overflow.
