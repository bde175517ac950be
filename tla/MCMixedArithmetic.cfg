CONSTANTS
  Limb = 4
  Base = 6
  DigitBits = 3
  CubeBits = 8
  CompareLimbs = 3
  Operands <- MCOperands
  Targets <- MCDests
  Divisors <- MCDivisors
SPECIFICATION MixedSpec
INVARIANTS PairNeverOverflows TierHolds
PROPERTY ImplementsExactMixed
