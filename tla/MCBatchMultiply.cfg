CONSTANTS
  Word = 8
  Radix = 6
  MaxGap = 3
  SignedGap = 2
  Rows <- const_Rows
  Factors <- const_Factors
  Dests <- const_Dests
SPECIFICATION Spec
INVARIANTS PreparedDivisionExact
PROPERTY ImplementsExactMultiply
