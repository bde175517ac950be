CONSTANTS
  Word = 4
  LimbCount = 4
  Paths = {"asm", "native", "portable", "quad", "consteval"}
  Types <- const_Types
  Lefts <- const_Lefts
  Rights <- const_Rights
  Factors <- const_Factors
SPECIFICATION ArithmeticSpec
INVARIANTS NoDivideTrap
PROPERTY ImplementsExactArithmetic
