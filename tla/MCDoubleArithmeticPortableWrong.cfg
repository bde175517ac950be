CONSTANTS
  Word = 4
  LimbCount = 4
  Paths = {"portable"}
  Types <- const_Types
  Lefts <- const_Lefts
  Rights <- const_Rights
  Factors <- const_Factors
SPECIFICATION ArithmeticSpec
INVARIANTS AnswerExact
