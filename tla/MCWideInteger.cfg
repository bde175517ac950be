CONSTANTS
  Shapes <- const_Shapes
  Samples <- const_Samples
SPECIFICATION IntegerSpec
INVARIANTS BitsConserved CarryFits
PROPERTY ImplementsModularArithmetic
