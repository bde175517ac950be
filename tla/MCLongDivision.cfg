CONSTANTS
  W = 2
  PortableW = 3
  Lnum = 4
  Lden = 3
SPECIFICATION Spec
INVARIANTS
  TypeOK DigitPrecondition NumeratorConserved EstimateWithinOne AddBackCarriesOut
  WrongOnlyWhenSaturated StaleProductHarmless
PROPERTY ImplementsWideDivision
