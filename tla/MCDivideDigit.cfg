CONSTANT B = 8
SPECIFICATION Spec
INVARIANTS TypeOK DigitExact EstimateNeverBelow AtMostTwoCorrections CarryCancelsBorrow
PROPERTY CallReturns
