CONSTANTS
  WordWidth = 6
  Ingress <- const_Ingress
  Egress <- const_Egress
  Huge = 11
  Tiny = 10
  Deepest = 10
SPECIFICATION FloatSpec
INVARIANTS OneCorrectionIsEnough WidthsSuffice
PROPERTY ImplementsExactFloat
