CONSTANTS
  WordBits = 4
  DigitBase = 4
  Texts <- MCTexts
  MaxText = 9
  Types <- MCTypes
  IntegerTexts <- MCIntegerTexts
  IntegerTypes <- MCIntegerTypes
  Capacities = {3, 6}
  Slack = 4
  FastDigits = 2
  DigitTable <- MCDigitTable
  Chunk = 2
SPECIFICATION TextSpec
INVARIANTS AccumulatorFits
PROPERTY ImplementsExactText
