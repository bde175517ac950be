CONSTANTS
  Bits = 3
  MaxSteps = 3
  Contexts = {c1, c2}
SPECIFICATION ContextSpec
INVARIANTS TypeOK PublishesEarlyReturn
PROPERTY ErrorSticks
CHECK_DEADLOCK FALSE
