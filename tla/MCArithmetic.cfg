CONSTANTS
  Radix = 256
  PortionBits = 2
  DecChunk = 1
  MaxCalls = 3
  Numbers  <- MCNumbers
  Texts    <- MCTexts
  Operands <- MCOperands
SPECIFICATION MCSpec
INVARIANTS StaysInCall ProductIsExact
PROPERTY ImplementsCalculator
\* A program may have asked for all that it wants, and the loop ends.
CHECK_DEADLOCK FALSE
