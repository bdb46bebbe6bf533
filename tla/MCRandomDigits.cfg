\* Three-bit numbers and a ring of three with lags 3 and 2, for every seed and argument.
CONSTANTS
  Width = 3
  Long = 3
  Short = 2
  Seeds = {0, 1, 2, 3, 4, 5, 6, 7}
SPECIFICATION Spec
INVARIANTS LowBitAlive Unbiased
PROPERTIES ImplementsFibonacci CallsReturn
