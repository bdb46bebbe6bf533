CONSTANTS
  Functions = {GO, F, G, H}
  First = GO
  NULL = NULL
  MaxTime = 2
  CallsFirst = TRUE
SPECIFICATION ProfileSpec
PROPERTY ProfileIsMade
CHECK_DEADLOCK FALSE
