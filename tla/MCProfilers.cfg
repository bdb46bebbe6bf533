CONSTANTS
  MaxClock = 5
  MaxLoops = 2
  Functions = {GO, F, G, H}
  First = GO
  NULL = NULL
  MaxTime = 4
  CallsFirst = FALSE
SPECIFICATION MCSpec
INVARIANTS NoAssertFails CountersAreTrue PartsFitTheWhole ProfileIsSorted
PROPERTY ProfileIsMade
\* The program has ended.
CHECK_DEADLOCK FALSE
