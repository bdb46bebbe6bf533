\* Limit 0: no memory at all; 1: one chunk; 3: both chunks; 5: both, and then malloc fails.
CONSTANTS
  a = a
  ChunkSize = 2
  MaxChunks = 2
  Symbol <- MCSymbol
  Limits <- MCLimits
  AllocTags <- MCAllocTags
SPECIFICATION MCSpec
INVARIANTS TypeOK Linked Separated FreePtrIsFree BuiltIsFree Conservation
PROPERTY ImplementsLists
CHECK_DEADLOCK FALSE
