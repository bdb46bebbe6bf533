\* Two buckets at first and one item per bucket: the table grows to 3, 4 and 6 buckets.
CONSTANTS
  Words <- MCWords
  Library <- MCLibrary
  Hash <- MCHash
  InitialSize = 2
  Load = 1
SPECIFICATION Spec
INVARIANTS EveryNameFound EachFreedOnce ChainsStayShort
PROPERTIES ImplementsSymbols GrowthEnds
CHECK_DEADLOCK FALSE
