CONSTANTS
  MaxSlot = 3
  Generations = 1
  Frames = 2
  MaxMacro = 12
  MinBucket = 2
  MaxMacronode = 3
  MaxCapacity = 3
  MaxItem = 4
  MaxLiteral = 3
  MaxLasting = 2
  Reached = {"view"}
  Kinds = {TRUE, FALSE}
SPECIFICATION MCSpec
INVARIANTS NeverAborts SlotsKnown NoEmptyMacronode NextIsNext BracketsMutual
PROPERTY ImplementsItemLists
VIEW Shape
\* A function that holds every slot and every item may have nothing left to do.
CHECK_DEADLOCK FALSE
