\* All 74 273 files of the shape MCFiles describes.
CONSTANTS
  Names <- MCNames
  Regular <- MCRegular
  Special <- MCSpecial
  Files <- MCFiles
SPECIFICATION Spec
INVARIANTS UsedIsLeast DeclaredOnce MetatableIsWhole
PROPERTY WalkEnds
CHECK_DEADLOCK FALSE
