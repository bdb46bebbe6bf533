\* A disk that may become full.
CONSTANTS
  FILE_LIMIT = 2
  Numbers = {0, 3}
  Names <- MCNames
  Default <- MCDefault
  Exprs <- MCExprs
  Space = Space
  NL = NL
  Input <- MCInput
  BufferSize = 2
  MaxText = 2
  NoFile = NoFile
  NULL = NULL
  End = End
  Left = Left
  Right = Right
  True = True
  False = False
  MayFail = TRUE
  a = a
  G = G
SPECIFICATION Spec
PROPERTY ImplementsLineFiles
CHECK_DEADLOCK FALSE
