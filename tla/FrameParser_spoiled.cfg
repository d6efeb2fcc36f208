SPECIFICATION Spec
CONSTANTS
  None = None
  Top = 4
  H1 = 2
  H2 = 3
  Char <- Chars
  ST = 1
  ED = 4
  Texts <- BlockAndText
  Payloads <- HeaderLike
  MaxPoints = 2
  BufferSize = 9
  MaxWire = 9
CHECK_DEADLOCK FALSE
INVARIANTS
  TypeOK
  DeafOnlyToOversize
  NeverMisled
PROPERTIES
  NothingLost
