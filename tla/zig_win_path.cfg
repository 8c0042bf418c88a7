SPECIFICATION Spec
CONSTANTS
  MaxText = 8
  MaxSlashText = 5
  MaxPieces = 8
  Char <- MCChar
  Texts <- MCTexts
INVARIANTS
  TypeOK
  UnreadKept
  ShallowAgrees
  NoDotDirLeft
PROPERTY
  Ended
