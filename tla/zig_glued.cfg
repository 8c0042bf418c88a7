SPECIFICATION Spec
CONSTANTS
  MaxText = 8
  MaxSlashText = 5
  MaxPieces = 8
  Char <- MCChar
  Texts <- MCTexts
INVARIANT
  NamesKept
