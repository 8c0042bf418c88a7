SPECIFICATION Spec
CONSTANTS
  SizeofWCHAR = 4
  WordSize = 16
  MaxString = 3
  MaxShortString = 2
  MaxLongString = 6
  Char <- MCChar
  Blocks <- MCBlocks
  Names <- MCNames
  Maximums <- MCMaximums
INVARIANTS
  TypeOK
  AtStartOfString
  CopyFits
  FirstMatchAnswered
PROPERTY
  Ended
