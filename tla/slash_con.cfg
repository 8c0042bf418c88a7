SPECIFICATION Spec
CONSTANTS
  SizeofWCHAR = 4
  MaxPieces = 5
  Char <- MCChar
  Piece <- MCPiece
INVARIANT SlashCONReturned
CHECK_DEADLOCK FALSE
