SPECIFICATION Spec
CONSTANTS
  SizeofWCHAR = 4
  MaxPieces = 4
  Char <- MCChar
  Piece <- MCPiece
  CurDir <- MCCurDir
INVARIANTS
  TypesAgree
  DeviceFound
  PrefixIsShareAndDir
  FullPathIsFixedPoint
  AskedSizeIsEnough
  RootKept
  FilePartInDirectory
  QuickPathAgrees
  NtNameResolved
  ComposedInBuffer
  ExpectedType
CHECK_DEADLOCK FALSE
