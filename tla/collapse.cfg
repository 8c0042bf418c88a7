SPECIFICATION Spec
CONSTANTS
  RestChar = {"a", ".", " "}
  MaxRest = 5
  MaxSlashRest = 3
  Char <- MCChar
  Calls <- MCCalls
INVARIANTS
  TypeOK
  EndPathIsLength
  AssertHolds
  Canonical
  MarkedPartKept
  AgreesWithComponents
PROPERTIES
  ScanProgress
  Returns
