SPECIFICATION Spec
CONSTANTS
  RestChar = {"a", "."}
  MaxRest = 5
  MaxSlashRest = 2
  Char <- MCChar
  Calls <- ShareCalls
INVARIANT MarkedPartSeparate
