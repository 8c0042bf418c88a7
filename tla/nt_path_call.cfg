SPECIFICATION Spec
CONSTANTS
  SizeofWCHAR = 4
  MAX_PATH = 12
  MaxStack = 12
  Name <- MCName
  CurDir <- MCCurDir
  CurDirHandle = TRUE
  CallFlags <- AgreedFlags
INVARIANTS
  TypeOK
  LockCounted
  HeapCounted
  RecursionEnds
PROPERTIES
  KeepsPromise
  EveryCallAnswered
