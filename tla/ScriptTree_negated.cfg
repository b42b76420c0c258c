SPECIFICATION Spec
CONSTANTS
  Texts <- MCNegated
  Files <- MCFiles
  MaxCalls = 4
CHECK_DEADLOCK FALSE
INVARIANTS AsWritten
