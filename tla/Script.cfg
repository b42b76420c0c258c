SPECIFICATION ASpec
CONSTANTS
  Texts <- MCTexts
  Files <- MCFiles
  MaxCalls = 4
CHECK_DEADLOCK FALSE
INVARIANTS TreeSound AllInitialised AsWritten ValuesAsWritten
PROPERTIES TreeTerminates
