SPECIFICATION Spec
CONSTANTS
  Root = "root"
  Groups <- MCAnyGrows
  MaxChanges = 2
CHECK_DEADLOCK FALSE
INVARIANTS ObjectsFresh
