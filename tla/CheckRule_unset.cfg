SPECIFICATION Spec
CONSTANTS
  script = script
  cc = cc
  header = header
  Inputs <- MCInputs
  Files <- MCFiles
  Own = {script}
  Vals = {0, 1, 2}
  Reads <- MCReads
  Sets <- MCSets
  KillPoints = {}
CHECK_DEADLOCK FALSE
PROPERTY ServesCurrent
