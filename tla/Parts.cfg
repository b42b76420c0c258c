SPECIFICATION ASpec
CONSTANTS
  k1 = k1
  k2 = k2
  k3 = k3
  k4 = k4
  k5 = k5
  v = v
  w = w
  x = x
  y = y
  None = None
  Garbage = Garbage
  script = script
  cc = cc
  header = header
  Inputs <- MCInputs
  Files <- MCFiles
  Own = {script}
  Vals = {0, 1, 2}
  Reads <- MCReads
  Sets <- MCSets
  KillPoints = {"script", "exited", "renamed", "load"}
CHECK_DEADLOCK FALSE
INVARIANTS MapSound AsCalled PathAsSegments AllReceived ChildSees NotTorn UpToDateAfterOk
PROPERTIES NothingSkipped IsMap ChildReturns ServesRecorded CheckServes
