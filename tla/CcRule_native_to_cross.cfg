SPECIFICATION Spec
CONSTANTS
  N = 2
  Ifaces = {}
  Headers = {}
  Consumes = {}
  f1 = f1
  f2 = f2
  Flags = {f1}
  Changes = {}
  Native = Native
  arm = arm
  Targets = {Native, arm}
  Switches <- MCToCross
  MaxJobs = 2
  MaxClock = 2
CHECK_DEADLOCK FALSE
INVARIANTS TargetFresh
