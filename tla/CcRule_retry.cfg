SPECIFICATION RetrySpec
CONSTANTS
  N = 4
  Ifaces = {1, 2}
  Headers = {}
  Consumes = {script}
  f1 = f1
  f2 = f2
  Flags = {f1}
  Changes = {}
  Native = Native
  arm = arm
  Targets = {Native}
  Switches = {}
  MaxJobs = 2
  MaxClock = 2
CHECK_DEADLOCK FALSE
INVARIANT InterfacesAlone
PROPERTIES Terminates EventuallyBuilt
