SPECIFICATION Spec
CONSTANTS
  N = 2
  Ifaces = {1}
  Headers = {h}
  Consumes = {}
  f1 = f1
  f2 = f2
  Flags = {f1, f2}
  Changes <- MCForward
  Native = Native
  arm = arm
  Targets = {Native, arm}
  Switches <- MCToNative
  MaxJobs = 2
  MaxClock = 2
CHECK_DEADLOCK FALSE
INVARIANTS SInv ContentFresh SettingsFresh TagTruth FailedStaysOutdated
PROPERTIES NothingToDoAfterOk KeepsPromise
