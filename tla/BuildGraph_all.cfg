SPECIFICATION FairSpec
CONSTANTS
  s = s
  p = p
  q = q
  z = z
  N = 3
  Names = {s, p, q, z}
  Sources = {s}
  Shapes = {"chain", "flags", "swap", "both", "less", "ring", "self", "twice", "late"}
  Consumes <- MCConsumes
  Produces <- MCProduces
  Args <- MCArgs
  Variables <- MCVariables
  Always <- MCAlways
  Late <- MCLate
  MaxClock = 6
CHECK_DEADLOCK FALSE
INVARIANTS IInv Verdict SameAsClean NothingToDo InputsReady
PROPERTIES RunsOnce KeepsPromise Terminates
