SPECIFICATION ASpec
CONSTANTS
  v = v
  w = w
  x = x
  y = y
  usr = usr
  opt = opt
  N = 2
  Vars = {v, w}
  Uses <- MCSame
  Arg = w
  Values = {x, y}
  Prefixes = {usr, opt}
  MaxChanges = 3
SYMMETRY Symmetry
CHECK_DEADLOCK FALSE
INVARIANTS OutputsFresh NothingToDo ObjectsFresh CxxFresh CxxConverges
