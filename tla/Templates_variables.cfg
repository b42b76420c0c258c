SPECIFICATION Spec
CONSTANTS
  v = v
  w = w
  x = x
  y = y
  usr = usr
  opt = opt
  N = 2
  Vars = {v, w}
  Uses <- MCOwn
  Arg = w
  Values = {x, y}
  Prefixes = {usr, opt}
  MaxChanges = 2
CHECK_DEADLOCK FALSE
INVARIANTS OutputsFresh
