SPECIFICATION Spec
CONSTANTS
  c1 = c1
  c2 = c2
  a = a
  b = b
  Changers = {c1}
  Enablers = {c2}
  Dirs = {a}
  Home = a
  target <- TargetOne
  Loops = {l1, l2}
  Writes = 1
  MaxUnusable = 1
  None = None
  ProbesFail = TRUE
CHECK_DEADLOCK FALSE
INVARIANTS OneLoop Coherent
