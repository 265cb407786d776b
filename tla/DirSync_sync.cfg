SPECIFICATION Spec
CONSTANTS
  c1 = c1
  c2 = c2
  a = a
  b = b
  Changers = {c1, c2}
  Enablers = {}
  Dirs = {a, b}
  Home = a
  target <- Target
  Loops = {l1, l2}
  Writes = 0
  MaxUnusable = 1
  None = None
  ProbesFail = FALSE
CHECK_DEADLOCK FALSE
INVARIANTS AnsweredOnce ConfirmedUnlessGivenUp 
PROPERTIES CallsReturn LoopsEnd
