SPECIFICATION Spec
CONSTANTS
  Assets = {a1}
  Calls = {t1, t2}
  Clients = {c1, c2, c3, c4}
  None = None
CHECK_DEADLOCK FALSE
INVARIANTS OneDial NoLeakWhileRunning
PROPERTIES SlotsSafety CallsEnd
