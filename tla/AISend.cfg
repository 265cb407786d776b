SPECIFICATION Spec
CONSTANTS
  Sends = {m1, m2}
  Stops = {k1}
  Switches = {w1}
  None = None
CHECK_DEADLOCK FALSE
INVARIANTS OneTurn
PROPERTIES CallsReturn TakenTurnsEnd
