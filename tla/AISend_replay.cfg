SPECIFICATION SafetySpec
CONSTANTS
  Sends = {m1, m2}
  Stops = {k1}
  Switches = {}
  None = None
CHECK_DEADLOCK FALSE
INVARIANT OldEntryReleased
