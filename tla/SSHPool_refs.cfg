SPECIFICATION SafetySpec
CONSTANTS
  Assets = {a1}
  Procs = {p1, p2}
  Clients = {c1, c2}
  Frail = {c1, c2}
  None = None
INVARIANT RefCoversHolders
