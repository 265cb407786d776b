SPECIFICATION Spec
CONSTANTS
  k1 = k1
  k2 = k2
  k3 = k3
  a1 = a1
  a2 = a2
  Keys = {k1, k2, k3}
  Assets = {a1, a2}
  assetOf <- AssetOf
  Procs = {p1, p2}
  Clients = {c1, c2}
  Max = 1
  None = None
INVARIANTS BorrowedOpen Bounded
PROPERTIES SlotsSafety CallsReturn SlotsReclaimed
