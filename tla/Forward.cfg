SPECIFICATION Spec
CONSTANTS
  r1 = r1
  r2 = r2
  Configs = {k1, k2}
  Rules = {r1, r2}
  remote <- Remote
  address <- Address
  Assets = {a1}
  Clients = {c1, c2}
  Procs = {p1, p2}
  Editors = {p1}
  None = None
SYMMETRY Symmetry
INVARIANTS RefsExact ClientsNeeded StatusIsTrue RunsWhatIsStored
PROPERTIES SlotsSafety
