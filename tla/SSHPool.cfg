SPECIFICATION Spec
CONSTANTS
  Assets = {a1}
  Procs = {p1, p2}
  Clients = {c1, c2}
  Frail = {c1}
  None = None
INVARIANTS IInv RefExactUntilEvicted RefsNeverLost
PROPERTIES SlotsSafety CallsReturn CloseCompletes SlotsReclaimed
