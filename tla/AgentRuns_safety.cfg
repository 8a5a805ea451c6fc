SPECIFICATION Spec
CONSTANTS
  Procs = {p1, p2}
  Rows = {r1}
  NoRow = NoRow
  Tools = {"free", "guarded"}
  MaxRuns = 2
  MaxOutput = 0
  MaxApprovals = 1
  Mishaps = {"prune"}
SYMMETRY Symmetry
INVARIANTS TypeOK OneCommandPerApproval TimelinesReadable RunsFitRows
PROPERTIES ImplementsGate
CHECK_DEADLOCK FALSE
