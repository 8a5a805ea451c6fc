SPECIFICATION FairSpec
CONSTANTS
  Procs = {p1, p2}
  Rows = {r1}
  NoRow = NoRow
  Tools = {"free", "guarded", "foreign"}
  MaxRuns = 1
  MaxOutput = 1
  MaxApprovals = 0
  Mishaps = {"crash", "fault"}
INVARIANTS NoChildOutlivesItsRun
PROPERTIES CallsReturn RunningEnds
CHECK_DEADLOCK FALSE
