SPECIFICATION Spec
CONSTANTS
  Procs = {p1, p2}
  Logs = {log}
  Ledger = ledger
  NoProc = NoProc
  Bad = Bad
  Mishaps = {"crash", "fault", "damage", "misread"}
  MaxKey = 2
  LogStatuses = {"done"}
  MaxCalls = 2
  MaxFaults = 1
SYMMETRY Symmetry
INVARIANTS TypeOK ManifestIsTrue RepairsAreRecorded
PROPERTIES ImplementsLogs
CHECK_DEADLOCK FALSE
