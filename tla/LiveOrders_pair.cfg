CONSTANTS
  Procs = {p1, p2}
  Actions = {a1}
  NoAction = none
  MaxOrders = 2
  MaxApprovals = 1
  Crashes = TRUE
SPECIFICATION Spec
SYMMETRY Symmetry
INVARIANTS SuccessIsBacked SwitchStopsLaterSubmits
PROPERTY ImplementsGate
