CONSTANTS
  Procs = {p1}
  Actions = {a1, a2}
  NoAction = none
  MaxOrders = 3
  MaxApprovals = 2
  Crashes = FALSE
SPECIFICATION Spec
SYMMETRY Symmetry
INVARIANTS OneOrderPerApproval QueueIsEmptied NewestOrderAsked
