SPECIFICATION Spec
CONSTANTS
  Procs = {p1, p2}
  Webs = {w1}
  Actions = {a1}
  NoAction = none
  MaxOrders = 2
  Crashes = TRUE
SYMMETRY Symmetry
INVARIANTS FilesAreRecorded BooksAgree FilledIdsUnique OneFillPerApproval SucceededIsSaved
PROPERTY FillsNeverForgotten
