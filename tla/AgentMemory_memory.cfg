SPECIFICATION Spec
CONSTANTS
  Procs = {p1, p2}
  Sessions = {s1, s2}
  NoSession = NoSession
  Evidence = {e1}
  MaxPhases = 2
  MaxRows = 2
  MaxCalls = 4
SYMMETRY Symmetry
INVARIANTS TypeOK ProgramGoesOn SignatureTellsRows
PROPERTIES ReferencesKept SessionsChangeAsAsked
CHECK_DEADLOCK FALSE
