SPECIFICATION Spec
CONSTANTS
  Threads = {t1, t2}
  Hosts = {h1, h2}
  NoTracker = NoTracker
  NoModel = NoModel
  Views <- FewViews
  Engine = "hybrid"
  MaxDay = 3
  MaxDwell = 2
  Dwells = {1, 2}
  MaxEvents = 4
CONSTRAINT Alone
SYMMETRY Symmetry
INVARIANTS CountIsEarned
PROPERTIES SwitchIsEarned
CHECK_DEADLOCK FALSE
