SPECIFICATION Spec
CONSTANTS
  Symbols = {s1}
  Prices = {3, 4}
  Volumes = {1, 3}
  Lot = 1
  InitialCash = 918
  ReplayCash = 918
  Rates <- MCRates
  Limits <- NoLimits
  LimitPct = 10
  Probabilistic = TRUE
  PartialPct = 50
  Restarts = TRUE
  SkipsClose = FALSE
  MaxOrders = 3
INVARIANT ChainsAreLifecycles
INVARIANT NothingOpenAfterClose
INVARIANT ExactFillsReplayed
PROPERTY BuysAreFunded
