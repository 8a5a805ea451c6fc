SPECIFICATION Spec
SYMMETRY Symmetry
CONSTANTS
  Symbols = {s1, s2}
  Prices = {3, 4}
  Volumes = {1, 3}
  Lot = 1
  InitialCash = 1840
  ReplayCash = 1840
  Rates <- MCRates
  Limits <- MCLimits
  LimitPct = 10
  Probabilistic = FALSE
  PartialPct = 50
  Restarts = FALSE
  SkipsClose = TRUE
  MaxOrders = 3
INVARIANT BuysWithinDailyLimit
PROPERTY ImplementsSettled
