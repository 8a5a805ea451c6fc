SPECIFICATION Spec
CONSTANTS
  Symbols = {s1}
  Prices = {3, 4}
  Volumes = {1, 2}
  Lot = 1
  InitialCash = 1000
  ReplayCash = 1000
  Rates <- MCRates
  Limits <- NoLimits
  LimitPct = 10
  Probabilistic = FALSE
  PartialPct = 50
  Restarts = FALSE
  SkipsClose = FALSE
  MaxOrders = 3
INVARIANT CashReplayed
