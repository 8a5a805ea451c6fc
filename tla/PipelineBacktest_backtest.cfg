SPECIFICATION Spec
CONSTANTS
  Symbols = {"a", "b", "f"}
  Funds = {"f"}
  SectorOf <- Sectors
  PriceLists <- FewPrices
  SignalLists <- FewSignals
  Weights <- FewWeights
  Regimes = {"bull", "bear"}
  Configs <- FewConfigs
  Lot = 2
  InitialCash = 4000
  Rates <- AShareAndETF
  Limits <- Caps
  MaxPositions = 2
  MaxSingle = 60
  MaxSector = 60
  DriftPct = 50
  OverlapPct = 50
  MaxIdle = 3
  WeekDays = 2
  MonthDays = 3
  YearMonths = 2
  Gaps = {1, 2, 6}
  MaxDay = 7
INVARIANTS AccountIsSound ScheduleKept
PROPERTIES BuysBounded
CHECK_DEADLOCK FALSE
