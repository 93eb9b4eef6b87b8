CONSTANTS
  SBER = SBER
  Tickers = {SBER}
  NoTicker = NoTicker
  MaxOrders = 3
  MaxPositions = 2
  MaxStops = 2
  MaxLots = 1
  MaxTries = 1
  MaxPolls = 1
  Faults = {}
  MaxCrashes = 1
  MaxSales = 0
  AllowForeign = FALSE
SPECIFICATION RecoverySpec
INVARIANTS
  ReliedStopStands
CHECK_DEADLOCK FALSE
