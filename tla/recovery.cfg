CONSTANTS
  SBER = SBER
  Tickers = {SBER}
  NoTicker = NoTicker
  MaxOrders = 3
  MaxPositions = 2
  MaxStops = 3
  MaxLots = 2
  MaxTries = 1
  MaxPolls = 1
  Faults = {"refuse", "silence", "mutestop", "deaf", "fire", "db"}
  MaxCrashes = 2
  MaxSales = 1
  AllowForeign = FALSE
SPECIFICATION RecoverySpec
INVARIANTS
  RecoveryTypeOK
  SettledTruth
  
  
CHECK_DEADLOCK FALSE
