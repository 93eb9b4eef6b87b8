CONSTANTS
  SBER = SBER
  Tickers = {SBER}
  NoTicker = NoTicker
  MaxOrders = 3
  MaxPositions = 2
  MaxStops = 2
  MaxLots = 1
  MaxTries = 1
  MaxPolls = 1
  Faults = {"signal"}
SPECIFICATION Spec
INVARIANTS
  DrainNeverFails
CHECK_DEADLOCK FALSE
