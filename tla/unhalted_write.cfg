CONSTANTS
  SBER = SBER
  Tickers = {SBER}
  NoTicker = NoTicker
  MaxOrders = 4
  MaxPositions = 2
  MaxStops = 2
  MaxLots = 1
  MaxTries = 1
  MaxPolls = 1
  Faults = {"refuse", "silence", "db"}
SPECIFICATION Spec
INVARIANTS
  UnrecordedHalts
CHECK_DEADLOCK FALSE
