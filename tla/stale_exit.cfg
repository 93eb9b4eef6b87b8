CONSTANTS
  SBER = SBER
  Tickers = {SBER}
  NoTicker = NoTicker
  MaxOrders = 5
  MaxPositions = 2
  MaxStops = 2
  MaxLots = 2
  MaxTries = 1
  MaxPolls = 1
  Faults = {"slow"}
SPECIFICATION Spec
INVARIANTS
  ClosedIsSoldOut
CHECK_DEADLOCK FALSE
