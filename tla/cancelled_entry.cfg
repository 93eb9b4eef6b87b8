CONSTANTS
  SBER = SBER
  Tickers = {SBER}
  NoTicker = NoTicker
  MaxOrders = 3
  MaxPositions = 2
  MaxStops = 2
  MaxLots = 2
  MaxTries = 1
  MaxPolls = 1
  Faults = {"slow"}
SPECIFICATION Spec
INVARIANTS
  FilledEntryIsBooked
CHECK_DEADLOCK FALSE
