CONSTANTS
  SBER = SBER
  Tickers = {SBER}
  NoTicker = NoTicker
  MaxOrders = 3
  MaxPositions = 2
  MaxStops = 2
  MaxLots = 1
  MaxTries = 1
  MaxPolls = 1
  Faults = {"fire"}
SPECIFICATION FairSpec
PROPERTIES
  FiredStopIsBooked
CHECK_DEADLOCK FALSE
