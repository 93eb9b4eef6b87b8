CONSTANTS
  SBER = SBER
  Tickers = {SBER}
  NoTicker = NoTicker
  MaxOrders = 3
  MaxPositions = 2
  MaxStops = 2
  MaxLots = 1
  MaxTries = 2
  MaxPolls = 2
  Faults = {"silence", "mutestop", "deaf", "slow", "db", "signal"}
SPECIFICATION FairSpec
PROPERTIES
  EverySubmissionSettles
  DrainEnds
CHECK_DEADLOCK FALSE
