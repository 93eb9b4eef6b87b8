CONSTANTS
  SBER = SBER
  Tickers = {SBER}
  NoTicker = NoTicker
  MaxOrders = 3
  MaxPositions = 2
  MaxStops = 2
  MaxLots = 2
  MaxTries = 1
  MaxPolls = 1
  Faults = {"refuse", "silence", "mutestop", "slow", "deaf", "lookup", "fire", "db", "signal"}
SPECIFICATION Spec
INVARIANTS
  TypeOK
  SettledTruth
  WriteAhead
  BookedFromFills
  OneFillOneBooking
PROPERTIES
  SettledIsFinal
  ImplementsLedger
CHECK_DEADLOCK FALSE
