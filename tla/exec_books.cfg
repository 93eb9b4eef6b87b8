CONSTANTS
  SBER = SBER
  GAZP = GAZP
  Tickers = {SBER, GAZP}
  NoTicker = NoTicker
  MaxOrders = 4
  MaxPositions = 2
  MaxStops = 4
  MaxLots = 1
  MaxTries = 2
  MaxPolls = 1
  Faults = {"refuse", "silence", "deaf", "fire", "halt", "signal"}
SPECIFICATION Spec
INVARIANTS
  BooksBalance
  FilledEntryIsBooked
  ExchangeIsBound
  LiveStopIsOwned
SYMMETRY TickerSymmetry
CHECK_DEADLOCK FALSE
