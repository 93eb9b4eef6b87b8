CONSTANTS
  MaxCalls = 3
  MaxWriteFaults = 1
  MaxRestarts = 1
  MaxPasses = 2
  LastDay = 2
  LastMoment = 3
  Limit = 2
  MaxMark = 1
  MaxBooked = 1
  MaxRestartsOfDay = 1
  Watchlist = {T1, T2}
  Poll = 2
  MaxBackoff = 30
  Hints = {10}
  MaxRun = 4
  LastSessionDay = 3
  TradingDays = {0, 1, 3}
  Window = 2
  WeekLength = 2
  MaxJobFaults = 1
  MaxDeaths = 1
  Instances = {a, b, c}
  AgeOut = 2
  LastHour = 7
  MaxMarkerFaults = 1
  MaxSchemaFaults = 2
  Orders = {o1, o2}
  FeeLag = 1
  FeeSettle = 2
  Stale = 2
  Lookback = 3
  LastTime = 4
  MaxRunFaults = 2
  Retention = 2
  LastNight = 5
  MaxBackupFaults = 3
  NightsDown = 1
  Tickers = {A, B, C}
  Strategies = 2
  Allocated = 20
  SizePct = 50
  ReservePct = 20
  MaxPositions = 2
  RefPrices = {4}
  Slip = 1
  MaxEntries = 3
  Closes = {1, 2, 3}
  Wicks = {0, 1}
  Volumes = {0, 2}
  MaFast = 1
  MaSlow = 2
  RsiPeriod = 2
  Breakout = 2
  Band = 3
  Deviations = 1
  MacdFast = 1
  MacdSlow = 2
  MacdSignal = 2
  MaxBars = 4
  Callers = {x1, x2, x3}
  MaxChannels = 3
  MaxFailures = 3
  Askers = {q1, q2}
  Prices = {90, 100, 115, 130}
  MaxMovePct = 20
  MaxQuoteAge = 1
  LastTick = 2
  Readers = {c1, c2}
  Figis = {f1, f2}
  Lots = {1}
  RowMaxAge = 1
  LastRead = 2
  Relying = {s1, s2}
  LastInstant = 3
  Skew = 1
  Lead = y1
  Symbols = {y1, y2}
  BarPrices = {4, 8}
  LastBar = 2
  SimCash = 817
  MaxLots = 1
  StopPct = 25
  TargetPct = 50
  SlippagePct = 1
  FeePct = 1
  FeeMin = 5
  MessageLimit = 12
  HeaderLength = 2
  NoteLength = 3
  EntryLengths = {1, 4, 6}
  SectionLengths = {1, 3}
  MaxListed = 3
  SBER = SBER
  NoTicker = NoTicker
SPECIFICATION ServicesSpec
INVARIANTS
  
  
  BackoffHonoursTheBroker
  AlertsOnce
  
  PeriodsAreWorked
  RefusalToldDaily
  VersionIsWhole
  CommissionsAreTrue
  FailedBackupIsKnown
  LimitsKept
  WindowDecides
  OneChannel
  ServedIsCurrent
  ExecutedStopIsClosed
  DiscrepancyIsReal
  SimulationMatchesBooks
  MessagesAreWhole
  
PROPERTIES
  
  LossFromTheOpenHalts
  HeldIsNotBoughtAgain
  AcceptedMovesAreBounded
CHECK_DEADLOCK FALSE
