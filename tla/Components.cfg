CONSTANTS
  DeskSymbols = {"A", "B"}
  DeskCapital = 3000
  MaxDeskOrders = 2
  ShadowTrades = 5
  MaxShadowRuns = 2
  DeskTrades <- MCDeskTrades
  Strategies = {"s", "t"}
  MaxConcurrent = 1
  MaxWeeks = 9
  FirstWeekday = 4
  FirstMonthday = 6
  LastDay = 1
  Durations = {1, 300}
  MaxTroubles = 2
  HistoryCap = 5
  HistoryKeep = 3
  LastN = 3
  Filings <- MCFilings
  OtherScore <- MCOtherScore
  LastSignalDay = 2
  MaxSignalRuns = 2
  MaxCopies = 2
  Members = {"A", "B", "C"}
  FirstIndex = {"A", "B"}
  LastMarketDay = 3
  Lookback = 2
  SplitRatio = 2
  Quotes <- MCQuotes
  MaxSaves = 2
  MaxPolls = 3
  Spreads = {0, 1, 3, 6}
  PairDays = 7
  PairLookback = 4
  MinLookback = 2
  EntrySq = 75
  ExitSq = 10
  StopSq = 200
  GymSymbols = {"A", "B"}
  GymPrices = {1, 2}
  GymCapital = 65536
  WeightDiv = 4
  CostDiv = 4
  MaxSteps = 2
  VersionIds = {"u", "v", "w"}
  KeepVersions = 1
  MaxVersions = 5
  JobHour = 18
  LastHealthDay = 9
  ExpiryYears = {2024, 2026}
  Participations = {0, 1, 2, 3, 5, 8, 12}
  StoredBars = {50, 210, 260, 300}
  ServedBars = 205
  YearAgo = 2
  UniverseSize = 5
  CohortSizes = {0, 1, 5, 10, 20}
  TopSectors = 2
  Hold = 3
  Purge = 3
  Embargo = 3
  RiskSymbols = {"a", "b", "c", "d"}
  SectorOf <- MCSectorOf
  Correlated <- MCCorrelated
  PaperTrades <- MCPaperTrades
  RecordSize = 4
  Closes <- MCCloses
  TopK = 1
  OpenShown = 2
  LongCost = 1
  ShortCost = 2
  RecordDay = 42
  LastBarDay = 4
  RetryLimit = 3
  MinInterval = 2
  MinZeroDays = 2
  CircuitLimits = {5, 10, 20}
  FracWidth = 3
  MinRows = 3
  SeqLen = 3
  Horizons = {2, 3, 5}
  BatchSize = 2
  ConformalCap = 4
  Epochs = 5
  Patience = 2
  Losses = {4, 5, 6, 7, 8}
  Features = {"a", "b", "c"}
  StoreBatch = 2
  FilingMonths = {24300, 24301, 24303, 24304, 24306, 24307, 24309, 24310, 24312, 24313, 24315, 24316}
SPECIFICATION Spec
CHECK_DEADLOCK FALSE
INVARIANTS
    DeskIsSound
    ScheduleHolds
    TrainingHolds
    DecisionsHold
    RecordsHold
PROPERTIES
    StrategiesAreSound
    StoredDataHolds
