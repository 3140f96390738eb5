SPECIFICATION DeskSpec
CONSTANTS
  Absent = Absent
  Accounts = {"a", "b"}
  Bearers = {p}
  None = None
  MaxRetries = 1
  Factors = 2
  Names = 1
  MIN_HISTORY = 2
  ADV_WINDOW = 2
  ADV_FLOOR = 10
  ADV_TRACK_A = 25
  CORP_WINDOW = 5
  RECOVERY_WINDOW = 1
  IPO_BAND_DAYS = 15
  REGIME_MA_WINDOW = 2
  REGIME_MIN_OBS = 2
  Symbols = {"x", "m"}
  MaxDay = 7
  Quotes <- DeskQuotes
  Forever = 9
  RosterRows <- DeskRosterRows
  BookDays = {1, 2, 3}
  SPAN_STRIDE = 2
  PHASE_MIN_BARS = 3
  PHASE_RANGE_LOOKBACK = 6
  PHASE_RANGE_MIN_BARS = 2
  EVENT_WINDOW = 2
  AR_SPAN = 3
  SMS_DIVERGENCE_WINDOW = 4
  SMS_BROKER_PERSIST_DAYS = 2
  SMS_BLOCK_VALUE = 5
  VETO_ROTATION_MIN_DAYS = 2
  VETO_FLIP_MIN_DAYS = 2
  DECAY_WINDOW = 4
  DECAY_FOREIGN_SELL_STREAK = 2
  OWNERSHIP_WINDOW_SLICES = 3
  OWNERSHIP_STALE_DAYS = 3
  VPA_CONTEXT_BARS = 3
  VPA_MIN_CONTEXT_BARS = 2
  VPA_TREND_BARS = 2
  VPA_RIBBON_BARS = 3
  VP_WINDOW_BARS = 3
  VP_MIN_BARS = 2
  VP_BUCKETS = 4
  VP_UNIT = 160
  Bars <- DeskBars
  TapeDays = 11
  Brokers <- DeskBrokers
  Dna <- DeskDna
  Books <- DeskBooks
  Shares = {90, 100}
  SliceDays = {1, 3}
  Fundamentals <- DeskFundamentals
  RunConfigs <- DeskRuns
  Equity = 1000000
  Folds = 1
  Sector <- DeskSectors
  PREVIEW_QTY = 100
  FF_CUM_DAYS = 2
  SECTOR_WINDOW_DAYS = 2
  VAR_CONFIDENCE = 500
  SLIPPAGE_LARGE_ADV_IDR = 50
  SLIPPAGE_MID_ADV_IDR = 20
  Horizons = {1, 2}
  CATALOG_MIN_N = 2
  CATALOG_HOLDOUT_START = 5
  Components <- DeskComponents
  Incumbents <- DeskIncumbents
  LockedZeros <- DeskLocked
  Backtests <- DeskBacktests
  WEIGHT_SUM = 10
  WEIGHT_STEP = 5
  CV_FOLDS = 2
  MaxIters = 3
  MaxApplied = 2
CHECK_DEADLOCK FALSE
INVARIANTS
  DeskTypeOK
  OtpIsForTypedAccount
  ReplayedNamesPassTheGate
  PastIsShownAsItWas
  ShownAddsUp
  BooksAreCovered
  ProfilesHoldTheirVolume
  ReadingsDecideNothing
  ForwardEqualsBacktest
  PurgedFoldsDoNotLeak
  SearchKeepsStructure
PROPERTIES
  FailureKeepsSession
  RequestEnds
  RibbonsStand
  FramesStand
  CountsStand
