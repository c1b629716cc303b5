SPECIFICATION MCSpec
CONSTANTS
  Engine = engine
  User = user
  Tester = tester
  Browsers = {browser}
  Runners = {loop, request}
  Publishers = {engine, user, tester, loop, request}
  EngineBuffer = 1
  BrowserBuffer = 2
  NoEvent = NoEvent
  MaxRuns = 2
  Channels = {c1}
  early = early
  late = late
  Rules = {early, late}
  NoRule = NoRule
  MinFailures <- Thresholds
  MaxEdits = 1
  MaxTests = 1
  MaxBreaks = 1
  Workers = {w1, w2}
  Targets = {t1, t2}
  AddressBits = 4
  MaxHostBits = 2
  MaxHosts = 4
  NoAddress = NoAddress
  NestedJobs = {job}
  NestedRequests = {rulesPage}
  Plain = {page}
  Conns = 2
  MaxRows = 1
  SourceIds = {u}
  Agents = {a, b}
  Worker = Worker
  ByHand = ByHand
  Nothing = Nothing
  MaxChanges = 2
INVARIANTS OrderPerPublisher FailureCountSound DeliveriesTellTheTruth OneDeliveryPerEvent
  AlertsNeedFailures ScanComplete ScansUsableHosts CircleTakesRequest
PROPERTIES OffStaysSilent ScanMovesOn SweepsOnce PendingIsInHand EngineComesBack PendingSettles ScanReturns ReadsFinish SourcesCatchUp
CHECK_DEADLOCK FALSE
