SPECIFICATION ServicesSpec
CONSTANTS
  KvKey = {"k"}
  KvClient = {"a", "b"}
  NoKvKey = "none"
  KvTtls = {0, 1}
  KvValues = {5}
  KvMaxNow = 3
  KvMaxCount = 3
  PqJob = {1, 2, 3, 4}
  Priorities = {0, 1}
  RunAts = {0, 1}
  Lifo = {2, 3}
  MaxPushes = 3
  Letter = {"a", "b"}
  Star = "*"
  AnyOne = "?"
  MaxPattern = 4
  MaxText = 3
  MaxGlobDepth = 2
  RlLimits = {0, 1, 2}
  RlMaxNow = 1500
  RlMaxForward = 3000
  RlJumps <- ClockSteps
  Hook = {"h1", "h2"}
  Url = {"u"}
  NoUrl = "none"
  Deleter = {"d1", "d2"}
  FailureThreshold = 3
  RecoveryTimeout = 2
  MaxFlight = 2
  LockThread = {"t1", "t2", "t3"}
  CronName = {"n"}
  CronCaller = {"a"}
  CronInterval = 1
  CronOccurs <- OccursAt
  CronLimit = 2
  CronMaxNow = 2
  CronMaxAdds = 2
  CronMaxRestarts = 1
  BkHandler = {"h"}
  BkInterval = 2
  KeepCount = 1
  BkMaxDuration = 1
  BkMaxNow = 6
  Pusher = {"a", "b"}
  PiMaxId = 2
  QcCaller = {"a", "b"}
  QcLimits = {1}
  QcMaxCalls = 3
  QcMaxRestarts = 1
  MxJobs = 2
  MxWidth = 4
  HistoryLimit = 3
  MxMaxOwed = 2
  MxMaxPoints = 2
  MxMaxResets = 1
  SkClient = {"c1", "c2"}
  Dashboard = {"c2"}
  MaxSockets = 1
  SkIdleLimit = 2
  SkCapacity = 1
  SkBuffer = 1
  SkMaxEvents = 2
CHECK_DEADLOCK FALSE
INVARIANTS IncrementsCounted EveryJobPopsInTurn GlobMatchIsMatching RateBound ClosedBelowThreshold
  NoOrphanCircuit NoCircularWait CronKeepsItsTable BackupsProtect OneLiveJobPerId RowHoldsSettings
  MetricsAddUp SocketsAccounted
PROPERTY ExpiredStaysGone
