SPECIFICATION DeliveriesSpec
CONSTANTS
  Job = {p, c1, c2, x, y}
  Parent = p
  Children = {c1, c2}
  Thread = {t1, t2}
  Wait = {w1}
  None = None
  Mortal = {x}
  RemoveOnComplete = {y}
  MaxResults = 0
  Waited = {x, y}
  Scenes <- FlowOrAnother
  SdkCall = {"a", "b"}
  Auth = Auth
  MaxPool = 2
  MaxReconnects = 1
  WireRoom = 2
  Openings <- TwoOpenings
  DlvJob = {"j1", "j2", "j3"}
  NoDlvJob = NoDlvJob
  Stream = {"s"}
  SdkWorker = {"v", "w"}
  Feeder = {"s1", "v1", "w1", "w2"}
  OwnerOf <- Owners
  MaxOrphans <- Orphans
  ChannelSize = 1
  Concurrency = 1
  TimesOut = {"j1"}
  DlvMaxAttempts <- Attempts
  DlvScenes <- ThreeDeliveries
  RsMigrations = 2
  RsMaxFaults = 1
  RsMaxRestores = 3
CHECK_DEADLOCK FALSE
INVARIANTS WaitsAnswered ParentAfterChildren CallsAnswered ActiveJobsAreHeld DataSurvives
PROPERTIES ParentReleased CallsReturn TakenJobsSettle StartsAgain
