SPECIFICATION Spec
CONSTANTS
  j1 = j1  j2 = j2  j3 = j3  j4 = j4  q1 = q1  q2 = q2  k1 = k1  g1 = g1
  Job = {j1, j2}  Queue = {q1}  Client = {c1, c2}  Background = background
  Key = {k1}  NoKey = NoKey  Group = {g1}  NoGroup = NoGroup  None = None
  QueueOf <- OneQueue  KeyOf <- NoKeys  GroupOf <- NoGroups  DependsOn <- NoDeps  Prio <- SamePrio  MaxAttempts <- Attempts2
  RemoveOnComplete = {}  RemoveOnFail = {}  HasTtl = {}  HasTimeout = {}  HasBackoff = {}  Postponed = {}
  InitialLimit <- LimitOne  NewLimits = {1}  BatchSize = 1  AttemptBound = 2  MaxCompleted = 1  SyncPersistence = TRUE
  Calls = {"push", "pull", "fail", "discard", "drain", "clean_failed", "clean_waiting", "clean_completed", "purge_dlq", "retry_dlq", "obliterate", "pause", "set_concurrency", "ack", "cleanup"}
SYMMETRY Symmetry
CHECK_DEADLOCK FALSE
INVARIANTS TypeOK
PROPERTY ImplementsJobStore
