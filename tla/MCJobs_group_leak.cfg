SPECIFICATION Spec
CONSTANTS
  j1 = j1  j2 = j2  j3 = j3  j4 = j4  q1 = q1  q2 = q2  k1 = k1  g1 = g1
  Job = {j1, j2, j3}  Queue = {q1}  Client = {c1, c2}  Background = background
  Key = {k1}  NoKey = NoKey  Group = {g1}  NoGroup = NoGroup  None = None
  QueueOf <- OneQueue  KeyOf <- TwoSameKey  GroupOf <- TwoSameGroup  DependsOn <- NoDeps  Prio <- SamePrio  MaxAttempts <- Attempts2
  RemoveOnComplete = {}  RemoveOnFail = {}  HasTtl = {}  HasTimeout = {}  HasBackoff = {}  Postponed = {}
  InitialLimit <- LimitOne  NewLimits = {}  BatchSize = 1  AttemptBound = 2  MaxCompleted = 9  SyncPersistence = FALSE
  Calls = {"push", "pull", "cancel"}
SYMMETRY Symmetry
CHECK_DEADLOCK FALSE
INVARIANTS ActiveGroupsTracked
