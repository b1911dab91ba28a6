SPECIFICATION Spec
CONSTANTS
  j1 = j1  j2 = j2  j3 = j3  j4 = j4  q1 = q1  q2 = q2  k1 = k1  g1 = g1
  Job = {j1, j2}  Queue = {q1}  Client = {c1, c2}  Background = background
  Key = {k1}  NoKey = NoKey  Group = {g1}  NoGroup = NoGroup  None = None
  QueueOf <- OneQueue  KeyOf <- NoKeys  GroupOf <- NoGroups  DependsOn <- NoDeps  Prio <- SamePrio  MaxAttempts <- Attempts2
  RemoveOnComplete = {}  RemoveOnFail = {j2}  HasTtl = {}  HasTimeout = {j1, j2}  HasBackoff = {}  Postponed = {}
  InitialLimit <- LimitOne  NewLimits = {}  BatchSize = 2  AttemptBound = 2  MaxCompleted = 9  SyncPersistence = FALSE
  Calls = {"push", "pull", "ack", "fail", "timeout", "stall", "retry_dlq", "heartbeat", "move_to_delayed", "promote"}
SYMMETRY Symmetry
CHECK_DEADLOCK FALSE
INVARIANTS SingleOwner ConcurrencyBound AttemptsWithinBudget
