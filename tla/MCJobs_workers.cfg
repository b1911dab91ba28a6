SPECIFICATION WorkerSpec
CONSTANTS
  j1 = j1  j2 = j2  j3 = j3  j4 = j4  q1 = q1  q2 = q2  k1 = k1  g1 = g1
  Job = {j1, j2, j3}  Queue = {q1}  Client = {c1, c2}  Background = background
  Key = {k1}  NoKey = NoKey  Group = {g1}  NoGroup = NoGroup  None = None
  QueueOf <- OneQueue  KeyOf <- NoKeys  GroupOf <- FirstTwoGroup  DependsOn <- ThirdOnBoth  Prio <- SamePrio  MaxAttempts <- FirstTwice
  RemoveOnComplete = {}  RemoveOnFail = {}  HasTtl = {}  HasTimeout = {}  HasBackoff = {j1}  Postponed = {}
  InitialLimit <- LimitTwo  NewLimits = {}  BatchSize = 2  AttemptBound = 2  MaxCompleted = 9  SyncPersistence = FALSE
  Calls = {"push", "pull", "ack", "fail", "deps", "push_batch", "cancel"}
CHECK_DEADLOCK FALSE
INVARIANTS DependenciesFirst
PROPERTY QueuedJobsSettle DependentsReleased
