SPECIFICATION Spec
CONSTANTS
  j1 = j1  j2 = j2  j3 = j3  j4 = j4  q1 = q1  q2 = q2  k1 = k1  g1 = g1
  Job = {j1, j2, j3, j4}  Queue = {q1, q2}  Client = {c1, c2}  Background = background
  Key = {k1}  NoKey = NoKey  Group = {g1}  NoGroup = NoGroup  None = None
  QueueOf <- TwoQueues  KeyOf <- NoKeys  GroupOf <- AllButFirst  DependsOn <- NoDeps  Prio <- SamePrio  MaxAttempts <- Attempts2
  RemoveOnComplete = {}  RemoveOnFail = {}  HasTtl = {}  HasTimeout = {}  HasBackoff = {}  Postponed = {}
  InitialLimit <- Unlimited  NewLimits = {}  BatchSize = 2  AttemptBound = 2  MaxCompleted = 9  SyncPersistence = FALSE
  Calls = {"push_batch", "pull", "ack_batch"}
SYMMETRY Symmetry
CHECK_DEADLOCK FALSE
INVARIANTS GroupExclusion
