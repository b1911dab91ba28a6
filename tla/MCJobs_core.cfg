SPECIFICATION Spec
CONSTANTS
  j1 = j1  j2 = j2  j3 = j3  j4 = j4  q1 = q1  q2 = q2  k1 = k1  g1 = g1
  Job = {j1, j2, j3}  Queue = {q1}  Client = {c1, c2}  Background = background
  Key = {k1}  NoKey = NoKey  Group = {g1}  NoGroup = NoGroup  None = None
  QueueOf <- OneQueue  KeyOf <- TwoSameKey  GroupOf <- TwoSameGroup  DependsOn <- NoDeps  Prio <- SamePrio  MaxAttempts <- Attempts2
  RemoveOnComplete = {j2}  RemoveOnFail = {j3}  HasTtl = {j3}  HasTimeout = {}  HasBackoff = {j1}  Postponed = {j2}
  InitialLimit <- LimitTwo  NewLimits = {}  BatchSize = 2  AttemptBound = 2  MaxCompleted = 9  SyncPersistence = FALSE
  Calls = {"push", "push_batch", "pull", "ack", "ack_batch", "fail", "cancel", "retry_dlq"}
SYMMETRY Symmetry
CHECK_DEADLOCK FALSE
INVARIANTS SingleOwner UniqueKeyExclusion GroupExclusion IndexAgreement UnindexedIsGone
PROPERTY ImplementsJobStore
