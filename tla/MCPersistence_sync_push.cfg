SPECIFICATION Spec
CONSTANTS
  MaxId = 2
  DependsOn <- NoDependencies
  MaxAttempts <- FirstTwice
  Fleeting = {}
  Capacity = 2
  Settings <- SyncThenCrash
  MaxCalls = 2
  MaxRestarts = 1
  MaxDead = 1
  AttemptBound = 1
CHECK_DEADLOCK FALSE
INVARIANTS SyncPushDurable
