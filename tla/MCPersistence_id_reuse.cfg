SPECIFICATION Spec
CONSTANTS
  MaxId = 2
  DependsOn <- NoDependencies
  MaxAttempts <- Once
  Fleeting = {}
  Capacity = 2
  Settings <- EndedBeforeStop
  MaxCalls = 2
  MaxRestarts = 1
  MaxDead = 1
  AttemptBound = 1
CHECK_DEADLOCK FALSE
INVARIANTS NextIdIsFresh
