SPECIFICATION Spec
CONSTANTS
  MaxId = 2
  DependsOn <- SecondOnFirst
  MaxAttempts <- FirstTwice
  Fleeting = {2}
  Capacity = 2
  Settings <- OneOrTwo
  MaxCalls = 2
  MaxRestarts = 1
  MaxDead = 1
  AttemptBound = 1
CHECK_DEADLOCK FALSE
INVARIANTS TypeOK RowsMatchEngine NoLiveJobLost
