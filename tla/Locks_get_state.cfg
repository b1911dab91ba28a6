SPECIFICATION LockSpecAll
CONSTANTS
  LockThread = {"t1", "t2"}
CHECK_DEADLOCK FALSE
INVARIANTS NoCircularWait
