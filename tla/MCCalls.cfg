CONSTANTS
  Callers = {c1, c2}
  Capacity = 2
  RefillRate = 1
  MaxRetries = 2
  Backoff = 1
  MaxDelay = 2
  MaxTime = 3
  MaxPlacements = 2
  MaxRestarts = 1
SPECIFICATION FairSpec
INVARIANTS TypeOK OneOrderPerPlacement
PROPERTIES CallsEnd ImplementsOneShot
CHECK_DEADLOCK FALSE
