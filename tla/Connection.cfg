SPECIFICATION Spec
CONSTANTS
  N = 3
  PoolCounts = {1, 2}
  LockHosts = 2
  Distributions = {"uniform", "selective"}
  MaxRestarts = 1
INVARIANTS
  NoEarlyUse
  PoolsPaired
  ClientsCountedOnce
PROPERTY SetUpCompletes
CHECK_DEADLOCK FALSE
