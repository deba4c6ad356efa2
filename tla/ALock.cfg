SPECIFICATION Spec
CONSTANTS
  LocalThreads = {a1, a2}
  RemoteThreads = {b1, b2}
  LocalBudget = 2
  RemoteBudget = 1
  None = None
INVARIANTS
  MutualExclusion
  BoundedBypass
PROPERTY QueuedEnters
