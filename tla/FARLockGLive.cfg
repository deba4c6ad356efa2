SPECIFICATION FairSpec
CONSTANTS
  n0 = n0  n1 = n1
  a1 = a1  a2 = a2  a3 = a3  b1 = b1  b2 = b2  b3 = b3
  l0 = l0
  None = None
  Nodes <- MCNodes
  NodeOf <- MCNodeOf
  Home <- MCHome
  Threads = {a1, a2, b1}
  Locks = {l0}
  LocalBudget = 2
  RemoteBudget = 1
  MaxOps = 1
PROPERTIES
  QueuedEnters
