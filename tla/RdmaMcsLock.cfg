SPECIFICATION Spec
CONSTANTS
  Threads = {t1, t2, t3}
  Locks = {l0, l1}
  None = None
INVARIANT NoStaleAccess
PROPERTY ImplementsFairLock
