SPECIFICATION SpecOfProgram
CONSTANTS
  Threads = {t1, t2, t3}
  Locks = {l0, l1}
  W = 4
  None = None
INVARIANT WordTellsHolder
PROPERTIES
  ImplementsFairLock
  SomeoneEnters
