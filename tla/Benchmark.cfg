SPECIFICATION Spec
CONSTANTS
  N = 3
  LockHosts = 2
  LocksPerNode = 2
  SharedChunks = 3
  NThreads = 2
  SampleNumber = 1
  MaxSamples = 1
INVARIANTS
  TablesComplete
  NoUseAfterExit
  MessagesMatch
  TallyComplete
PROPERTY Termination
CHECK_DEADLOCK FALSE
