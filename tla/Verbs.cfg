SPECIFICATION Spec
CONSTANTS
  Threads = {t1, t2}
  PlainWords = {flag}
  AtomicWordSet = {tail}
  SpinWords = {lock}
  W = 2
  BufferCount = 2
  MaxCalls = 2
PROPERTIES
  ImplementsAtomicWords
  CallsReturn
CHECK_DEADLOCK FALSE
