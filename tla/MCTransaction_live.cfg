SPECIFICATION FairSpec
CONSTANTS
  Threads = {t1, t2}
  Records = {a, b, c}
  NoThread = NoThread
  NoRecord = NoRecord
  E = 2
  InitialValue = 100
  IntSpan = 65536
INVARIANT TestPyAccepts
PROPERTIES
  Serializable
  
