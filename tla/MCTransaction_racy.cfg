SPECIFICATION Spec
CONSTANTS
  Threads = {t1, t2, t3}
  Records = {a, b, c}
  NoThread = NoThread
  NoRecord = NoRecord
  E = 1
  InitialValue = 100
  IntSpan = 256
SYMMETRY Symmetry
INVARIANTS
  TypeOK
  WaitGraphExact
  NoLostWakeup
  TwoPhaseLocking
  MutexNotAbandoned
  NoWaitCycle
  CleanFinish
PROPERTIES
  Serializable
  LockProtocol
