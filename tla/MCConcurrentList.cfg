SPECIFICATION Spec
CONSTANTS
  Threads = {t1, t2, t3}
  Keys = {1, 2}
  NumWork = 2
  MaxCalls = 5
  INT_MIN = 0
  INT_MAX = 3
  NoThread = NoThread
SYMMETRY Symmetry
INVARIANTS
  ListTypeOK
  Sorted
  NoUseAfterFree
  LockOrder
  ValidatedStays
PROPERTY
  Linearizable
