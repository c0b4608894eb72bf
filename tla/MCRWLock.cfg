SPECIFICATION RWSpec
CONSTANTS
  Threads = {t1, t2, t3}
  Records = {a, b}
SYMMETRY Symmetry
INVARIANTS
  RWTypeOK
  Bookkeeping
  Exclusion
  NoLostDrain
  SpinBlocksOwner
