SPECIFICATION Spec
CONSTANTS
  t1 = t1
  t2 = t2
  Trxs = {t1, t2}
  FirstTrx = t1
  MaxLocks = 4
  Budget <- TwoEach
INVARIANT
  HeadAsserted
