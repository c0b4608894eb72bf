SPECIFICATION FairSpec
CONSTANTS
  t1 = t1
  t2 = t2
  Trxs = {t1, t2}
  FirstTrx = t1
  MaxLocks = 5
  Budget <- Uneven
INVARIANTS
  RecLockTypeOK
  OnlyReleasedGo
  LiveReachable
PROPERTY
  ReleaseEnds
