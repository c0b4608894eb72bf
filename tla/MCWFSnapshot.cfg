SPECIFICATION Spec
CONSTANTS
  N = 2
  NoSnap = NoSnap
  Garbage = {7}
  MaxUpdates = 2
INVARIANTS
  SnapshotTypeOK
  RegularScan
  ScanBound
PROPERTIES
  WaitsForNobody
  RunReturns
