SPECIFICATION TornSpec
CONSTANTS
  N = 2
  NoSnap = NoSnap
  Garbage = {7}
  MaxUpdates = 2
INVARIANT NoFlagNoUpdate
