SPECIFICATION Spec
CONSTANTS
  Cores = {x, y}
  SenderCore = x
  Messages = {m, n}
  x = x
  y = y
  m = m
  n = n
  NoRecord = NoRecord
  Unsigned = Unsigned
  Plans <- SafetyPlans
INVARIANTS
  AckMeansStored
  FinalAtTarget
  OneMessagePerSeq
  Contiguous
PROPERTIES
  StoredOnce
SYMMETRY MessageSymmetry
