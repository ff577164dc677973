SPECIFICATION Spec
CONSTANTS
  N = 3
  DefaultCore = 2
  None = None
  MaxHeight = 6
  MaxOps = 4
INVARIANT Hierarchy
INVARIANT SlotsAgree
INVARIANT RoundRobin
INVARIANT WalkAgrees
INVARIANT RewardReachesProducer
