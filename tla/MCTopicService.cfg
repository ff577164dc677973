SPECIFICATION Spec
CONSTANTS
  Accounts = {o, a}
  Owner = o
  MaxMembers = 2
  Keys = {k, l}
  NoAccount = NoAccount
  NoCommit = NoCommit
  Cores = {x, y}
  Host = x
  Messages = {}
  NoMessage = NoMessage
  MaxKeySeq = 3
  Plans <- MovesOrFaults
INVARIANTS
  OneKeyPerSeq
  KeysCovered
  KeysToHolders
  NoFutureKey
PROPERTIES
  Implements
SYMMETRY KeySymmetry
CHECK_DEADLOCK FALSE
