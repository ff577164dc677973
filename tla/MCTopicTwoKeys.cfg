SPECIFICATION Spec
CONSTANTS
  Accounts = {o, a}
  Owner = o
  MaxMembers = 2
  Keys = {k, l}
  NoAccount = NoAccount
  NoCommit = NoCommit
  Cores = {x}
  Host = x
  Messages = {}
  NoMessage = NoMessage
  MaxKeySeq = 2
  Plans <- OneFail
INVARIANTS
  SeqHasOneKey
CHECK_DEADLOCK FALSE
