SPECIFICATION FairSpec
CONSTANTS
  Accounts = {o, a}
  Owner = o
  MaxMembers = 2
  Keys = {k}
  NoAccount = NoAccount
  NoCommit = NoCommit
  Cores = {x, y}
  Host = x
  Messages = {p}
  NoMessage = NoMessage
  MaxKeySeq = 2
  Plans <- OneMove
INVARIANTS
  AckedCovered
  MessagesToHolders
PROPERTIES
  KeysArrive
  MessagesArrive
CHECK_DEADLOCK FALSE
