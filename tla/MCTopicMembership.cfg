CONSTANTS
    Accounts = {o, a, b}
    Owner = o
    MaxMembers = 2
    Keys = {k}
    NoAccount = none
    NoCommit = nocommit
    MaxKeySeq = 5
SPECIFICATION Spec
INVARIANTS SnapshotLoads MembersBounded KeyIntervals RequestsCanBeCommitted
PROPERTIES HoldersChangeByCommit BannedForever
CHECK_DEADLOCK FALSE
