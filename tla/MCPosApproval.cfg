CONSTANTS
    Miner = miner
    Core = core
    Boot = boot
    NoNode = nonode
    NoBlock = noblock
    Copies = {1, 2}
    MaxNonce = 1
    Plans <- SafetyPlans
SPECIFICATION Spec
CHECK_DEADLOCK FALSE
INVARIANT ServedIsDurable
INVARIANT TipIsDurable
INVARIANT ToldIsDurable
PROPERTY OneLedger
