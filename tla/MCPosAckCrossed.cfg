CONSTANTS
    Miner = miner
    Core = core
    Boot = boot
    NoNode = nonode
    NoBlock = noblock
    Copies = {1, 2}
    MaxNonce = 2
    Plans <- TwoSenders
SPECIFICATION Spec
CHECK_DEADLOCK FALSE
INVARIANT ToldIsDurable
