CONSTANTS
    Miner = miner
    Core = core
    Boot = boot
    NoNode = nonode
    NoBlock = noblock
    Copies = {1, 2}
    MaxNonce = 1
    Plans <- LivePlans
SPECIFICATION FairSpec
CHECK_DEADLOCK FALSE
PROPERTY ChainGrows
