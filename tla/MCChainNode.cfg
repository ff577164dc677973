CONSTANTS
    Blocks <- MCBlocks
    Genesis = "g"
    Parent <- MCParent
    Txs <- MCTxs
    Tx <- MCTx
    Ins <- MCIns
    Funding <- MCFunding
    NoFunding = NoFunding
    Coinbases = {"m"}
    CoinbaseMaturity = 2
    Sound <- MCSound
    POSV2Height = 4
    NoEntry = NoEntry
    Plans <- MCPlans
    MaxOrphanBlocks = 2
    NoBlock = NoBlock
    NoCaller = NoCaller
    NullOut = NullOut
    Fee <- MCFee
    MinFee = 1
    Results = {"r"}
    Signals = {"a"}
    MaxOrphanTxs = 1
    MaxReplacementEvictions = 2
SPECIFICATION Spec
CHECK_DEADLOCK FALSE
INVARIANTS
    UtxoMatchesTip
    Recoverable
    BestChainLegit
    MostWork
    PoolConsistent
PROPERTIES
    PosFinal
