CONSTANTS
    Genesis = "g"
    Null = "none"
    Block <- NodeBlock
    Prev <- NodePrev
    BlockTrust <- NodeTrust
    Vtx <- NodeVtx
    Tx <- NodeTx
    Vin <- NodeVin
    Vout <- NodeVout
    Generated <- NodeGen
    Maturity = 1
    Time <- NodeTime
    Stake <- NodeStake
    CheckpointSpan = 2
    MaxOrphanBlocks = 1
    BadContext = {}
    BadConnect = {}
    Claim <- NoClaim
    Subsidy <- FlatSubsidy
    WrongPayee = {}
    Lockable = {}
    Future = {}
    MaxCrashes = 1
    TotalBlocksEstimate = 0
    Mine <- NodeMine
    LocatorEvery = 1
    HashOrder <- NodeOrder
    Rescan = FALSE
    BackupAt = {1}
SPECIFICATION WalletSpec
INVARIANTS TxIndexExact TipIsOnDisk PoolNotConfirmed
    WalletKnowsOwn SpentCoinsMarked BlocksFollowed StakesRefunded
PROPERTY NothingLost
CHECK_DEADLOCK FALSE
