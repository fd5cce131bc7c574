CONSTANTS
    Genesis = "g"
    Null = "none"
    Block <- ForkBlock
    Prev <- ForkPrev
    BlockTrust <- ForkTrust
    Vtx <- ForkVtx
    Tx <- ForkTx
    Vin <- ForkVin
    Vout <- ForkVout
    Generated <- ForkBlock
    Maturity = 1
    Time <- ForkTime
    Stake <- OneStake
    CheckpointSpan = 2
    MaxOrphanBlocks = 1
    BadContext = {"a2"}
    BadConnect = {"c3"}
    Claim <- ForkClaim
    Subsidy <- ForkSubsidy
    WrongPayee = {"b2"}
    Lockable <- ForkLocks
    Future = {"a1"}
    MaxCrashes = 2
SPECIFICATION Spec
INVARIANTS StakeMarksBacked LinksMirrored IndexedBlocksStored UnbootableOnlyAtGenesis
PROPERTY ImplementsTip
CHECK_DEADLOCK FALSE
