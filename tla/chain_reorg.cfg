CONSTANTS
    Genesis = "g"
    Null = "none"
    Block <- WideBlock
    Prev <- WidePrev
    BlockTrust <- WideTrust
    Vtx <- WideVtx
    Tx <- WideTx
    Vin <- WideVin
    Vout <- WideVout
    Generated <- WideBlock
    Maturity = 1
    Time <- WideTime
    Stake <- WideStake
    CheckpointSpan = 9
    MaxOrphanBlocks = 2
    BadContext = {}
    BadConnect = {}
    Claim <- NoClaim
    Subsidy <- FlatSubsidy
    WrongPayee = {}
    Lockable = {}
    Future = {}
    MaxCrashes = 0
SPECIFICATION FairSpec
INVARIANTS TypeOK LinksFollowBestChain TipIsMostTrusted HoldingAreaSound
PROPERTIES TrustGrows ImplementsLedger ReachesBestChain
CHECK_DEADLOCK FALSE
