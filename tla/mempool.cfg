CONSTANTS
    Block = {"g"}
    Genesis = "g"
    Null = "none"
    Prev <- PoolPrev
    BlockTrust <- PoolTrust
    Vtx <- PoolVtx
    Tx <- PoolTx
    Vin <- PoolSpends
    Vout <- PoolVout
    Generated = {"c"}
    Maturity = 1
SPECIFICATION PoolSpec
INVARIANT NextTxExact
PROPERTY ConflictsLeaveNoChild
