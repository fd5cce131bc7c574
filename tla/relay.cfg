CONSTANTS
    Block = {"g"}
    Genesis = "g"
    Null = "none"
    Prev <- RelayPrev
    BlockTrust <- RelayTrust
    Vtx <- RelayVtx
    Tx <- RelayTx
    Vin <- RelaySpends
    Vout <- RelayVout
    Generated = {"c"}
    Maturity = 1
    Peer = {"honest", "silent"}
    Honest = {"honest"}
    Has <- RelayHas
    Poor = {"f"}
    Big = {"b"}
    HashOrder <- RelayOrder
    MaxOrphans = 2
SPECIFICATION RelaySpec
INVARIANT OrphansConsistent
PROPERTIES OrphansAdopted AnnouncedArrives
CHECK_DEADLOCK FALSE
