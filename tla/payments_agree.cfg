CONSTANTS
    Node = {"master", "other"}
    Signer = "master"
    Masternode = {"m1", "m2"}
    Steady = {"m1", "m2"}
    NoVin = "none"
    Fork = {"a"}
    ForkHeight = 2
    FirstTip = 2
    MaxHeight = 4
    MaxDrop = 1
    MaxSide = 1
    MaxAway = 1
    Lag = 1
    Ahead = 1
    Behind = 1
    Beyond = 1
    KeepPaid = 2
    Score <- MCScore
SPECIFICATION PaySpec
INVARIANT FurthestPaidByAll
CHECK_DEADLOCK FALSE
