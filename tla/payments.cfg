CONSTANTS
    Node = {"master", "other"}
    Signer = "master"
    Masternode = {"m1", "m2"}
    Steady = {"m1"}
    NoVin = "none"
    Fork = {"a", "b"}
    ForkHeight = 2
    FirstTip = 2
    MaxHeight = 8
    MaxDrop = 1
    MaxSide = 2
    MaxAway = 1
    Lag = 1
    Ahead = 1
    Behind = 1
    Beyond = 1
    KeepPaid = 2
    Score <- MCScore
SPECIFICATION PaySpec
CONSTRAINT Explored
INVARIANTS WinnersSound NoneStarves
CHECK_DEADLOCK FALSE
