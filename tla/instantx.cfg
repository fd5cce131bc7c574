SPECIFICATION IXSpec
CONSTANTS
    Tx <- TwoTx
    Outpoint <- TwoOut
    NoTx = "none"
    Vin <- TwoVin
    Masternode <- TwoMN
    Me = "m2"
    Height <- OneHeight
    Elected <- ElectedTwo
    Required = 2
    Expiration = 1
    VoteWindow = 1
    MaxTime = 3
CONSTRAINT Explored
INVARIANTS VotesDistinct CompleteMeansQuorum
PROPERTY NeverHandedOver
CHECK_DEADLOCK FALSE
