SPECIFICATION Spec
CONSTANTS
    c1 = c1
    c2 = c2
    c3 = c3
    Clients = {c1, c2, c3}
    Denom <- Denoms
    MaxTx = 2
    MaxAttempts <- Attempts
INVARIANTS  SignaturesAreCurrent
PROPERTY SessionsEnd
CHECK_DEADLOCK FALSE
