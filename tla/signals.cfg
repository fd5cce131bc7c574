CONSTANTS
    Ip = {1, 2, 3, 4, 5, 6, 7}
    Offset <- MCOffsets
    FilterSize = 6
    MinSamples = 3
    MaxAdjust = 3
    Near = 2
    Alert <- MCAlerts
    MaxId = 9
    Never = 99
    AlertPeer = {"p"}
    MaxClock = 3
    SporkNode = {"x", "y"}
    Spork <- MCSporks
    MaxAsks = 1
SPECIFICATION SignalsSpec
CONSTRAINT Explored
INVARIANTS TimeSound AlertsSound
PROPERTIES SupersededStaysOut SporksSpread
CHECK_DEADLOCK FALSE
