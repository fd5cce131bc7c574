CONSTANTS
    Addr = {a1, a2, a3, a4}
    Source = {1, 2, 3}
    NewBucket = {1, 2, 3}
    TriedBucket = {"k"}
    GetNewBucket <- BySource
    GetTriedBucket <- OneBucket
    NewBucketSize = 1
    TriedBucketSize = 2
    BucketsPerAddress = 2
    InspectOnEvict = 2
    Times = {1}
SYMMETRY Symmetry
SPECIFICATION AddrSpec
INVARIANT TablesConsistent
PROPERTIES TriedNeverDeleted RestartKeepsTables
