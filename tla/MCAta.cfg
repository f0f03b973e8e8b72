CONSTANTS
    BufSize = 4
    AlignTo = 2
    MaxSg = 3
    BounceSizes <- MCBounceSizes
    Lists <- MCLists
    MaxLists = 2
    Memory <- MCMemory
SPECIFICATION MCSpec
INVARIANTS ReadsComplete BounceFits AcksAreExact
PROPERTIES ListIsAcked ThreadMovesNothing
