CONSTANTS
    BufSize = 4
    AlignTo = 2
    MaxSg = 2
    BounceSizes <- MCBounceSizes
    Lists <- MCFullLists
    MaxLists = 2
    Memory <- MCMemory
SPECIFICATION Spec
INVARIANTS MovesAreRequested
