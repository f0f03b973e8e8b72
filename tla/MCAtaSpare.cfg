CONSTANTS
    BufSize = 4
    AlignTo = 2
    MaxSg = 4
    BounceSizes <- MCBounceSizes
    Lists <- MCLists
    MaxLists = 2
    Memory <- MCMemory
SPECIFICATION Spec
INVARIANTS AnsweredIsProcessed
