CONSTANTS
    t1 = t1
    t2 = t2
    Irq = Irq
    None = None
    Junk = Junk
    Threads <- MCThreads
    Sizes <- MCSizes
    Ids <- MCIds
    DmaMax = 2
SPECIFICATION LiveSpec
INVARIANTS PacketsValid
PROPERTIES SendsIntact SendsReturn
