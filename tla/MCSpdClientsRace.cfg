CONSTANTS
    ata = ata
    net = net
    IntrmanLines <- MCIntrmanLines
    SpdLines <- MCSpdLines
    Callbacks <- MCCallbacks
    Drivers <- MCDrivers
    Wants <- SameLine
    IRQ_IOP_DEV9 = 13
    NoCb = NoCb
    SpdHandler = SpdHandler
    MayFail = FALSE
SPECIFICATION Spec
INVARIANTS GrantedIsCalled
