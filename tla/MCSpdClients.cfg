CONSTANTS
    ata = ata
    net = net
    IntrmanLines <- MCIntrmanLines
    SpdLines <- MCSpdLines
    Callbacks <- MCCallbacks
    Drivers <- MCDrivers
    Wants <- OwnLines
    IRQ_IOP_DEV9 = 13
    NoCb = NoCb
    SpdHandler = SpdHandler
    MayFail = FALSE
SPECIFICATION LiveSpec
INVARIANTS GrantedIsCalled CallsOnlyHolders CountMatches Dev9Held MaskedUnlessRequested NoLostSpd
PROPERTIES OwedIsServed
