CONSTANTS
    IntrmanLines <- MCIntrmanLines
    SpdLines <- TwoSpdLines
    Slots <- MCSlots
    Callbacks <- MCCallbacks
    RpcIrqs <- AllRpcIrqs
    RpcMaps <- OneRpcMap
    IRQ_IOP_DEV9 = 13
    NoCb = NoCb
    SpdHandler = SpdHandler
    Foreign = Foreign
    MayFail = TRUE
SPECIFICATION Spec
INVARIANTS IInv
