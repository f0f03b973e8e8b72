CONSTANTS
    IntrmanLines <- MCIntrmanLines
    SpdLines <- OneSpdLine
    Slots <- MCSlots
    Callbacks <- MCCallbacks
    RpcIrqs <- LiveRpcIrqs
    RpcMaps <- LiveRpcMaps
    IRQ_IOP_DEV9 = 13
    NoCb = NoCb
    SpdHandler = SpdHandler
    Foreign = Foreign
    MayFail = FALSE
SPECIFICATION LiveSpec
INVARIANTS HandlerSound SlotActive
PROPERTIES DueIsTold RelayFollowsMap FailedRpcChangesNothing
