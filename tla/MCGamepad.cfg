CONSTANTS
    Pads <- MCPads
    Buttons <- MCButtons
    Zero = 0
    StaleIrq = TRUE
    MayFail = TRUE
SPECIFICATION LiveSpec
INVARIANTS OneEventDue RxAfterTransfer
PROPERTIES PollsForever LastingIsTold
