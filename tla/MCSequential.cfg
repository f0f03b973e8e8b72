CONSTANTS
    Texts <- MCTexts
    MaxLoads = 10
    Quotient = Quotient
    Remainder = Remainder
    Idle = Idle
    Untouched = Untouched
    NUL = NUL
    NULL = NULL
    Bits <- MCBits
    TypeBits <- MCTypeBits
    PointerBits = 6
    Room = 24
    Calls <- MCCalls
SPECIFICATION MCSpec
INVARIANTS TokenIsRight BufferIsPrefix DivisionIsExact
           ExitLeavesNothing ImportsStay UsesAreCounted
PROPERTIES SkipsBlanksOnly ValidTextEnds IntegersRead
CHECK_DEADLOCK FALSE
