CONSTANTS
    ata = ata
    dev9 = dev9
    loadcore = loadcore
    start = start
    stop = stop
    reset = reset
    boot = boot
    Idle = Idle
    NoName = NoName
    None = None
    _init_module = _init_module
    Other = Other
    Missing = Missing
    Earlier = Earlier
    Partial = Partial
    Absent = Absent
    Long = {loadcore}
    Names <- MCNames
    Declarations <- MCDeclarations
    CommandLines <- MCCommandLines
    InfoCommandLines <- MCInfoCommandLines
    MaxDeclarations = 5
    Headers <- MCHeaders
    Alphabet <- MCAlphabet
    Blocks = 7
    MinGrow = 2
    MaxGrow = 3
SPECIFICATION MCSpec
INVARIANTS OutputIsWhole DeclaredIsListed ExportSlotIsIndex InfoIsRight MadeIsWhole NulFits
CHECK_DEADLOCK FALSE
