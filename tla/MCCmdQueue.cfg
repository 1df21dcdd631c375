SPECIFICATION Spec
CONSTANTS
    Clients = {c1, c2}
    Devices = {d1, d2}
    NoDev = NoDev
    QLen = 2
    TagMod = 2
    LongCmds = {}
    MaxCmds = 3
    MaxDrops = 0
SYMMETRY Symmetry
INVARIANTS
    EntryIsOwn
    
    AcceptedTagIsOwn
PROPERTIES
    OnlyHolderClears
    ImplementsPool
CHECK_DEADLOCK FALSE
