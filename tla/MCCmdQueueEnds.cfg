SPECIFICATION FairSpec
CONSTANTS
    Clients = {c1, c2}
    Devices = {d1, d2}
    NoDev = NoDev
    QLen = 1
    TagMod = 2
    LongCmds = {2}
    MaxCmds = 3
    MaxDrops = 1
INVARIANTS
    TypeOK

    
CHECK_DEADLOCK FALSE
