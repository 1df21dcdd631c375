SPECIFICATION Spec
CONSTANTS
    Clients = {c1, c2}
    Devices = {d1, d2}
    NoDev = NoDev
    QLen = 2
    TagMod = 2
    LongCmds = {}
    MaxCmds = 2
    MaxDrops = 0
INVARIANTS
    OkReplyIsOwn
CHECK_DEADLOCK FALSE
