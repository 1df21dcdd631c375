SPECIFICATION FairSpec
CONSTANTS
    MaxClients = 2
    MaxFds = 3
    MaxConns = 4
    Devices = {d1}
    NoDev = NoDev
    Addrs = {a1, a2}
INVARIANTS
    TypeOK
    CountIsExact
    SocketIsOwn
    NoDescriptorLost
PROPERTIES
    SlotHandedOver
    
CHECK_DEADLOCK FALSE
