SPECIFICATION Spec
CONSTANTS
    MaxClients = 2
    MaxFds = 3
    MaxConns = 3
    Devices = {d1}
    NoDev = NoDev
    Addrs = {a1}
INVARIANT
    CommandReachesTarget
CHECK_DEADLOCK FALSE
