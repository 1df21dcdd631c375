SPECIFICATION Spec
CONSTANTS
    Procs = {p1, p2}
    NoProc = NoProc
    Partial = Partial
    MaxArrivals = 1
INVARIANT
    OneInstance
CHECK_DEADLOCK FALSE
