SPECIFICATION FairSpec
CONSTANTS
    Procs = {p1, p2}
    NoProc = NoProc
    Partial = Partial
    MaxArrivals = 1
INVARIANTS
    TypeOK
    OneServer
    PidfileIsWhole
    PidfileNamesServer
    SavesSurvive

    
CHECK_DEADLOCK FALSE
