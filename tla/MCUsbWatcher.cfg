SPECIFICATION FairSpec
CONSTANTS
    NumUsb = 2
    MaxTries = 2
    MaxMoves = 3
INVARIANTS
    TypeOK
    LastPlugWins
    CalmStatusIsTrue
PROPERTIES
    CancelHasThread
    
CHECK_DEADLOCK FALSE
