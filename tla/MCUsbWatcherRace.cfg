SPECIFICATION Spec
CONSTANTS
    NumUsb = 2
    MaxTries = 1
    MaxMoves = 3
INVARIANT
    RaceEffectsAreTemporary
CHECK_DEADLOCK FALSE
