CONSTANTS
    Regimes <- Usual
    MaxGame = 3
    MaxEmu = 3
    MaxBaks = 4
SPECIFICATION EmulatorSpec
CHECK_DEADLOCK FALSE
INVARIANTS
    
    OriginalKept
