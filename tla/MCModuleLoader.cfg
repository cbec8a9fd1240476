CONSTANTS
    A = A
    B = B
    C = C
    R = R
    NoModule = NoModule
    NoScheme = NoScheme
    Worlds <- MCWorlds
    Names = {A, B, C, R}
SPECIFICATION FairSpec
CHECK_DEADLOCK FALSE
INVARIANTS
    LoadsWellFormed
    DependenciesFirst
    MergedWhole
PROPERTIES
    Ends
