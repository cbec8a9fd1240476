CONSTANTS
    Main = Main
    None = None
    Workers = {w1, w2}
    Clients = {c1, c2}
    MaxSignals = 3
    Asserts = TRUE
CHECK_DEADLOCK FALSE
SPECIFICATION FairSpec
INVARIANTS
    Drains
PROPERTIES
    StopEnds
    HandlerReturns
