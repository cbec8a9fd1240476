CONSTANTS
    MaxAttempts = 2
    MaxCrashes = 1
    NoDir = NoDir
    TraceFiles = {trace1, trace2}
    ProbeNames = {plain1, plain2, odd}
    OddNames = {odd}
SPECIFICATION FairSpec
CHECK_DEADLOCK FALSE
INVARIANTS
    OldOrNew
    DirectoriesRight
    Fresh
PROPERTIES
    ExchangeEnds
