CONSTANTS
    Requests = {t1, t2}
    PipeCapacity = 2
    MaxOutput = 3
    Statuses = {0, 1}
    Killed = 137
    AutoReap = FALSE
SPECIFICATION CaptureFairSpec
CHECK_DEADLOCK FALSE
INVARIANTS
    ReturnsRight
    PipesRight
PROPERTIES
    Returns
