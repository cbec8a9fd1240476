CONSTANTS
    Paths = {file}
    Stems = {out1, out2}
    MaxSteps = 6
    MaxRuns = 3
SPECIFICATION Spec
CHECK_DEADLOCK FALSE
INVARIANTS
    OutputsCorrect
    SameTags
