CONSTANTS
    Paths = {file}
    Stems = {out1, out2}
    MaxSteps = 5
    MaxRuns = 2
SPECIFICATION Spec
CHECK_DEADLOCK FALSE
INVARIANT SubstitutedWerePut
