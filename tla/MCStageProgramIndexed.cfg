CONSTANTS
    Stages <- MCStages
    Words <- MCWords
    Numeral <- MCNumeral
    MaxNumber = 9
    Insts = {1}
    Batches = {1, 2}
    Params = {1, 2}
    MaxRuns = 3
    MaxInputs = 2
SPECIFICATION Spec
CHECK_DEADLOCK FALSE
INVARIANT IndexedLoadsBack
