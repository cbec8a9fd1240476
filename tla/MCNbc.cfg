CONSTANTS
    MaxCallDepth = 4
    MaxJobs = 2
    Keys = {"SecretKey", "PublicKey"}
    Overridable = {"linear_transform_batch"}
    MathFns <- MCMathFns
    Builtins <- MCBuiltins
    ClientOnly <- MCClientOnly
    FitError <- MCFitError
    NotAnalyzed <- NewAnalyzer
    Analyzed <- Analyze
    Scheduled <- MCScheduled
    Jobs <- MCJobs
    Rebuilds <- MCRebuilds
SPECIFICATION NbcSpec
CHECK_DEADLOCK FALSE
INVARIANTS
    DepthsRight
    DomainsKept
    FitsTheFunction
    OverridesMeant
    OutputsWhole
    ScheduleRuns
    CodeMeansSource
