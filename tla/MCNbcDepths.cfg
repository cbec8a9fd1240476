CONSTANTS
    MaxCallDepth = 4
    MaxJobs = 1
    Keys = {"SecretKey", "PublicKey"}
    Overridable = {"linear_transform_batch"}
    MathFns <- MCMathFns
    Builtins <- MCBuiltins
    ClientOnly <- MCClientOnly
    FitError <- MCFitError
    NotAnalyzed <- NewAnalyzer
    Analyzed <- Analyze
    Scheduled <- MCScheduled
    Jobs <- Circuits
    Rebuilds <- MCRebuilds
SPECIFICATION NbcSpec
CHECK_DEADLOCK FALSE
INVARIANTS
    DepthAsDocumented
