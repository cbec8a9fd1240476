CONSTANTS
    None = None
    Nothing = Nothing
    Worker = "worker"
    Ticket = "ticket"
    Stem = "p"
    MaxRuns = 2
    MaxChanges = 3
    Wait = 1
    MaxWait = 2
    Names <- MCNames
    CommandLines <- MCCommandLines
    Initial <- MCInitial
    Callers <- MCCallers
    Default <- Local
    Replies <- MCReplies
    Stuck <- MCStuck
    Suspects <- MCSuspects
SPECIFICATION FairSpec
CHECK_DEADLOCK FALSE
INVARIANTS
    ReadsOwnConfig
PROPERTIES
    VerdictRight
    SubmitDelivers
    ProvisionEnds
