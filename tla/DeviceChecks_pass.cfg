SPECIFICATION FairSpec
CONSTANTS
    MaxChecks = 2
    MaxAttempts = 2
    Text = Text
    Other = Other
    None = None
INVARIANTS
    PassVouches
    OneCallAtATime
    VerdictCoversAll
PROPERTY
    EveryVerificationEnds
CHECK_DEADLOCK FALSE
