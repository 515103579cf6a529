SPECIFICATION FairSpec
CONSTANTS
    Calls = {c1}
    Hosts = {h1, h2}
    NoHost = NoHost
    PollInterval = 2
    PollTimeout = 3
    BackoffUnit = 3
    MaxLag = 1
    ClockBound = 45
INVARIANTS TypeOK EndsInTime WaitsBeforeRetrying AnswerIsTheLastRuns RetriesStayOnOneHost
PROPERTIES EveryCallEnds ImplementsContract
CHECK_DEADLOCK FALSE
