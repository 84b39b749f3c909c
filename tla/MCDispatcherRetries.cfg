\* One dispatch whose binary fails, and no client.
CONSTANTS
    Job = {j1}
    Run = {r1}
    NoRun = noRun
    NoJob = noJob
    MaxRetries = 3
    Goroutine = {g1}
    Canceller = {}
    Roller = {}
    Caller = {g1}
    MayFail = FALSE
    MaxRestarts = 0
SPECIFICATION FairSpec
\* A service with no event left to dispatch and no client calling stops.
CHECK_DEADLOCK FALSE
PROPERTIES
    FailedAttemptIsRetried
