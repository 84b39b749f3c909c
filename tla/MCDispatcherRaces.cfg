\* One dispatch against a client that cancels and one that rolls back, with
\* failing storage and bus calls and one restart.
CONSTANTS
    Job = {j1}
    Run = {r1}
    NoRun = noRun
    NoJob = noJob
    MaxRetries = 3
    Goroutine = {g1}
    Canceller = {c1}
    Roller = {b1}
    Caller = {g1, c1, b1}
    MayFail = TRUE
    MaxRestarts = 1
SPECIFICATION FairSpec
\* A service with no event left to dispatch and no client calling stops.
CHECK_DEADLOCK FALSE
INVARIANTS
    DispatcherTypeOK
    CompletionHasResult
    NewsInOrder
    ClosedHasTimestamp
    ListIsAccountedFor
PROPERTIES
    ViewOnlyGrows
    DispatchEnds
