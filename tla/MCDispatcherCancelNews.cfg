\* One dispatch and one client that rolls its run back.
CONSTANTS
    Job = {j1}
    Run = {r1}
    NoRun = noRun
    NoJob = noJob
    MaxRetries = 3
    Goroutine = {g1}
    Canceller = {}
    Roller = {b1}
    Caller = {g1, b1}
    MayFail = FALSE
    MaxRestarts = 0
SPECIFICATION DispatcherSpec
\* A service with no event left to dispatch and no client calling stops.
CHECK_DEADLOCK FALSE
INVARIANTS
    CancelledNewsIsTerminal
