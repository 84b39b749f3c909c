\* One caller and two Jobs: every sequence of calls, with failing storage and bus
\* calls, so that one can end a rollback between two Jobs.  One failure of a Job is
\* retried, the second one is its last.
CONSTANTS
    Job = {j1, j2}
    Run = {r1}
    NoRun = noRun
    NoJob = noJob
    MaxRetries = 2
    Caller = {c1}
    MayFail = TRUE
SYMMETRY ManagerSymmetry
CONSTRAINT OneFails
SPECIFICATION Spec
INVARIANTS
    SlicesTellTheTruth
    RollbackIsComplete
PROPERTIES
    LifecycleSpec
