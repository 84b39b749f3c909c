\* One pipeline started and two next-task processes at once, with one failing
\* call.  A task of another agency is any number that is not a task's.
CONSTANTS
    Starter = {s1}
    Run = {r1}
    NoRun = noRun
    PayloadBudgets <- Pins
    AgencyBudgets <- Agencies
    EnvBudgets <- Environments
    MaxFaults = 1
    T = 3
    Elsewhere = 9
    Plans <- TwoPlans
    k1 = k1
    k2 = k2
    Selector = {k1, k2}
    MaxSelections = 2
SYMMETRY SelectorsAlike
SPECIFICATION Spec
\* When the bounds are used up nothing is left to do.
CHECK_DEADLOCK FALSE
INVARIANTS
    TypeOK
    HandoverIsAnnounced
    NoSilentOrphan
    
    AssignedIsUnblocked
    FirstRunnableIsSelected
    RunTakesOpenTasks
