\* No action and no property relates two Jobs, so one Job shows them all.
\* MaxRetries is the code's own value.
CONSTANTS
    Job = {j1}
    Run = {r1, r2}
    NoRun = noRun
    MaxRetries = 3
SYMMETRY RunSymmetry
SPECIFICATION Spec
INVARIANTS
    TypeOK
    RetryBudget
    ClosingRecord
    NewsIsTrue
PROPERTIES
    ClosedIsFinal
