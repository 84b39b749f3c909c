\* One branch, nothing fails.
CONSTANTS
    b1 = b1
    b2 = b2
    Feature = {b1}
    Main = main
    NoBranch = noBranch
    Listings <- OnlyOne
    Tasks <- OneTask
    MaxCommits = 2
    MaxCompiles = 1
    MaxFaults = 0
    m1 = m1
    m2 = m2
    Merger = {m1}
    MaxMerges = 1
SPECIFICATION Spec
\* When the bounds are used up nothing is left to do.
CHECK_DEADLOCK FALSE
INVARIANTS
    MainIsAnalysed
