\* Two branches, of which the first may not exist, two compilations and three merges
\* by two processes, at once or one after the other, and one failing call.
CONSTANTS
    b1 = b1
    b2 = b2
    Feature = {b1, b2}
    Main = main
    NoBranch = noBranch
    Listings <- BothOrNot
    Tasks <- ThreeTasks
    MaxCommits = 2
    MaxCompiles = 2
    MaxFaults = 1
    m1 = m1
    m2 = m2
    Merger = {m1, m2}
    MaxMerges = 3
SYMMETRY MergersAlike
SPECIFICATION Spec
\* When the bounds are used up nothing is left to do.
CHECK_DEADLOCK FALSE
INVARIANTS
    TypeOK
    VerdictOnDeclaredTree
    MergedBranchWasClean
    RepeatedMergeHasReason
