CONSTANTS
    MaxSpawns = 2
    MaxLaunches = 2
    MaxFailures = 1
SPECIFICATION FairSpec
INVARIANTS
    RoutedOnce NoUnjudgedPromotion VerdictKept IncumbentIsLastApplied
PROPERTY RoundSettles
CHECK_DEADLOCK FALSE
