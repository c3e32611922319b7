CONSTANTS
    Capacities = {2, 3}
    Preloads <- MCPreloads
    MaxGames = 3
    MaxBatch = 2
    MaxRows = 4
    MaxLaunches = 3
SPECIFICATION Spec
INVARIANTS
    RowsGroupByGame HistogramExact SamplerSeesTheRing
PROPERTY KeepsNewestInOrder
CHECK_DEADLOCK FALSE
