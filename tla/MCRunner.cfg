SPECIFICATION FairSpec
CONSTANTS
    Workers = {w1, w2}
    MaxMoves = 2
    Batches = 2
    Cap = 2
    RecentCap = 3
    MaxGames = 1
    Faults = {"server", "defect", "panic", "refuse"}
    Free = Free
INVARIANTS NoTornGameTrains HaltAttributed CleanStopNotLatched NoCutGameExported
PROPERTIES RunnerSettles
CHECK_DEADLOCK FALSE
