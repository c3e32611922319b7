SPECIFICATION Spec
CONSTANTS
    StopStep = 5
    Interval = 2
    EvalInterval = 2
    GateInterval = 1
    Consec = 2
    MinStep = 2
    RatioNum = 3
    RatioDen = 2
    Ramps = {TRUE, FALSE}
    MaxBurst = 2
    MinBuf = 1
    Capacity = 2
    MaxGames = 2
    MaxRefused = 1
    MaxLaunches = 2
INVARIANTS ExitTruthful RoundsOnce AbortWindow 
CHECK_DEADLOCK FALSE
