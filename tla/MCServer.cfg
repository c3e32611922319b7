SPECIFICATION FairSpec
CONSTANTS
    MaxPops = 3
    PartsPerPop = 2
    PipelineDepth = 2
    CheckDepth = 2
    End = End
    Idle = Idle
INVARIANTS AtMostOneServedAfterFinding CheckAccounted
PROPERTIES ServerSettles
CHECK_DEADLOCK FALSE
