CONSTANTS
    Launchers = {"direct", "wrapped"}
    MaxRelaunches = 1
    MaxSeq = 1
SPECIFICATION SupervisionFairSpec
INVARIANTS  CleanFinishNotRelaunched DirectRunDiesToo
PROPERTIES NothingHangs
CHECK_DEADLOCK FALSE
