CONSTANTS
    Cells = {1, 2, 3, 4, 5}
    Origin = 1
    Lines = {{2, 3}, {1, 4}}
    Prior <- MCPrior
    Net <- MCNet
    Verdict <- MCVerdict
    MaxChildren = 2
    Openings <- MCOpenings
    GameSims = {1, 4}
    TurnSims = {1, 4, 6}
    Proof <- MCProof
    LeafBatch = 2
    Margin = 4
SPECIFICATION FairSpec
INVARIANTS PenaltyIsPending TreeIsWhole 
PROPERTIES TurnAllOrNothing TurnEnds
CHECK_DEADLOCK FALSE
