SPECIFICATION ServedSpec
CONSTANTS
    Workers = {w1, w2}
    Producers = {p1}
    LeafBatch = 2
    BatchSize = 3
    MaxInFlight = 4
    Submitters = 0
    MaxId = 3
    MaxCloses = 2
    NoId = NoId
PROPERTIES BlockedReturns
