SPECIFICATION Spec
CONSTANTS
    Workers = {w1, w2}
    Producers = {p1, p2}
    LeafBatch = 2
    BatchSize = 3
    MaxInFlight = 0
    Submitters = 2
    MaxId = 4
    MaxCloses = 1
    NoId = NoId
INVARIANTS NoOrphan NoSleepOnAnswer SubmitterWakeExact
PROPERTIES AnsweredOnce
SYMMETRY Symmetry
