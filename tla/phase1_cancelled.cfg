SPECIFICATION FairSpec
CONSTANTS
    a1 = a1
    o1 = o1
    w1 = w1
    w2 = w2
    Api <- OneWorker
    Workers <- OneWorker
    Others <- OneWorker
    NSteps = 3
    Covered <- MiddleStep
    MaxRuns = 2
    MaxReceive = 2
PROPERTY CancelledStays
CHECK_DEADLOCK FALSE
