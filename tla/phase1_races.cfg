SPECIFICATION FairSpec
CONSTANTS
    a1 = a1
    o1 = o1
    w1 = w1
    w2 = w2
    Api <- OneApi
    Workers <- TwoWorkers
    Others <- OneOther
    NSteps = 3
    Covered <- MiddleStep
    MaxRuns = 1
    MaxReceive = 2
INVARIANTS TypeOK DecisionRestsOnSteps
PROPERTIES DoneStepsStay MessageLeaves RefinesJobQueue
CHECK_DEADLOCK FALSE
