SPECIFICATION FairSpec
CONSTANTS
    MaxSteps = 3
    MaxTools = 4
    MaxVerify = 1
    MaxInvalid = 1
    MaxCalls = 2
    Batches <- SomeBatches
    Trees <- TwoTrees
    FirstTree = "a"
    MaxFaults = 3
    MaxDrifts = 1
    None = None
INVARIANTS
    TypeInv
    EveryCallAnswered
    WithinBudget
    RefusedForCause
PROPERTIES
    KeepsSession
    AttemptEnds
CHECK_DEADLOCK FALSE
