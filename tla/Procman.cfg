SPECIFICATION FairSpec
CONSTANTS
    N = 2
    Probed <- OnlyFirst
    Essential <- OnlyFirst
    MaxRestarts = 2
INVARIANTS
    TypeInv
    NoneLeftBehind
    ReadyIsServing
PROPERTIES
    LoopsEnd
    RestartedOnceReady
CHECK_DEADLOCK FALSE
