SPECIFICATION FairSpec
CONSTANTS
    N = 1
    Probed <- OnlyFirst
    Essential <- OnlyFirst
    MaxRestarts = 2
PROPERTIES
    Restarted
CHECK_DEADLOCK FALSE
