SPECIFICATION RcSpec
CONSTANTS
    Tasks <- ServiceAndGenerator
    Paths = {"x"}
    Present = {"x"}
    MaxTrouble = 1
    MaxStrays = 0
INVARIANT LeavesAsFound
CHECK_DEADLOCK FALSE
