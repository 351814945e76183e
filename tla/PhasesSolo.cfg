SPECIFICATION FairSpec
CONSTANTS
    Codes = {"base", "src", "gen"}
    BaseCode = "base"
    Generate <- OneGenerator
    MaxAttempts = 2
    MaxTools = 1
    GateRequired = TRUE
    DriftPoints <- Nowhere
    CrashPoints <- AllPoints
    None = None
CHECK_DEADLOCK FALSE
INVARIANTS
    CommittedIsReviewed
    TranscriptFollowsTree
PROPERTIES
    RunReturns
