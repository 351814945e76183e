SPECIFICATION Spec
CONSTANTS
    Codes = {"base", "src", "gen"}
    BaseCode = "base"
    Generate <- NoGenerator
    MaxAttempts = 1
    MaxTools = 1
    GateRequired = TRUE
    DriftPoints <- Boundaries
    CrashPoints <- Nowhere
    None = None
CHECK_DEADLOCK FALSE
INVARIANTS
    CommittedIsReviewed
