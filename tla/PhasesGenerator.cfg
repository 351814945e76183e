SPECIFICATION Spec
CONSTANTS
    Codes = {"base", "src", "gen"}
    BaseCode = "base"
    Generate <- OneGenerator
    MaxAttempts = 1
    MaxTools = 1
    GateRequired = TRUE
    DriftPoints <- Nowhere
    CrashPoints <- Nowhere
    None = None
CHECK_DEADLOCK FALSE
INVARIANTS
    OwnWritesAreNotDrift
