SPECIFICATION Spec
CONSTANTS
    Codes = {"base", "src"}
    BaseCode = "base"
    Generate <- NoGenerator
    MaxAttempts = 2
    MaxTools = 1
    GateRequired = TRUE
    DriftPoints <- OutsideWindows
    CrashPoints <- AllPoints
    None = None
CHECK_DEADLOCK FALSE
INVARIANTS
    TypeInv
    CommittedIsVerified
    CommittedIsApproved
PROPERTIES
    BudgetsNeverRewind
    FinalCandidateIsFixed
