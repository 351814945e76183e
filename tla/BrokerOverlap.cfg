SPECIFICATION Spec
CONSTANTS
    Askers = {a1}
    Deciders = {d1}
    Candidates = {"A"}
    Kinds <- ScopeOnly
    Policy <- DefaultPolicy
    MaxOps = 2
INVARIANTS
    AnswersStand
