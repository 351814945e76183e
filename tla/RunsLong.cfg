SPECIFICATION Spec
CONSTANTS
    t1 = t1
    Procs = {p1, p2}
    Tasks <- OneTask
    Phased <- OneTask
    Deps <- NoOrder
    TTL = 1
    None = None
INVARIANTS
    OneWriter
CHECK_DEADLOCK FALSE
