SPECIFICATION Spec
CONSTANTS
    t1 = t1
    Procs = {p1, p2}
    Tasks <- OneTask
    Phased <- OneTask
    Deps <- NoOrder
    TTL = 2
    None = None
PROPERTIES
    AcceptedIsFinal
CHECK_DEADLOCK FALSE
