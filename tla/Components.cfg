SPECIFICATION Spec
CHECK_DEADLOCK FALSE
INVARIANTS
    GatesTyped
    ApprovalIsAPersons
    JournalledFirst
    ClosedAsGiven
    LeaseIsHeld
    OneWriterInTime
    SchemasSound
    StaleIsExplained
    LiveLayerServes
    OneModel
    PlacesKept
    AcceptedOnEvidence
    NotesKept
    DecidedOnEvidence
    ImpactIsWhole
    LeftIsReported
    AcceptedIsChecked
    
    PrefixFrozen
    ConsumersArrive
PROPERTIES
    WorkIsKept
