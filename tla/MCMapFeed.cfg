CONSTANTS
    Incidents = {1, 2}
    Existing = {}
    Scene <- MCScene
    Writers = 2
    LIMIT = 1
    MaxTime = 1
    MaxChanges = 2

SPECIFICATION Spec

INVARIANTS
    TypeOK
    QuietIsCurrent

PROPERTY
    EventuallyShown

CHECK_DEADLOCK FALSE
