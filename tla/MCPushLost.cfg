CONSTANTS
    e1 = e1
    e2 = e2
    w1 = w1
    w2 = w2
    Events = {e1, e2}
    Malformed = {}
    Users = {u1}
    Nearby <- MCNearby
    Zone <- MCOther
    Severity <- MCEqual
    Workers = {w1}
    NoMessage = NoMessage
    MAX_RETRIES = 1
    MaxCopies = 1
    MaxCrashes = 0

SPECIFICATION Spec

INVARIANTS
    PushSurvivesRetry

\* All messages processed and the queues empty: the system waits for events.
CHECK_DEADLOCK FALSE
