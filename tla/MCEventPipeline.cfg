CONSTANTS
    p1 = p1
    p2 = p2
    Events <- MCEvents
    DurableEvents <- MCEvents
    Pollers <- MCPollers
    Tokens <- MCTokens
    NoToken = NoToken
    NoEvent = NoEvent
    BATCH_SIZE = 2
    MaxFaults = 1
    Malformed = {}
    Users = {u1}
    Nearby <- MCNearby
    Zone <- MCZone
    Severity <- MCSeverity
    Workers = {w1}
    NoMessage = NoMessage
    MAX_RETRIES = 1
    MaxCrashes = 0

SPECIFICATION Pipeline

INVARIANTS
    NoIncidentForgotten
    NoPhantomAlerts

PROPERTIES
    ImplementsDelivery
    EveryIncidentSettled
