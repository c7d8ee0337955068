CONSTANTS
    p1 = p1
    p2 = p2
    Events <- MCEvents
    DurableEvents <- MCDurableEvents
    Pollers <- MCPollers
    Tokens <- MCTokens
    NoToken = NoToken
    NoEvent = NoEvent
    BATCH_SIZE = 2
    MaxFaults = 3

SPECIFICATION Spec

INVARIANTS
    TypeOK
    NoEventLost
    AtMostOneCopyPerFault

PROPERTIES
    LiveClaimIsExclusive
    EveryRowSettled
    ImplementsHandoff
