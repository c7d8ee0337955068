SPECIFICATION WifiSpec
CONSTANTS
    r1 = r1
    u1 = u1
    u2 = u2
    None = None
    Reports <- MCReports
    Users <- MCUsers
    Logins <- MCLogins
    MaxFaults = 1
INVARIANTS
    TypeOK
    SyncedMeansDelivered
    NoReportLost
PROPERTIES
    EventuallySettled
CHECK_DEADLOCK FALSE
