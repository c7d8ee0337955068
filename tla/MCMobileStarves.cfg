SPECIFICATION ConnectedSpec
CONSTANTS
    r1 = r1
    u1 = u1
    u2 = u2
    None = None
    Reports <- MCReports
    Users <- MCUsers
    Logins <- MCOneLogin
    MaxFaults = 0
PROPERTIES
    TriedWhenConnected
CHECK_DEADLOCK FALSE
