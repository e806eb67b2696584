CONSTANTS
    c1 = c1
    c2 = c2
    c3 = c3
    d1 = d1
    Conns <- MCConns3
    NoConn = NoConn
    Outside = Outside
    Databases <- MCDatabases1
    Admin = Admin
    Unknown = Unknown
    MaxConnections = 2
SPECIFICATION LiveSpec
INVARIANTS CountIsExact NoStaleEntry DrainedMeansGone
PROPERTIES KillsOnlyMatching ShutdownEnds
CHECK_DEADLOCK FALSE
