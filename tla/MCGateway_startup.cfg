\* The two connections are not alike: c2 may be a console.
SPECIFICATION LiveSpec
CONSTANTS
    c1 = c1
    c2 = c2
    d1 = d1
    b0 = b0
    star = star
    console = console
    u1 = u1
    p1 = p1
    p2 = p2
    Absent = Absent
    Malformed = Malformed
    Users = {u1}
    Passwords = {p1, p2}
    Conns = {c1, c2}
    Databases = {d1}
    SizeOverride <- MCSizeOverride
    DefaultName = b0
    Star = star
    AdminDatabase = console
    Asks <- MCAsks
    Sources <- MCSources
    Lists <- MCLists
    MaxEdits = 1
INVARIANTS
    AdmittedAsConfigured
    NoDeadArm
    ShowsTruth
PROPERTIES
    SeesGreeting
    PauseHolds
    StartupEnds
CHECK_DEADLOCK FALSE
