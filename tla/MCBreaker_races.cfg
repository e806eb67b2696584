CONSTANTS
    r1 = r1
    r2 = r2
    p1 = p1
    Requests <- MCRequests2
    Probes <- MCProbes
    FailureThreshold = 2
    SuccessThreshold = 2
    OpenTimeout = 1
    UseHealthMonitor = TRUE
    ProbeThreshold = 2
    MaxStall = 1
    U64 = 1000
SPECIFICATION LiveSpec
INVARIANTS TimestampCovers NoMissedTrip
PROPERTY Recovers
