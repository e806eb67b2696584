CONSTANTS
    n1 = n1
    n2 = n2
    Names <- MCNames
    Repertoires <- MCRepertoires
    Modes = {"Transaction", "Hybrid"}
    MaxPrepared = 1
    MaxHeld = 2
SPECIFICATION Spec
INVARIANTS LruAgrees
PROPERTY ReleasedClean
