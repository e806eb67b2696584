\* Queries and ticks are bounded, so the model ends.
SPECIFICATION Spec
CONSTANTS
    r1 = r1
    r2 = r2
    f1 = f1
    f2 = f2
    f3 = f3
    Recorders = {r1, r2}
    Fingerprints = {f1, f2, f3}
    Depth = 2
    Hash <- MCHash
    K = 2
    Kinds <- MCKinds
    MaxQueries = 2
    MaxTicks = 6
    Scale = 1000
SYMMETRY Symmetry
INVARIANTS
    NeverUndercounts
    AlarmsFade
PROPERTIES
    EvictsColdest
CHECK_DEADLOCK FALSE
