SPECIFICATION Spec
CONSTANTS
    Workers = {w1, w2, w3}
    Moves <- MovesMC
    Payouts = {1, 3}
    BaseCeiling = 3
    Headroom = 1
    MaxCeiling = 5
    MaxJobs = 6
    MaxFaults = 1
SYMMETRY Symmetry
INVARIANTS CachedWasReal
PROPERTIES ImplementsLedger
CHECK_DEADLOCK FALSE
