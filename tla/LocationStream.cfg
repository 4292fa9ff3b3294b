SPECIFICATION Spec
CONSTANTS
    MaxFixes = 3
    MaxBuffered = 1
    BatchSize = 2
    FlushAt = 2
    MaxTroubles = 1
    MaxRestarts = 1
INVARIANTS
    FixAccountedFor
    RouteSurvives
    CopiesExplained

    
CHECK_DEADLOCK FALSE
