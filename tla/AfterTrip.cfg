SPECIFICATION Spec
CONSTANTS
    Calls = {c1, c2}
    Stars = {1, 5}
    Names = {"recipient", "neighbour"}
    MaxPresses = 2
    MaxTries = 2
    MaxFaults = 1
    MaxAlerts = 1
SYMMETRY Symmetry
INVARIANTS
    RatingsAddUp
    
PROPERTIES
    ConfirmationStands
    ResolvedStays
CHECK_DEADLOCK FALSE
