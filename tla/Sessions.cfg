SPECIFICATION Spec
CONSTANTS
    Handlers = {h1, h2}
    Calls = {c1, c2}
    h1 = h1
    h2 = h2
    h3 = h3
    c1 = c1
    c2 = c2
    MaxTokens = 3
    MaxCodes = 2
    MaxGuesses = 2
    MaxAttempts = 1
    MaxFaults = 1
    MaxLaunches = 1
SYMMETRY Symmetry
INVARIANTS
    TypeOK
    KeepsSession
    LeftBehindBounded
    
PROPERTIES
    OnlySignOutEndsSession
    
CHECK_DEADLOCK FALSE
