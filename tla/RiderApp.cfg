SPECIFICATION FairSpec
CONSTANTS
    Rides = {r1, r2}
    NoRide = NoRide
    Drivers = {d1}
    NoDriver = NoDriver
    MaxPresses = 1
    MaxTries = 2
    MaxMoves = 1
    MaxBreaks = 1
    MaxPending = 2
INVARIANT
    OnePressOneRide

    
CHECK_DEADLOCK FALSE
