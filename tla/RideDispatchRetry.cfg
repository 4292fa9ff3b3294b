SPECIFICATION Spec
CONSTANTS
    r1 = r1
    r2 = r2
    alice = alice
    bob = bob
    Rides = {r1}
    RiderOf <- TwoRiders
    Drivers = {d1, d2}
    Dispatchers = {l1, l2}
    Handlers = {h1}
    MaxPasses = 1
    MaxRequests = 2
    Retries = TRUE
    MaxFaults = 1
    CanCrash = TRUE
    SlowOffers = TRUE
    Suspended = {}
    NoDriver = NoDriver
    NoRide = NoRide
SYMMETRY Symmetry
INVARIANTS
    TypeOK
    TripsHaveDrivers
    OnlyOfferedDriverDrives
    
PROPERTIES
    DriverAssignedOnce
    ImplementsLifecycle
CHECK_DEADLOCK FALSE
