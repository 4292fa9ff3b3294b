SPECIFICATION Spec
CONSTANTS
    r1 = r1
    r2 = r2
    alice = alice
    bob = bob
    Rides = {r1, r2}
    RiderOf <- TwoRiders
    Drivers = {d1}
    Dispatchers = {l1, l2}
    Handlers = {h1}
    MaxPasses = 2
    MaxRequests = 2
    Retries = FALSE
    MaxFaults = 1
    CanCrash = TRUE
    SlowOffers = FALSE
    Suspended = {d1}
    NoDriver = NoDriver
    NoRide = NoRide
SYMMETRY Symmetry
INVARIANTS
    OfferExclusive
    
    OpenOfferAttended
CHECK_DEADLOCK FALSE
