SPECIFICATION FairSpec
CONSTANTS
    r1 = r1
    r2 = r2
    alice = alice
    bob = bob
    Rides = {r1, r2}
    RiderOf <- OneRider
    Drivers = {d1}
    Dispatchers = {l1, l2}
    Handlers = {h1}
    MaxPasses = 1
    MaxRequests = 2
    Retries = FALSE
    MaxFaults = 0
    CanCrash = FALSE
    SlowOffers = FALSE
    Suspended = {}
    NoDriver = NoDriver
    NoRide = NoRide
PROPERTIES
    UnofferedSearchEnds
    LockEnds
CHECK_DEADLOCK FALSE
