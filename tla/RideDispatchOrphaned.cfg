SPECIFICATION FairSpec
CONSTANTS
    r1 = r1
    r2 = r2
    alice = alice
    bob = bob
    Rides = {r1}
    RiderOf <- TwoRiders
    Drivers = {d1}
    Dispatchers = {l1}
    Handlers = {h1}
    MaxPasses = 1
    MaxRequests = 1
    Retries = FALSE
    MaxFaults = 0
    CanCrash = FALSE
    SlowOffers = FALSE
    Suspended = {}
    NoDriver = NoDriver
    NoRide = NoRide
PROPERTIES
    SearchEnds
CHECK_DEADLOCK FALSE
