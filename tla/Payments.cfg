SPECIFICATION Spec
CONSTANTS
    Rides = {r1}
    Txns = {t1, t2}
    Requests = {p1, p2}
    Webhooks = {w1, w2}
    Jobs = {j1}
    MaxDeliveries = 2
    EarlyPayment = FALSE
    MaxFaults = 1
    Pinned = {}
    Default = "azampay"
    NoRide = NoRide
    NoTxn = NoTxn
SYMMETRY Symmetry
INVARIANTS
    TypeOK
    PaidForReal
    CreditNeedsPaidTrip
    SuccessMeansPaid
    FailedMeansUncharged
    MobileCreditedOnce
CHECK_DEADLOCK FALSE
