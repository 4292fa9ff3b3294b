---------------------------- MODULE RideDispatch ----------------------------
(***************************************************************************)
(* Finding a driver for a ride and driving it, as src/rides/rides.service  *)
(* and src/dispatch/dispatch.service do it: one process-local dispatch     *)
(* loop per startDispatch call, request handlers that interleave at every  *)
(* await, Postgres (rides, drivers, ride_offers) and Redis (offer tokens,  *)
(* answers, driver locks) shared by all of them.                           *)
(*                                                                         *)
(* One action is the code between two awaits.  Where two neighbouring      *)
(* statements touch data nobody else reads in between they are one action, *)
(* and the comment says so.  Positions, scores and prices are abstracted:  *)
(* the candidates of a search are any set of idle drivers, tried in any    *)
(* order.                                                                  *)
(***************************************************************************)
EXTENDS Naturals

CONSTANTS
    Rides,          \* ride ids: one for each (rider, clientGeneratedId)
    RiderOf,        \* the rider who owns the id
    Drivers,
    Dispatchers,    \* startDispatch calls that can be running at once
    Handlers,       \* driver and rider requests that can be in flight at once
    MaxPasses,      \* passes of the offer loop (3 in the code)
    MaxRequests,    \* ride requests that arrive, in all
    Retries,        \* whether a client sends a request again (a dropped ack)
    MaxFaults,      \* failed database or Redis calls, and restarts, in all
    CanCrash,       \* whether the process can restart
    SlowOffers,     \* whether an offer may outlast its lock: 17 s for the row, the
                    \* event, 15 s of waiting and the closing
    Suspended,      \* drivers an administrator, or their debt, may take off line
    NoDriver, NoRide

ASSUME BoundsAssumption ==
    /\ MaxPasses \in Nat
    /\ MaxRequests \in Nat
    /\ Retries \in BOOLEAN
    /\ MaxFaults \in Nat
    /\ CanCrash \in BOOLEAN
    /\ SlowOffers \in BOOLEAN
    /\ Suspended \subseteq Drivers

ASSUME NullAssumption == NoDriver \notin Drivers /\ NoRide \notin Rides

VARIABLES
    \* Postgres
    status,         \* rides.status; cancelled_by_rider and _by_driver are one value
    driver,         \* rides.driver_id
    started,        \* rides.started_at IS NOT NULL
    settled,        \* how often complete() booked the ride on its driver's row
    driverState,    \* drivers.state; en_route_pickup, at_pickup and on_trip are "busy"
    offer,          \* ride_offers.outcome: "none" = no row, "open" = NULL,
                    \* declined and timeout are "lapsed"
    \* Redis
    tokens,         \* live offer:{ride}:{driver} keys
    answer,         \* offer:response:{ride}:{driver}
    lock,           \* dispatch:lock:driver:{driver}, holding the ride id
    \* the process
    dispatcher,     \* the local state of each dispatch loop
    handler,        \* the local state of each in-flight request
    \* bounds
    requests,       \* ride requests that arrived
    faults,
    crashes

database == <<status, driver, started, settled, driverState, offer>>
redis    == <<tokens, answer, lock>>
bounds   == <<requests, faults, crashes>>
vars     == <<database, redis, dispatcher, handler, bounds>>

RideStatus ==
    {"none", "requested", "searching", "accepted", "arrived", "in_progress",
     "completed", "cancelled", "expired"}

\* The statuses of the partial unique index on (rider_id, service_type).
ActiveStatus == {"requested", "searching", "accepted", "arrived", "in_progress"}

\* Where a dispatch loop is suspended.
DispatcherAt ==
    {"off", "starting", "marking", "searching", "offering", "notifying",
     "waiting", "closing"}

\* The request a handler is in the middle of, named by what it did last.
HandlerAt ==
    {"idle", "claimed", "moved", "completing", "completed", "cancelling", "cancelled"}

Dispatcher ==
    [at: DispatcherAt, ride: Rides \cup {NoRide}, pass: 0..MaxPasses,
     tried: SUBSET Drivers, todo: SUBSET Drivers,
     driver: Drivers \cup {NoDriver}, won: BOOLEAN]

Handler == [at: HandlerAt, ride: Rides \cup {NoRide}, driver: Drivers \cup {NoDriver}]

TypeOK ==
    /\ status \in [Rides -> RideStatus]
    /\ driver \in [Rides -> Drivers \cup {NoDriver}]
    /\ started \in [Rides -> BOOLEAN]
    /\ settled \in [Rides -> Nat]
    /\ driverState \in [Drivers -> {"offline", "online_idle", "busy"}]
    /\ offer \in [Rides -> [Drivers -> {"none", "open", "accepted", "lapsed"}]]
    /\ tokens \in SUBSET (Rides \X Drivers)
    /\ answer \in [Rides -> [Drivers -> {"none", "accepted", "declined"}]]
    /\ lock \in [Drivers -> Rides \cup {NoRide}]
    /\ dispatcher \in [Dispatchers -> Dispatcher]
    /\ handler \in [Handlers -> Handler]
    /\ requests \in Nat
    /\ faults \in Nat
    /\ crashes \in Nat

-----------------------------------------------------------------------------

Off  == [at |-> "off", ride |-> NoRide, pass |-> 0, tried |-> {}, todo |-> {},
         driver |-> NoDriver, won |-> FALSE]
Idle == [at |-> "idle", ride |-> NoRide, driver |-> NoDriver]

\* No code moves a driver from offline to online_idle, nor writes the state and
\* compliance fields of the Redis snapshot: drivers are put on line by hand, and
\* every search ends in the PostGIS fallback, which reads drivers.state.
Init ==
    /\ status = [r \in Rides |-> "none"]
    /\ driver = [r \in Rides |-> NoDriver]
    /\ started = [r \in Rides |-> FALSE]
    /\ settled = [r \in Rides |-> 0]
    /\ driverState = [d \in Drivers |-> "online_idle"]
    /\ offer = [r \in Rides |-> [d \in Drivers |-> "none"]]
    /\ tokens = {}
    /\ answer = [r \in Rides |-> [d \in Drivers |-> "none"]]
    /\ lock = [d \in Drivers |-> NoRide]
    /\ dispatcher = [l \in Dispatchers |-> Off]
    /\ handler = [h \in Handlers |-> Idle]
    /\ requests = 0
    /\ faults = 0
    /\ crashes = 0

\* The rider already has another active ride: the unique index refuses.
SlotTaken(r) ==
    \E q \in Rides \ {r} : RiderOf[q] = RiderOf[r] /\ status[q] \in ActiveStatus

\* The loop is between taking a driver's lock and releasing it.
Holding(l) == dispatcher[l].at \in {"notifying", "waiting", "closing"}

\* releaseLock: compare the ride id, then delete.
ReleasedNever(d, r) == lock
Released(d, r) == [lock EXCEPT ![d] = IF @ = r THEN NoRide ELSE @]

-----------------------------------------------------------------------------
(* The dispatch loop *)

\* createOrGet, then startDispatch fire-and-forget.  A request that finds the
\* ride starts a dispatch loop as well; a new one needs the rider's active slot.
CreateOrGet(r, l) ==
    /\ requests < MaxRequests
    /\ dispatcher[l].at = "off"
    /\ \/ Retries /\ status[r] # "none" /\ UNCHANGED status
       \/ /\ status[r] = "none" /\ ~SlotTaken(r)
          /\ status' = [status EXCEPT ![r] = "requested"]
    /\ requests' = requests + 1
    /\ dispatcher' = [dispatcher EXCEPT ![l] = [Off EXCEPT !.at = "starting", !.ride = r]]
    /\ UNCHANGED <<driver, started, settled, driverState, offer, redis, handler, faults, crashes>>

\* SELECT ... ; if (ride.status !== 'requested') return.
StartDispatch(l) ==
    LET me == dispatcher[l] IN
    /\ me.at = "starting"
    /\ dispatcher' = [dispatcher EXCEPT
           ![l] = IF status[me.ride] = "requested" THEN [me EXCEPT !.at = "marking"] ELSE Off]
    /\ UNCHANGED <<database, redis, handler, bounds>>

\* UPDATE rides SET status = 'searching' WHERE id = $1, with no status in the
\* WHERE: whatever happened since the SELECT is overwritten.  The unique index
\* still applies, and its error ends the loop.
MarkSearching(l) ==
    LET me == dispatcher[l] IN
    /\ me.at = "marking"
    /\ \/ /\ SlotTaken(me.ride)
          /\ dispatcher' = [dispatcher EXCEPT ![l] = Off]
          /\ UNCHANGED status
       \/ /\ ~SlotTaken(me.ride)
          /\ status' = [status EXCEPT ![me.ride] = "searching"]
          /\ dispatcher' = [dispatcher EXCEPT ![l].at = "searching"]
    /\ UNCHANGED <<driver, started, settled, driverState, offer, redis, handler, bounds>>

\* The next candidate or, when the shortlist is exhausted, the next pass.
Onward(todo) == IF todo = {} THEN "searching" ELSE "offering"

\* The drivers find_nearby_drivers can return, less the ones already tried.
Eligible(l) == {d \in Drivers \ dispatcher[l].tried : driverState[d] = "online_idle"}

\* for (pass = 0; pass < 3; pass++)
PassesLeftOffByOne(me) == me.pass <= MaxPasses
PassesLeft(me) == me.pass < MaxPasses

\* One pass: whom the search returns depends on positions, categories and limits.
\* An empty list sleeps 4 s and goes to the next pass.  The candidates become
\* excluded only after the pass; nobody reads the list before the next search.
FindCandidates(l) ==
    LET me == dispatcher[l] IN
    /\ me.at = "searching"
    /\ PassesLeft(me)
    /\ \E found \in SUBSET Eligible(l) :
          dispatcher' = [dispatcher EXCEPT
              ![l] = [me EXCEPT !.at = Onward(found),
                                !.pass = me.pass + 1,
                                !.todo = found, !.tried = me.tried \cup found]]
    /\ UNCHANGED <<database, redis, handler, bounds>>

\* SET ... NX
NotLockedForThis(me, d) == lock[d] # me.ride
Unlocked(me, d) == lock[d] = NoRide

\* SET dispatch:lock:driver NX.  A driver someone else is offering to is skipped.
ReserveDriver(l, d) ==
    LET me == dispatcher[l] IN
    /\ me.at = "offering"
    /\ d \in me.todo
    /\ IF Unlocked(me, d)
       THEN /\ lock' = [lock EXCEPT ![d] = me.ride]
            /\ dispatcher' = [dispatcher EXCEPT
                  ![l] = [me EXCEPT !.at = "notifying", !.driver = d, !.todo = @ \ {d}]]
       ELSE /\ dispatcher' = [dispatcher EXCEPT
                  ![l] = [me EXCEPT !.at = Onward(me.todo \ {d}), !.todo = @ \ {d}]]
            /\ UNCHANGED lock
    /\ UNCHANGED <<database, tokens, answer, handler, bounds>>

\* recordOffer and sendOffer: the row (ON CONFLICT DO NOTHING), the token, the
\* event.  The driver learns of the offer with the event, so row and token are
\* one step.
SendOffer(l) ==
    LET me == dispatcher[l] IN
    /\ me.at = "notifying"
    /\ offer' = [offer EXCEPT ![me.ride][me.driver] = IF @ = "none" THEN "open" ELSE @]
    /\ tokens' = tokens \cup {<<me.ride, me.driver>>}
    /\ dispatcher' = [dispatcher EXCEPT ![l].at = "waiting"]
    /\ UNCHANGED <<status, driver, started, settled, driverState, answer, lock, handler, bounds>>

\* The key awaitResponse polls for 15 s.
AnswerTo(me) == answer[me.ride][me.driver]

\* awaitResponse finds the answer key and deletes it...
ReceiveAnswer(l) ==
    LET me == dispatcher[l] IN
    /\ me.at = "waiting"
    /\ AnswerTo(me) # "none"
    /\ dispatcher' = [dispatcher EXCEPT
           ![l] = [me EXCEPT !.at = "closing", !.won = AnswerTo(me) = "accepted"]]
    /\ answer' = [answer EXCEPT ![me.ride][me.driver] = "none"]
    /\ UNCHANGED <<database, tokens, lock, handler, bounds>>

NoDeadline(me) == FALSE
DeadlinePassed(me) == AnswerTo(me) = "none"

\* ... or 15 s pass without one.
OfferTimesOut(l) ==
    LET me == dispatcher[l] IN
    /\ me.at = "waiting"
    /\ DeadlinePassed(me)
    /\ dispatcher' = [dispatcher EXCEPT ![l] = [me EXCEPT !.at = "closing"]]
    /\ UNCHANGED <<database, redis, handler, bounds>>

\* UPDATE ride_offers ... WHERE outcome IS NULL.
ClosedIfWon(me) == [offer EXCEPT ![me.ride][me.driver] = IF me.won THEN "accepted" ELSE @]
Closed(me) == [offer EXCEPT ![me.ride][me.driver] =
                   IF @ # "open" THEN @ ELSE IF me.won THEN "accepted" ELSE "lapsed"]

\* closeOffer, updateAcceptanceCounters, then releaseLock in the finally block.  An
\* accepted offer ends the search.  So does any other: the counters destructure two
\* replies of a pipeline that has one unless the offer was accepted, and that throws.
\* Nobody but declineOffer writes the row, under the same guard.
CloseOffer(l) ==
    LET me == dispatcher[l] IN
    /\ me.at = "closing"
    /\ offer' = Closed(me)
    /\ lock' = Released(me.driver, me.ride)
    /\ dispatcher' = [dispatcher EXCEPT ![l] = Off]
    /\ UNCHANGED <<status, driver, started, settled, driverState, tokens, answer, handler, bounds>>

\* UPDATE ... 'expired' WHERE id = $1 AND status = 'searching'
ExpiredAlways(s) == "expired"
ExpiredIfRequested(s) == IF s = "requested" THEN "expired" ELSE s
Expired(s) == IF s = "searching" THEN "expired" ELSE s

\* ... after the last pass.
ExpireRide(l) ==
    LET me == dispatcher[l] IN
    /\ me.at = "searching"
    /\ ~PassesLeft(me)
    /\ status' = [status EXCEPT ![me.ride] = Expired(@)]
    /\ dispatcher' = [dispatcher EXCEPT ![l] = Off]
    /\ UNCHANGED <<driver, started, settled, driverState, offer, redis, handler, bounds>>

-----------------------------------------------------------------------------
(* Requests of drivers and riders *)

\* The offer token, and the WHERE of the UPDATE.
NoTokenNeeded(r, d) == driverState[d] = "online_idle"
HasToken(r, d) == <<r, d>> \in tokens

ClaimableByStatus(r) == status[r] \in {"requested", "searching"}
Claimable(r) == driver[r] = NoDriver /\ status[r] \in {"requested", "searching"}

\* claim: the token check and the conditional UPDATE.  Only this driver's claim
\* of this ride reads the token, so check and UPDATE are one step.  A claim that
\* is refused, here or below, changes nothing.
Claim(h, r, d) ==
    /\ handler[h].at = "idle"
    /\ HasToken(r, d)
    /\ Claimable(r)
    /\ driver' = [driver EXCEPT ![r] = d]
    /\ status' = [status EXCEPT ![r] = "accepted"]
    /\ handler' = [handler EXCEPT ![h] = [at |-> "claimed", ride |-> r, driver |-> d]]
    /\ UNCHANGED <<started, settled, driverState, offer, redis, dispatcher, bounds>>

\* claim, second await: the dispatch loop may be waiting for this key.
AnswerAccepted(h) ==
    LET me == handler[h] IN
    /\ me.at = "claimed"
    /\ answer' = [answer EXCEPT ![me.ride][me.driver] = "accepted"]
    /\ handler' = [handler EXCEPT ![h].at = "moved"]
    /\ UNCHANGED <<database, tokens, lock, dispatcher, bounds>>

\* The last write of claim and of transition: the driver's state, unconditionally.
SetDriverState(h) ==
    LET me == handler[h] IN
    /\ me.at = "moved"
    /\ driverState' = [driverState EXCEPT ![me.driver] = "busy"]
    /\ handler' = [handler EXCEPT ![h] = Idle]
    /\ UNCHANGED <<status, driver, started, settled, offer, redis, dispatcher, bounds>>

\* declineOffer.  It checks no token, but the app shows an offer no longer than its
\* token lives; it may still come late, when the loop has given up waiting.
DeclineOffer(r, d) ==
    /\ <<r, d>> \in tokens
    /\ driver[r] # d
    /\ answer' = [answer EXCEPT ![r][d] = "declined"]
    /\ offer' = [offer EXCEPT ![r][d] = IF @ = "open" THEN "lapsed" ELSE @]
    /\ UNCHANGED <<status, driver, started, settled, driverState, tokens, lock,
                   dispatcher, handler, bounds>>

\* transition: the guarded UPDATE; the driver's state follows (SetDriverState).
AllowedFrom(s) == IF s = "arrived" THEN {"accepted"} ELSE {"accepted", "arrived"}

Transition(h, r, d, s) ==
    /\ handler[h].at = "idle"
    /\ driver[r] = d
    /\ status[r] \in AllowedFrom(s)
    /\ status' = [status EXCEPT ![r] = s]
    /\ started' = [started EXCEPT ![r] = @ \/ s = "in_progress"]
    /\ handler' = [handler EXCEPT
           ![h] = [at |-> "moved", ride |-> r, driver |-> d]]
    /\ UNCHANGED <<driver, settled, driverState, offer, redis, dispatcher, bounds>>

\* complete: the SELECT that checks the status...
CompletableWhenHeld(r, d) == driver[r] = d
Completable(r, d) == driver[r] = d /\ status[r] = "in_progress"

Complete(h, r, d) ==
    /\ handler[h].at = "idle"
    /\ Completable(r, d)
    /\ handler' = [handler EXCEPT ![h] = [at |-> "completing", ride |-> r, driver |-> d]]
    /\ UNCHANGED <<database, redis, dispatcher, bounds>>

\* ... the UPDATE that does not, after measuring the trace and pricing it...
CloseTrip(h) ==
    /\ handler[h].at = "completing"
    /\ status' = [status EXCEPT ![handler[h].ride] = "completed"]
    /\ handler' = [handler EXCEPT ![h].at = "completed"]
    /\ UNCHANGED <<driver, started, settled, driverState, offer, redis, dispatcher, bounds>>

\* ... and the driver's row: completed_trips, on cash trips the commission, idle.
SettleTrip(h) ==
    LET me == handler[h] IN
    /\ me.at = "completed"
    /\ settled' = [settled EXCEPT ![me.ride] = @ + 1]
    /\ driverState' = [driverState EXCEPT ![me.driver] = "online_idle"]
    /\ handler' = [handler EXCEPT ![h] = Idle]
    /\ UNCHANGED <<status, driver, started, offer, redis, dispatcher, bounds>>

\* cancel: the SELECT, whose driver_id is used at the end...
Cancel(h, r) ==
    /\ handler[h].at = "idle"
    /\ status[r] # "none"
    /\ handler' = [handler EXCEPT ![h] = [at |-> "cancelling", ride |-> r, driver |-> driver[r]]]
    /\ UNCHANGED <<database, redis, dispatcher, bounds>>

\* ... the guarded UPDATE, whose result nobody looks at...
CancelRide(h) ==
    LET me == handler[h] IN
    /\ me.at = "cancelling"
    /\ status' = [status EXCEPT ![me.ride] =
                     IF @ \in {"completed", "cancelled"} THEN @ ELSE "cancelled"]
    /\ handler' = [handler EXCEPT ![h] = IF me.driver = NoDriver THEN Idle
                                         ELSE [me EXCEPT !.at = "cancelled"]]
    /\ UNCHANGED <<driver, started, settled, driverState, offer, redis, dispatcher, bounds>>

\* ... and the driver the SELECT saw is idle again.
FreeDriver(h) ==
    LET me == handler[h] IN
    /\ me.at = "cancelled"
    /\ driverState' = [driverState EXCEPT ![me.driver] = "online_idle"]
    /\ handler' = [handler EXCEPT ![h] = Idle]
    /\ UNCHANGED <<status, driver, started, settled, offer, redis, dispatcher, bounds>>

\* suspendDriver, and confirmCollection past the debt ceiling.
TakeOffline(d) ==
    /\ d \in Suspended
    /\ driverState[d] # "offline"
    /\ driverState' = [driverState EXCEPT ![d] = "offline"]
    /\ UNCHANGED <<status, driver, started, settled, offer, redis, dispatcher, handler, bounds>>

-----------------------------------------------------------------------------
(* Time and failure *)

\* Redis forgets.  A token (20 s) outlives the offer (15 s) it was sent with; an
\* answer (30 s) outlives the token it came with, and one that a loop is polling
\* for is found first; a lock (17 s) outlives the offer it was taken for, unless that is
\* slow, but not for long the process that took it.
ExpireKey(r, d) ==
    /\ \A l \in Dispatchers :
          (dispatcher[l].ride = r /\ dispatcher[l].driver = d) => dispatcher[l].at # "waiting"
    /\ \/ /\ <<r, d>> \in tokens
          /\ tokens' = tokens \ {<<r, d>>}
          /\ UNCHANGED answer
       \/ /\ <<r, d>> \notin tokens
          /\ answer[r][d] # "none"
          /\ answer' = [answer EXCEPT ![r][d] = "none"]
          /\ UNCHANGED tokens
    /\ UNCHANGED <<database, lock, dispatcher, handler, bounds>>

ExpireLock(d) ==
    /\ lock[d] # NoRide
    /\ \A l \in Dispatchers :
          (Holding(l) /\ dispatcher[l].driver = d)
              => SlowOffers /\ dispatcher[l].at # "notifying"
    /\ lock' = [lock EXCEPT ![d] = NoRide]
    /\ UNCHANGED <<database, tokens, answer, dispatcher, handler, bounds>>

\* A database or Redis call of the loop throws, before or after the row is closed.
\* The finally block still releases the lock; the rejection ends the loop, and no
\* row says so.
DispatchFails(l) ==
    LET me == dispatcher[l] IN
    /\ faults + crashes < MaxFaults
    /\ me.at # "off"
    /\ \/ UNCHANGED offer
       \/ me.at = "closing" /\ offer' = Closed(me)
    /\ lock' = IF Holding(l) THEN Released(me.driver, me.ride) ELSE lock
    /\ dispatcher' = [dispatcher EXCEPT ![l] = Off]
    /\ faults' = faults + 1
    /\ UNCHANGED <<status, driver, started, settled, driverState, tokens, answer, handler,
                   requests, crashes>>

\* A call of a request handler throws: what it wrote stays written.
HandlerFails(h) ==
    /\ faults + crashes < MaxFaults
    /\ handler[h].at # "idle"
    /\ handler' = [handler EXCEPT ![h] = Idle]
    /\ faults' = faults + 1
    /\ UNCHANGED <<database, redis, dispatcher, requests, crashes>>

\* The process restarts (a deploy, a crash, an unhandled rejection): loops and
\* handlers are gone, the database and Redis stay, and nothing resumes a search.
Crash ==
    /\ faults + crashes < MaxFaults
    /\ CanCrash
    /\ dispatcher' = [l \in Dispatchers |-> Off]
    /\ handler' = [h \in Handlers |-> Idle]
    /\ crashes' = crashes + 1
    /\ UNCHANGED <<database, redis, requests, faults>>

-----------------------------------------------------------------------------

DispatchStep(l) ==
    \/ StartDispatch(l) \/ MarkSearching(l) \/ FindCandidates(l)
    \/ \E d \in Drivers : ReserveDriver(l, d)
    \/ SendOffer(l) \/ ReceiveAnswer(l) \/ OfferTimesOut(l)
    \/ CloseOffer(l) \/ ExpireRide(l)

Arrive(h) ==
    \E r \in Rides :
        \/ Cancel(h, r)
        \/ \E d \in Drivers :
              \/ Claim(h, r, d)
              \/ \E s \in {"arrived", "in_progress"} : Transition(h, r, d, s)
              \/ Complete(h, r, d)

HandlerStep(h) ==
    \/ AnswerAccepted(h) \/ SetDriverState(h) \/ CloseTrip(h) \/ SettleTrip(h)
    \/ CancelRide(h) \/ FreeDriver(h)

Next ==
    \/ \E r \in Rides, l \in Dispatchers : CreateOrGet(r, l)
    \/ \E l \in Dispatchers : DispatchStep(l) \/ DispatchFails(l)
    \/ \E h \in Handlers : Arrive(h) \/ HandlerStep(h) \/ HandlerFails(h)
    \/ \E r \in Rides, d \in Drivers : DeclineOffer(r, d) \/ ExpireKey(r, d)
    \/ \E d \in Drivers : TakeOffline(d) \/ ExpireLock(d)
    \/ Crash

Spec == Init /\ [][Next]_vars

\* The event loop runs every loop and every handler whose await has returned, and
\* no await of the loop waits for ever: offers time out.  Redis expires locks.
\* Nothing makes a rider, a driver or an administrator act.
FairSpec ==
    /\ Spec
    /\ \A l \in Dispatchers : WF_vars(DispatchStep(l))
    /\ \A h \in Handlers : WF_vars(HandlerStep(h))
    /\ \A d \in Drivers : WF_vars(ExpireLock(d))

-----------------------------------------------------------------------------
(* What a careful reader of this code wants to know *)

\* A ride's driver is set once.  Whatever loops, claims, cancellations and retries
\* do meanwhile, nobody else's claim replaces the driver (claim's "driver_id IS
\* NULL"), not even when a second dispatch loop puts an accepted ride back to
\* searching and offers it around again.
DriverAssignedOnce ==
    [][\A r \in Rides : driver[r] # NoDriver => driver'[r] = driver[r]]_vars

\* A ride in a driver's hands has a driver, and one that is closed or booked on a
\* driver's row is a trip its driver began: complete() writes its UPDATE long
\* after the SELECT that checked this, and others write in between.
TripsHaveDrivers ==
    \A r \in Rides :
        /\ status[r] \in {"accepted", "arrived", "in_progress", "completed"} => driver[r] # NoDriver
        /\ (status[r] = "completed" \/ settled[r] > 0) => driver[r] # NoDriver /\ started[r]

\* Only a driver the ride was offered to ever gets it (the offer token).
OnlyOfferedDriverDrives ==
    \A r \in Rides : driver[r] # NoDriver => offer[r][driver[r]] # "none"

\* A driver looks at one offer at a time: no two loops, of one ride or of two, wait
\* for the same driver's answer (the SET NX lock of offerSequentially).
OfferExclusive ==
    \A k, l \in Dispatchers :
        (k # l /\ dispatcher[k].at = "waiting" /\ dispatcher[l].at = "waiting")
            => dispatcher[k].driver # dispatcher[l].driver

\* An offer closed as accepted is the winner's: the driver whose UPDATE landed,
\* though the row is written by the loop and the ride by the driver's request.
AcceptedOfferWon ==
    \A r \in Rides, d \in Drivers : offer[r][d] = "accepted" => driver[r] = d

\* Unless the process dies, no lock outlives its offer: every way out of an offer,
\* a thrown error included, releases it.
LockHeldOnlyForOffer ==
    crashes = 0 =>
        \A d \in Drivers : lock[d] # NoRide =>
            \E l \in Dispatchers :
                Holding(l) /\ dispatcher[l].driver = d /\ dispatcher[l].ride = lock[d]

\* An offer nobody has answered has a loop that waits for the answer: while nothing
\* fails, no driver is left with an offer that never closes, and the acceptance
\* statistics miss none.
OpenOfferAttended ==
    faults + crashes = 0 =>
        \A r \in Rides, d \in Drivers : offer[r][d] = "open" =>
            \E l \in Dispatchers :
                /\ dispatcher[l].at \in {"waiting", "closing"}
                /\ dispatcher[l].ride = r /\ dispatcher[l].driver = d

\* The rides table is all others see of this, and keeps the promise of RideLifecycle.
Lifecycle == INSTANCE RideLifecycle
                 WITH status <- status, driver <- driver, started <- started,
                      Rides <- Rides, Drivers <- Drivers, NoDriver <- NoDriver
ImplementsLifecycle == Lifecycle!LSpec

\* A search nobody was offered ends: while nothing fails and no request is sent twice,
\* a requested or searching ride is accepted, expires or is cancelled, whatever riders
\* and drivers do and whoever holds the locks; only a lapsed offer stops it short.
Sought(r) == status[r] \in {"requested", "searching"}
UnofferedSearchEnds ==
    \A r \in Rides : Sought(r) ~> (~Sought(r) \/ \E d \in Drivers : offer[r][d] = "lapsed")

\* A driver is never locked away from dispatch for good.
LockEnds == \A d \in Drivers : lock[d] # NoRide ~> lock[d] = NoRide

-----------------------------------------------------------------------------
(* What comments and documents say, and the code does not keep *)

\* "Expire rather than leaving the ride open forever" (startDispatch): every search
\* ends, whatever riders and drivers do.
SearchEnds == \A r \in Rides : Sought(r) ~> ~Sought(r)

\* "A replayed 'completed' after a reconnect must not close a trip twice or charge
\* twice" (transition).
SettledOnce == \A r \in Rides : settled[r] <= 1

\* "Out of the idle pool until the trip ends" (claim): while no request of the
\* driver is in flight, the driver of an active ride is not idle.
OutOfPoolUntilTripEnds ==
    \A r \in Rides :
        (/\ status[r] \in {"accepted", "arrived", "in_progress"}
         /\ \A h \in Handlers : handler[h].at = "idle")
            => driverState[driver[r]] # "online_idle"
=============================================================================
