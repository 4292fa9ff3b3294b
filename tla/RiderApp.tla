------------------------------ MODULE RiderApp ------------------------------
(***************************************************************************)
(* The rider's app between the press on "request" and the end of the ride: *)
(* an HTTP request the client sends again when no answer comes, the search *)
(* it starts on the server, and the socket over which all progress comes   *)
(* back.  The screen is "requesting" from the press until a push or an     *)
(* error ends it (rider_controller.dart); the answer of the request does   *)
(* not.  So the button depends on a push, a push reaches only the sockets  *)
(* in the ride's room, and three parties put them there: startDispatch,    *)
(* handleConnection, and the order in which the two meet.                  *)
(*                                                                         *)
(* The rides table is RideLifecycle, which RideDispatch implements: what   *)
(* the dispatcher, a driver and the rider do to a ride is a move of it.    *)
(* One rider, one service, one server process.  A press sends a key of its *)
(* own (clientGeneratedId); the tries of one press share it                *)
(* (ApiClient._send).                                                      *)
(*                                                                         *)
(* Bounds: MaxPresses, MaxTries per press, MaxMoves of drivers, MaxBreaks  *)
(* of the connection, the process or a search, MaxPending pushes at once.  *)
(***************************************************************************)
EXTENDS Naturals, FiniteSets

CONSTANTS
    Rides, NoRide, Drivers, NoDriver,
    MaxPresses, MaxTries, MaxMoves, MaxBreaks, MaxPending

ASSUME RidersAssumption ==
    /\ NoRide \notin Rides /\ NoDriver \notin Drivers
    /\ {MaxPresses, MaxTries, MaxMoves, MaxBreaks, MaxPending} \subseteq Nat

VARIABLES
    status, driver, started,    \* the rides table (RideLifecycle)
    key,        \* rides.client_generated_id: the press that made the row, or 0
    app,        \* RiderState: ride, its status, isRequesting; and the presses made
    awaiting,   \* per press: the try whose answer the app waits for, or 0
    handler,    \* per press and try: the request on the server
    loop,       \* per press and try: startDispatch
    socket,     \* how far the connection is: down, named, found, open
    rooms,      \* the ride rooms the socket is in
    found,      \* what findActiveForUser told handleConnection
    pending,    \* pushes of statuses written and not yet emitted
    smooth,     \* nothing has gone wrong since the last press (history only)
    moves, breaks

table  == <<status, driver, started>>
server == <<table, key, handler, loop>>
client == <<app, awaiting>>
link   == <<socket, rooms, found, pending>>
vars   == <<server, client, link, smooth, moves, breaks>>

Presses == 1..MaxPresses
Tries   == 1..MaxTries
Active  == {"requested", "searching", "accepted", "arrived", "in_progress"}
Unsent  == [at |-> "idle", ride |-> NoRide, status |-> "none"]
Refusal == [at |-> "answered", ride |-> NoRide, status |-> "none"]

\* A status is written first and emitted after: until then its push is pending.
Push(r, s) == [ride |-> r, status |-> s]
Writes(r, s) ==
    /\ Cardinality(pending) < MaxPending
    /\ pending' = pending \cup {Push(r, s)}

Life == INSTANCE RideLifecycle
            WITH status <- status, driver <- driver, started <- started,
                 Rides <- Rides, Drivers <- Drivers, NoDriver <- NoDriver

Init ==
    /\ Life!LInit
    /\ key = [r \in Rides |-> 0]
    /\ app = [ride |-> NoRide, status |-> "none", requesting |-> FALSE, presses |-> 0]
    /\ awaiting = [p \in Presses |-> 0]
    /\ handler = [p \in Presses |-> [k \in Tries |-> Unsent]]
    /\ loop = [p \in Presses |-> [k \in Tries |-> "idle"]]
    /\ socket = "down" /\ rooms = {} /\ found = {} /\ pending = {}
    /\ smooth = FALSE /\ moves = 0 /\ breaks = 0

-----------------------------------------------------------------------------
(* The app *)

Send(p, k) ==
    /\ awaiting' = [awaiting EXCEPT ![p] = k]
    /\ handler'  = [handler EXCEPT ![p][k].at = "sent"]

\* The button works while no ride is on screen, not even one that is over: the sheet that
\* would dismiss that ride is shown for active rides only.
RequestRide ==
    /\ app.presses < MaxPresses
    /\ ~app.requesting /\ app.ride = NoRide
    /\ app' = [app EXCEPT !.requesting = TRUE, !.presses = @ + 1]
    /\ Send(app.presses + 1, 1)
    /\ smooth' = (socket = "open")
    /\ UNCHANGED <<table, key, loop, link, moves, breaks>>

\* No answer in time: sent again with the same key, and after the last try an error.
TimesOut(p) ==
    /\ awaiting[p] # 0
    /\ IF awaiting[p] < MaxTries
       THEN Send(p, awaiting[p] + 1) /\ UNCHANGED app
       ELSE /\ app' = [app EXCEPT !.requesting = FALSE]
            /\ awaiting' = [awaiting EXCEPT ![p] = 0]
            /\ UNCHANGED handler
    /\ UNCHANGED <<table, key, loop, link, smooth, moves, breaks>>

\* The answer puts the ride on screen and leaves isRequesting to the push; a refusal
\* ends it.
Answered(p, k) ==
    /\ handler[p][k].at = "answered" /\ awaiting[p] = k
    /\ awaiting' = [awaiting EXCEPT ![p] = 0]
    /\ handler' = [handler EXCEPT ![p][k].at = "done", ![p][k].status = "none"]
    /\ app' = IF handler[p][k].ride = NoRide
              THEN [app EXCEPT !.requesting = FALSE]
              ELSE [app EXCEPT !.ride = handler[p][k].ride, !.status = handler[p][k].status]
    /\ UNCHANGED <<table, key, loop, link, smooth, moves, breaks>>

\* The screen of an active ride offers to cancel; the app forgets the ride if it hears
\* that this worked.
CancelRide ==
    /\ app.ride # NoRide /\ app.status \in Active
    /\ Life!GiveUp(app.ride) /\ status'[app.ride] = "cancelled"
    /\ Writes(app.ride, "cancelled")
    /\ \/ app' = [app EXCEPT !.ride = NoRide, !.status = "none"]
       \/ UNCHANGED app
    /\ smooth' = (smooth /\ ~app.requesting)
    /\ UNCHANGED <<key, handler, loop, awaiting, socket, rooms, found, moves, breaks>>

-----------------------------------------------------------------------------
(* The request on the server: rides.controller.request *)

\* The search starts; the answer says what the row said, if the app still waits for it.
Replies(p, k, r, s) ==
    /\ loop' = [loop EXCEPT ![p][k] = "starting"]
    /\ handler' = [handler EXCEPT ![p][k] =
         IF awaiting[p] = k THEN [at |-> "answered", ride |-> r, status |-> s]
         ELSE [at |-> "done", ride |-> r, status |-> "none"]]

\* The rows that carry the key of a press.
\* Mutant: a key of its own for every try.
KeyPerTry(p) == {}
Keyed(p) == {r \in Rides : key[r] = p}

\* createOrGet looks for the key first.
Look(p, k) ==
    /\ handler[p][k].at = "sent"
    /\ IF Keyed(p) = {}
       THEN handler' = [handler EXCEPT ![p][k].at = "inserting"] /\ UNCHANGED loop
       ELSE \E r \in Keyed(p) : Replies(p, k, r, status[r])
    /\ UNCHANGED <<table, key, client, link, smooth, moves, breaks>>

NextRide == CHOOSE r \in Rides : key[r] = 0

\* The insert: unique by key, and one active ride of a rider and service.  The quote
\* may have expired.  (A row must be left: the size of Rides is a bound.)
Insert(p, k) ==
    /\ handler[p][k].at = "inserting"
    /\ \/ /\ Keyed(p) = {} /\ (\E r \in Rides : key[r] = 0) /\ \A r \in Rides : status[r] \notin Active
          /\ LET r == NextRide
             IN Life!Open(r) /\ key' = [key EXCEPT ![r] = p] /\ Replies(p, k, r, "requested")
       \/ /\ handler' = [handler EXCEPT ![p][k] = Refusal]
          /\ UNCHANGED <<table, key, loop>>
    /\ UNCHANGED <<client, link, smooth, moves, breaks>>

Serve(p, k) == Look(p, k) \/ Insert(p, k)

-----------------------------------------------------------------------------
(* startDispatch *)

Sought(p, k) == handler[p][k].ride
Goes(p, k, from, to) ==
    /\ loop[p][k] = from
    /\ loop' = [loop EXCEPT ![p][k] = to]

ReadRide(p, k) ==
    /\ Goes(p, k, "starting", IF status[Sought(p, k)] = "requested" THEN "joining" ELSE "over")
    /\ UNCHANGED <<table, key, handler, client, link, smooth, moves, breaks>>

\* Mutant: without socketsJoin.
JoinNobody(p, k) ==
    /\ Goes(p, k, "joining", "writing")
    /\ UNCHANGED <<table, key, handler, client, socket, rooms, found, pending, smooth, moves, breaks>>

\* socketsJoin: whatever socket is in the rider's personal room by now.
JoinRooms(p, k) ==
    /\ Goes(p, k, "joining", "writing")
    /\ rooms' = IF socket \in {"named", "found", "open"} THEN rooms \cup {Sought(p, k)} ELSE rooms
    /\ UNCHANGED <<table, key, handler, client, socket, found, pending, smooth, moves, breaks>>

WriteSearching(p, k) ==
    /\ Goes(p, k, "writing", "looking")
    /\ Life!BackToSearch(Sought(p, k))
    /\ Writes(Sought(p, k), "searching")
    /\ UNCHANGED <<key, handler, client, socket, rooms, found, smooth, moves, breaks>>

\* A driver took it, or the loop threw: nothing more comes from it.
StopLooking(p, k) ==
    /\ Goes(p, k, "looking", "over")
    /\ UNCHANGED <<table, key, handler, client, link, smooth, moves, breaks>>

\* Nobody: expired if it is still searching.  The push says so in either case.
Expire(p, k) ==
    /\ Goes(p, k, "looking", "over")
    /\ Push(Sought(p, k), "searching") \notin pending
    /\ Writes(Sought(p, k), "expired")
    /\ \/ /\ status[Sought(p, k)] = "searching"
          /\ Life!GiveUp(Sought(p, k)) /\ status'[Sought(p, k)] = "expired"
       \/ /\ status[Sought(p, k)] # "searching"
          /\ UNCHANGED table
    /\ UNCHANGED <<key, handler, client, socket, rooms, found, smooth, moves, breaks>>

Search(p, k) ==
    \/ ReadRide(p, k) \/ JoinRooms(p, k) \/ WriteSearching(p, k)
    \/ StopLooking(p, k) \/ Expire(p, k)

\* A driver accepts (claim); the push follows.  What the driver does later reaches the
\* screen the same way.
Claim(r, d) ==
    /\ moves < MaxMoves
    /\ \E p \in Presses, k \in Tries : loop[p][k] = "looking" /\ Sought(p, k) = r
    /\ Life!Assign(r, d)
    /\ moves' = moves + 1
    /\ Writes(r, "accepted")
    /\ UNCHANGED <<key, handler, loop, client, socket, rooms, found, smooth, breaks>>

\* A push goes out, in any order with those of other requests, and reaches the app if
\* its socket is in the ride's room.  With no ride on screen it brings one; with any
\* ride on screen it is that ride's new status, whatever ride it is about.
Emit(m) ==
    /\ m \in pending
    /\ pending' = pending \ {m}
    /\ app' = IF m.ride \notin rooms THEN app
              ELSE [app EXCEPT !.ride = IF @ = NoRide THEN m.ride ELSE @,
                               !.status = m.status, !.requesting = FALSE]
    /\ UNCHANGED <<server, awaiting, socket, rooms, found, smooth, moves, breaks>>

-----------------------------------------------------------------------------
(* The socket: socket_client.connect and the gateway's handleConnection *)

Advances(from, to) ==
    /\ socket = from /\ socket' = to
    /\ UNCHANGED <<server, client, pending, smooth, moves, breaks>>

\* Connected, and in the rider's personal room.
Connect   == Advances("down", "named") /\ UNCHANGED <<rooms, found>>
FindRides == /\ Advances("named", "found")
             /\ found' = {r \in Rides : status[r] \in Active}
             /\ UNCHANGED rooms
\* Joins the rooms and sends session:ready, which the app ignores: it has no status.
Rejoin    == /\ Advances("found", "open")
             /\ rooms' = rooms \cup found
             /\ found' = {}

Handshake == Connect \/ FindRides \/ Rejoin

Severed == socket' = "down" /\ rooms' = {} /\ found' = {}

Breaks ==
    /\ breaks < MaxBreaks
    /\ breaks' = breaks + 1
    /\ smooth' = FALSE

Drop ==
    /\ Breaks /\ socket # "down" /\ Severed
    /\ UNCHANGED <<server, client, pending, moves>>

\* Requests, searches and pushes of the process are gone; nothing resumes them.
Restart ==
    /\ Breaks /\ Severed
    /\ pending' = {}
    /\ handler' = [p \in Presses |-> [k \in Tries |->
                     IF handler[p][k].at \in {"idle", "done"} THEN handler[p][k]
                     ELSE [handler[p][k] EXCEPT !.at = "done"]]]
    /\ loop' = [p \in Presses |-> [k \in Tries |->
                  IF loop[p][k] = "idle" THEN "idle" ELSE "over"]]
    /\ UNCHANGED <<table, key, client, moves>>

\* A statement of the search throws; nobody catches it.  A failed join is only logged.
SearchFails(p, k) ==
    /\ Breaks
    /\ \/ loop[p][k] \in {"starting", "writing"} /\ loop' = [loop EXCEPT ![p][k] = "over"]
       \/ Goes(p, k, "joining", "writing")
    /\ UNCHANGED <<table, key, handler, client, link, moves>>

Step(p, k) == Serve(p, k) \/ Search(p, k) \/ Answered(p, k)

Next ==
    \/ RequestRide \/ CancelRide
    \/ Handshake \/ Drop \/ Restart
    \/ \E p \in Presses : TimesOut(p)
    \/ \E r \in Rides, d \in Drivers : Claim(r, d)
    \/ \E m \in pending : Emit(m)
    \/ \E p \in Presses, k \in Tries : Step(p, k) \/ SearchFails(p, k)

Spec == Init /\ [][Next]_vars

\* The server and the socket run on; a timeout fires.  Riders and drivers need not act.
FairSpec ==
    /\ Spec
    /\ WF_vars(Handshake) /\ WF_vars(\E m \in pending : Emit(m))
    /\ \A p \in Presses : WF_vars(TimesOut(p))
    /\ \A p \in Presses, k \in Tries : WF_vars(Step(p, k))

-----------------------------------------------------------------------------
\* One press makes one ride, however often the app sends it again and whatever has
\* become of the ride by then ("a retry after a dropped ack returns the same ride rather
\* than creating a second one", requestRide and createOrGet).
OnePressOneRide ==
    \A q, r \in Rides : key[q] = key[r] /\ key[q] # 0 => q = r

\* The screen does not sit on "requesting" for ever: pressed over an open connection
\* that stays up, while no search fails and the rider does not cancel, a push or an
\* error ends it (the bug that startDispatch says socketsJoin is there for).
RequestSettles == (app.requesting /\ smooth) ~> ~(app.requesting /\ smooth)
=============================================================================
