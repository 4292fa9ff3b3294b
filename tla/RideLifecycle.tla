---------------------------- MODULE RideLifecycle ----------------------------
(***************************************************************************)
(* What the rides table promises to everyone who reads it (the rider's     *)
(* app, the driver's app, payments, earnings), with no dispatcher, lock,   *)
(* token or request in sight.  RideDispatch implements it.                 *)
(*                                                                         *)
(* Three columns matter: the status, the driver and the start time.  The   *)
(* promise is weaker than the diagram of HANDBOOK.md section 4, and says   *)
(* what the code really keeps:                                             *)
(*   - a ride gets a driver once, in the step that makes it accepted, and  *)
(*     keeps that driver for ever;                                         *)
(*   - only a ride nobody drives can be accepted;                          *)
(*   - arrival and start happen in order, and only under a driver;         *)
(*   - only a ride whose trip began is closed;                             *)
(*   - only a searching ride expires, and a completed one is not cancelled.*)
(* It does NOT say that cancelled or expired is final: a dispatcher that   *)
(* read the ride as requested writes searching over whatever came since    *)
(* (BackToSearch), and a completion writes over a cancellation (Close).    *)
(***************************************************************************)

CONSTANTS
    Rides,      \* ride ids
    Drivers,    \* driver ids
    NoDriver    \* rides.driver_id IS NULL

VARIABLES
    status,     \* rides.status, "none" before the row exists
    driver,     \* rides.driver_id
    started     \* rides.started_at IS NOT NULL

lvars == <<status, driver, started>>

LInit ==
    /\ status  = [r \in Rides |-> "none"]
    /\ driver  = [r \in Rides |-> NoDriver]
    /\ started = [r \in Rides |-> FALSE]

Move(r, s) == status' = [status EXCEPT ![r] = s]

Open(r) ==
    /\ status[r] = "none"
    /\ Move(r, "requested")
    /\ UNCHANGED <<driver, started>>

\* Search, or search again: whatever the row says by now.
BackToSearch(r) ==
    /\ status[r] # "none"
    /\ Move(r, "searching")
    /\ UNCHANGED <<driver, started>>

Assign(r, d) ==
    /\ status[r] \in {"requested", "searching"}
    /\ driver[r] = NoDriver
    /\ driver' = [driver EXCEPT ![r] = d]
    /\ Move(r, "accepted")
    /\ UNCHANGED started

ReachPickup(r) ==
    /\ status[r] = "accepted"
    /\ driver[r] # NoDriver
    /\ Move(r, "arrived")
    /\ UNCHANGED <<driver, started>>

Begin(r) ==
    /\ status[r] \in {"accepted", "arrived"}
    /\ driver[r] # NoDriver
    /\ started' = [started EXCEPT ![r] = TRUE]
    /\ Move(r, "in_progress")
    /\ UNCHANGED driver

Close(r) ==
    /\ started[r]
    /\ driver[r] # NoDriver
    /\ Move(r, "completed")
    /\ UNCHANGED <<driver, started>>

GiveUp(r) ==
    /\ \/ /\ status[r] = "searching"
          /\ Move(r, "expired")
       \/ /\ status[r] \notin {"none", "completed", "cancelled"}
          /\ Move(r, "cancelled")
    /\ UNCHANGED <<driver, started>>

LNext ==
    \E r \in Rides :
        \/ Open(r) \/ BackToSearch(r) \/ ReachPickup(r) \/ Begin(r)
        \/ Close(r) \/ GiveUp(r)
        \/ \E d \in Drivers : Assign(r, d)

LSpec == LInit /\ [][LNext]_lvars
=============================================================================
