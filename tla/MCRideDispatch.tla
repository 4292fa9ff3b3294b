--------------------------- MODULE MCRideDispatch ---------------------------
(* Instances of RideDispatch for TLC. *)
EXTENDS RideDispatch, TLC

CONSTANTS r1, r2, alice, bob

\* Two riders asking at the same time, and one rider asking for two rides.
TwoRiders == (r1 :> alice) @@ (r2 :> bob)
OneRider  == (r1 :> alice) @@ (r2 :> alice)

\* Loops, handlers and drivers are interchangeable, and so are the two riders
\* with their rides.
SwapRiders == (r1 :> r2) @@ (r2 :> r1) @@ (alice :> bob) @@ (bob :> alice)
Symmetry == Permutations(Dispatchers) \cup Permutations(Handlers)
                \cup Permutations(Drivers) \cup {SwapRiders}
=============================================================================
