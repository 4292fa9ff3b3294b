----------------------------- MODULE MCAfterTrip -----------------------------
EXTENDS AfterTrip, TLC
Symmetry == Permutations(Calls)
=============================================================================
