------------------------------- MODULE MCPricing -------------------------------
EXTENDS Pricing, TLC

Card(base, perKm) == [base |-> base, perKm |-> perKm, perMinute |-> 1000, minimum |-> 60000,
                      booking |-> 300, maxSurge |-> 15, commission |-> 1500,
                      fee |-> 20000]
RatesMC  == <<Card(30000, 10000), Card(80000, 10000), Card(40000, 12000), Card(20000, 9000)>>
PlannedMC == {[metres |-> 4000, seconds |-> 900]}
DrivenMC  == PlannedMC \cup {[metres |-> 6500, seconds |-> 1500]}
TilesMC  == {[requests |-> 4, drivers |-> 0]}
Symmetry == Permutations(Admins)
=============================================================================
