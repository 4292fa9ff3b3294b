SPECIFICATION Spec
CONSTANTS
    Readers = {r1}
    Admins = {a1, a2}
    Rates <- RatesMC
    Planned <- PlannedMC
    Driven <- DrivenMC
    Tiles <- TilesMC
    Promos = {0, 5000}
    TariffTTL = 2
    QuoteTTL = 1
    SurgeTTL = 1
    MaxTicks = 3
    MaxFaults = 1
SYMMETRY Symmetry
INVARIANTS OneRideCard QuoteBinds SharesAddUp
PROPERTIES OrderedAtRecentRates
CHECK_DEADLOCK FALSE
