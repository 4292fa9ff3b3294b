-------------------------------- MODULE Pricing --------------------------------
(***************************************************************************)
(* What a ride costs: the rate cards that administrators publish, the      *)
(* cache they are read through, the surge of a tile, the quote a rider     *)
(* accepts and the bill when the trip is over.                             *)
(*                                                                         *)
(* Money is in cents, a multiplier in tenths, a rate in basis points; a    *)
(* product is rounded where the code rounds it.  One category in one zone, *)
(* one rider.  Nobody passes a zone surcharge or writes waiting_seconds,   *)
(* so neither is ever charged.  Time passes in ticks that are long beside  *)
(* any request.                                                            *)
(***************************************************************************)
EXTENDS Integers, FiniteSets, Sequences

CONSTANTS
    Readers,        \* requests that price something, at once
    Admins,         \* publications in progress at once
    Rates,          \* what each card charges, by the card's number
    Planned,        \* trips as the map service plans them: metres, seconds
    Driven,         \* trips as they turn out
    Tiles,          \* open requests and idle drivers around the pickup
    Promos,         \* discounts a rider may bring
    TariffTTL,      \* ticks a card stays cached (300 s)
    QuoteTTL,       \* ticks a quote stays valid (180 s)
    SurgeTTL,       \* ticks a tile's figures stay (120 s)
    MaxTicks,       \* bound: where the model stops the clock
    MaxFaults       \* bound: publications that fail

Cards    == 1..Len(Rates)
Services == {"ride", "parcel"}

\* PublishTariffDto takes no negative charge, but any cap on the surge; QuoteDto any
\* discount; the table no commission above the whole.
Rate == [base : Nat, perKm : Nat, perMinute : Nat, minimum : Nat, booking : Nat,
         maxSurge : Int, commission : Nat, fee : Nat]
Trip == [metres : Nat, seconds : Nat]

ASSUME RateCards ==
    /\ Rates \in Seq(Rate) /\ Len(Rates) >= 2
    /\ Planned \cup Driven \subseteq Trip
    /\ Promos \subseteq Int
    /\ {TariffTTL, QuoteTTL, SurgeTTL} \subseteq Nat \ {0}
    /\ {MaxTicks, MaxFaults} \subseteq Nat
    /\ IsFiniteSet(Admins)

ASSUME CommissionInPart == \A c \in Cards : Rates[c].commission <= 10000

VARIABLES
    card,       \* the table tariffs
    publish,    \* transactions of publishTariff
    cache,      \* tariff:{service}:{category}:{zone}
    reader,     \* requests that are being priced
    tile,       \* surge:{tile}:{category}
    quote,      \* quote:{quoteId}, the rider's last one
    ride,       \* the ride ordered from it
    ticks, faults

vars == <<card, publish, cache, reader, tile, quote, ride, ticks, faults>>

None     == 0
NoTrip   == [metres |-> 0, seconds |-> 0]
Unborn   == [at |-> "unborn", service |-> "ride", closed |-> 0]
NoPub    == [at |-> "idle", closes |-> {}, card |-> None, keys |-> {}]
Uncached == [card |-> None, age |-> 0]
NoReader == [at |-> "idle", why |-> "quote", service |-> "ride", surge |-> 10, card |-> None]
NoTile   == [requests |-> 0, drivers |-> 0, age |-> 0]
NoQuote  == [total |-> 0, card |-> None, surge |-> 10, promo |-> 0, trip |-> NoTrip, age |-> 0]
NoShares == [fee |-> 0, commission |-> 0, earnings |-> 0]
NoRide   == [at |-> "none", quote |-> NoQuote, bill |-> 0, shares |-> NoShares, card |-> None,
             trip |-> NoTrip]

\* A card per service, as the seed and the deliveries migration leave the table.
Init ==
    /\ card = [c \in Cards |-> [Unborn EXCEPT !.at = IF c <= 2 THEN "open" ELSE "unborn",
                                              !.service = IF c = 2 THEN "parcel" ELSE "ride"]]
    /\ publish = [a \in Admins |-> NoPub]
    /\ cache = [s \in Services |-> Uncached]
    /\ reader = [r \in Readers |-> NoReader]
    /\ tile = NoTile /\ quote = NoQuote /\ ride = NoRide
    /\ ticks = 0 /\ faults = 0

-----------------------------------------------------------------------------
(* Fares: FareService.calculate, over the figures of one card *)

\* Math.round(a / b), for b even.
Rounded(a, b) == (a + b \div 2) \div b
Larger(a, b)  == IF a >= b THEN a ELSE b
Smaller(a, b) == IF a <= b THEN a ELSE b

Metered(c, t) == Rates[c].base + Rounded(t.metres * Rates[c].perKm, 1000)
                   + Rounded(t.seconds * Rates[c].perMinute, 60)

\* The multiplier that is charged, whatever the tile asks for.
Multiplier(c, surge) == Smaller(Larger(10, surge), Rates[c].maxSurge)

BeforeBooking(c, t, surge) ==
    Larger(Rounded(Metered(c, t) * Multiplier(c, surge), 10), Rates[c].minimum)

RoundToStep(cents) == Rounded(cents, 5000) * 5000

BookingFee(c, fare) == Rounded(fare * Rates[c].booking, 10000)
Commission(c, fare) == Rounded(fare * Rates[c].commission, 10000)

\* Mutant: the driver keeps the booking fee as well.
EarningsWithFee(c, fare) == fare + BookingFee(c, fare) - Commission(c, fare)
DriverEarnings(c, fare) == fare - Commission(c, fare)

\* Of the fare as it was metered: neither the discount nor settle's ceiling touches them.
Shares(c, fare) ==
    [fee |-> BookingFee(c, fare), commission |-> Commission(c, fare), earnings |-> DriverEarnings(c, fare)]

\* What the rider pays: nearest 50 shillings, after the booking fee and the discount.
Total(c, t, surge, promo) ==
    LET fare == BeforeBooking(c, t, surge)
    IN  RoundToStep(fare + BookingFee(c, fare) - Smaller(promo, fare))

\* FareService.settle: the quote and a fifth of it bound the bill.
Ceiling(quoted) == quoted + Rounded(quoted * 2000, 10000)

\* FareService.currentSurge: the steps of the curve.
Curve(requests, drivers) ==
    CASE requests < 3                 -> 10
      [] drivers = 0                  -> 16
      [] requests <= drivers          -> 10
      [] 2 * requests <= 3 * drivers  -> 11
      [] requests <= 2 * drivers      -> 12
      [] requests <= 3 * drivers      -> 14
      [] OTHER                        -> 16

-----------------------------------------------------------------------------
(* AdminService.publishTariff: one transaction, read committed *)

Open == {c \in Cards : card[c].at = "open"}
Underway(a) == {b \in Admins \ {a} : publish[b].at \notin {"idle", "close"}}

\* The UPDATE looks for the open cards of the category, of every service.
BeginPublish(a) ==
    /\ publish[a].at = "idle"
    /\ Cardinality({c \in Cards : card[c].at = "unborn"})
          > Cardinality({b \in Admins : publish[b].at # "idle"})
    /\ publish' = [publish EXCEPT ![a] = [NoPub EXCEPT !.at = "close", !.closes = Open]]
    /\ UNCHANGED <<card, cache, reader, tile, quote, ride, ticks, faults>>

\* It waits for rows that another publication has updated, and then passes over
\* those that are not open any more.
CloseOld(a) ==
    /\ publish[a].at = "close"
    /\ \A b \in Underway(a) : publish[a].closes \cap publish[b].closes = {}
    /\ publish' = [publish EXCEPT ![a].at = "insert", ![a].closes = @ \cap Open]
    /\ UNCHANGED <<card, cache, reader, tile, quote, ride, ticks, faults>>

\* Mutant: no index keeps a second card out.
AlwaysRoom(a) == TRUE
\* tariffs_live_uidx: no other open card of the service.
Unique(a) == \A c \in Open \ publish[a].closes : card[c].service # "ride"

\* The INSERT names no service, so the card is one for rides.  A row that another
\* transaction is closing or has inserted must be settled first.
InsertCard(a) ==
    /\ publish[a].at = "insert"
    /\ \A b \in Underway(a) : /\ publish[b].card = None
                              /\ \A c \in publish[b].closes : card[c].service # "ride"
    /\ publish' = [publish EXCEPT ![a] =
          IF Unique(a)
          THEN [@ EXCEPT !.at = "keys", !.card = CHOOSE c \in Cards : card[c].at = "unborn"]
          ELSE NoPub]
    /\ UNCHANGED <<card, cache, reader, tile, quote, ride, ticks, faults>>

FindKeys(a) ==
    /\ publish[a].at = "keys"
    /\ publish' = [publish EXCEPT ![a].at = "drop",
                                  ![a].keys = {s \in Services : cache[s].card # None}]
    /\ UNCHANGED <<card, cache, reader, tile, quote, ride, ticks, faults>>

DropKeys(a) ==
    /\ publish[a].at = "drop"
    /\ cache' = [s \in Services |-> IF s \in publish[a].keys THEN Uncached ELSE cache[s]]
    /\ publish' = [publish EXCEPT ![a].at = "commit", ![a].keys = {}]
    /\ UNCHANGED <<card, reader, tile, quote, ride, ticks, faults>>

Commit(a) ==
    /\ publish[a].at = "commit"
    /\ card' = [c \in Cards |->
          CASE c = publish[a].card        -> [card[c] EXCEPT !.at = "open"]
            [] c \in publish[a].closes    -> [card[c] EXCEPT !.at = "closed", !.closed = ticks]
            [] OTHER                      -> card[c]]
    /\ publish' = [publish EXCEPT ![a] = NoPub]
    /\ UNCHANGED <<cache, reader, tile, quote, ride, ticks, faults>>

\* A statement, the cache or the commit fails: the transaction leaves no trace.
Rollback(a) ==
    /\ publish[a].at # "idle" /\ faults < MaxFaults
    /\ faults' = faults + 1
    /\ publish' = [publish EXCEPT ![a] = NoPub]
    /\ UNCHANGED <<card, cache, reader, tile, quote, ride, ticks>>

-----------------------------------------------------------------------------
(* Pricing a request: FareService.quote, settle and cancellationFee *)

\* quote() looks at the tile before it looks for the card.
AskQuote(r, s) ==
    /\ reader[r].at = "idle" /\ ride.at = "none"
    /\ reader' = [reader EXCEPT ![r] = [NoReader EXCEPT !.at = "cache", !.service = s,
                                            !.surge = Curve(tile.requests, tile.drivers)]]
    /\ UNCHANGED <<card, publish, cache, tile, quote, ride, ticks, faults>>

\* Mutant: settled at the surge of the moment.
SurgeNow == Curve(tile.requests, tile.drivers)
LockedSurge == ride.quote.surge

\* RidesService.complete and cancel name no service: parcels are settled as rides.
StartEnd(r, why) ==
    /\ reader[r].at = "idle" /\ ride.at = "ordered"
    /\ reader' = [reader EXCEPT ![r] = [NoReader EXCEPT !.at = "cache", !.why = why,
                                                        !.surge = LockedSurge]]
    /\ UNCHANGED <<card, publish, cache, tile, quote, ride, ticks, faults>>

\* Mutant: a card that is found in the cache is written back to it.
CheckAndRenew(r) ==
    /\ reader[r].at = "cache"
    /\ LET s == reader[r].service  c == cache[s].card
       IN  /\ reader' = [reader EXCEPT ![r].at = IF c = None THEN "query" ELSE "price", ![r].card = c]
           /\ cache' = [cache EXCEPT ![s].age = 0]
    /\ UNCHANGED <<card, publish, tile, quote, ride, ticks, faults>>

CheckCache(r) ==
    /\ reader[r].at = "cache"
    /\ LET c == cache[reader[r].service].card
       IN  reader' = [reader EXCEPT ![r].at = IF c = None THEN "query" ELSE "price", ![r].card = c]
    /\ UNCHANGED <<card, publish, cache, tile, quote, ride, ticks, faults>>

\* No card in force: the request is refused.
QueryTariff(r) ==
    LET live == {c \in Open : card[c].service = reader[r].service}
    IN
    /\ reader[r].at = "query"
    /\ \/ /\ live = {}
          /\ reader' = [reader EXCEPT ![r] = NoReader]
       \/ \E c \in live : /\ \A d \in live : d <= c
                          /\ reader' = [reader EXCEPT ![r].at = "fill", ![r].card = c]
    /\ UNCHANGED <<card, publish, cache, tile, quote, ride, ticks, faults>>

FillCache(r) ==
    /\ reader[r].at = "fill"
    /\ cache' = [cache EXCEPT ![reader[r].service] = [card |-> reader[r].card, age |-> 0]]
    /\ reader' = [reader EXCEPT ![r].at = "price"]
    /\ UNCHANGED <<card, publish, tile, quote, ride, ticks, faults>>

\* The quote keeps the multiplier as it is charged, not as it was asked for.
Quote(r, trip, promo) ==
    LET c == reader[r].card
    IN
    /\ reader[r].at = "price" /\ reader[r].why = "quote"
    /\ quote' = [total |-> Total(c, trip, reader[r].surge, promo), card |-> c, promo |-> promo,
                 surge |-> Multiplier(c, reader[r].surge), trip |-> trip, age |-> 0]
    /\ reader' = [reader EXCEPT ![r] = NoReader]
    /\ UNCHANGED <<card, publish, cache, tile, ride, ticks, faults>>

\* RidesService.createOrGet: an expired quote is refused, not priced anew.
Order ==
    /\ quote # NoQuote /\ ride.at = "none"
    /\ ride' = [NoRide EXCEPT !.at = "ordered", !.quote = quote]
    /\ UNCHANGED <<card, publish, cache, reader, tile, quote, ticks, faults>>

\* The bill of the trip as it was driven; whoever is last writes it.
Settle(r, trip) ==
    LET c == reader[r].card
    IN
    /\ reader[r].at = "price" /\ reader[r].why = "settle"
    /\ ride' = [ride EXCEPT !.at = "billed", !.card = c, !.trip = trip,
                            !.shares = Shares(c, BeforeBooking(c, trip, reader[r].surge)),
                            !.bill = Smaller(Total(c, trip, reader[r].surge, 0),
                                             Ceiling(ride.quote.total))]
    /\ reader' = [reader EXCEPT ![r] = NoReader]
    /\ UNCHANGED <<card, publish, cache, tile, quote, ticks, faults>>

\* RidesService.cancel by the rider: nothing in the first two minutes, unless the
\* driver is there.
CancelFree ==
    /\ ride.at = "ordered"
    /\ ride' = [ride EXCEPT !.at = "cancelled"]
    /\ UNCHANGED <<card, publish, cache, reader, tile, quote, ticks, faults>>

\* A trip that was billed meanwhile stays as it is.
ChargeFee(r) ==
    /\ reader[r].at = "price" /\ reader[r].why = "cancel"
    /\ ride' = IF ride.at # "ordered" THEN ride
               ELSE [ride EXCEPT !.at = "cancelled", !.card = reader[r].card,
                                 !.bill = Rates[reader[r].card].fee]
    /\ reader' = [reader EXCEPT ![r] = NoReader]
    /\ UNCHANGED <<card, publish, cache, tile, quote, ticks, faults>>

-----------------------------------------------------------------------------
(* Time, and the surge worker *)

\* refreshSurgeTiles: a tile without demand is left to expire.
RefreshTile(t) ==
    /\ t.requests > 0
    /\ tile' = [requests |-> t.requests, drivers |-> t.drivers, age |-> 0]
    /\ UNCHANGED <<card, publish, cache, reader, quote, ride, ticks, faults>>

\* A key is gone when its time is over; requests do not last this long.
Tick ==
    /\ ticks < MaxTicks /\ \A r \in Readers : reader[r].at = "idle"
    /\ ticks' = ticks + 1
    /\ cache' = [s \in Services |-> IF cache[s].card = None \/ cache[s].age + 1 >= TariffTTL
                                    THEN Uncached ELSE [cache[s] EXCEPT !.age = @ + 1]]
    /\ quote' = IF quote = NoQuote \/ quote.age + 1 >= QuoteTTL THEN NoQuote
                ELSE [quote EXCEPT !.age = @ + 1]
    /\ tile' = IF tile = NoTile \/ tile.age + 1 >= SurgeTTL THEN NoTile
               ELSE [tile EXCEPT !.age = @ + 1]
    /\ UNCHANGED <<card, publish, reader, ride, faults>>

Publishing(a) ==
    \/ BeginPublish(a) \/ CloseOld(a) \/ InsertCard(a) \/ FindKeys(a) \/ DropKeys(a)
    \/ Commit(a) \/ Rollback(a)

Pricing(r) ==
    \/ \E s \in Services : AskQuote(r, s)
    \/ \E why \in {"settle", "cancel"} : StartEnd(r, why)
    \/ CheckCache(r) \/ QueryTariff(r) \/ FillCache(r)
    \/ \E trip \in Planned, promo \in Promos : Quote(r, trip, promo)
    \/ \E trip \in Driven : Settle(r, trip)
    \/ ChargeFee(r)

Next ==
    \/ \E a \in Admins : Publishing(a)
    \/ \E r \in Readers : Pricing(r)
    \/ \E t \in Tiles : RefreshTile(t)
    \/ Order \/ CancelFree
    \/ Tick

Spec == Init /\ [][Next]_vars

-----------------------------------------------------------------------------
(* What the prices promise *)

\* Exactly one card is in force for rides, whoever publishes when and whatever fails:
\* neither two prices at once nor none (src/db/012_deliveries.sql:98, publishTariff).
OneRideCard == Cardinality({c \in Open : card[c].service = "ride"}) = 1

\* A ride is ordered at rates that were in force within the lifetime of a cached card
\* and a quote, although a publication empties the cache before it commits
\* (FareService.loadTariff, RidesService.createOrGet).
OrderedAtRecentRates ==
    [][ ride.at = "none" /\ ride'.at = "ordered" =>
           LET c == card[ride'.quote.card]
           IN  c.at = "open" \/ ticks - c.closed < TariffTTL + QuoteTTL ]_vars

\* The price that was accepted binds: a trip driven as planned, at the card of its quote,
\* costs what was quoted, however the surge has moved; and no trip costs more than a
\* fifth above its quote (FareService.settle, src/src/pricing/pricing.controller.ts:36).
QuoteBinds ==
    ride.at = "billed" =>
        /\ ride.bill <= Ceiling(ride.quote.total)
        /\ ride.trip = ride.quote.trip /\ ride.card = ride.quote.card /\ ride.quote.promo = 0
              => ride.bill = ride.quote.total

\* The three amounts a completed trip is divided into are what the rider pays, to half a
\* rounding step; a bill that was capped is divided as if it were not, at the expense of
\* Kwema, and never the other way round (FareService.calculate and settle, complete).
SharesAddUp ==
    ride.at = "billed" =>
        LET shared == ride.shares.fee + ride.shares.commission + ride.shares.earnings
        IN  /\ ride.shares.earnings >= 0 /\ ride.shares.commission >= 0 /\ ride.shares.fee >= 0
            /\ ride.bill <= shared + 2500
            /\ ride.bill < Ceiling(ride.quote.total) => shared <= ride.bill + 2500
=============================================================================
