----------------------------- MODULE PricingProofs -----------------------------
(***************************************************************************)
(* Proofs about Pricing, for any cards, administrators, trips and times.   *)
(*                                                                         *)
(* One card is in force because the publication that has inserted a card   *)
(* holds every open card for rides (Holding), so no other one can insert   *)
(* before it commits (OneHolder) and none is left when it has.  A quote is *)
(* recent because every place a card is copied to knows how long the card  *)
(* may have been closed: the cache by its age, a reader by the lifetime of *)
(* the cache, a quote by that and its own age (CachedLately, ReadLately,   *)
(* QuotedLately).  And a quote binds because its total is what the billing *)
(* formula gives for the multiplier it keeps (Priced).  The amounts a bill *)
(* is divided into are of the fare before it was rounded and capped: at    *)
(* most half a step away from the one, and never below the other.          *)
(***************************************************************************)
EXTENDS Pricing, FiniteSetTheorems, TLAPS

Stages  == {"idle", "close", "insert", "keys", "drop", "commit"}
CardRow == [at : {"unborn", "open", "closed"}, service : Services, closed : Nat]
PubRow  == [at : Stages, closes : SUBSET Cards, card : Cards \cup {None}, keys : SUBSET Services]
CacheRow  == [card : Cards \cup {None}, age : Nat]
ReaderRow == [at : {"idle", "cache", "query", "fill", "price"},
              why : {"quote", "settle", "cancel"}, service : Services,
              surge : Int, card : Cards \cup {None}]
QuoteRow  == [total : Nat, card : Cards \cup {None}, surge : Int, promo : Int,
              trip : Trip, age : Nat]
RideRow   == [at : {"none", "ordered", "billed", "cancelled"}, quote : QuoteRow,
              bill : Int, shares : [fee : Int, commission : Int, earnings : Int],
              card : Cards \cup {None}, trip : Trip]

\* The variables have their types.
Typed ==
    /\ card \in [Cards -> CardRow]
    /\ publish \in [Admins -> PubRow]
    /\ cache \in [Services -> CacheRow]
    /\ reader \in [Readers -> ReaderRow]
    /\ quote \in QuoteRow
    /\ ride \in RideRow
    /\ ticks \in Nat

Busy   == {a \in Admins : publish[a].at # "idle"}
Unborns == {c \in Cards : card[c].at = "unborn"}
OpenForRides == {c \in Open : card[c].service = "ride"}
Locking == {a \in Admins : publish[a].at \notin {"idle", "close"}}
Holders == {a \in Admins : publish[a].at \in {"keys", "drop", "commit"}}

\* A publication that is past its UPDATE has locked open cards, and no two the same.
RowsLocked ==
    /\ \A a \in Locking : publish[a].closes \subseteq Open
    /\ \A a, b \in Locking : a # b => publish[a].closes \cap publish[b].closes = {}

\* One that has inserted a card closes every card for rides that is open.
Holding ==
    /\ \A a \in Admins : publish[a].card # None <=> a \in Holders
    /\ \A a \in Holders : /\ card[publish[a].card].at = "unborn"
                          /\ OpenForRides \subseteq publish[a].closes

OneHolder == \A a, b \in Holders : a = b

\* There is a card to publish for each publication that has begun.
Spare == Cardinality(Busy) <= Cardinality(Unborns)

RidesOnly == \A c \in Unborns : card[c].service = "ride"

\* Card c is open, or was closed no more than n ticks ago.
Lately(c, n) == \/ card[c].at = "open"
                \/ card[c].at = "closed" /\ ticks - card[c].closed <= n

CachedLately == \A s \in Services : cache[s].card # None =>
    Lately(cache[s].card, cache[s].age) /\ cache[s].age < TariffTTL

ReadLately == \A r \in Readers :
    /\ reader[r].at = "fill"  => reader[r].card # None /\ Lately(reader[r].card, 0)
    /\ reader[r].at = "price" => reader[r].card # None /\ Lately(reader[r].card, TariffTTL - 1)

QuotedLately == quote # NoQuote =>
    /\ quote.card # None /\ Lately(quote.card, TariffTTL - 1 + quote.age)
    /\ quote.age < QuoteTTL

\* The total is what the formula gives for the multiplier that the quote keeps.
Priced(q) ==
    /\ q.card # None
    /\ q.total = Total(q.card, q.trip, q.surge, q.promo)

QuotePriced == quote # NoQuote => Priced(quote)
RidePriced  == ride.at # "none" => Priced(ride.quote)

\* A request that ends the ride reads at the multiplier of its quote.
LockedIn == \A r \in Readers : reader[r].at # "idle" /\ reader[r].why # "quote" =>
    ride.at # "none" /\ reader[r].surge = ride.quote.surge

CardInv == RowsLocked /\ Holding /\ OneHolder /\ Spare /\ RidesOnly /\ OneRideCard
TimeInv == CachedLately /\ ReadLately /\ QuotedLately
FareInv == QuotePriced /\ RidePriced /\ LockedIn /\ QuoteBinds /\ SharesAddUp

-----------------------------------------------------------------------------
(* The fare formula *)

\* Rounding keeps integers, and what is not negative.
LEMMA RoundedInt ==
    ASSUME NEW a \in Int, NEW b \in {10, 60, 1000, 5000, 10000}
    PROVE  Rounded(a, b) \in Int /\ (a >= 0 => Rounded(a, b) >= 0)
<1>1. CASE b = 10
  BY <1>1 DEF Rounded
<1>2. CASE b = 60
  BY <1>2 DEF Rounded
<1>3. CASE b = 1000
  BY <1>3 DEF Rounded
<1>4. CASE b = 5000
  BY <1>4 DEF Rounded
<1>5. CASE b = 10000
  BY <1>5 DEF Rounded
<1>6. QED
  BY <1>1, <1>2, <1>3, <1>4, <1>5

LEMMA Product == ASSUME NEW a \in Nat, NEW b \in Nat PROVE a * b \in Nat
OBVIOUS

LEMMA ProductInt == ASSUME NEW a \in Int, NEW b \in Int PROVE a * b \in Int
OBVIOUS

LEMMA RateType ==
    ASSUME NEW c \in Cards
    PROVE  /\ Rates[c] \in Rate
           /\ Rates[c].base \in Nat /\ Rates[c].perKm \in Nat /\ Rates[c].perMinute \in Nat
           /\ Rates[c].minimum \in Nat /\ Rates[c].booking \in Nat /\ Rates[c].fee \in Nat
           /\ Rates[c].maxSurge \in Int
<1>1. Rates[c] \in Rate
  BY RateCards DEF Cards
<1>2. QED
  BY <1>1 DEF Rate

LEMMA CommissionType == ASSUME NEW c \in Cards PROVE Rates[c].commission \in Nat /\ Rates[c].commission <= 10000
<1>1. Rates[c] \in Rate
  BY RateCards DEF Cards
<1>2. Rates[c].commission \in Nat
  BY <1>1 DEF Rate
<1>3. QED
  BY <1>2, CommissionInPart

\* What is charged of a multiplier that is charged already is all of it.
LEMMA MultiplierOnce ==
    ASSUME NEW c \in Cards, NEW surge \in Int
    PROVE  Multiplier(c, surge) \in Int /\ Multiplier(c, Multiplier(c, surge)) = Multiplier(c, surge)
BY RateType DEF Multiplier, Smaller, Larger

LEMMA MeteredInt ==
    ASSUME NEW c \in Cards, NEW t \in Trip
    PROVE  Metered(c, t) \in Int
<1>1. t.metres \in Nat /\ t.seconds \in Nat
  BY DEF Trip
<1>2. t.metres * Rates[c].perKm \in Int /\ t.seconds * Rates[c].perMinute \in Int
  BY <1>1, RateType, Product
<1>3. Rounded(t.metres * Rates[c].perKm, 1000) \in Int /\ Rounded(t.seconds * Rates[c].perMinute, 60) \in Int
  BY <1>2, RoundedInt
<1>4. QED
  BY <1>3, RateType DEF Metered

LEMMA BeforeBookingNat ==
    ASSUME NEW c \in Cards, NEW t \in Trip, NEW surge \in Int
    PROVE  BeforeBooking(c, t, surge) \in Nat
<1>1. Metered(c, t) * Multiplier(c, surge) \in Int
  BY MeteredInt, MultiplierOnce, ProductInt
<1>2. Rounded(Metered(c, t) * Multiplier(c, surge), 10) \in Int
  BY <1>1, RoundedInt
<1>3. QED
  BY <1>2, RateType DEF BeforeBooking, Larger

\* A total is never negative, whatever the discount, and depends on the multiplier that
\* is charged only.
LEMMA TotalNat ==
    ASSUME NEW c \in Cards, NEW t \in Trip, NEW surge \in Int, NEW promo \in Int
    PROVE  /\ Total(c, t, surge, promo) \in Nat
           /\ Total(c, t, Multiplier(c, surge), promo) = Total(c, t, surge, promo)
<1> DEFINE fare == BeforeBooking(c, t, surge)
           fee  == Rounded(fare * Rates[c].booking, 10000)
           cents == fare + fee - Smaller(promo, fare)
<1>1. fare \in Nat
  BY BeforeBookingNat
<1> HIDE DEF fare
<1>2. fare * Rates[c].booking \in Nat
  BY <1>1, RateType, Product
<1>3. fee \in Nat
  BY SMTT(30), <1>2, RoundedInt
<1> HIDE DEF fee
<1>4. cents \in Nat
  BY <1>1, <1>3 DEF Smaller
<1> HIDE DEF cents
<1>5. RoundToStep(cents) \in Nat
  <2>1. Rounded(cents, 5000) \in Nat
    BY <1>4, RoundedInt
  <2>2. QED
    BY <2>1 DEF RoundToStep
<1>6. Total(c, t, surge, promo) = RoundToStep(cents)
  BY DEF Total, BookingFee, cents, fee, fare
<1>7. BeforeBooking(c, t, Multiplier(c, surge)) = BeforeBooking(c, t, surge)
  BY MultiplierOnce DEF BeforeBooking
<1>8. QED
  BY <1>5, <1>6, <1>7 DEF Total

\* A share of at most the whole is at most the whole, rounded or not.
LEMMA ShareOfWhole ==
    ASSUME NEW fare \in Nat, NEW bps \in Nat, bps <= 10000
    PROVE  Rounded(fare * bps, 10000) \in 0..fare
<1> DEFINE x == fare * bps
<1>1. x \in Nat /\ x <= fare * 10000
  OBVIOUS
<1> HIDE DEF x
<1>2. Rounded(x, 10000) \in 0..fare
  BY <1>1 DEF Rounded
<1>3. QED
  BY <1>2 DEF x

\* The amounts a fare is divided into are not negative, and with the booking fee they are
\* the fare.
LEMMA SharesOfFare ==
    ASSUME NEW c \in Cards, NEW fare \in Nat
    PROVE  /\ BookingFee(c, fare) \in Nat /\ Commission(c, fare) \in Nat
           /\ DriverEarnings(c, fare) \in Nat
           /\ Commission(c, fare) + DriverEarnings(c, fare) = fare
<1>1. Commission(c, fare) \in 0..fare
  <2> DEFINE bps == Rates[c].commission
  <2>1. bps \in Nat /\ bps <= 10000
    BY CommissionType
  <2> HIDE DEF bps
  <2>2. Rounded(fare * bps, 10000) \in 0..fare
    BY <2>1, ShareOfWhole
  <2>3. QED
    BY <2>2 DEF Commission, bps
<1>2. fare * Rates[c].booking \in Nat
  BY RateType, Product
<1>3. BookingFee(c, fare) \in Nat
  BY SMTT(30), <1>2, RoundedInt DEF BookingFee
<1>4. QED
  BY <1>1, <1>3 DEF DriverEarnings

\* The nearest multiple of fifty shillings is half a step away at most.
LEMMA StepIsNear ==
    ASSUME NEW cents \in Int
    PROVE  /\ RoundToStep(cents) \in Int
           /\ RoundToStep(cents) <= cents + 2500 /\ cents <= RoundToStep(cents) + 2500
BY DEF RoundToStep, Rounded

\* What is shared out of a trip without a discount is its total, to half a step.
LEMMA SharesNearTotal ==
    ASSUME NEW c \in Cards, NEW t \in Trip, NEW surge \in Int
    PROVE  LET s == Shares(c, BeforeBooking(c, t, surge))
               total == Total(c, t, surge, 0)
           IN  /\ s.fee \in Nat /\ s.commission \in Nat /\ s.earnings \in Nat
               /\ total <= s.fee + s.commission + s.earnings + 2500
               /\ s.fee + s.commission + s.earnings <= total + 2500
<1> DEFINE fare == BeforeBooking(c, t, surge)
           s == Shares(c, fare)
<1>1. fare \in Nat
  BY BeforeBookingNat
<1>2. Total(c, t, surge, 0) = RoundToStep(fare + BookingFee(c, fare) - Smaller(0, fare))
  BY DEF Total
<1>3. s.fee = BookingFee(c, fare) /\ s.commission = Commission(c, fare) /\ s.earnings = DriverEarnings(c, fare)
  BY DEF Shares
<1> HIDE DEF fare, s
<1>4. Smaller(0, fare) = 0
  BY <1>1 DEF Smaller
<1>5. /\ s.fee \in Nat /\ s.commission \in Nat /\ s.earnings \in Nat
      /\ s.fee + s.commission + s.earnings = fare + BookingFee(c, fare)
  BY <1>1, <1>3, SharesOfFare
<1>6. Total(c, t, surge, 0) = RoundToStep(fare + BookingFee(c, fare))
  BY <1>1, <1>2, <1>3, <1>4, <1>5
<1>7. QED
  <2>1. fare + BookingFee(c, fare) \in Int
    BY <1>1, <1>3, <1>5
  <2>2. /\ Total(c, t, surge, 0) <= s.fee + s.commission + s.earnings + 2500
        /\ s.fee + s.commission + s.earnings <= Total(c, t, surge, 0) + 2500
    BY <1>5, <1>6, <2>1, StepIsNear
  <2>3. QED
    BY <1>5, <2>2 DEF s, fare

\* The ceiling of a bill is not below the quote.
LEMMA CeilingAbove ==
    ASSUME NEW quoted \in Nat
    PROVE  Ceiling(quoted) \in Nat /\ quoted <= Ceiling(quoted)
<1>1. quoted * 2000 \in Nat
  OBVIOUS
<1>2. Rounded(quoted * 2000, 10000) \in Nat
  BY <1>1, RoundedInt
<1>3. QED
  BY <1>2 DEF Ceiling

\* The curve gives a multiplier, whatever stands in the tile.
LEMMA CurveInt == ASSUME NEW n, NEW d PROVE Curve(n, d) \in Int
BY DEF Curve

-----------------------------------------------------------------------------
(* Types *)

LEMMA Blanks ==
    /\ NoPub \in PubRow /\ Uncached \in CacheRow /\ NoReader \in ReaderRow
    /\ NoQuote \in QuoteRow /\ NoRide \in RideRow /\ NoTrip \in Trip
    /\ Unborn \in CardRow
BY DEF NoPub, PubRow, Stages, None, Uncached, CacheRow, NoReader, ReaderRow, NoQuote, QuoteRow,
       NoRide, RideRow, NoShares, NoTrip, Trip, Unborn, CardRow, Services

LEMMA TypedInit == Init => Typed
<1> SUFFICES ASSUME Init PROVE Typed
  OBVIOUS
<1>1. card \in [Cards -> CardRow]
  BY Blanks DEF Init, CardRow, Services, Unborn
<1>2. QED
  BY <1>1, Blanks DEF Init, Typed

\* Who touches the cards and the publications.
LEMMA PublishSteps ==
    [Next]_vars =>
       \/ \E a \in Admins : BeginPublish(a)
       \/ \E a \in Admins : CloseOld(a)
       \/ \E a \in Admins : InsertCard(a)
       \/ \E a \in Admins : FindKeys(a)
       \/ \E a \in Admins : DropKeys(a)
       \/ \E a \in Admins : Commit(a)
       \/ \E a \in Admins : Rollback(a)
       \/ UNCHANGED <<card, publish>>
BY DEF Next, Publishing, Pricing, AskQuote, StartEnd, CheckCache, QueryTariff, FillCache, Quote,
       Settle, ChargeFee, RefreshTile, Order, CancelFree, Tick, vars

\* Who touches a reader, the cache, the quote or the ride.
LEMMA FareSteps ==
    [Next]_vars =>
       \/ \E r \in Readers, s \in Services : AskQuote(r, s)
       \/ \E r \in Readers : \E why \in {"settle", "cancel"} : StartEnd(r, why)
       \/ \E r \in Readers : CheckCache(r)
       \/ \E r \in Readers : QueryTariff(r)
       \/ \E r \in Readers : FillCache(r)
       \/ \E r \in Readers : \E trip \in Planned, promo \in Promos : Quote(r, trip, promo)
       \/ \E r \in Readers : \E trip \in Driven : Settle(r, trip)
       \/ \E r \in Readers : ChargeFee(r)
       \/ Order
       \/ CancelFree
       \/ Tick
       \/ \E a \in Admins : DropKeys(a)
       \/ UNCHANGED <<cache, reader, quote, ride, ticks>>
BY DEF Next, Publishing, Pricing, BeginPublish, CloseOld, InsertCard, FindKeys, Commit, Rollback,
       RefreshTile, vars

\* A publication that has begun finds a card to publish.
LEMMA UnbornFound ==
    ASSUME Spare, NEW a \in Admins, publish[a].at # "idle"
    PROVE  \E c \in Cards : card[c].at = "unborn"
<1>1. IsFiniteSet(Busy) /\ IsFiniteSet(Unborns)
  <2>1. IsFiniteSet(Admins) /\ IsFiniteSet(Cards)
    BY RateCards, FS_Interval DEF Cards
  <2>2. QED
    BY <2>1, FS_Subset DEF Busy, Unborns
<1>2. Busy # {}
  BY DEF Busy
<1>3. Cardinality(Busy) # 0 /\ Cardinality(Busy) \in Nat
  BY <1>1, <1>2, FS_EmptySet, FS_CardinalityType
<1>4. Cardinality(Unborns) # 0
  BY <1>1, <1>3, FS_CardinalityType DEF Spare
<1>5. QED
  BY <1>4, FS_EmptySet DEF Unborns

LEMMA PublishType == Typed /\ Spare /\ [Next]_vars =>
    card' \in [Cards -> CardRow] /\ publish' \in [Admins -> PubRow]
<1> SUFFICES ASSUME Typed, Spare, [Next]_vars
             PROVE  card' \in [Cards -> CardRow] /\ publish' \in [Admins -> PubRow]
  OBVIOUS
<1> USE Blanks DEF None
<1>1. card \in [Cards -> CardRow] /\ publish \in [Admins -> PubRow] /\ ticks \in Nat
  BY DEF Typed
<1>2. ASSUME NEW a \in Admins, BeginPublish(a) PROVE publish' \in [Admins -> PubRow] /\ card' = card
  <2>1. [NoPub EXCEPT !.at = "close", !.closes = Open] \in PubRow
    BY DEF NoPub, PubRow, Stages, Open
  <2>2. QED
    BY <1>1, <1>2, <2>1 DEF BeginPublish
<1>3. ASSUME NEW a \in Admins, CloseOld(a) PROVE publish' \in [Admins -> PubRow] /\ card' = card
  BY <1>1, <1>3 DEF CloseOld, PubRow, Stages
<1>4. ASSUME NEW a \in Admins, InsertCard(a) PROVE publish' \in [Admins -> PubRow] /\ card' = card
  <2> DEFINE new == CHOOSE c \in Cards : card[c].at = "unborn"
             next == [publish[a] EXCEPT !.at = "keys", !.card = new]
  <2>1. CASE Unique(a)
    <3>1. new \in Cards \cup {None}
      BY <1>4, UnbornFound DEF InsertCard
    <3>2. next \in PubRow
      BY <1>1, <3>1 DEF PubRow, Stages
    <3>3. QED
      BY <1>1, <1>4, <2>1, <3>2 DEF InsertCard
  <2>2. CASE ~Unique(a)
    BY <1>1, <1>4, <2>2 DEF InsertCard
  <2>3. QED
    BY <2>1, <2>2
<1>5. ASSUME NEW a \in Admins, FindKeys(a) PROVE publish' \in [Admins -> PubRow] /\ card' = card
  BY <1>1, <1>5 DEF FindKeys, PubRow, Stages
<1>6. ASSUME NEW a \in Admins, DropKeys(a) PROVE publish' \in [Admins -> PubRow] /\ card' = card
  BY <1>1, <1>6 DEF DropKeys, PubRow, Stages
<1>7. ASSUME NEW a \in Admins, Commit(a)
      PROVE  publish' \in [Admins -> PubRow] /\ card' \in [Cards -> CardRow]
  <2>1. \A c \in Cards : /\ [card[c] EXCEPT !.at = "open"] \in CardRow
                         /\ [card[c] EXCEPT !.at = "closed", !.closed = ticks] \in CardRow
    BY <1>1 DEF CardRow
  <2>2. QED
    BY <1>1, <1>7, <2>1 DEF Commit
<1>8. ASSUME NEW a \in Admins, Rollback(a) PROVE publish' \in [Admins -> PubRow] /\ card' = card
  BY <1>1, <1>8 DEF Rollback
<1>9. QED
  BY <1>1, <1>2, <1>3, <1>4, <1>5, <1>6, <1>7, <1>8, PublishSteps

\* A card in force that a reader found is a card.
LEMMA FareType == Typed /\ CachedLately /\ ReadLately /\ [Next]_vars =>
    /\ cache' \in [Services -> CacheRow] /\ reader' \in [Readers -> ReaderRow]
    /\ quote' \in QuoteRow /\ ride' \in RideRow /\ ticks' \in Nat
<1> SUFFICES ASSUME Typed, CachedLately, ReadLately, [Next]_vars
             PROVE  /\ cache' \in [Services -> CacheRow] /\ reader' \in [Readers -> ReaderRow]
                    /\ quote' \in QuoteRow /\ ride' \in RideRow /\ ticks' \in Nat
  OBVIOUS
<1> USE Blanks DEF None
<1>1. /\ card \in [Cards -> CardRow]
      /\ cache \in [Services -> CacheRow] /\ reader \in [Readers -> ReaderRow]
      /\ quote \in QuoteRow /\ ride \in RideRow /\ ticks \in Nat
  BY DEF Typed
<1>2. ASSUME NEW r \in Readers, NEW s \in Services, AskQuote(r, s)
      PROVE  reader' \in [Readers -> ReaderRow] /\ UNCHANGED <<cache, quote, ride, ticks>>
  <2> DEFINE surge == Curve(tile.requests, tile.drivers)
             next  == [NoReader EXCEPT !.at = "cache", !.service = s, !.surge = surge]
  <2>1. surge \in Int
    BY CurveInt
  <2> HIDE DEF surge
  <2>2. next \in ReaderRow
    BY <2>1 DEF NoReader, ReaderRow
  <2> HIDE DEF next
  <2>3. reader' = [reader EXCEPT ![r] = next] /\ UNCHANGED <<cache, quote, ride, ticks>>
    BY <1>2 DEF AskQuote, next, surge
  <2>4. QED
    BY <1>1, <2>2, <2>3
<1>3. ASSUME NEW r \in Readers, NEW why \in {"settle", "cancel"}, StartEnd(r, why)
      PROVE  reader' \in [Readers -> ReaderRow] /\ UNCHANGED <<cache, quote, ride, ticks>>
  <2>1. ride.quote.surge \in Int
    BY <1>1 DEF RideRow, QuoteRow
  <2>2. [NoReader EXCEPT !.at = "cache", !.why = why, !.surge = LockedSurge] \in ReaderRow
    BY <2>1 DEF NoReader, ReaderRow, LockedSurge, Services
  <2>3. QED
    BY <1>1, <1>3, <2>2 DEF StartEnd
<1>4. ASSUME NEW r \in Readers, CheckCache(r)
      PROVE  reader' \in [Readers -> ReaderRow] /\ UNCHANGED <<cache, quote, ride, ticks>>
  BY ZenonT(40), <1>1, <1>4 DEF CheckCache, ReaderRow, CacheRow
<1>5. ASSUME NEW r \in Readers, QueryTariff(r)
      PROVE  reader' \in [Readers -> ReaderRow] /\ UNCHANGED <<cache, quote, ride, ticks>>
  BY <1>1, <1>5 DEF QueryTariff, ReaderRow, Open
<1>6. ASSUME NEW r \in Readers, FillCache(r)
      PROVE  /\ reader' \in [Readers -> ReaderRow] /\ cache' \in [Services -> CacheRow]
             /\ UNCHANGED <<quote, ride, ticks>>
  BY <1>1, <1>6 DEF FillCache, ReaderRow, CacheRow
<1>7. ASSUME NEW r \in Readers, NEW trip \in Planned, NEW promo \in Promos, Quote(r, trip, promo)
      PROVE  /\ reader' \in [Readers -> ReaderRow] /\ quote' \in QuoteRow
             /\ UNCHANGED <<cache, ride, ticks>>
  <2>1. reader[r] \in ReaderRow /\ reader[r].card \in Cards /\ reader[r].surge \in Int
    BY <1>1, <1>7 DEF Quote, ReadLately, ReaderRow
  <2>2. trip \in Trip /\ promo \in Int
    BY RateCards
  <2>3. /\ Total(reader[r].card, trip, reader[r].surge, promo) \in Nat
        /\ Multiplier(reader[r].card, reader[r].surge) \in Int
    BY <2>1, <2>2, TotalNat, MultiplierOnce
  <2>4. quote' \in QuoteRow
    BY <1>7, <2>1, <2>2, <2>3 DEF Quote, QuoteRow
  <2>5. QED
    BY <1>1, <1>7, <2>4 DEF Quote
<1>8. ASSUME NEW r \in Readers, NEW trip \in Driven, Settle(r, trip)
      PROVE  /\ reader' \in [Readers -> ReaderRow] /\ ride' \in RideRow
             /\ UNCHANGED <<cache, quote, ticks>>
  <2>1. reader[r] \in ReaderRow /\ reader[r].card \in Cards /\ reader[r].surge \in Int
    BY <1>1, <1>8 DEF Settle, ReadLately, ReaderRow
  <2>2. trip \in Trip /\ ride.quote.total \in Nat
    BY <1>1, RateCards DEF RideRow, QuoteRow
  <2> DEFINE bill == Smaller(Total(reader[r].card, trip, reader[r].surge, 0), Ceiling(ride.quote.total))
             fare == BeforeBooking(reader[r].card, trip, reader[r].surge)
             shares == Shares(reader[r].card, fare)
  <2>3. bill \in Int
    BY <2>1, <2>2, TotalNat, CeilingAbove DEF Smaller
  <2> HIDE DEF bill
  <2>4. fare \in Nat
    BY <2>1, <2>2, BeforeBookingNat
  <2> HIDE DEF fare
  <2>5. shares \in [fee : Int, commission : Int, earnings : Int]
    BY <2>1, <2>4, SharesOfFare DEF Shares
  <2> HIDE DEF shares
  <2>6. ride' = [ride EXCEPT !.at = "billed", !.card = reader[r].card, !.trip = trip,
                             !.shares = shares, !.bill = bill]
    BY <1>8 DEF Settle, bill, shares, fare
  <2>7. ride' \in RideRow
    BY <1>1, <2>1, <2>2, <2>3, <2>5, <2>6 DEF RideRow
  <2>8. QED
    BY <1>1, <1>8, <2>7 DEF Settle
<1>9. ASSUME NEW r \in Readers, ChargeFee(r)
      PROVE  /\ reader' \in [Readers -> ReaderRow] /\ ride' \in RideRow
             /\ UNCHANGED <<cache, quote, ticks>>
  <2>1. reader[r] \in ReaderRow /\ reader[r].card \in Cards
    BY <1>1, <1>9 DEF ChargeFee, ReadLately, ReaderRow
  <2>2. Rates[reader[r].card].fee \in Int
    BY <2>1, RateType
  <2>3. ride' \in RideRow
    BY <1>1, <1>9, <2>1, <2>2 DEF ChargeFee, RideRow
  <2>4. QED
    BY <1>1, <1>9, <2>3 DEF ChargeFee
<1>10. ASSUME Order PROVE ride' \in RideRow /\ UNCHANGED <<cache, reader, quote, ticks>>
  BY <1>1, <1>10 DEF Order, NoRide, RideRow
<1>11. ASSUME CancelFree PROVE ride' \in RideRow /\ UNCHANGED <<cache, reader, quote, ticks>>
  BY <1>1, <1>11 DEF CancelFree, RideRow
<1>12. ASSUME Tick
       PROVE  /\ cache' \in [Services -> CacheRow] /\ quote' \in QuoteRow /\ ticks' \in Nat
              /\ UNCHANGED <<reader, ride>>
  <2>1. \A s \in Services : [cache[s] EXCEPT !.age = @ + 1] \in CacheRow
    BY <1>1 DEF CacheRow
  <2>2. [quote EXCEPT !.age = @ + 1] \in QuoteRow
    BY <1>1 DEF QuoteRow
  <2>3. cache' \in [Services -> CacheRow]
    BY <1>12, <2>1, <1>1 DEF Tick
  <2>4. quote' \in QuoteRow
    BY <1>12, <2>2, <1>1 DEF Tick
  <2>5. QED
    BY <1>1, <1>12, <2>3, <2>4 DEF Tick
<1>13. ASSUME NEW a \in Admins, DropKeys(a)
       PROVE  cache' \in [Services -> CacheRow] /\ UNCHANGED <<reader, quote, ride, ticks>>
  BY <1>1, <1>13 DEF DropKeys
<1>14. QED
  BY <1>1, <1>2, <1>3, <1>4, <1>5, <1>6, <1>7, <1>8, <1>9, <1>10, <1>11, <1>12, <1>13, FareSteps

-----------------------------------------------------------------------------
(* One card in force *)

LEMMA FiniteTables == IsFiniteSet(Admins) /\ IsFiniteSet(Cards)
BY RateCards, FS_Interval DEF Cards

LEMMA CardsInit == Init => CardInv
<1> SUFFICES ASSUME Init PROVE CardInv
  OBVIOUS
<1>1. \A a \in Admins : publish[a] = NoPub
  BY DEF Init
<1>2. Holders = {} /\ Locking = {} /\ Busy = {}
  BY <1>1 DEF Holders, Locking, Busy, NoPub
<1>3. \A c \in Cards : /\ card[c].at = IF c <= 2 THEN "open" ELSE "unborn"
                       /\ card[c].service = IF c = 2 THEN "parcel" ELSE "ride"
  BY DEF Init, Unborn
<1>4. {1, 2} \subseteq Cards
  BY RateCards DEF Cards
<1>5. OpenForRides = {1}
  BY <1>3, <1>4 DEF OpenForRides, Open, Cards
<1>6. OneRideCard
  BY <1>5, FS_Singleton DEF OneRideCard, OpenForRides
<1>7. Spare
  <2>1. IsFiniteSet(Unborns)
    BY FiniteTables, FS_Subset DEF Unborns
  <2>2. QED
    BY <1>2, <2>1, FS_EmptySet, FS_CardinalityType DEF Spare
<1>8. RidesOnly
  BY <1>3, <1>4 DEF RidesOnly, Unborns, Cards
<1>9. QED
  BY <1>1, <1>2, <1>6, <1>7, <1>8 DEF CardInv, RowsLocked, Holding, OneHolder, NoPub

\* The parts of the invariant that a step of a publication keeps when the table stays.
LEMMA TableStays ==
    ASSUME CardInv, card' = card, Busy' \subseteq Busy
    PROVE  Spare' /\ RidesOnly' /\ OneRideCard'
<1>1. Unborns' = Unborns /\ OpenForRides' = OpenForRides
  BY DEF Unborns, OpenForRides, Open
<1>2. RidesOnly' /\ OneRideCard'
  BY <1>1 DEF CardInv, RidesOnly, OneRideCard, OpenForRides, Unborns, Open
<1>3. IsFiniteSet(Busy) /\ IsFiniteSet(Unborns) /\ IsFiniteSet(Busy')
  BY FiniteTables, FS_Subset DEF Busy, Unborns
<1>4. Cardinality(Busy') <= Cardinality(Busy) /\ Cardinality(Busy') \in Nat
      /\ Cardinality(Busy) \in Nat /\ Cardinality(Unborns) \in Nat
  BY <1>3, FS_Subset, FS_CardinalityType
<1>5. Spare'
  BY <1>1, <1>4 DEF CardInv, Spare
<1>6. QED
  BY <1>2, <1>5

\* Before the INSERT a publication only gathers locks; when it fails it lets go of them.
LEMMA CardsWait ==
    ASSUME Typed, CardInv, NEW a \in Admins,
           BeginPublish(a) \/ CloseOld(a) \/ FindKeys(a) \/ DropKeys(a) \/ Rollback(a)
    PROVE  RowsLocked' /\ Holding' /\ OneHolder'
<1>1. publish \in [Admins -> PubRow] /\ publish[a] \in PubRow /\ card' = card
  BY DEF Typed, BeginPublish, CloseOld, FindKeys, DropKeys, Rollback
<1>2. \A b \in Admins \ {a} : publish'[b] = publish[b]
  BY <1>1 DEF BeginPublish, CloseOld, FindKeys, DropKeys, Rollback
<1>3. \/ publish'[a].at \in {"idle", "close"} /\ publish'[a].card = None
      \/ /\ publish[a].at = "close" /\ publish'[a].at = "insert"
         /\ publish'[a].closes = publish[a].closes \cap Open /\ publish'[a].card = publish[a].card
         /\ \A b \in Underway(a) : publish[a].closes \cap publish[b].closes = {}
      \/ /\ a \in Holders /\ publish'[a].at \in {"drop", "commit"}
         /\ publish'[a].closes = publish[a].closes /\ publish'[a].card = publish[a].card
  <2>1. CASE BeginPublish(a)
    BY <1>1, <2>1 DEF BeginPublish, NoPub
  <2>2. CASE CloseOld(a)
    BY <1>1, <2>2 DEF CloseOld, PubRow
  <2>3. CASE FindKeys(a)
    BY <1>1, <2>3 DEF FindKeys, PubRow, Holders
  <2>4. CASE DropKeys(a)
    BY <1>1, <2>4 DEF DropKeys, PubRow, Holders
  <2>5. CASE Rollback(a)
    BY <1>1, <2>5 DEF Rollback, NoPub
  <2>6. QED
    BY <2>1, <2>2, <2>3, <2>4, <2>5
<1>4. Holders' \subseteq Holders /\ Locking' \subseteq Locking \cup {a} /\ Holders \ {a} \subseteq Holders'
  BY <1>2, <1>3 DEF Holders, Locking
<1>5. RowsLocked'
  BY <1>1, <1>2, <1>3, <1>4 DEF CardInv, RowsLocked, Underway, Open, Locking, Holders
<1>6. OneHolder'
  BY <1>4 DEF CardInv, OneHolder
<1>7. Holding'
  <2>1. OpenForRides' = OpenForRides
    BY <1>1 DEF OpenForRides, Open
  <2>2. \A b \in Admins : publish'[b].card # None <=> b \in Holders'
    BY <1>2, <1>3 DEF CardInv, Holding, Holders
  <2>3. \A b \in Holders' : publish'[b].card = publish[b].card /\ publish'[b].closes = publish[b].closes
    BY <1>2, <1>3 DEF Holders
  <2>4. QED
    BY <1>1, <1>4, <2>1, <2>2, <2>3 DEF CardInv, Holding
<1>8. QED
  BY <1>5, <1>6, <1>7

LEMMA CardsInsert ==
    ASSUME Typed, CardInv, NEW a \in Admins, InsertCard(a)
    PROVE  RowsLocked' /\ Holding' /\ OneHolder'
<1> DEFINE new == CHOOSE c \in Cards : card[c].at = "unborn"
<1>0. new \in Cards /\ card[new].at = "unborn"
  BY UnbornFound DEF CardInv, InsertCard
<1>1. publish \in [Admins -> PubRow] /\ publish[a] \in PubRow /\ publish[a].at = "insert" /\ card' = card
  BY DEF Typed, InsertCard
<1>2. \A b \in Admins \ {a} : publish'[b] = publish[b]
  BY <1>1 DEF InsertCard
<1>3. \/ publish'[a] = NoPub
      \/ /\ Unique(a) /\ publish'[a].at = "keys" /\ publish'[a].card = new
         /\ publish'[a].closes = publish[a].closes
  BY <1>1 DEF InsertCard, PubRow
<1> HIDE DEF new
<1>4. \A b \in Holders : FALSE
  <2> SUFFICES ASSUME NEW b \in Holders PROVE FALSE
    OBVIOUS
  <2>1. b \in Underway(a)
    BY <1>1 DEF Holders, Underway
  <2>2. publish[b].card = None
    BY <2>1 DEF InsertCard
  <2>3. QED
    BY <2>2 DEF CardInv, Holding, Holders
<1>5. Holders' \subseteq {a} /\ Locking' \subseteq Locking
  BY <1>1, <1>2, <1>3, <1>4 DEF Holders, Locking, NoPub
<1>6. RowsLocked'
  BY <1>1, <1>2, <1>3, <1>5 DEF CardInv, RowsLocked, Open, Locking, NoPub
<1>7. OneHolder'
  BY <1>5 DEF OneHolder
<1>8. Holding'
  <2>1. OpenForRides' = OpenForRides
    BY <1>1 DEF OpenForRides, Open
  <2>2. \A b \in Admins : publish'[b].card # None <=> b \in Holders'
    BY <1>0, <1>2, <1>3, <1>4 DEF CardInv, Holding, Holders, NoPub, None, Cards
  <2>3. a \in Holders' => card'[publish'[a].card].at = "unborn" /\ OpenForRides' \subseteq publish'[a].closes
    BY <1>0, <1>1, <1>3, <2>1 DEF Holders, NoPub, Unique, OpenForRides
  <2>4. QED
    BY <1>5, <2>2, <2>3 DEF Holding
<1>9. QED
  BY <1>6, <1>7, <1>8

\* The holder's card replaces every open card for rides, and nobody else's rows change.
LEMMA CardsCommit ==
    ASSUME Typed, CardInv, NEW a \in Admins, Commit(a)
    PROVE  CardInv'
<1> DEFINE new == publish[a].card
<1>1. /\ card \in [Cards -> CardRow] /\ publish \in [Admins -> PubRow] /\ publish[a] \in PubRow
      /\ a \in Holders /\ a \in Locking
  BY DEF Typed, Commit, Holders, Locking
<1>2. /\ new \in Cards /\ card[new].at = "unborn" /\ card[new].service = "ride"
      /\ OpenForRides \subseteq publish[a].closes /\ publish[a].closes \subseteq Open
  BY <1>1 DEF CardInv, Holding, RowsLocked, RidesOnly, Unborns, PubRow, None
<1>3. /\ \A b \in Admins \ {a} : publish'[b] = publish[b]
      /\ publish'[a] = NoPub
  BY <1>1 DEF Commit
<1>4. /\ card'[new].at = "open" /\ card'[new].service = "ride"
      /\ \A c \in publish[a].closes : card'[c].at = "closed" /\ card'[c].service = card[c].service
      /\ \A c \in Cards \ (publish[a].closes \cup {new}) : card'[c] = card[c]
  <2>1. card' = [c \in Cards |->
          CASE c = new               -> [card[c] EXCEPT !.at = "open"]
            [] c \in publish[a].closes    -> [card[c] EXCEPT !.at = "closed", !.closed = ticks]
            [] OTHER                      -> card[c]]
    BY DEF Commit
  <2>2. new \notin publish[a].closes
    BY <1>2 DEF Open
  <2>3. \A c \in Cards : card[c] \in CardRow
    BY <1>1
  <2> HIDE DEF new
  <2>4. card'[new] = [card[new] EXCEPT !.at = "open"]
    BY <1>2, <2>1, <2>2
  <2>5. \A c \in publish[a].closes : card'[c] = [card[c] EXCEPT !.at = "closed", !.closed = ticks]
    BY <1>2, <2>1, <2>2 DEF Open
  <2>6. QED
    BY ZenonT(40), <1>2, <2>1, <2>3, <2>4, <2>5 DEF CardRow, Open
<1>5. Holders' = {} /\ Locking' = Locking \ {a} /\ Busy' = Busy \ {a}
  BY <1>1, <1>3 DEF Holders, Locking, Busy, NoPub, CardInv, OneHolder
<1> HIDE DEF new
<1>6. RowsLocked'
  <2>1. ASSUME NEW b \in Locking' PROVE publish'[b].closes \subseteq Open'
    <3>1. b \in Locking /\ b # a /\ publish'[b] = publish[b]
      BY <1>3, <1>5, <2>1 DEF Locking
    <3>2. publish[b].closes \subseteq Open /\ publish[b].closes \cap publish[a].closes = {}
      BY <1>1, <3>1 DEF CardInv, RowsLocked
    <3>3. \A c \in publish[b].closes : card'[c] = card[c]
      BY <1>2, <1>4, <3>2 DEF Open
    <3>4. QED
      BY <3>1, <3>2, <3>3 DEF Open
  <2>2. QED
    BY <1>3, <1>5, <2>1 DEF CardInv, RowsLocked, Locking
<1>7. Holding'
  BY <1>3, <1>5 DEF CardInv, Holding, NoPub, OneHolder, Holders
<1>8. OneHolder'
  BY <1>5 DEF OneHolder
<1>9. Unborns' = Unborns \ {new} /\ new \in Unborns /\ a \in Busy
  BY <1>1, <1>2, <1>4 DEF Unborns, Open, Busy, Holders
<1>10. Spare'
  <2>1. IsFiniteSet(Busy) /\ IsFiniteSet(Unborns)
    BY FiniteTables, FS_Subset DEF Busy, Unborns
  <2>2. /\ Cardinality(Busy') = Cardinality(Busy) - 1 /\ Cardinality(Unborns') = Cardinality(Unborns) - 1
        /\ Cardinality(Busy) \in Nat /\ Cardinality(Unborns) \in Nat
    BY <1>5, <1>9, <2>1, FS_RemoveElement, FS_CardinalityType
  <2>3. QED
    BY <2>2 DEF CardInv, Spare
<1>11. RidesOnly'
  BY <1>2, <1>4, <1>9 DEF CardInv, RidesOnly, Unborns, Open
<1>12. OneRideCard'
  <2>1. OpenForRides' = {new}
    BY <1>2, <1>4 DEF OpenForRides, Open
  <2>2. QED
    BY <2>1, FS_Singleton DEF OneRideCard, OpenForRides
<1>13. QED
  BY <1>6, <1>7, <1>8, <1>10, <1>11, <1>12 DEF CardInv

LEMMA CardsStep == Typed /\ CardInv /\ [Next]_vars => CardInv'
<1> SUFFICES ASSUME Typed, CardInv, [Next]_vars PROVE CardInv'
  OBVIOUS
<1>1. ASSUME NEW a \in Admins, BeginPublish(a) PROVE CardInv'
  <2>1. RowsLocked' /\ Holding' /\ OneHolder'
    BY <1>1, CardsWait
  <2>2. publish \in [Admins -> PubRow] /\ card' = card
    BY <1>1 DEF Typed, BeginPublish
  <2>3. Unborns' = Unborns /\ OpenForRides' = OpenForRides
    BY <2>2 DEF Unborns, OpenForRides, Open
  <2>4. RidesOnly' /\ OneRideCard'
    BY <2>2, <2>3 DEF CardInv, RidesOnly, OneRideCard, OpenForRides, Unborns, Open
  <2>5. Busy' = Busy \cup {a} /\ a \notin Busy
    BY <1>1, <2>2 DEF BeginPublish, Busy, NoPub
  <2>6. IsFiniteSet(Busy) /\ IsFiniteSet(Unborns)
    BY FiniteTables, FS_Subset DEF Busy, Unborns
  <2>7. /\ Cardinality(Busy') = Cardinality(Busy) + 1
        /\ Cardinality(Busy) \in Nat /\ Cardinality(Unborns) \in Nat
    BY <2>5, <2>6, FS_AddElement, FS_CardinalityType
  <2>8. Cardinality(Unborns) > Cardinality(Busy)
    BY <1>1 DEF BeginPublish, Unborns, Busy
  <2>9. Spare'
    BY <2>3, <2>7, <2>8 DEF Spare
  <2>10. QED
    BY <2>1, <2>4, <2>9 DEF CardInv
<1>2. ASSUME NEW a \in Admins, CloseOld(a) \/ FindKeys(a) \/ DropKeys(a) \/ Rollback(a) PROVE CardInv'
  <2>1. RowsLocked' /\ Holding' /\ OneHolder'
    BY <1>2, CardsWait
  <2>2. card' = card /\ Busy' \subseteq Busy
    BY <1>2 DEF Typed, CloseOld, FindKeys, DropKeys, Rollback, Busy, NoPub, PubRow
  <2>3. QED
    BY <2>1, <2>2, TableStays DEF CardInv
<1>3. ASSUME NEW a \in Admins, InsertCard(a) PROVE CardInv'
  <2>1. RowsLocked' /\ Holding' /\ OneHolder'
    BY <1>3, CardsInsert
  <2>2. card' = card /\ Busy' \subseteq Busy
    BY <1>3 DEF Typed, InsertCard, Busy, NoPub, PubRow
  <2>3. QED
    BY <2>1, <2>2, TableStays DEF CardInv
<1>4. ASSUME NEW a \in Admins, Commit(a) PROVE CardInv'
  BY <1>4, CardsCommit
<1>5. ASSUME UNCHANGED <<card, publish>> PROVE CardInv'
  BY <1>5 DEF CardInv, RowsLocked, Holding, OneHolder, Spare, RidesOnly, OneRideCard, Busy, Unborns,
              OpenForRides, Open, Locking, Holders
<1>6. QED
  BY <1>1, <1>2, <1>3, <1>4, <1>5, PublishSteps

-----------------------------------------------------------------------------
(* Recent rates *)

LEMMA TimeInit == Init => TimeInv
<1> SUFFICES ASSUME Init PROVE TimeInv
  OBVIOUS
<1>1. /\ \A s \in Services : cache[s].card = None
      /\ \A r \in Readers : reader[r].at = "idle"
      /\ quote = NoQuote
  BY DEF Init, Uncached, NoReader
<1>2. QED
  BY <1>1 DEF TimeInv, CachedLately, ReadLately, QuotedLately

\* A card that was in force lately grows older with the clock, and in no other way.
LEMMA CardsAge ==
    ASSUME Typed, CardInv, [Next]_vars, NEW c \in Cards, NEW n \in Nat, Lately(c, n)
    PROVE  \/ card'[c].at = "open"
           \/ card'[c].at = "closed" /\ ticks' - card'[c].closed <= n + (ticks' - ticks)
<1>1. /\ card \in [Cards -> CardRow] /\ ticks \in Nat /\ card[c] \in CardRow
      /\ card[c].closed \in Nat
  BY DEF Typed, CardRow
<1>2. CASE card' = card /\ ticks' \in Nat
  BY <1>1, <1>2 DEF Lately
<1>3. ASSUME NEW a \in Admins, Commit(a)
      PROVE  \/ card'[c].at = "open"
             \/ card'[c].at = "closed" /\ ticks' - card'[c].closed <= n + (ticks' - ticks)
  <2>1. \/ card'[c] = [card[c] EXCEPT !.at = "open"]
        \/ card'[c] = [card[c] EXCEPT !.at = "closed", !.closed = ticks]
        \/ card'[c] = card[c]
    <3>1. publish[a] \in PubRow /\ a \in Holders /\ a \in Locking
      BY <1>3 DEF Typed, Commit, Holders, Locking
    <3>2. publish[a].card \notin publish[a].closes
      BY <3>1 DEF CardInv, Holding, RowsLocked, Open
    <3>3. QED
      BY <1>3, <3>2 DEF Commit
  <2>2. ticks' = ticks
    BY <1>3 DEF Commit
  <2>3. CASE card'[c] = [card[c] EXCEPT !.at = "open"]
    BY <1>1, <2>3 DEF CardRow
  <2>4. CASE card'[c] = [card[c] EXCEPT !.at = "closed", !.closed = ticks]
    <3>1. card'[c].at = "closed" /\ card'[c].closed = ticks
      BY <1>1, <2>4 DEF CardRow
    <3>2. QED
      BY <1>1, <2>2, <3>1
  <2>5. CASE card'[c] = card[c]
    BY <1>1, <2>2, <2>5 DEF Lately
  <2>6. QED
    BY <2>1, <2>3, <2>4, <2>5
<1>4. (card' = card /\ ticks' \in Nat) \/ \E a \in Admins : Commit(a)
  <2>1. ticks' = ticks \/ Tick
    BY DEF Next, Publishing, Pricing, BeginPublish, CloseOld, InsertCard, FindKeys, DropKeys,
           Commit, Rollback, AskQuote, StartEnd, CheckCache, QueryTariff, FillCache, Quote, Settle,
           ChargeFee, RefreshTile, Order, CancelFree, vars
  <2>2. card' = card \/ \E a \in Admins : Commit(a)
    BY DEF Next, Publishing, Pricing, BeginPublish, CloseOld, InsertCard, FindKeys, DropKeys,
           Rollback, AskQuote, StartEnd, CheckCache, QueryTariff, FillCache, Quote, Settle,
           ChargeFee, RefreshTile, Order, CancelFree, Tick, vars
  <2>3. QED
    BY <1>1, <2>1, <2>2 DEF Tick
<1>5. QED
  BY <1>2, <1>3, <1>4

LEMMA TimeStep == Typed /\ CardInv /\ TimeInv /\ [Next]_vars => TimeInv'
<1> SUFFICES ASSUME Typed, CardInv, TimeInv, [Next]_vars PROVE TimeInv'
  OBVIOUS
<1> DEFINE Then(c, n) == \/ card'[c].at = "open"
                         \/ card'[c].at = "closed" /\ ticks' - card'[c].closed <= n
<1>1. /\ card \in [Cards -> CardRow]
      /\ cache \in [Services -> CacheRow] /\ reader \in [Readers -> ReaderRow]
      /\ quote \in QuoteRow /\ ticks \in Nat
      /\ TariffTTL \in Nat /\ TariffTTL >= 1 /\ QuoteTTL \in Nat /\ QuoteTTL >= 1
  BY RateCards DEF Typed
<1>2. card' \in [Cards -> CardRow] /\ ticks' \in Nat
  BY PublishType, FareType DEF CardInv, TimeInv
<1>3. \A c \in Cards, n \in Nat : Lately(c, n) => Then(c, n + (ticks' - ticks))
  BY CardsAge
<1>4. \A c \in Cards, n \in Int, m \in Int : Then(c, n) /\ n <= m => Then(c, m)
  <2>1. \A c \in Cards : card'[c].closed \in Int
    BY <1>2 DEF CardRow
  <2>2. QED
    BY <1>2, <2>1
<1>5. /\ \A s \in Services : cache[s].card # None =>
           cache[s].card \in Cards /\ cache[s].age \in Nat
           /\ Then(cache[s].card, cache[s].age + (ticks' - ticks)) /\ cache[s].age < TariffTTL
      /\ \A r \in Readers : reader[r].at = "fill" =>
           reader[r].card \in Cards /\ Then(reader[r].card, ticks' - ticks)
      /\ \A r \in Readers : reader[r].at = "price" =>
           reader[r].card \in Cards /\ Then(reader[r].card, TariffTTL - 1 + (ticks' - ticks))
      /\ quote # NoQuote => quote.card \in Cards /\ quote.age \in Nat /\ quote.age < QuoteTTL
                            /\ Then(quote.card, TariffTTL - 1 + quote.age + (ticks' - ticks))
  <2> HIDE DEF Then
  <2>1. \A s \in Services : cache[s].card \in Cards \cup {None} /\ cache[s].age \in Nat
    BY <1>1 DEF CacheRow
  <2>2. \A r \in Readers : reader[r].card \in Cards \cup {None}
    BY <1>1 DEF ReaderRow
  <2>3. quote.card \in Cards \cup {None} /\ quote.age \in Nat
    BY <1>1 DEF QuoteRow
  <2>4. TariffTTL - 1 \in Nat /\ TariffTTL - 1 + quote.age \in Nat /\ 0 \in Nat
    BY <1>1, <2>3
  <2>5. ASSUME NEW s \in Services, cache[s].card # None
        PROVE  cache[s].card \in Cards /\ cache[s].age \in Nat
               /\ Then(cache[s].card, cache[s].age + (ticks' - ticks)) /\ cache[s].age < TariffTTL
    BY <1>3, <2>1, <2>5 DEF TimeInv, CachedLately
  <2>6. ASSUME NEW r \in Readers, reader[r].at = "fill"
        PROVE  reader[r].card \in Cards /\ Then(reader[r].card, ticks' - ticks)
    <3>1. reader[r].card \in Cards /\ Lately(reader[r].card, 0)
      BY <2>2, <2>6 DEF TimeInv, ReadLately
    <3>2. 0 + (ticks' - ticks) = ticks' - ticks
      BY <1>1, <1>2
    <3>3. Then(reader[r].card, 0 + (ticks' - ticks))
      BY <1>3, <2>4, <3>1
    <3>4. QED
      BY <3>1, <3>2, <3>3
  <2>7. ASSUME NEW r \in Readers, reader[r].at = "price"
        PROVE  reader[r].card \in Cards /\ Then(reader[r].card, TariffTTL - 1 + (ticks' - ticks))
    BY <1>3, <2>2, <2>4, <2>7 DEF TimeInv, ReadLately
  <2>8. ASSUME quote # NoQuote
        PROVE  quote.card \in Cards /\ quote.age \in Nat /\ quote.age < QuoteTTL
               /\ Then(quote.card, TariffTTL - 1 + quote.age + (ticks' - ticks))
    BY <1>3, <2>3, <2>4, <2>8 DEF TimeInv, QuotedLately
  <2>9. QED
    BY <2>5, <2>6, <2>7, <2>8
<1>6. CASE UNCHANGED <<cache, reader, quote, ride, ticks>>
  BY <1>1, <1>5, <1>6 DEF TimeInv, CachedLately, ReadLately, QuotedLately, Lately
<1>7. ASSUME ticks' = ticks
      PROVE  /\ \A s \in Services : cache[s].card # None =>
                  Then(cache[s].card, cache[s].age) /\ cache[s].age < TariffTTL
             /\ \A r \in Readers : reader[r].at = "fill"  => Then(reader[r].card, 0)
             /\ \A r \in Readers : reader[r].at = "price" => Then(reader[r].card, TariffTTL - 1)
             /\ quote # NoQuote => Then(quote.card, TariffTTL - 1 + quote.age)
             /\ \A c \in Open : Then(c, 0)
  <2>1. \A n \in Int : n + (ticks' - ticks) = n
    BY <1>1, <1>7
  <2>2. \A c \in Open : c \in Cards /\ Lately(c, 0)
    BY DEF Lately, Open
  <2>3. ticks' - ticks = 0 /\ TariffTTL - 1 \in Int /\ TariffTTL - 1 + quote.age \in Int
    BY <1>1, <1>7 DEF QuoteRow
  <2> HIDE DEF Then
  <2>4. \A c \in Open : Then(c, 0)
    BY <1>3, <2>1, <2>2
  <2>5. QED
    BY <1>5, <2>1, <2>3, <2>4
<1> USE DEF TimeInv, CachedLately, ReadLately, QuotedLately, Lately, None
<1>9. ASSUME NEW r \in Readers,
             \/ \E s \in Services : AskQuote(r, s)
             \/ \E why \in {"settle", "cancel"} : StartEnd(r, why)
             \/ \E trip \in Driven : Settle(r, trip)
             \/ ChargeFee(r)
      PROVE  TimeInv'
  <2>1. /\ reader'[r].at \in {"idle", "cache"}
        /\ \A q \in Readers \ {r} : reader'[q] = reader[q]
        /\ UNCHANGED <<cache, quote, ticks>>
    <3> DEFINE asked(s) == [NoReader EXCEPT !.at = "cache", !.service = s,
                                  !.surge = Curve(tile.requests, tile.drivers)]
               ended(why) == [NoReader EXCEPT !.at = "cache", !.why = why, !.surge = LockedSurge]
    <3>1. /\ \A s \in Services : asked(s).at = "cache"
          /\ \A why \in {"settle", "cancel"} : ended(why).at = "cache"
          /\ NoReader.at = "idle"
      BY DEF NoReader
    <3> HIDE DEF asked, ended
    <3>2. ASSUME NEW s \in Services, AskQuote(r, s)
          PROVE  /\ reader'[r].at \in {"idle", "cache"}
                 /\ \A q \in Readers \ {r} : reader'[q] = reader[q]
                 /\ UNCHANGED <<cache, quote, ticks>>
      <4>1. reader' = [reader EXCEPT ![r] = asked(s)] /\ UNCHANGED <<cache, quote, ticks>>
        BY <3>2 DEF AskQuote, asked
      <4>2. QED
        BY <1>1, <3>1, <4>1
    <3>3. ASSUME NEW why \in {"settle", "cancel"}, StartEnd(r, why)
          PROVE  /\ reader'[r].at \in {"idle", "cache"}
                 /\ \A q \in Readers \ {r} : reader'[q] = reader[q]
                 /\ UNCHANGED <<cache, quote, ticks>>
      <4>1. reader' = [reader EXCEPT ![r] = ended(why)] /\ UNCHANGED <<cache, quote, ticks>>
        BY <3>3 DEF StartEnd, ended
      <4>2. QED
        BY <1>1, <3>1, <4>1
    <3>4. ASSUME NEW trip \in Driven, Settle(r, trip)
          PROVE  /\ reader'[r].at \in {"idle", "cache"}
                 /\ \A q \in Readers \ {r} : reader'[q] = reader[q]
                 /\ UNCHANGED <<cache, quote, ticks>>
      <4>1. reader' = [reader EXCEPT ![r] = NoReader] /\ UNCHANGED <<cache, quote, ticks>>
        BY <3>4 DEF Settle
      <4>2. QED
        BY <1>1, <3>1, <4>1
    <3>5. ASSUME ChargeFee(r)
          PROVE  /\ reader'[r].at \in {"idle", "cache"}
                 /\ \A q \in Readers \ {r} : reader'[q] = reader[q]
                 /\ UNCHANGED <<cache, quote, ticks>>
      <4>1. reader' = [reader EXCEPT ![r] = NoReader] /\ UNCHANGED <<cache, quote, ticks>>
        BY <3>5 DEF ChargeFee
      <4>2. QED
        BY <1>1, <3>1, <4>1
    <3>6. QED
      BY <1>9, <3>2, <3>3, <3>4, <3>5
  <2>2. QED
    BY <1>1, <1>5, <1>7, <2>1
<1>10. ASSUME NEW r \in Readers, CheckCache(r) PROVE TimeInv'
  <2> DEFINE c == cache[reader[r].service].card
  <2>1. /\ reader[r].service \in Services
        /\ reader'[r].card = c
        /\ reader'[r].at = IF c = None THEN "query" ELSE "price"
        /\ \A q \in Readers \ {r} : reader'[q] = reader[q]
        /\ UNCHANGED <<cache, quote, ticks>>
    BY <1>1, <1>10 DEF CheckCache, ReaderRow
  <2>2. c # None => c \in Cards /\ Then(c, TariffTTL - 1)
    <3>1. ASSUME c # None PROVE Then(c, TariffTTL - 1)
      <4>1. /\ c \in Cards /\ cache[reader[r].service].age \in Nat
            /\ Then(c, cache[reader[r].service].age) /\ cache[reader[r].service].age < TariffTTL
        BY <1>5, <1>7, <2>1, <3>1
      <4>2. /\ cache[reader[r].service].age \in Int /\ TariffTTL - 1 \in Int
            /\ cache[reader[r].service].age <= TariffTTL - 1
        BY <1>1, <4>1
      <4> HIDE DEF c, Then
      <4>3. QED
        BY <1>4, <4>1, <4>2
    <3>2. QED
      BY <1>5, <2>1, <3>1
  <2> HIDE DEF c
  <2>3. QED
    BY <1>1, <1>5, <1>7, <2>1, <2>2
<1>11. ASSUME NEW r \in Readers, QueryTariff(r) PROVE TimeInv'
  <2>1. /\ \/ reader'[r].at = "idle"
           \/ reader'[r].at = "fill" /\ reader'[r].card \in Open
        /\ \A q \in Readers \ {r} : reader'[q] = reader[q]
        /\ UNCHANGED <<cache, quote, ticks>>
    BY <1>1, <1>11 DEF QueryTariff, ReaderRow, NoReader
  <2>2. \A c \in Open : c # None
    BY DEF Open, Cards
  <2>3. QED
    BY <1>1, <1>5, <1>7, <2>1, <2>2
<1>12. ASSUME NEW r \in Readers, FillCache(r) PROVE TimeInv'
  <2> DEFINE s == reader[r].service
  <2>1. /\ s \in Services /\ reader[r].card \in Cards /\ Then(reader[r].card, 0)
        /\ cache'[s].card = reader[r].card /\ cache'[s].age = 0
        /\ \A z \in Services \ {s} : cache'[z] = cache[z]
        /\ reader'[r].at = "price" /\ reader'[r].card = reader[r].card
        /\ \A q \in Readers \ {r} : reader'[q] = reader[q]
        /\ UNCHANGED <<quote, ticks>>
    BY <1>1, <1>5, <1>7, <1>12 DEF FillCache, ReaderRow
  <2>2. Then(reader[r].card, TariffTTL - 1) /\ reader[r].card # None
    BY <1>1, <1>4, <2>1 DEF Cards
  <2> HIDE DEF s
  <2>3. CachedLately'
    BY <1>1, <1>5, <1>7, <2>1
  <2>4. ReadLately'
    <3>1. \A q \in Readers :
             /\ reader'[q].at = "fill" => reader'[q].card # None /\ Then(reader'[q].card, 0)
             /\ reader'[q].at = "price" => reader'[q].card # None /\ Then(reader'[q].card, TariffTTL - 1)
      <4> HIDE DEF Then
      <4>1. QED
        BY <1>5, <1>7, <2>1, <2>2
    <3>2. QED
      BY <3>1
  <2>5. QuotedLately'
    BY <1>5, <1>7, <2>1
  <2>6. QED
    BY <2>3, <2>4, <2>5
<1>13. ASSUME NEW r \in Readers, NEW trip \in Planned, NEW promo \in Promos, Quote(r, trip, promo)
       PROVE  TimeInv'
  <2>1. /\ quote'.card = reader[r].card /\ quote'.age = 0
        /\ reader[r].card \in Cards /\ Then(reader[r].card, TariffTTL - 1)
        /\ reader'[r].at = "idle"
        /\ \A q \in Readers \ {r} : reader'[q] = reader[q]
        /\ UNCHANGED <<cache, ticks>>
    <3>1. UNCHANGED <<cache, ticks>>
      BY <1>13 DEF Quote
    <3>2. QED
      BY <1>1, <1>5, <1>7, <1>13, <3>1 DEF Quote, NoReader
  <2>2. TariffTTL - 1 + quote'.age = TariffTTL - 1 /\ reader[r].card # None
    BY <1>1, <2>1 DEF Cards
  <2>3. CachedLately'
    BY <1>5, <1>7, <2>1
  <2>4. ReadLately'
    BY <1>5, <1>7, <2>1
  <2>5. QuotedLately'
    BY <1>1, <2>1, <2>2
  <2>6. QED
    BY <2>3, <2>4, <2>5
<1>14. ASSUME Order \/ CancelFree PROVE TimeInv'
  <2>1. UNCHANGED <<cache, reader, quote, ticks>>
    BY <1>14 DEF Order, CancelFree
  <2>2. QED
    BY <1>1, <1>5, <1>7, <2>1
<1>15. ASSUME Tick PROVE TimeInv'
  <2>1. ticks' - ticks = 1 /\ reader' = reader /\ \A r \in Readers : reader[r].at = "idle"
    BY <1>1, <1>15 DEF Tick
  <2>2. ASSUME NEW s \in Services, cache'[s].card # None
        PROVE  Then(cache'[s].card, cache'[s].age) /\ cache'[s].age < TariffTTL
    <3>1. cache[s].card # None /\ cache[s].age + 1 < TariffTTL
          /\ cache'[s].card = cache[s].card /\ cache'[s].age = cache[s].age + 1
      BY <1>1, <1>15, <2>2 DEF Tick, CacheRow, Uncached
    <3>2. QED
      BY <1>5, <2>1, <3>1
  <2>3. ASSUME quote' # NoQuote
        PROVE  quote'.card # None /\ Then(quote'.card, TariffTTL - 1 + quote'.age) /\ quote'.age < QuoteTTL
    <3>1. quote # NoQuote /\ quote.age + 1 < QuoteTTL
          /\ quote'.card = quote.card /\ quote'.age = quote.age + 1
      BY <1>1, <1>15, <2>3 DEF Tick, QuoteRow
    <3>2. quote.card \in Cards /\ quote.age \in Nat /\ Then(quote.card, TariffTTL - 1 + quote.age + 1)
      BY <1>5, <2>1, <3>1
    <3>3. TariffTTL - 1 + quote.age + 1 = TariffTTL - 1 + quote'.age /\ quote.card # None
      BY <1>1, <3>1, <3>2 DEF Cards
    <3>4. QED
      BY <1>1, <3>1, <3>2, <3>3
  <2>4. QED
    BY <2>1, <2>2, <2>3
<1>16. ASSUME NEW a \in Admins, DropKeys(a) PROVE TimeInv'
  <2>1. /\ \A s \in Services : cache'[s] = Uncached \/ cache'[s] = cache[s]
        /\ UNCHANGED <<reader, quote, ticks>>
    BY <1>1, <1>16 DEF DropKeys
  <2>2. QED
    BY <1>1, <1>5, <1>7, <2>1 DEF Uncached
<1>17. QED
  BY <1>6, <1>9, <1>10, <1>11, <1>12, <1>13, <1>14, <1>15, <1>16, FareSteps

-----------------------------------------------------------------------------
(* A binding price *)

LEMMA FareInit == Init => FareInv
<1> SUFFICES ASSUME Init PROVE FareInv
  OBVIOUS
<1>1. /\ quote = NoQuote /\ ride.at = "none"
      /\ \A r \in Readers : reader[r].at = "idle"
  BY DEF Init, NoRide, NoReader
<1>2. QED
  BY <1>1 DEF FareInv, QuotePriced, RidePriced, LockedIn, QuoteBinds, SharesAddUp

\* A quote is priced by the formula that bills it.
LEMMA QuoteIsPriced ==
    ASSUME Typed, ReadLately, NEW r \in Readers, NEW trip \in Planned, NEW promo \in Promos,
           Quote(r, trip, promo)
    PROVE  Priced(quote')
<1> DEFINE c == reader[r].card
           surge == reader[r].surge
<1>1. c \in Cards /\ surge \in Int /\ trip \in Trip /\ promo \in Int
  BY RateCards DEF Typed, ReaderRow, ReadLately, Quote
<1>2. /\ quote'.card = c /\ quote'.trip = trip /\ quote'.promo = promo
      /\ quote'.surge = Multiplier(c, surge) /\ quote'.total = Total(c, trip, surge, promo)
  BY DEF Quote
<1> HIDE DEF c, surge
<1>3. Total(c, trip, Multiplier(c, surge), promo) = Total(c, trip, surge, promo)
  BY <1>1, TotalNat
<1>4. QED
  BY <1>1, <1>2, <1>3 DEF Priced, Cards, None

LEMMA BillBinds ==
    ASSUME Typed, ReadLately, RidePriced, LockedIn, NEW r \in Readers, NEW trip \in Driven,
           Settle(r, trip)
    PROVE  QuoteBinds' /\ SharesAddUp'
<1> DEFINE c == reader[r].card
           q == ride.quote
           metered == Total(c, trip, q.surge, 0)
           shares == Shares(c, BeforeBooking(c, trip, q.surge))
<1>1. c \in Cards /\ trip \in Trip /\ q.surge \in Int /\ q.total \in Nat
  BY RateCards DEF Typed, ReaderRow, ReadLately, Settle, RideRow, QuoteRow
<1>2. reader[r].surge = q.surge /\ Priced(q)
  BY DEF Settle, LockedIn, RidePriced
<1>3. ride \in RideRow /\ ride' = [ride EXCEPT !.at = "billed", !.card = c, !.trip = trip,
                            !.shares = Shares(c, BeforeBooking(c, trip, reader[r].surge)),
                            !.bill = Smaller(Total(c, trip, reader[r].surge, 0), Ceiling(q.total))]
  BY DEF Typed, Settle
<1>4. /\ ride'.quote = q /\ ride'.card = c /\ ride'.trip = trip
      /\ ride'.bill = Smaller(metered, Ceiling(q.total)) /\ ride'.shares = shares
  BY <1>2, <1>3 DEF RideRow
<1>8. /\ shares.fee \in Nat /\ shares.commission \in Nat /\ shares.earnings \in Nat
      /\ metered <= shares.fee + shares.commission + shares.earnings + 2500
      /\ shares.fee + shares.commission + shares.earnings <= metered + 2500
  <2> HIDE DEF c, q
  <2>1. QED
    BY <1>1, SharesNearTotal
<1>5. metered \in Nat /\ Ceiling(q.total) \in Nat /\ q.total <= Ceiling(q.total)
  <2> HIDE DEF c, q
  <2>1. Total(c, trip, q.surge, 0) \in Nat
    BY <1>1, TotalNat
  <2>2. Ceiling(q.total) \in Nat /\ q.total <= Ceiling(q.total)
    BY <1>1, CeilingAbove
  <2>3. QED
    BY <2>1, <2>2
<1>6. trip = q.trip /\ c = q.card /\ q.promo = 0 => metered = q.total
  BY <1>2 DEF Priced
<1> HIDE DEF c, q, metered, shares
<1>7. QuoteBinds'
  BY <1>1, <1>4, <1>5, <1>6 DEF QuoteBinds, Smaller
<1>9. SharesAddUp'
  BY <1>4, <1>5, <1>8 DEF SharesAddUp, Smaller
<1>10. QED
  BY <1>7, <1>9

\* Requests that end a ride stay locked in while the ride does.
LEMMA FareStays ==
    ASSUME FareInv, QuotePriced', ride' = ride,
           \A r \in Readers :
              \/ reader'[r].at = "idle"
              \/ reader'[r].why = "quote"
              \/ ride.at # "none" /\ reader'[r].surge = ride.quote.surge
              \/ /\ reader[r].at # "idle" /\ reader'[r].why = reader[r].why
                 /\ reader'[r].surge = reader[r].surge
    PROVE  FareInv'
<1>1. RidePriced' /\ QuoteBinds' /\ SharesAddUp'
  BY DEF FareInv, RidePriced, QuoteBinds, SharesAddUp, Priced
<1>2. LockedIn'
  BY DEF FareInv, LockedIn
<1>3. QED
  BY <1>1, <1>2 DEF FareInv

LEMMA FareStep == Typed /\ TimeInv /\ FareInv /\ [Next]_vars => FareInv'
<1> SUFFICES ASSUME Typed, TimeInv, FareInv, [Next]_vars PROVE FareInv'
  OBVIOUS
<1>1. reader \in [Readers -> ReaderRow] /\ quote \in QuoteRow /\ ride \in RideRow
  BY DEF Typed
<1>2. CASE UNCHANGED <<cache, reader, quote, ride, ticks>>
  BY <1>2 DEF FareInv, QuotePriced, RidePriced, LockedIn, QuoteBinds, SharesAddUp, Priced
<1>a. quote' = quote => QuotePriced'
  BY DEF FareInv, QuotePriced, Priced
<1>3. ASSUME NEW r \in Readers, NEW s \in Services, AskQuote(r, s) PROVE FareInv'
  <2> DEFINE asked == [NoReader EXCEPT !.at = "cache", !.service = s,
                           !.surge = Curve(tile.requests, tile.drivers)]
  <2>1. asked.why = "quote"
    BY DEF NoReader
  <2> HIDE DEF asked
  <2>2. reader' = [reader EXCEPT ![r] = asked] /\ UNCHANGED <<quote, ride>>
    BY <1>3 DEF AskQuote, asked
  <2>3. \A q \in Readers : reader'[q] = reader[q] \/ reader'[q].why = "quote"
    BY <1>1, <2>1, <2>2
  <2>4. QED
    BY <1>a, <2>2, <2>3, FareStays
<1>4. ASSUME NEW r \in Readers, NEW why \in {"settle", "cancel"}, StartEnd(r, why) PROVE FareInv'
  <2> DEFINE ended == [NoReader EXCEPT !.at = "cache", !.why = why, !.surge = ride.quote.surge]
  <2>1. ended.surge = ride.quote.surge
    BY DEF NoReader
  <2> HIDE DEF ended
  <2>2. reader' = [reader EXCEPT ![r] = ended] /\ UNCHANGED <<quote, ride>> /\ ride.at = "ordered"
    BY <1>4 DEF StartEnd, ended, LockedSurge
  <2>3. \A q \in Readers : reader'[q] = reader[q] \/ reader'[q].surge = ride.quote.surge
    BY <1>1, <2>1, <2>2
  <2>4. QED
    BY <1>a, <2>2, <2>3, FareStays
<1>5. ASSUME NEW r \in Readers, CheckCache(r) \/ QueryTariff(r) \/ FillCache(r) PROVE FareInv'
  <2>1. UNCHANGED <<quote, ride>>
    BY <1>5 DEF CheckCache, QueryTariff, FillCache
  <2>2. /\ \A q \in Readers \ {r} : reader'[q] = reader[q]
        /\ \/ reader'[r].at = "idle"
           \/ /\ reader[r].at # "idle" /\ reader'[r].why = reader[r].why
              /\ reader'[r].surge = reader[r].surge
    <3>1. CASE CheckCache(r)
      BY <1>1, <3>1 DEF CheckCache, ReaderRow
    <3>2. CASE QueryTariff(r)
      BY <1>1, <3>2 DEF QueryTariff, ReaderRow, NoReader
    <3>3. CASE FillCache(r)
      BY <1>1, <3>3 DEF FillCache, ReaderRow
    <3>4. QED
      BY <1>5, <3>1, <3>2, <3>3
  <2>3. QED
    BY <1>a, <2>1, <2>2, FareStays
<1>6. ASSUME NEW r \in Readers, NEW trip \in Planned, NEW promo \in Promos, Quote(r, trip, promo)
      PROVE  FareInv'
  <2>1. QuotePriced'
    BY <1>6, QuoteIsPriced DEF TimeInv, QuotePriced, Priced
  <2>2. reader' = [reader EXCEPT ![r] = NoReader] /\ ride' = ride
    BY <1>6 DEF Quote
  <2>3. \A q \in Readers : reader'[q] = reader[q] \/ reader'[q].at = "idle"
    BY <1>1, <2>2 DEF NoReader
  <2>4. QED
    BY <2>1, <2>2, <2>3, FareStays
<1> DEFINE RideMoves == /\ ride.at # "none" /\ ride'.at # "none" /\ ride'.quote = ride.quote
                        /\ quote' = quote
                        /\ \A q \in Readers : reader'[q] = reader[q] \/ reader'[q].at = "idle"
<1>b. RideMoves => QuotePriced' /\ RidePriced' /\ LockedIn'
  BY DEF FareInv, QuotePriced, RidePriced, LockedIn, Priced
<1>7. ASSUME NEW r \in Readers, NEW trip \in Driven, Settle(r, trip) PROVE FareInv'
  <2>1. ride.at # "none"
    BY <1>7 DEF FareInv, LockedIn, Settle
  <2>2. ride'.at = "billed" /\ ride'.quote = ride.quote
    BY <1>1, <1>7 DEF Settle, RideRow
  <2>3. reader' = [reader EXCEPT ![r] = NoReader] /\ quote' = quote
    BY <1>7 DEF Settle
  <2>4. RideMoves
    BY <1>1, <2>1, <2>2, <2>3 DEF NoReader
  <2>5. QuoteBinds' /\ SharesAddUp'
    BY <1>7, BillBinds DEF FareInv, TimeInv
  <2>6. QED
    BY <1>b, <2>4, <2>5 DEF FareInv
<1>8. ASSUME NEW r \in Readers, ChargeFee(r) PROVE FareInv'
  <2>1. ride.at # "none"
    BY <1>8 DEF FareInv, LockedIn, ChargeFee
  <2>2. ride' = ride \/ (ride'.at = "cancelled" /\ ride'.quote = ride.quote)
    BY <1>1, <1>8 DEF ChargeFee, RideRow
  <2>3. reader' = [reader EXCEPT ![r] = NoReader] /\ quote' = quote
    BY <1>8 DEF ChargeFee
  <2>4. RideMoves
    BY <1>1, <2>1, <2>2, <2>3 DEF NoReader
  <2>5. QuoteBinds' /\ SharesAddUp'
    BY <2>2 DEF FareInv, QuoteBinds, SharesAddUp
  <2>6. QED
    BY <1>b, <2>4, <2>5 DEF FareInv
<1>9. ASSUME Order PROVE FareInv'
  <2>1. /\ ride.at = "none" /\ Priced(quote) /\ quote' = quote /\ reader' = reader
        /\ ride'.at = "ordered" /\ ride'.quote = quote
    BY <1>9 DEF Order, NoRide, FareInv, QuotePriced
  <2>2. QED
    BY <2>1 DEF FareInv, QuotePriced, RidePriced, LockedIn, QuoteBinds, SharesAddUp, Priced
<1>10. ASSUME CancelFree PROVE FareInv'
  <2>1. ride.at # "none" /\ ride'.at = "cancelled" /\ ride'.quote = ride.quote
        /\ reader' = reader /\ quote' = quote
    BY <1>1, <1>10 DEF CancelFree, RideRow
  <2>2. RideMoves /\ QuoteBinds' /\ SharesAddUp'
    BY <2>1 DEF QuoteBinds, SharesAddUp
  <2>3. QED
    BY <1>b, <2>2 DEF FareInv
<1>11. ASSUME Tick PROVE FareInv'
  <2>1. reader' = reader /\ ride' = ride
    BY <1>11 DEF Tick
  <2>2. ASSUME quote' # NoQuote PROVE QuotePriced'
    <3>1. quote # NoQuote /\ quote' = [quote EXCEPT !.age = @ + 1]
      BY <1>11, <2>2 DEF Tick
    <3>2. /\ quote'.card = quote.card /\ quote'.trip = quote.trip /\ quote'.total = quote.total
          /\ quote'.surge = quote.surge /\ quote'.promo = quote.promo
      BY <1>1, <3>1 DEF QuoteRow
    <3>3. QED
      BY <3>1, <3>2 DEF FareInv, QuotePriced, Priced
  <2>3. QuotePriced'
    BY <2>2 DEF QuotePriced
  <2>4. QED
    BY <2>1, <2>3, FareStays
<1>12. ASSUME NEW a \in Admins, DropKeys(a) PROVE FareInv'
  <2>1. UNCHANGED <<reader, quote, ride>>
    BY <1>12 DEF DropKeys
  <2>2. QED
    BY <1>a, <2>1, FareStays
<1>13. QED
  BY <1>2, <1>3, <1>4, <1>5, <1>6, <1>7, <1>8, <1>9, <1>10, <1>11, <1>12, FareSteps

-----------------------------------------------------------------------------
(* The theorems *)

IInv == Typed /\ CardInv /\ TimeInv /\ FareInv

LEMMA InvInit == Init => IInv
BY TypedInit, CardsInit, TimeInit, FareInit DEF IInv

LEMMA InvStep == IInv /\ [Next]_vars => IInv'
<1> SUFFICES ASSUME IInv, [Next]_vars PROVE IInv'
  OBVIOUS
<1>1. Typed'
  BY PublishType, FareType DEF IInv, Typed, CardInv, TimeInv
<1>2. CardInv' /\ TimeInv' /\ FareInv'
  BY CardsStep, TimeStep, FareStep DEF IInv
<1>3. QED
  BY <1>1, <1>2 DEF IInv

LEMMA Invariant == Spec => []IInv
BY InvInit, InvStep, PTL DEF Spec

\* Exactly one card is in force for rides at any time: however many administrators publish
\* at once and whatever fails, AdminService.publishTariff leaves neither two nor none.
THEOREM OneCardInForce == Spec => []OneRideCard
<1>1. IInv => OneRideCard
  BY DEF IInv, CardInv
<1>2. QED
  BY <1>1, Invariant, PTL

\* The price that was accepted binds, for every rate card, trip, multiplier and discount
\* (FareService.settle at the multiplier that FareService.quote kept).
THEOREM QuotesBind == Spec => []QuoteBinds
<1>1. IInv => QuoteBinds
  BY DEF IInv, FareInv
<1>2. QED
  BY <1>1, Invariant, PTL

\* What a completed trip is divided into adds up to its bill, to half a rounding step, and
\* never to less, for every rate card, trip, multiplier and quote: FareService.calculate
\* divides the fare before settle caps what the rider pays.
THEOREM BillIsShared == Spec => []SharesAddUp
<1>1. IInv => SharesAddUp
  BY DEF IInv, FareInv
<1>2. QED
  BY <1>1, Invariant, PTL

\* No ride is ordered at rates that ended longer ago than a cached card and a quote live
\* together (FareService.loadTariff, RidesService.createOrGet).
THEOREM RatesAreRecent == Spec => OrderedAtRecentRates
<1>1. IInv /\ [Next]_vars =>
        [ ride.at = "none" /\ ride'.at = "ordered" =>
           LET c == card[ride'.quote.card]
           IN  c.at = "open" \/ ticks - c.closed < TariffTTL + QuoteTTL ]_vars
  <2> SUFFICES ASSUME IInv, [Next]_vars, ride.at = "none", ride'.at = "ordered"
               PROVE  \/ card[ride'.quote.card].at = "open"
                      \/ ticks - card[ride'.quote.card].closed < TariffTTL + QuoteTTL
    OBVIOUS
  <2>1. Order
    <3>1. LockedIn /\ ride \in RideRow
      BY DEF IInv, FareInv, Typed
    <3>2. QED
      BY <3>1, FareSteps DEF AskQuote, StartEnd, CheckCache, QueryTariff, FillCache, Quote, Settle,
           ChargeFee, CancelFree, Tick, DropKeys, LockedIn
  <2>2. quote # NoQuote /\ ride'.quote = quote
    BY <2>1 DEF Order, NoRide
  <2>3. /\ quote.age \in Nat /\ quote.age < QuoteTTL /\ quote.card \in Cards
        /\ Lately(quote.card, TariffTTL - 1 + quote.age)
    BY <2>2 DEF IInv, Typed, TimeInv, QuotedLately, QuoteRow
  <2>4. TariffTTL \in Nat /\ QuoteTTL \in Nat /\ ticks \in Nat /\ card[quote.card].closed \in Nat
    BY <2>3, RateCards DEF IInv, Typed, CardRow
  <2>5. QED
    BY <2>2, <2>3, <2>4 DEF Lately
<1>2. QED
  BY <1>1, Invariant, PTL DEF Spec, OrderedAtRecentRates
===============================================================================
