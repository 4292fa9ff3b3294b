------------------------------ MODULE Payments ------------------------------
(***************************************************************************)
(* Paying for a ride, as src/payments/payments.service and cash.service do *)
(* it: a rider's request that prompts a handset or opens a card page, the  *)
(* aggregator's webhook, the reconciliation job, the card verification and *)
(* the driver's cash confirmation, all of them writing the same rows of    *)
(* transactions, rides and drivers.                                        *)
(*                                                                         *)
(* One action is the code between two awaits; a database transaction is    *)
(* one action.  The aggregator and the card provider are external: they    *)
(* hold one charge per transaction, which the customer pays or refuses     *)
(* once.  Money is counted, not added up: how often the driver's wallet    *)
(* was credited for a transaction, how often a commission was booked.      *)
(* Nobody pays another amount than the one asked for, so the amount checks *)
(* of the webhook and of the verification never bite here.                 *)
(***************************************************************************)
EXTENDS Naturals

CONSTANTS
    Rides,
    Txns,           \* ids of the transactions rows there can be
    Requests,       \* rider and driver requests that can be in flight at once
    Webhooks,       \* aggregator callbacks that can be in flight at once
    Jobs,           \* runs of reconcilePending that can overlap
    MaxDeliveries,  \* callbacks that get past the guard, in all
    EarlyPayment,   \* whether a customer may enter the PIN before the reply to the
                    \* aggregator call is recorded
    MaxFaults,      \* failed calls and restarts, in all
    Pinned,         \* aggregators that ops may pin a rail to
    Default,        \* the deployment's DEFAULT_AGGREGATOR
    NoRide, NoTxn

ASSUME PaymentBounds ==
    /\ Pinned \cup {Default} \subseteq {"azampay", "selcom"}
    /\ MaxDeliveries \in Nat
    /\ MaxFaults \in Nat
    /\ EarlyPayment \in BOOLEAN
    /\ NoRide \notin Rides
    /\ NoTxn \notin Txns

VARIABLES
    \* Postgres
    trip,       \* the ride: no driver yet, a driver but no earnings (under way, or
                \* cancelled on him), completed with driver_earnings_cents known
    method,     \* rides.payment_method: "cash" or "other"
    paid,       \* rides.is_paid
    txn,        \* transactions: status ("none" = no row), ride_id, aggregator
    credits,    \* how often drivers.wallet_balance_cents got the earnings for a row
    booked,     \* how often the commission of a ride was taken from the wallet
    \* Redis
    seen,       \* webhook:seen:{reference}; its 24 hours outlast everything here
    \* the aggregators and the driver's hand
    charge,     \* "none", "prompted", "paid" or "refused"
    collected,  \* the driver said he has the cash
    \* the processes
    request, webhook, job,
    deliveries, faults

money     == <<trip, method, paid, credits, booked>>
outside   == <<charge, collected>>
processes == <<request, webhook, job>>
counters  == <<deliveries, faults>>
vars      == <<money, txn, seen, outside, processes, counters>>

TxnStatus == {"none", "pending", "processing", "success", "failed", "timeout"}
Row == [status: TxnStatus, ride: Rides \cup {NoRide},
        aggregator: {"none", "azampay", "selcom", "dpo"}]

\* A request is at the last thing it did: read the ride, found no attempt in flight,
\* inserted its row, got a reply, read the row to verify, read the ride to confirm.
Request ==
    [at: {"idle", "loaded", "clear", "calling", "replied", "verifying", "confirming"},
     ride: Rides \cup {NoRide}, txn: Txns \cup {NoTxn},
     reply: {"none", "accepted", "rejected", "error"}]

Webhook == [at: {"idle", "guarded"}, txn: Txns \cup {NoTxn},
            kind: {"none", "success", "failed", "pending"}]

Job == [at: {"idle", "picked", "pending", "resolved", "updating", "paying"},
        txn: Txns \cup {NoTxn}, kind: {"none", "success", "failed", "pending"}]

TypeOK ==
    /\ trip \in [Rides -> {"unassigned", "driven", "completed"}]
    /\ method \in [Rides -> {"cash", "other"}]
    /\ paid \in [Rides -> BOOLEAN]
    /\ txn \in [Txns -> Row]
    /\ credits \in [Txns -> Nat]
    /\ booked \in [Rides -> Nat]
    /\ seen \in SUBSET Txns
    /\ charge \in [Txns -> {"none", "prompted", "paid", "refused"}]
    /\ collected \in [Rides -> BOOLEAN]
    /\ request \in [Requests -> Request]
    /\ webhook \in [Webhooks -> Webhook]
    /\ job \in [Jobs -> Job]
    /\ deliveries \in Nat
    /\ faults \in Nat

NoRequest == [at |-> "idle", ride |-> NoRide, txn |-> NoTxn, reply |-> "none"]
NoWebhook == [at |-> "idle", txn |-> NoTxn, kind |-> "none"]
NoJob     == [at |-> "idle", txn |-> NoTxn, kind |-> "none"]

Init ==
    /\ trip = [r \in Rides |-> "unassigned"]
    /\ method \in [Rides -> {"cash", "other"}]
    /\ paid = [r \in Rides |-> FALSE]
    /\ txn = [t \in Txns |-> [status |-> "none", ride |-> NoRide, aggregator |-> "none"]]
    /\ credits = [t \in Txns |-> 0]
    /\ booked = [r \in Rides |-> 0]
    /\ seen = {}
    /\ charge = [t \in Txns |-> "none"]
    /\ collected = [r \in Rides |-> FALSE]
    /\ request = [p \in Requests |-> NoRequest]
    /\ webhook = [w \in Webhooks |-> NoWebhook]
    /\ job = [j \in Jobs |-> NoJob]
    /\ deliveries = 0
    /\ faults = 0

-----------------------------------------------------------------------------
(* The ride, seen from here *)

AssignDriver(r) ==
    /\ trip[r] = "unassigned"
    /\ trip' = [trip EXCEPT ![r] = "driven"]
    /\ UNCHANGED <<method, paid, credits, booked, txn, seen, outside, processes, counters>>

\* complete: the earnings are known and, on cash trips, the commission is booked.
CompleteTrip(r) ==
    /\ trip[r] = "driven"
    /\ trip' = [trip EXCEPT ![r] = "completed"]
    /\ booked' = [booked EXCEPT ![r] = IF method[r] = "cash" THEN @ + 1 ELSE @]
    /\ UNCHANGED <<method, paid, credits, txn, seen, outside, processes, counters>>

-----------------------------------------------------------------------------
(* Rider-initiated collection *)

\* initiateCollection: the ride is read...
LoadRide(p, r) ==
    /\ request[p].at = "idle"
    /\ ~paid[r]
    /\ request' = [request EXCEPT ![p] = [NoRequest EXCEPT !.at = "loaded", !.ride = r]]
    /\ UNCHANGED <<money, txn, seen, outside, webhook, job, counters>>

InFlight(r) == {t \in Txns : txn[t].ride = r /\ txn[t].status \in {"pending", "processing"}}

\* ... then the attempts in flight: one is enough.
CheckInFlight(p) ==
    /\ request[p].at = "loaded"
    /\ request' = [request EXCEPT ![p] = IF InFlight(request[p].ride) # {} THEN NoRequest
                                         ELSE [@ EXCEPT !.at = "clear"]]
    /\ UNCHANGED <<money, txn, seen, outside, webhook, job, counters>>

\* routeProvider: the rail's pin in Redis, or the default.
RouteProvider == Pinned \cup {Default}

\* "Persist the intent BEFORE the network call."
InsertIntent(p, t) ==
    /\ request[p].at = "clear"
    /\ txn[t].status = "none"
    /\ \E a \in RouteProvider :
          txn' = [txn EXCEPT ![t] = [status |-> "pending", ride |-> request[p].ride, aggregator |-> a]]
    /\ request' = [request EXCEPT ![p].at = "calling", ![p].txn = t]
    /\ UNCHANGED <<money, seen, outside, webhook, job, counters>>

\* initiateCardPayment looks neither at is_paid nor at attempts in flight.
InitiateCardPayment(p, r, t) ==
    /\ request[p].at = "idle"
    /\ txn[t].status = "none"
    /\ txn' = [txn EXCEPT ![t] = [status |-> "pending", ride |-> r, aggregator |-> "dpo"]]
    /\ request' = [request EXCEPT ![p] = [NoRequest EXCEPT !.at = "calling", !.ride = r, !.txn = t]]
    /\ UNCHANGED <<money, seen, outside, webhook, job, counters>>

\* What a provider's answer to a new charge is taken for.  AzamPay says success or not,
\* after one more try under the same idempotency key if need be; Selcom gives a result
\* code, and 111, waiting for the customer, is what a push normally ends in; DPO gives one
\* too, and hands out its token with 000 only.
AzamPayReply(success) == IF success THEN "accepted" ELSE "rejected"
SelcomReply(code) == IF code \in {"000", "111"} THEN "accepted" ELSE "rejected"
DpoReply(code) == IF code = "000" THEN "accepted" ELSE "rejected"

Reply(aggregator, taken) ==
    IF aggregator = "azampay" THEN AzamPayReply(taken)
    ELSE IF aggregator = "selcom" THEN SelcomReply(IF taken THEN "111" ELSE "999")
    ELSE DpoReply(IF taken THEN "000" ELSE "904")

\* The provider takes the charge or refuses it; without an answer (no token, no line, a
\* timeout) the handset may be prompting or not.
CallProvider(p) ==
    LET t == request[p].txn IN
    /\ request[p].at = "calling"
    /\ \E taken, heard \in BOOLEAN :
          /\ charge' = IF taken THEN [charge EXCEPT ![t] = "prompted"] ELSE charge
          /\ request' = [request EXCEPT ![p].at = "replied",
                ![p].reply = IF heard THEN Reply(txn[t].aggregator, taken) ELSE "error"]
    /\ UNCHANGED <<money, txn, seen, collected, webhook, job, counters>>

\* "A timeout does NOT mean the push failed."
AfterReplyVerbatim(reply) == reply
AfterReplyErrorFails(reply) == IF reply = "accepted" THEN "processing" ELSE "failed"
AfterReply(reply) == IF reply = "rejected" THEN "failed" ELSE "processing"

\* UPDATE transactions ... WHERE external_reference = $1, whatever the row says by now.
Recorded(t, reply) == [txn EXCEPT ![t].status = AfterReply(reply)]

\* A card call that throws writes nothing: nothing catches it.
CardRecorded(t, reply) == IF reply = "error" THEN txn ELSE [txn EXCEPT ![t].status = AfterReply(reply)]

RecordReply(p) ==
    LET t == request[p].txn
        reply == request[p].reply
    IN
    /\ request[p].at = "replied"
    /\ txn' = IF txn[t].aggregator = "dpo" THEN CardRecorded(t, reply) ELSE Recorded(t, reply)
    /\ request' = [request EXCEPT ![p] = NoRequest]
    /\ UNCHANGED <<money, seen, outside, webhook, job, counters>>

\* A request is still busy with its aggregator call, or has not recorded the reply.
Calling(t) == \E p \in Requests : request[p].txn = t /\ request[p].at \in {"calling", "replied"}

\* The customer, once: a PIN on the handset, or a card on the provider's page, whose
\* address he gets after the reply was recorded.
CustomerDecides(t) ==
    /\ charge[t] = "prompted"
    /\ Calling(t) => EarlyPayment /\ txn[t].aggregator # "dpo"
    /\ txn[t].aggregator = "dpo" => txn[t].status # "pending"
    /\ \E outcome \in {"paid", "refused"} : charge' = [charge EXCEPT ![t] = outcome]
    /\ UNCHANGED <<money, txn, seen, collected, processes, counters>>

-----------------------------------------------------------------------------
(* The webhook *)

\* What an aggregator may report of a charge, late or again.
Sends(t, state) ==
    \/ state \in {"paid", "refused"} /\ charge[t] = state
    \/ state = "prompted" /\ charge[t] # "none"

\* How the providers put it...
AzamPayWord(state) == IF state = "paid" THEN "success" ELSE IF state = "prompted" THEN "pending" ELSE "failure"
SelcomCode(state)  == IF state = "paid" THEN "000" ELSE IF state = "prompted" THEN "111" ELSE "999"
DpoCode(state)     == IF state = "paid" THEN "000" ELSE IF state = "prompted" THEN "900" ELSE "904"

\* ... and what verifyWebhook, queryStatus and verify make of it: whatever is neither
\* success nor pending is a failure.
AzamPayStatus(word) == IF word \in {"success", "pending"} THEN word ELSE "failed"
SelcomStatus(code)  == IF code = "000" THEN "success" ELSE IF code = "111" THEN "pending" ELSE "failed"
DpoStatus(code)     == IF code = "000" THEN "success" ELSE IF code = "900" THEN "pending" ELSE "failed"

Told(aggregator, state) ==
    IF aggregator = "azampay" THEN AzamPayStatus(AzamPayWord(state)) ELSE SelcomStatus(SelcomCode(state))

\* SET webhook:seen NX; a duplicate is dropped here.
ReceiveWebhook(w, t, state) ==
    /\ webhook[w].at = "idle"
    /\ deliveries < MaxDeliveries
    /\ txn[t].aggregator # "dpo"
    /\ Sends(t, state)
    /\ t \notin seen
    /\ seen' = seen \cup {t}
    /\ webhook' = [webhook EXCEPT ![w] = [at |-> "guarded", txn |-> t,
                                         kind |-> Told(txn[t].aggregator, state)]]
    /\ deliveries' = deliveries + 1
    /\ UNCHANGED <<money, txn, outside, request, job, faults>>

\* The credit reads rides.driver_earnings_cents.  NULL would make the wallet NULL,
\* which the column refuses: the whole transaction is rolled back.  A ride without
\* a driver credits nobody.
EarningsIgnored(r) == TRUE
EarningsWritable(r) == trip[r] # "driven"

\* UPDATE rides SET is_paid = TRUE
MarkedPaidNever(r) == paid
MarkedPaid(r) == [paid EXCEPT ![r] = TRUE]

Settle(t) ==
    LET r == txn[t].ride IN
    /\ txn' = [txn EXCEPT ![t].status = "success"]
    /\ paid' = MarkedPaid(r)
    /\ credits' = [credits EXCEPT ![t] = IF trip[r] # "unassigned" THEN @ + 1 ELSE @]
    /\ UNCHANGED <<trip, method, booked>>

SucceededUnlessFailed(kind) == kind # "failed"
Succeeded(kind) == kind = "success"

NeverTerminal(status) == FALSE
Terminal(status) == status = "success"

\* The transaction under FOR UPDATE.  A guard that was taken stays taken, whatever
\* becomes of the transaction.
ApplyWebhook(w) ==
    LET t == webhook[w].txn
        kind == webhook[w].kind
    IN
    /\ webhook[w].at = "guarded"
    /\ IF Terminal(txn[t].status) \/ (Succeeded(kind) /\ ~EarningsWritable(txn[t].ride))
       THEN UNCHANGED <<money, txn>>
       ELSE IF Succeeded(kind) THEN Settle(t)
       ELSE /\ txn' = [txn EXCEPT ![t].status = IF kind = "pending" THEN "processing" ELSE "failed"]
            /\ UNCHANGED money
    /\ webhook' = [webhook EXCEPT ![w] = NoWebhook]
    /\ UNCHANGED <<seen, outside, request, job, counters>>

-----------------------------------------------------------------------------
(* Reconciliation *)

\* The rows one run selects are worked off one after the other; what matters of a row
\* is that it was selected some time ago.  Rows are at least 3 minutes old: the request
\* that made them is over.
Pick(j, t) ==
    /\ job[j].at = "idle"
    /\ txn[t].status = "processing"
    /\ ~Calling(t)
    /\ job' = [job EXCEPT ![j] = [NoJob EXCEPT !.at = "picked", !.txn = t]]
    /\ UNCHANGED <<money, txn, seen, outside, request, webhook, counters>>

\* For a card row, whose aggregator is 'dpo', provider() returns Selcom...
Provider(aggregator) == IF aggregator = "azampay" THEN "azampay" ELSE "selcom"

\* ... who has never heard of it: queryStatus says failed.
Answered(t) ==
    LET asked == Provider(txn[t].aggregator)
    IN  Told(asked, IF asked = txn[t].aggregator THEN charge[t] ELSE "none")

Query(j) ==
    LET kind == Answered(job[j].txn) IN
    /\ job[j].at = "picked"
    /\ job' = [job EXCEPT ![j].at = IF kind = "pending" THEN "pending" ELSE "resolved",
                          ![j].kind = kind]
    /\ UNCHANGED <<money, txn, seen, outside, request, webhook, counters>>

\* Still pending.  After 30 minutes the row is given up, whatever it says by now...
GivenUpNever(status) == status
GivenUp(status) == "timeout"

GiveUp(j) ==
    /\ job[j].at = "pending"
    /\ txn' = [txn EXCEPT ![job[j].txn].status = GivenUp(@)]
    /\ job' = [job EXCEPT ![j] = NoJob]
    /\ UNCHANGED <<money, seen, outside, request, webhook, counters>>

\* ... and before that it is left for the next sweep.
NotYet(j) ==
    /\ job[j].at = "pending"
    /\ job' = [job EXCEPT ![j] = NoJob]
    /\ UNCHANGED <<money, txn, seen, outside, request, webhook, counters>>

\* DEL webhook:seen...
ReopenGuard(j) ==
    /\ job[j].at = "resolved"
    /\ seen' = seen \ {job[j].txn}
    /\ job' = [job EXCEPT ![j].at = "updating"]
    /\ UNCHANGED <<money, txn, outside, request, webhook, counters>>

\* ... SET NX, which a webhook may win, and the UPDATE.  Two awaits; the guard is only
\* ever compared with itself, and a webhook that finds it taken does nothing.
ApplyResolved(j) ==
    LET t == job[j].txn
        kind == job[j].kind
    IN
    /\ job[j].at = "updating"
    /\ IF t \in seen
       THEN /\ job' = [job EXCEPT ![j] = NoJob]
            /\ UNCHANGED <<txn, seen>>
       ELSE /\ seen' = seen \cup {t}
            /\ txn' = [txn EXCEPT ![t].status = IF Terminal(@) THEN @ ELSE kind]
            /\ job' = [job EXCEPT ![j] = IF Succeeded(kind) THEN [@ EXCEPT !.at = "paying"]
                                         ELSE NoJob]
    /\ UNCHANGED <<money, outside, request, webhook, counters>>

\* The second UPDATE.  The driver's wallet is not touched.
MarkPaid(j) ==
    /\ job[j].at = "paying"
    /\ paid' = MarkedPaid(txn[job[j].txn].ride)
    /\ job' = [job EXCEPT ![j] = NoJob]
    /\ UNCHANGED <<trip, method, credits, booked, txn, seen, outside, request, webhook, counters>>

-----------------------------------------------------------------------------
(* Card verification and cash confirmation *)

\* verifyCardPayment: the row is read; without the provider's token there is nothing
\* to ask...
VerifyCard(p, t) ==
    /\ request[p].at = "idle"
    /\ txn[t].aggregator = "dpo"
    /\ txn[t].status \notin {"none", "pending", "success"}
    /\ charge[t] # "none"
    /\ request' = [request EXCEPT ![p] = [NoRequest EXCEPT !.at = "verifying", !.txn = t]]
    /\ UNCHANGED <<money, txn, seen, outside, webhook, job, counters>>

\* ... and what the provider says is applied to whatever the row is by now.
ApplyVerification(p) ==
    LET t == request[p].txn
        said == DpoStatus(DpoCode(charge[t]))
    IN
    /\ request[p].at = "verifying"
    /\ \/ said = "success" /\ EarningsWritable(txn[t].ride) /\ Settle(t)
       \/ /\ said = "failed"
          /\ txn' = [txn EXCEPT ![t].status = "failed"]
          /\ UNCHANGED money
       \/ /\ said = "pending" \/ (said = "success" /\ ~EarningsWritable(txn[t].ride))
          /\ UNCHANGED <<money, txn>>
    /\ request' = [request EXCEPT ![p] = NoRequest]
    /\ UNCHANGED <<seen, outside, webhook, job, counters>>

\* confirmCollection: the ride is read...
ConfirmCollection(p, r) ==
    /\ request[p].at = "idle"
    /\ trip[r] = "completed" /\ method[r] = "cash" /\ ~paid[r]
    /\ collected' = [collected EXCEPT ![r] = TRUE]
    /\ request' = [request EXCEPT ![p] = [NoRequest EXCEPT !.at = "confirming", !.ride = r]]
    /\ UNCHANGED <<money, txn, seen, charge, webhook, job, counters>>

\* ... and the transaction books it.  Its row, CASH-{reference}, is settled at birth and
\* read by nobody here.
BookCash(p) ==
    LET r == request[p].ride IN
    /\ request[p].at = "confirming"
    /\ paid' = MarkedPaid(r)
    /\ booked' = [booked EXCEPT ![r] = @ + 1]
    /\ request' = [request EXCEPT ![p] = NoRequest]
    /\ UNCHANGED <<trip, method, credits, txn, seen, outside, webhook, job, counters>>

-----------------------------------------------------------------------------
(* Failure *)

\* A call of a request throws.  initiateCollection catches what its own UPDATE throws,
\* and writes 'processing'.
RequestFails(p) ==
    /\ faults < MaxFaults
    /\ request[p].at # "idle"
    /\ \/ UNCHANGED txn
       \/ /\ request[p].at = "replied" /\ txn[request[p].txn].aggregator # "dpo"
          /\ txn' = [txn EXCEPT ![request[p].txn].status = "processing"]
    /\ request' = [request EXCEPT ![p] = NoRequest]
    /\ faults' = faults + 1
    /\ UNCHANGED <<money, seen, outside, webhook, job, deliveries>>

WebhookFails(w) ==
    /\ faults < MaxFaults
    /\ webhook[w].at # "idle"
    /\ webhook' = [webhook EXCEPT ![w] = NoWebhook]
    /\ faults' = faults + 1
    /\ UNCHANGED <<money, txn, seen, outside, request, job, deliveries>>

\* reconcilePending catches and goes on with the next row.
JobFails(j) ==
    /\ faults < MaxFaults
    /\ job[j].at # "idle"
    /\ job' = [job EXCEPT ![j] = NoJob]
    /\ faults' = faults + 1
    /\ UNCHANGED <<money, txn, seen, outside, request, webhook, deliveries>>

\* The process restarts: nothing in flight survives.
Crash ==
    /\ faults < MaxFaults
    /\ request' = [p \in Requests |-> NoRequest]
    /\ webhook' = [w \in Webhooks |-> NoWebhook]
    /\ job' = [j \in Jobs |-> NoJob]
    /\ faults' = faults + 1
    /\ UNCHANGED <<money, txn, seen, outside, deliveries>>

-----------------------------------------------------------------------------

RequestStep(p) ==
    \/ CheckInFlight(p) \/ (\E t \in Txns : InsertIntent(p, t))
    \/ CallProvider(p) \/ RecordReply(p) \/ ApplyVerification(p) \/ BookCash(p)

Arrive(p) ==
    \/ \E r \in Rides : LoadRide(p, r) \/ ConfirmCollection(p, r)
    \/ \E r \in Rides, t \in Txns : InitiateCardPayment(p, r, t)
    \/ \E t \in Txns : VerifyCard(p, t)

JobStep(j) ==
    \/ Query(j) \/ GiveUp(j) \/ NotYet(j) \/ ReopenGuard(j) \/ ApplyResolved(j) \/ MarkPaid(j)

Next ==
    \/ \E r \in Rides : AssignDriver(r) \/ CompleteTrip(r)
    \/ \E p \in Requests : Arrive(p) \/ RequestStep(p) \/ RequestFails(p)
    \/ \E t \in Txns : CustomerDecides(t)
    \/ \E w \in Webhooks :
          \/ \E t \in Txns, state \in {"prompted", "paid", "refused"} : ReceiveWebhook(w, t, state)
          \/ ApplyWebhook(w) \/ WebhookFails(w)
    \/ \E j \in Jobs : (\E t \in Txns : Pick(j, t)) \/ JobStep(j) \/ JobFails(j)
    \/ Crash

Spec == Init /\ [][Next]_vars

\* What was begun goes on.  The sweep runs every minute and comes to every row that stays
\* 'processing' (SF), and one that stays pending long enough is 30 minutes old (SF).
\* Customers, aggregators and drivers owe nothing.
FairSpec ==
    /\ Spec
    /\ \A p \in Requests : WF_vars(RequestStep(p))
    /\ \A w \in Webhooks : WF_vars(ApplyWebhook(w))
    /\ \A j \in Jobs : WF_vars(JobStep(j)) /\ SF_vars(GiveUp(j))
    /\ \A j \in Jobs, t \in Txns : SF_vars(Pick(j, t))

-----------------------------------------------------------------------------
(* What a careful reader of this code wants to know *)

\* A ride is marked paid only for money: a charge for it that went through, or cash its
\* driver says he holds.  Four handlers write is_paid, on the word of four parties.
PaidForReal ==
    \A r \in Rides : paid[r] =>
        collected[r] \/ \E t \in Txns : txn[t].ride = r /\ charge[t] = "paid"

\* A driver is credited only for a trip that is over, for a ride marked paid, and from a
\* charge that went through (one database transaction writes the three).
CreditNeedsPaidTrip ==
    \A t \in Txns : credits[t] > 0 =>
        charge[t] = "paid" /\ paid[txn[t].ride] /\ trip[txn[t].ride] = "completed"

\* While nothing fails, a row that says success belongs to a ride that is paid, but for
\* a sweep between its two UPDATEs.
SuccessMeansPaid ==
    faults = 0 =>
        \A t \in Txns : txn[t].status = "success" =>
            \/ paid[txn[t].ride]
            \/ \E j \in Jobs : job[j].at = "paying" /\ job[j].txn = t

\* A mobile payment that says failed was not and will not be charged, so asking the
\* rider again is safe: a timed-out call to the aggregator is never taken for a refusal.
FailedMeansUncharged ==
    \A t \in Txns : (txn[t].status = "failed" /\ txn[t].aggregator # "dpo") => charge[t] \in {"none", "refused"}

\* However often and late the aggregator calls, and whatever the sweep does meanwhile, a
\* mobile payment is credited to the driver at most once: provided that nobody pays before
\* the reply to the call is recorded, and that sweeps do not overlap.
MobileCreditedOnce ==
    (~EarlyPayment /\ \A i, j \in Jobs : i = j) =>
        \A t \in Txns : txn[t].aggregator # "dpo" => credits[t] <= 1

\* "Reconciliation, not the webhook, keeps the ledger honest": no row is processing for ever.
ProcessingEnds == \A t \in Txns : txn[t].status = "processing" ~> txn[t].status # "processing"

-----------------------------------------------------------------------------
(* What comments and documents say, and the code does not keep *)

\* "If the process dies mid-flight, reconciliation still finds the intent": a pending row
\* is resolved too.
PendingEnds == \A t \in Txns : txn[t].status = "pending" ~> txn[t].status # "pending"

\* "Exactly one place where a payment is applied" (reconcilePending): when a charge marks
\* a completed trip paid, it credits the driver, whoever brings the news.
AppliedInOnePlace ==
    [][\A r \in Rides :
          (~paid[r] /\ paid'[r] /\ trip[r] = "completed" /\ ~collected'[r])
              => \E t \in Txns : credits'[t] > credits[t]]_vars

\* "Driver confirms they received the cash. Only then is commission booked", and once.
CommissionBookedOnConfirmation ==
    \A r \in Rides : booked[r] <= IF collected[r] THEN 1 ELSE 0
=============================================================================
