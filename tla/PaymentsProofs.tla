--------------------------- MODULE PaymentsProofs ---------------------------
(***************************************************************************)
(* Theorems about Payments, for any number of rides, rows, requests,       *)
(* callbacks, sweeps and faults.                                           *)
(*                                                                         *)
(* Types alone are not inductive: a row that says NoRide could be settled. *)
(* What is in flight refers to what is there (Sound): a request, a callback*)
(* or a sweep works on a row that exists, and a row belongs to a ride.     *)
(* Nor is any safety property inductive: what a handler writes rests on    *)
(* what it was told several steps ago, so the invariant Honest says that   *)
(* what is in flight still tells the truth about its charge.  Each conjunct*)
(* is disturbed by few actions; Written says which, and Lasts what no      *)
(* action takes back.                                                      *)
(***************************************************************************)
EXTENDS Payments, TLAPS

-----------------------------------------------------------------------------
(* What the providers say *)

\* Each provider's answer to a new charge is taken for what it is.
LEMMA RepliesTrue == \A a : \A taken \in BOOLEAN : Reply(a, taken) = IF taken THEN "accepted" ELSE "rejected"
BY DEF Reply, AzamPayReply, SelcomReply, DpoReply

\* So is what it says of a charge later, in a callback, to a question or to a verification.
LEMMA StatusTrue ==
    \A a, state :
        LET kind == IF state = "paid" THEN "success" ELSE IF state = "prompted" THEN "pending" ELSE "failed"
        IN  Told(a, state) = kind /\ DpoStatus(DpoCode(state)) = kind
BY DEF Told, AzamPayStatus, AzamPayWord, SelcomStatus, SelcomCode, DpoStatus, DpoCode

\* A collection: the reply fits the charge, unless there is none.
LEMMA CollectionCalled ==
    ASSUME NEW p \in Requests, CallProvider(p)
    PROVE  /\ request[p].at = "calling"
           /\ \E reply \in {"accepted", "rejected", "error"} :
                 /\ request' = [request EXCEPT ![p].at = "replied", ![p].reply = reply]
                 /\ \/ reply # "rejected" /\ charge' = [charge EXCEPT ![request[p].txn] = "prompted"]
                    \/ reply # "accepted" /\ UNCHANGED charge
           /\ UNCHANGED <<money, txn, seen, collected, webhook, job, counters>>
<1>1. PICK taken \in BOOLEAN, heard \in BOOLEAN :
         /\ charge' = IF taken THEN [charge EXCEPT ![request[p].txn] = "prompted"] ELSE charge
         /\ request' = [request EXCEPT ![p].at = "replied",
               ![p].reply = IF heard THEN Reply(txn[request[p].txn].aggregator, taken) ELSE "error"]
  BY DEF CallProvider
<1>2. Reply(txn[request[p].txn].aggregator, taken) = IF taken THEN "accepted" ELSE "rejected"
  BY RepliesTrue
<1> DEFINE reply == IF heard THEN Reply(txn[request[p].txn].aggregator, taken) ELSE "error"
<1>3. /\ reply \in {"accepted", "rejected", "error"}
      /\ taken => reply # "rejected"
      /\ ~taken => reply # "accepted"
  BY <1>2
<1>4. request' = [request EXCEPT ![p].at = "replied", ![p].reply = reply]
  BY <1>1
<1> HIDE DEF reply
<1> QED
  BY <1>1, <1>3, <1>4 DEF CallProvider

\* A callback: what it is taken for is so.
LEMMA CallbackTrue ==
    ASSUME NEW a, NEW t, NEW state \in {"prompted", "paid", "refused"}, Sends(t, state)
    PROVE  /\ Told(a, state) \in {"success", "failed", "pending"}
           /\ Told(a, state) = "success" => charge[t] = "paid"
           /\ Told(a, state) = "failed" => charge[t] = "refused"
BY StatusTrue DEF Sends

\* A verification: what DPO says of the charge is so.
LEMMA Verified ==
    ASSUME NEW p \in Requests, ApplyVerification(p), charge[request[p].txn] # "none"
    PROVE  LET t == request[p].txn IN
           \/ charge[t] = "paid" /\ EarningsWritable(txn[t].ride) /\ Settle(t)
           \/ /\ charge[t] \notin {"paid", "prompted"}
              /\ txn' = [txn EXCEPT ![t].status = "failed"]
              /\ UNCHANGED money
           \/ UNCHANGED <<money, txn>>
BY StatusTrue DEF ApplyVerification

-----------------------------------------------------------------------------
(* Types *)

\* What is in flight refers to a ride, or to a row that exists.
Exists(t) == t \in Txns /\ txn[t].status # "none"

ProcessOK ==
    /\ \A t \in Txns : txn[t].status # "none" => txn[t].ride \in Rides /\ txn[t].aggregator # "none"
    /\ \A p \in Requests :
          /\ request[p].at \in {"loaded", "clear", "confirming"} => request[p].ride \in Rides
          /\ request[p].at \in {"calling", "replied", "verifying"} => Exists(request[p].txn)
    /\ \A w \in Webhooks : webhook[w].at # "idle" => Exists(webhook[w].txn)
    /\ \A j \in Jobs :
          /\ job[j].at # "idle" => Exists(job[j].txn)
          /\ job[j].at \in {"resolved", "updating", "paying"} => job[j].kind \in {"success", "failed"}

\* Only a row that exists is charged.
ChargeOK == \A t \in Txns : charge[t] # "none" => Exists(t)

Sound == TypeOK /\ ProcessOK /\ ChargeOK

\* Asked about a row, an aggregator tells how its charge stands; but DPO's rows are asked
\* of Selcom.
LEMMA AnswersTrue ==
    ASSUME Sound, NEW t, Exists(t)
    PROVE  /\ Answered(t) \in {"success", "failed", "pending"}
           /\ Answered(t) = "success" => charge[t] = "paid"
           /\ Answered(t) = "pending" => charge[t] = "prompted"
           /\ Answered(t) = "failed" => txn[t].aggregator = "dpo" \/ charge[t] \in {"none", "refused"}
<1>1. txn[t].aggregator \in {"azampay", "selcom", "dpo"} /\ charge[t] \in {"none", "prompted", "paid", "refused"}
  BY DEF Sound, TypeOK, ProcessOK, Exists, Row
<1>2. Provider(txn[t].aggregator) = txn[t].aggregator \/ txn[t].aggregator = "dpo"
  BY <1>1 DEF Provider
<1>3. Provider(txn[t].aggregator) # txn[t].aggregator => Answered(t) = "failed"
  BY StatusTrue DEF Answered
<1>4. Provider(txn[t].aggregator) = txn[t].aggregator => Answered(t) = Told(txn[t].aggregator, charge[t])
  BY DEF Answered
<1> QED
  BY <1>1, <1>2, <1>3, <1>4, StatusTrue

\* A verification writes its own row only.
LEMMA OthersUnverified ==
    ASSUME Sound, NEW p \in Requests, ApplyVerification(p), NEW t \in Txns, t # request[p].txn
    PROVE  txn'[t] = txn[t] /\ credits'[t] = credits[t]
<1>1. \/ Settle(request[p].txn)
      \/ txn' = [txn EXCEPT ![request[p].txn].status = "failed"] /\ credits' = credits
      \/ txn' = txn /\ credits' = credits
  BY DEF ApplyVerification, money
<1>2. CASE Settle(request[p].txn)
  BY <1>2 DEF Settle, Sound, TypeOK
<1>3. CASE txn' = [txn EXCEPT ![request[p].txn].status = "failed"] /\ credits' = credits
  BY <1>3 DEF Sound, TypeOK
<1> QED
  BY <1>1, <1>2, <1>3

\* The same collection, seen from the requests and the charges.
LEMMA CalledMoves ==
    ASSUME Sound, NEW p \in Requests, CallProvider(p)
    PROVE  /\ request[p].at = "calling" /\ request'[p].at = "replied"
           /\ request'[p].txn = request[p].txn
           /\ \A q \in Requests : q # p => request'[q] = request[q]
           /\ request'[p].reply = "rejected" => charge' = charge
           /\ \A t \in Txns : charge'[t] # charge[t] =>
                 t = request[p].txn /\ charge'[t] = "prompted" /\ request'[p].reply # "rejected"
<1>1. PICK reply \in {"accepted", "rejected", "error"} :
          /\ request' = [request EXCEPT ![p].at = "replied", ![p].reply = reply]
          /\ \/ reply # "rejected" /\ charge' = [charge EXCEPT ![request[p].txn] = "prompted"]
             \/ reply # "accepted" /\ UNCHANGED charge
  BY CollectionCalled
<1>2. request[p] \in Request /\ request[p].at = "calling"
  BY CollectionCalled DEF Sound, TypeOK
<1>3. /\ request'[p].at = "replied" /\ request'[p].txn = request[p].txn /\ request'[p].reply = reply
      /\ \A q \in Requests : q # p => request'[q] = request[q]
  BY <1>1, <1>2 DEF Sound, TypeOK, Request
<1>4. \A t \in Txns : charge'[t] # charge[t] => t = request[p].txn /\ charge'[t] = "prompted" /\ reply # "rejected"
  BY <1>1 DEF Sound, TypeOK
<1>5. reply = "rejected" => charge' = charge
  BY <1>1
<1> QED
  BY <1>2, <1>3, <1>4, <1>5

\* Rows are inserted and get another status; they are never deleted, nor moved to
\* another ride.
RowsGrow ==
    /\ txn' \in [Txns -> Row]
    /\ \A t \in Txns : txn[t].status # "none" =>
          /\ txn'[t].status # "none"
          /\ txn'[t].ride = txn[t].ride
          /\ txn'[t].aggregator = txn[t].aggregator
    /\ \A t \in Txns : txn'[t].status # "none" => txn'[t].ride \in Rides /\ txn'[t].aggregator # "none"

LEMMA RowsStay == ASSUME Sound, txn' = txn PROVE RowsGrow
  BY DEF Sound, TypeOK, ProcessOK, RowsGrow

LEMMA ChargesStay == ASSUME Sound, RowsGrow, charge' = charge PROVE ChargeOK'
  BY DEF Sound, ChargeOK, Exists, RowsGrow

LEMMA StatusChanges ==
    ASSUME Sound, NEW t, Exists(t), NEW s \in TxnStatus \ {"none"},
           txn' = [txn EXCEPT ![t].status = s]
    PROVE  RowsGrow
<1>1. txn[t] \in Row /\ [txn[t] EXCEPT !.status = s] \in Row
  BY DEF Sound, TypeOK, Exists, Row
<1>2. txn' = [txn EXCEPT ![t] = [txn[t] EXCEPT !.status = s]]
  OBVIOUS
<1>3. txn' \in [Txns -> Row]
  BY <1>1, <1>2 DEF Sound, TypeOK, Exists
<1>4. \A u \in Txns : txn'[u] = IF u = t THEN [txn[t] EXCEPT !.status = s] ELSE txn[u]
  BY <1>2 DEF Sound, TypeOK
<1> QED
  BY <1>1, <1>3, <1>4 DEF Sound, TypeOK, ProcessOK, Exists, RowsGrow, Row

LEMMA RowInserted ==
    ASSUME Sound, NEW t \in Txns, txn[t].status = "none", NEW r \in Rides, NEW a \in {"azampay", "selcom", "dpo"},
           txn' = [txn EXCEPT ![t] = [status |-> "pending", ride |-> r, aggregator |-> a]]
    PROVE  RowsGrow
<1>1. [status |-> "pending", ride |-> r, aggregator |-> a] \in Row
  BY DEF Row, TxnStatus
<1>2. txn' \in [Txns -> Row]
  BY <1>1 DEF Sound, TypeOK
<1>3. \A u \in Txns : txn'[u] = IF u = t THEN [status |-> "pending", ride |-> r, aggregator |-> a] ELSE txn[u]
  BY DEF Sound, TypeOK
<1> QED
  BY <1>2, <1>3 DEF Sound, TypeOK, ProcessOK, RowsGrow

\* One request, callback or sweep moves; the others stay, and rows only grow.
LEMMA RequestMoves ==
    ASSUME Sound, NEW p \in Requests, NEW me \in Request, RowsGrow,
           request' = [request EXCEPT ![p] = me], UNCHANGED <<webhook, job>>,
           me.at \in {"loaded", "clear", "confirming"} => me.ride \in Rides,
           me.at \in {"calling", "replied", "verifying"} =>
               me.txn \in Txns /\ txn'[me.txn].status # "none"
    PROVE  request' \in [Requests -> Request] /\ ProcessOK'
<1>1. request' \in [Requests -> Request]
  BY DEF Sound, TypeOK
<1>2. \A q \in Requests : request'[q] = IF q = p THEN me ELSE request[q]
  BY DEF Sound, TypeOK
<1> QED
  BY <1>1, <1>2 DEF Sound, ProcessOK, Exists, RowsGrow

LEMMA WebhookMoves ==
    ASSUME Sound, NEW w \in Webhooks, NEW me \in Webhook, RowsGrow,
           webhook' = [webhook EXCEPT ![w] = me], UNCHANGED <<request, job>>,
           me.at # "idle" => Exists(me.txn)
    PROVE  webhook' \in [Webhooks -> Webhook] /\ ProcessOK'
<1>1. webhook' \in [Webhooks -> Webhook]
  BY DEF Sound, TypeOK
<1>2. \A v \in Webhooks : webhook'[v] = IF v = w THEN me ELSE webhook[v]
  BY DEF Sound, TypeOK
<1> QED
  BY <1>1, <1>2 DEF Sound, ProcessOK, Exists, RowsGrow

LEMMA JobMoves ==
    ASSUME Sound, NEW j \in Jobs, NEW me \in Job, RowsGrow,
           job' = [job EXCEPT ![j] = me], UNCHANGED <<request, webhook>>,
           me.at # "idle" => Exists(me.txn),
           me.at \in {"resolved", "updating", "paying"} => me.kind \in {"success", "failed"}
    PROVE  job' \in [Jobs -> Job] /\ ProcessOK'
<1>1. job' \in [Jobs -> Job]
  BY DEF Sound, TypeOK
<1>2. \A i \in Jobs : job'[i] = IF i = j THEN me ELSE job[i]
  BY DEF Sound, TypeOK
<1> QED
  BY <1>1, <1>2 DEF Sound, ProcessOK, Exists, RowsGrow

LEMMA NothingInFlight == NoRequest \in Request /\ NoWebhook \in Webhook /\ NoJob \in Job
  BY DEF NoRequest, Request, NoWebhook, Webhook, NoJob, Job

LEMMA InitSound == Init => Sound
<1> SUFFICES ASSUME Init PROVE TypeOK /\ ProcessOK /\ ChargeOK
  BY DEF Sound
<1>1. TypeOK
  BY NothingInFlight DEF Init, TypeOK, Row, TxnStatus
<1>2. ProcessOK
  BY DEF Init, ProcessOK, Exists, NoRequest, NoWebhook, NoJob
<1>3. ChargeOK
  BY DEF Init, ChargeOK
<1> QED
  BY <1>1, <1>2, <1>3

\* A row that a payment settles.
LEMMA Settles ==
    ASSUME Sound, NEW t, Exists(t), Settle(t)
    PROVE  /\ RowsGrow
           /\ UNCHANGED <<trip, method, booked>>
           /\ paid' \in [Rides -> BOOLEAN]
           /\ credits' \in [Txns -> Nat]
<1>1. txn[t].ride \in Rides /\ "success" \in TxnStatus \ {"none"}
  BY DEF Sound, ProcessOK, Exists, TxnStatus
<1>2. RowsGrow
  BY <1>1, StatusChanges DEF Settle
<1>3. paid' \in [Rides -> BOOLEAN] /\ credits' \in [Txns -> Nat]
  BY <1>1 DEF Settle, MarkedPaid, Sound, TypeOK, Exists
<1> QED
  BY <1>2, <1>3 DEF Settle

\* A request that is done, a callback or a sweep.
LEMMA RequestDone ==
    ASSUME Sound, NEW p \in Requests, RowsGrow,
           request' = [request EXCEPT ![p] = NoRequest], UNCHANGED <<webhook, job>>
    PROVE  request' \in [Requests -> Request] /\ ProcessOK'
<1>1. NoRequest \in Request /\ NoRequest.at = "idle"
  BY NothingInFlight DEF NoRequest
<1> QED
  BY <1>1, RequestMoves

LEMMA WebhookDone ==
    ASSUME Sound, NEW w \in Webhooks, RowsGrow,
           webhook' = [webhook EXCEPT ![w] = NoWebhook], UNCHANGED <<request, job>>
    PROVE  webhook' \in [Webhooks -> Webhook] /\ ProcessOK'
<1>1. NoWebhook \in Webhook /\ NoWebhook.at = "idle"
  BY NothingInFlight DEF NoWebhook
<1> QED
  BY <1>1, WebhookMoves

LEMMA JobDone ==
    ASSUME Sound, NEW j \in Jobs, RowsGrow,
           job' = [job EXCEPT ![j] = NoJob], UNCHANGED <<request, webhook>>
    PROVE  job' \in [Jobs -> Job] /\ ProcessOK'
<1>1. NoJob \in Job /\ NoJob.at = "idle"
  BY NothingInFlight DEF NoJob
<1> QED
  BY <1>1, JobMoves

LEMMA ArriveSound == ASSUME Sound, NEW p \in Requests, Arrive(p) PROVE RowsGrow /\ Sound'
<1>1. ASSUME NEW r \in Rides, LoadRide(p, r) PROVE RowsGrow /\ Sound'
  <2> DEFINE me == [NoRequest EXCEPT !.at = "loaded", !.ride = r]
  <2>1. me \in Request /\ me.at = "loaded" /\ me.ride = r
    BY NothingInFlight DEF NoRequest, Request
  <2>2. request' = [request EXCEPT ![p] = me] /\ UNCHANGED <<money, txn, seen, outside, webhook, job, counters>>
    BY <1>1 DEF LoadRide
  <2> HIDE DEF me
  <2>3. RowsGrow
    BY <2>2, RowsStay
  <2>4. request' \in [Requests -> Request] /\ ProcessOK' /\ ChargeOK'
    BY <2>1, <2>2, <2>3, RequestMoves, ChargesStay DEF outside
  <2> QED
    BY <2>3, <2>2, <2>4 DEF Sound, TypeOK, money, outside, counters
<1>2. ASSUME NEW r \in Rides, ConfirmCollection(p, r) PROVE RowsGrow /\ Sound'
  <2> DEFINE me == [NoRequest EXCEPT !.at = "confirming", !.ride = r]
  <2>1. me \in Request /\ me.at = "confirming" /\ me.ride = r
    BY NothingInFlight DEF NoRequest, Request
  <2>2. request' = [request EXCEPT ![p] = me] /\ UNCHANGED <<money, txn, seen, charge, webhook, job, counters>>
    BY <1>2 DEF ConfirmCollection
  <2>3. collected' \in [Rides -> BOOLEAN]
    BY <1>2 DEF ConfirmCollection, Sound, TypeOK
  <2> HIDE DEF me
  <2>4. RowsGrow
    BY <2>2, RowsStay
  <2>5. request' \in [Requests -> Request] /\ ProcessOK' /\ ChargeOK'
    BY <2>1, <2>2, <2>4, RequestMoves, ChargesStay DEF outside
  <2> QED
    BY <2>4, <2>2, <2>3, <2>5 DEF Sound, TypeOK, money, counters
<1>3. ASSUME NEW r \in Rides, NEW t \in Txns, InitiateCardPayment(p, r, t) PROVE RowsGrow /\ Sound'
  <2> DEFINE me == [NoRequest EXCEPT !.at = "calling", !.ride = r, !.txn = t]
  <2>1. me \in Request /\ me.at = "calling" /\ me.txn = t
    BY NothingInFlight DEF NoRequest, Request
  <2>2. request' = [request EXCEPT ![p] = me] /\ UNCHANGED <<money, seen, outside, webhook, job, counters>>
    BY <1>3 DEF InitiateCardPayment
  <2> HIDE DEF me
  <2>3. RowsGrow
    BY <1>3, RowInserted DEF InitiateCardPayment
  <2>4. txn'[t].status = "pending"
    BY <1>3 DEF InitiateCardPayment, Sound, TypeOK
  <2>5. request' \in [Requests -> Request] /\ ProcessOK' /\ ChargeOK'
    BY <2>1, <2>2, <2>3, <2>4, RequestMoves, ChargesStay DEF outside
  <2> QED
    BY <2>2, <2>3, <2>5 DEF Sound, TypeOK, RowsGrow, money, outside, counters
<1>4. ASSUME NEW t \in Txns, VerifyCard(p, t) PROVE RowsGrow /\ Sound'
  <2> DEFINE me == [NoRequest EXCEPT !.at = "verifying", !.txn = t]
  <2>1. me \in Request /\ me.at = "verifying" /\ me.txn = t
    BY NothingInFlight DEF NoRequest, Request
  <2>2. /\ request' = [request EXCEPT ![p] = me] /\ UNCHANGED <<money, txn, seen, outside, webhook, job, counters>>
        /\ txn[t].status # "none"
    BY <1>4 DEF VerifyCard
  <2> HIDE DEF me
  <2>3. RowsGrow
    BY <2>2, RowsStay
  <2>4. request' \in [Requests -> Request] /\ ProcessOK' /\ ChargeOK'
    BY <2>1, <2>2, <2>3, RequestMoves, ChargesStay DEF outside
  <2> QED
    BY <2>3, <2>2, <2>4 DEF Sound, TypeOK, money, outside, counters
<1> QED
  BY <1>1, <1>2, <1>3, <1>4 DEF Arrive

LEMMA RequestStepSound == ASSUME Sound, NEW p \in Requests, RequestStep(p) PROVE RowsGrow /\ Sound'
<1>0. request[p] \in Request
  BY DEF Sound, TypeOK
<1>1. CASE CheckInFlight(p)
  <2> DEFINE me == IF InFlight(request[p].ride) # {} THEN NoRequest ELSE [request[p] EXCEPT !.at = "clear"]
  <2>1. /\ me \in Request /\ me.at \in {"idle", "clear"}
        /\ me.at = "clear" => me.ride \in Rides
    BY <1>0, <1>1, NothingInFlight DEF CheckInFlight, NoRequest, Request, Sound, ProcessOK
  <2>2. request' = [request EXCEPT ![p] = me] /\ UNCHANGED <<money, txn, seen, outside, webhook, job, counters>>
    BY <1>1 DEF CheckInFlight
  <2> HIDE DEF me
  <2>3. RowsGrow
    BY <2>2, RowsStay
  <2>4. request' \in [Requests -> Request] /\ ProcessOK' /\ ChargeOK'
    BY <2>1, <2>2, <2>3, RequestMoves, ChargesStay DEF outside
  <2> QED
    BY <2>3, <2>2, <2>4 DEF Sound, TypeOK, money, outside, counters
<1>2. ASSUME NEW t \in Txns, InsertIntent(p, t) PROVE RowsGrow /\ Sound'
  <2> DEFINE me == [request[p] EXCEPT !.at = "calling", !.txn = t]
  <2>1. me \in Request /\ me.at = "calling" /\ me.txn = t
    BY <1>0 DEF Request
  <2>2. request' = [request EXCEPT ![p] = me] /\ UNCHANGED <<money, seen, outside, webhook, job, counters>>
    BY <1>2 DEF InsertIntent
  <2> HIDE DEF me
  <2>3. request[p].ride \in Rides
    BY <1>2 DEF InsertIntent, Sound, ProcessOK
  <2>0. PICK a \in RouteProvider :
            txn' = [txn EXCEPT ![t] = [status |-> "pending", ride |-> request[p].ride, aggregator |-> a]]
    BY <1>2 DEF InsertIntent
  <2>4. RowsGrow
    <3>1. a \in {"azampay", "selcom", "dpo"} /\ txn[t].status = "none"
      BY <1>2, PaymentBounds DEF RouteProvider, InsertIntent
    <3> QED
      BY <2>0, <2>3, <3>1, RowInserted
  <2>5. txn'[t].status = "pending"
    BY <2>0 DEF Sound, TypeOK
  <2>6. request' \in [Requests -> Request] /\ ProcessOK' /\ ChargeOK'
    BY <2>1, <2>2, <2>4, <2>5, RequestMoves, ChargesStay DEF outside
  <2> QED
    BY <2>2, <2>4, <2>6 DEF Sound, TypeOK, RowsGrow, money, outside, counters
<1>3. CASE CallProvider(p)
  <2>0. PICK reply \in {"accepted", "rejected", "error"} :
            /\ request' = [request EXCEPT ![p].at = "replied", ![p].reply = reply]
            /\ \/ charge' = [charge EXCEPT ![request[p].txn] = "prompted"]
               \/ UNCHANGED charge
    BY <1>3, CollectionCalled
  <2> DEFINE me == [request[p] EXCEPT !.at = "replied", !.reply = reply]
  <2>1. me \in Request /\ me.at = "replied" /\ Exists(me.txn)
    BY <1>0, <1>3, CollectionCalled DEF Request, Sound, ProcessOK
  <2>2. request' = [request EXCEPT ![p] = me] /\ UNCHANGED <<money, txn, seen, collected, webhook, job, counters>>
    BY <2>0, <1>3, CollectionCalled
  <2> HIDE DEF me
  <2>3. charge' \in [Txns -> {"none", "prompted", "paid", "refused"}]
    BY <2>0 DEF Sound, TypeOK
  <2>4. RowsGrow
    BY <2>2, RowsStay
  <2>5. request' \in [Requests -> Request] /\ ProcessOK'
    BY <2>1, <2>2, <2>4, RequestMoves DEF Exists
  <2>6. ChargeOK'
    <3>1. Exists(request[p].txn)
      BY <1>3, CollectionCalled DEF Sound, ProcessOK
    <3>2. \A t \in Txns : charge'[t] # "none" => Exists(t)
      BY <2>0, <3>1 DEF Sound, TypeOK, ChargeOK
    <3>3. txn' = txn
      BY <2>2
    <3> QED
      BY <3>2, <3>3 DEF ChargeOK, Exists
  <2> QED
    BY <2>4, <2>2, <2>3, <2>5, <2>6 DEF Sound, TypeOK, money, counters
<1>4. CASE RecordReply(p)
  <2>1. Exists(request[p].txn)
    BY <1>4 DEF Recorded, CardRecorded, RecordReply, Sound, ProcessOK
  <2>2. AfterReply(request[p].reply) \in TxnStatus \ {"none"}
    BY DEF AfterReply, TxnStatus
  <2>3. \/ txn' = txn
        \/ txn' = [txn EXCEPT ![request[p].txn].status = AfterReply(request[p].reply)]
    BY <1>4 DEF Recorded, CardRecorded, RecordReply
  <2>4. RowsGrow
    BY <2>1, <2>2, <2>3, RowsStay, StatusChanges
  <2>5. /\ request' = [request EXCEPT ![p] = NoRequest]
        /\ UNCHANGED <<money, seen, outside, webhook, job, counters>>
    BY <1>4 DEF Recorded, CardRecorded, RecordReply
  <2>6. request' \in [Requests -> Request] /\ ProcessOK' /\ ChargeOK'
    BY <2>4, <2>5, RequestDone, ChargesStay DEF outside
  <2> QED
    BY <2>4, <2>5, <2>6 DEF Sound, TypeOK, RowsGrow, money, outside, counters
<1>5. CASE ApplyVerification(p)
  <2>1. Exists(request[p].txn) /\ "failed" \in TxnStatus \ {"none"}
    BY <1>5 DEF ApplyVerification, Sound, ProcessOK, TxnStatus
  <2>2. /\ RowsGrow
        /\ UNCHANGED <<trip, method, booked>>
        /\ paid' \in [Rides -> BOOLEAN]
        /\ credits' \in [Txns -> Nat]
    <3>1. CASE Settle(request[p].txn)
      BY <2>1, <3>1, Settles
    <3>2. CASE txn' = [txn EXCEPT ![request[p].txn].status = "failed"] /\ UNCHANGED money
      BY <2>1, <3>2, StatusChanges DEF Sound, TypeOK, money
    <3>3. CASE UNCHANGED <<money, txn>>
      BY <3>3, RowsStay DEF Sound, TypeOK, money
    <3> QED
      BY <1>5, <3>1, <3>2, <3>3, StatusTrue DEF ApplyVerification
  <2>3. /\ request' = [request EXCEPT ![p] = NoRequest]
        /\ UNCHANGED <<seen, outside, webhook, job, counters>>
    BY <1>5 DEF ApplyVerification
  <2>4. request' \in [Requests -> Request] /\ ProcessOK' /\ ChargeOK'
    BY <2>2, <2>3, RequestDone, ChargesStay DEF outside
  <2> QED
    BY <2>2, <2>3, <2>4 DEF Sound, TypeOK, RowsGrow, outside, counters
<1>6. CASE BookCash(p)
  <2>1. request[p].ride \in Rides
    BY <1>6 DEF BookCash, Sound, ProcessOK
  <2>2. paid' \in [Rides -> BOOLEAN] /\ booked' \in [Rides -> Nat]
    BY <1>6, <2>1 DEF BookCash, MarkedPaid, Sound, TypeOK
  <2>3. /\ request' = [request EXCEPT ![p] = NoRequest]
        /\ UNCHANGED <<trip, method, credits, txn, seen, outside, webhook, job, counters>>
    BY <1>6 DEF BookCash
  <2>4. RowsGrow
    BY <2>3, RowsStay
  <2>5. request' \in [Requests -> Request] /\ ProcessOK' /\ ChargeOK'
    BY <2>3, <2>4, RequestDone, ChargesStay DEF outside
  <2> QED
    BY <2>4, <2>2, <2>3, <2>5 DEF Sound, TypeOK, outside, counters
<1> QED
  BY <1>1, <1>2, <1>3, <1>4, <1>5, <1>6 DEF RequestStep

LEMMA RequestFailsSound == ASSUME Sound, NEW p \in Requests, RequestFails(p) PROVE RowsGrow /\ Sound'
<1>1. RowsGrow
  <2>1. CASE UNCHANGED txn
    BY <2>1, RowsStay
  <2>2. CASE /\ request[p].at = "replied"
             /\ txn' = [txn EXCEPT ![request[p].txn].status = "processing"]
    <3>1. Exists(request[p].txn) /\ "processing" \in TxnStatus \ {"none"}
      BY <2>2 DEF Sound, ProcessOK, TxnStatus
    <3> QED
      BY <2>2, <3>1, StatusChanges
  <2> QED
    BY <2>1, <2>2 DEF RequestFails
<1>2. /\ request' = [request EXCEPT ![p] = NoRequest]
      /\ faults' = faults + 1
      /\ UNCHANGED <<money, seen, outside, webhook, job, deliveries>>
  BY DEF RequestFails
<1>3. request' \in [Requests -> Request] /\ ProcessOK' /\ ChargeOK'
  BY <1>1, <1>2, RequestDone, ChargesStay DEF outside
<1> QED
  BY <1>1, <1>2, <1>3 DEF Sound, TypeOK, RowsGrow, money, outside

LEMMA WebhookSound ==
    ASSUME Sound, NEW w \in Webhooks,
           \/ \E t \in Txns, state \in {"prompted", "paid", "refused"} : ReceiveWebhook(w, t, state)
           \/ ApplyWebhook(w) \/ WebhookFails(w)
    PROVE  RowsGrow /\ Sound'
<1>1. ASSUME NEW t \in Txns, NEW state \in {"prompted", "paid", "refused"}, ReceiveWebhook(w, t, state)
      PROVE  RowsGrow /\ Sound'
  <2> DEFINE me == [at |-> "guarded", txn |-> t, kind |-> Told(txn[t].aggregator, state)]
  <2>1. me \in Webhook /\ me.txn = t
    BY <1>1, CallbackTrue DEF ReceiveWebhook, Webhook
  <2>2. /\ webhook' = [webhook EXCEPT ![w] = me]
        /\ UNCHANGED <<money, txn, outside, request, job, faults>>
    BY <1>1 DEF ReceiveWebhook
  <2>3. seen' \in SUBSET Txns /\ deliveries' \in Nat
    BY <1>1 DEF ReceiveWebhook, Sound, TypeOK
  <2> HIDE DEF me
  <2>4. RowsGrow
    BY <2>2, RowsStay
  <2>5. Exists(t)
    BY <1>1 DEF ReceiveWebhook, Sends, Sound, ChargeOK
  <2>6. webhook' \in [Webhooks -> Webhook] /\ ProcessOK' /\ ChargeOK'
    BY <2>1, <2>2, <2>4, <2>5, WebhookMoves, ChargesStay DEF outside
  <2> QED
    BY <2>4, <2>2, <2>3, <2>6 DEF Sound, TypeOK, money, outside
<1>2. CASE ApplyWebhook(w)
  <2>1. Exists(webhook[w].txn) /\ {"processing", "failed"} \subseteq TxnStatus \ {"none"}
    BY <1>2 DEF ApplyWebhook, Sound, ProcessOK, TxnStatus
  <2>2. \/ UNCHANGED <<money, txn>>
        \/ Settle(webhook[w].txn)
        \/ \E s \in {"processing", "failed"} :
              txn' = [txn EXCEPT ![webhook[w].txn].status = s] /\ UNCHANGED money
    BY <1>2 DEF ApplyWebhook
  <2>3. /\ RowsGrow
        /\ UNCHANGED <<trip, method, booked>>
        /\ paid' \in [Rides -> BOOLEAN]
        /\ credits' \in [Txns -> Nat]
    <3>1. CASE UNCHANGED <<money, txn>>
      BY <3>1, RowsStay DEF Sound, TypeOK, money
    <3>2. CASE Settle(webhook[w].txn)
      BY <2>1, <3>2, Settles
    <3>3. ASSUME NEW s \in {"processing", "failed"},
                 txn' = [txn EXCEPT ![webhook[w].txn].status = s], UNCHANGED money
          PROVE  /\ RowsGrow
                 /\ UNCHANGED <<trip, method, booked>>
                 /\ paid' \in [Rides -> BOOLEAN]
                 /\ credits' \in [Txns -> Nat]
      BY <2>1, <3>3, StatusChanges DEF Sound, TypeOK, money
    <3> QED
      BY <2>2, <3>1, <3>2, <3>3
  <2>4. /\ webhook' = [webhook EXCEPT ![w] = NoWebhook]
        /\ UNCHANGED <<seen, outside, request, job, counters>>
    BY <1>2 DEF ApplyWebhook
  <2>5. webhook' \in [Webhooks -> Webhook] /\ ProcessOK' /\ ChargeOK'
    BY <2>3, <2>4, WebhookDone, ChargesStay DEF outside
  <2> QED
    BY <2>3, <2>4, <2>5 DEF Sound, TypeOK, RowsGrow, outside, counters
<1>3. CASE WebhookFails(w)
  <2>1. /\ webhook' = [webhook EXCEPT ![w] = NoWebhook]
        /\ faults' = faults + 1
        /\ UNCHANGED <<money, txn, seen, outside, request, job, deliveries>>
    BY <1>3 DEF WebhookFails
  <2>2. RowsGrow
    BY <2>1, RowsStay
  <2>3. webhook' \in [Webhooks -> Webhook] /\ ProcessOK' /\ ChargeOK'
    BY <2>1, <2>2, WebhookDone, ChargesStay DEF outside
  <2> QED
    BY <2>2, <2>1, <2>3 DEF Sound, TypeOK, money, outside
<1> QED
  BY <1>1, <1>2, <1>3

LEMMA JobSound ==
    ASSUME Sound, NEW j \in Jobs,
           (\E t \in Txns : Pick(j, t)) \/ JobStep(j) \/ JobFails(j)
    PROVE  RowsGrow /\ Sound'
<1>0. job[j] \in Job
  BY DEF Sound, TypeOK
<1>1. ASSUME NEW t \in Txns, Pick(j, t) PROVE RowsGrow /\ Sound'
  <2> DEFINE me == [NoJob EXCEPT !.at = "picked", !.txn = t]
  <2>1. me \in Job /\ me.txn = t /\ Exists(t) /\ me.at = "picked"
    BY <1>1, NothingInFlight DEF Pick, NoJob, Job, Exists
  <2>2. /\ job' = [job EXCEPT ![j] = me]
        /\ UNCHANGED <<money, txn, seen, outside, request, webhook, counters>>
    BY <1>1 DEF Pick
  <2> HIDE DEF me
  <2>3. RowsGrow
    BY <2>2, RowsStay
  <2>4. job' \in [Jobs -> Job] /\ ProcessOK' /\ ChargeOK'
    BY <2>1, <2>2, <2>3, JobMoves, ChargesStay DEF outside
  <2> QED
    BY <2>3, <2>2, <2>4 DEF Sound, TypeOK, money, outside, counters
<1>2. CASE Query(j)
  <2> DEFINE kind == Answered(job[j].txn)
             me == [job[j] EXCEPT !.at = IF kind = "pending" THEN "pending" ELSE "resolved",
                                  !.kind = kind]
  <2>1. /\ me \in Job /\ Exists(me.txn)
        /\ me.at = "resolved" => me.kind \in {"success", "failed"}
        /\ me.at \in {"pending", "resolved"}
    <3>1. Exists(job[j].txn)
      BY <1>2 DEF Query, Sound, ProcessOK
    <3>2. kind \in {"success", "failed", "pending"}
      BY <3>1, AnswersTrue
    <3> HIDE DEF kind
    <3> QED
      BY <1>0, <3>1, <3>2 DEF Job
  <2>2. /\ job' = [job EXCEPT ![j] = me]
        /\ UNCHANGED <<money, txn, seen, outside, request, webhook, counters>>
    BY <1>2 DEF Query
  <2> HIDE DEF me
  <2>3. RowsGrow
    BY <2>2, RowsStay
  <2>4. job' \in [Jobs -> Job] /\ ProcessOK' /\ ChargeOK'
    BY <2>1, <2>2, <2>3, JobMoves, ChargesStay DEF outside
  <2> QED
    BY <2>3, <2>2, <2>4 DEF Sound, TypeOK, money, outside, counters
<1>3. CASE GiveUp(j)
  <2>1. Exists(job[j].txn) /\ "timeout" \in TxnStatus \ {"none"}
    BY <1>3 DEF GiveUp, Sound, ProcessOK, TxnStatus
  <2>2. /\ txn' = [txn EXCEPT ![job[j].txn].status = "timeout"]
        /\ job' = [job EXCEPT ![j] = NoJob]
        /\ UNCHANGED <<money, seen, outside, request, webhook, counters>>
    BY <1>3 DEF GiveUp, GivenUp
  <2>3. RowsGrow
    BY <2>1, <2>2, StatusChanges
  <2>4. job' \in [Jobs -> Job] /\ ProcessOK' /\ ChargeOK'
    BY <2>2, <2>3, JobDone, ChargesStay DEF outside
  <2> QED
    BY <2>2, <2>3, <2>4 DEF Sound, TypeOK, RowsGrow, money, outside, counters
<1>4. CASE ReopenGuard(j)
  <2> DEFINE me == [job[j] EXCEPT !.at = "updating"]
  <2>1. me \in Job /\ Exists(me.txn) /\ me.kind \in {"success", "failed"}
    BY <1>0, <1>4 DEF ReopenGuard, Job, Sound, ProcessOK
  <2>2. /\ job' = [job EXCEPT ![j] = me]
        /\ UNCHANGED <<money, txn, outside, request, webhook, counters>>
    BY <1>4 DEF ReopenGuard
  <2>3. seen' \in SUBSET Txns
    BY <1>4 DEF ReopenGuard, Sound, TypeOK
  <2> HIDE DEF me
  <2>4. RowsGrow
    BY <2>2, RowsStay
  <2>5. job' \in [Jobs -> Job] /\ ProcessOK' /\ ChargeOK'
    BY <2>1, <2>2, <2>4, JobMoves, ChargesStay DEF outside
  <2> QED
    BY <2>4, <2>2, <2>3, <2>5 DEF Sound, TypeOK, money, outside, counters
<1>5. CASE ApplyResolved(j)
  <2> DEFINE t == job[j].txn
             me == [job[j] EXCEPT !.at = "paying"]
  <2>1. Exists(t) /\ me \in Job /\ me.txn = t /\ me.kind \in {"success", "failed"}
    BY <1>0, <1>5 DEF ApplyResolved, Job, Sound, ProcessOK
  <2>2. UNCHANGED <<money, outside, request, webhook, counters>>
    BY <1>5 DEF ApplyResolved
  <2>3. seen' \in SUBSET Txns
    BY <1>5, <2>1 DEF ApplyResolved, Sound, TypeOK, Exists
  <2>4. RowsGrow
    <3>1. CASE t \in seen
      BY <1>5, <3>1, RowsStay DEF ApplyResolved
    <3>2. CASE t \notin seen
      <4> DEFINE s == IF Terminal(txn[t].status) THEN txn[t].status ELSE job[j].kind
      <4>1. txn' = [txn EXCEPT ![t].status = s]
        BY <1>5, <3>2 DEF ApplyResolved
      <4>2. s \in TxnStatus \ {"none"}
        BY <1>0, <1>5, <2>1 DEF ApplyResolved, Sound, TypeOK, ProcessOK, Exists, Job, Row, TxnStatus
      <4> QED
        BY <2>1, <4>1, <4>2, StatusChanges
    <3> QED
      BY <3>1, <3>2
  <2>5. job' = [job EXCEPT ![j] = NoJob] \/ job' = [job EXCEPT ![j] = me]
    BY <1>5 DEF ApplyResolved
  <2> HIDE DEF t, me
  <2>6. job' \in [Jobs -> Job] /\ ProcessOK' /\ ChargeOK'
    BY <2>1, <2>2, <2>4, <2>5, JobMoves, JobDone, ChargesStay DEF outside
  <2> QED
    BY <2>2, <2>3, <2>4, <2>6 DEF Sound, TypeOK, RowsGrow, money, outside, counters
<1>6. CASE NotYet(j) \/ MarkPaid(j) \/ JobFails(j)
  <2>1. /\ job' = [job EXCEPT ![j] = NoJob]
        /\ UNCHANGED <<trip, method, credits, booked, txn, seen, outside, request, webhook, deliveries>>
        /\ faults' \in Nat
    BY <1>6 DEF NotYet, MarkPaid, JobFails, money, counters, Sound, TypeOK
  <2>2. paid' \in [Rides -> BOOLEAN]
    BY <1>6 DEF NotYet, MarkPaid, JobFails, money, MarkedPaid, Sound, TypeOK
  <2>3. RowsGrow
    BY <2>1, RowsStay
  <2>4. job' \in [Jobs -> Job] /\ ProcessOK' /\ ChargeOK'
    BY <2>1, <2>3, JobDone, ChargesStay DEF outside
  <2> QED
    BY <2>3, <2>1, <2>2, <2>4 DEF Sound, TypeOK, outside
<1> QED
  BY <1>1, <1>2, <1>3, <1>4, <1>5, <1>6 DEF JobStep

LEMMA StepSound == Sound /\ [Next]_vars => RowsGrow /\ Sound'
<1> SUFFICES ASSUME Sound, [Next]_vars PROVE RowsGrow /\ Sound'
  OBVIOUS
<1>1. ASSUME NEW r \in Rides, AssignDriver(r) \/ CompleteTrip(r) PROVE RowsGrow /\ Sound'
  <2>1. UNCHANGED <<method, paid, credits, txn, seen, outside, processes, counters>>
    BY <1>1 DEF AssignDriver, CompleteTrip
  <2>2. trip' \in [Rides -> {"unassigned", "driven", "completed"}] /\ booked' \in [Rides -> Nat]
    BY <1>1 DEF AssignDriver, CompleteTrip, Sound, TypeOK
  <2> QED
    BY <2>1, <2>2, RowsStay DEF Sound, TypeOK, ProcessOK, ChargeOK, Exists, outside, processes, counters
<1>2. ASSUME NEW p \in Requests, Arrive(p) \/ RequestStep(p) \/ RequestFails(p) PROVE RowsGrow /\ Sound'
  BY <1>2, ArriveSound, RequestStepSound, RequestFailsSound
<1>3. ASSUME NEW t \in Txns, CustomerDecides(t) PROVE RowsGrow /\ Sound'
  <2>1. UNCHANGED <<money, txn, seen, collected, processes, counters>>
    BY <1>3 DEF CustomerDecides
  <2>2. /\ charge' \in [Txns -> {"none", "prompted", "paid", "refused"}]
        /\ \A u \in Txns : charge'[u] # "none" => charge[u] # "none"
    BY <1>3 DEF CustomerDecides, Sound, TypeOK
  <2> QED
    BY <2>1, <2>2, RowsStay DEF Sound, TypeOK, ProcessOK, ChargeOK, Exists, money, processes, counters
<1>4. ASSUME NEW w \in Webhooks,
             \/ \E t \in Txns, state \in {"prompted", "paid", "refused"} : ReceiveWebhook(w, t, state)
             \/ ApplyWebhook(w) \/ WebhookFails(w)
      PROVE  RowsGrow /\ Sound'
  BY <1>4, WebhookSound
<1>5. ASSUME NEW j \in Jobs, (\E t \in Txns : Pick(j, t)) \/ JobStep(j) \/ JobFails(j) PROVE RowsGrow /\ Sound'
  BY <1>5, JobSound
<1>6. CASE Crash
  <2>1. /\ request' = [p \in Requests |-> NoRequest]
        /\ webhook' = [w \in Webhooks |-> NoWebhook]
        /\ job' = [j \in Jobs |-> NoJob]
        /\ faults' \in Nat
        /\ UNCHANGED <<money, txn, seen, outside, deliveries>>
    BY <1>6 DEF Crash, Sound, TypeOK
  <2>2. TypeOK'
    BY <2>1, NothingInFlight DEF Sound, TypeOK, money, outside
  <2>3. ProcessOK' /\ ChargeOK'
    BY <2>1 DEF Sound, ProcessOK, ChargeOK, Exists, outside, NoRequest, NoWebhook, NoJob
  <2>4. RowsGrow
    BY <2>1, RowsStay
  <2> QED
    BY <2>2, <2>3, <2>4 DEF Sound
<1>7. CASE UNCHANGED vars
  BY <1>7, RowsStay DEF vars, money, outside, processes, counters, Sound, TypeOK, ProcessOK, ChargeOK, Exists
<1> QED
  BY <1>1, <1>2, <1>3, <1>4, <1>5, <1>6, <1>7 DEF Next

LEMMA AlwaysSound == Spec => []Sound
  BY InitSound, StepSound, PTL DEF Spec

\* The rows, the counters and the processes have their types, and what is in flight
\* refers to a ride or a row that exists.
THEOREM PaymentTypes == Spec => []TypeOK
<1>1. Sound => TypeOK
  BY DEF Sound
<1> QED
  BY AlwaysSound, <1>1, PTL

-----------------------------------------------------------------------------
(* Money *)

\* A row that is being charged is still pending and not charged; one whose charge was
\* refused has none; verification and cash confirmation have seen what they go by.
RequestHonest(p) ==
    LET t == request[p].txn IN
    /\ request[p].at = "calling" => txn[t].status = "pending" /\ charge[t] = "none"
    /\ request[p].at = "replied" /\ request[p].reply = "rejected" => charge[t] = "none"
    /\ request[p].at = "verifying" => txn[t].aggregator = "dpo" /\ charge[t] # "none"
    /\ request[p].at = "confirming" => collected[request[p].ride]

RequestsHonest == \A p \in Requests : RequestHonest(p)

\* A row is inserted by the request that charges it.
Charging(p) == request[p].at \in {"calling", "replied"}

OneCaller ==
    \A p, q \in Requests :
        Charging(p) /\ Charging(q) /\ request[p].txn = request[q].txn => p = q

\* A callback on its way says what became of the charge...
WebhooksHonest ==
    \A w \in Webhooks : webhook[w].at # "idle" =>
        LET t == webhook[w].txn IN
        /\ charge[t] # "none" /\ txn[t].aggregator # "dpo" /\ webhook[w].kind # "none"
        /\ webhook[w].kind = "success" => charge[t] = "paid"
        /\ webhook[w].kind = "failed" => charge[t] = "refused"

\* ... and so does the answer a sweep got, but for cards; a row it picked is not being
\* charged any more.
HonestAnswer(me) ==
    LET t == me.txn IN
    /\ \A p \in Requests : request[p].at = "calling" => request[p].txn # t
    /\ me.kind = "success" => charge[t] = "paid"
    /\ me.kind = "failed" => txn[t].aggregator = "dpo" \/ charge[t] \in {"none", "refused"}
    /\ me.at = "paying" => me.kind = "success"

JobsHonest == \A j \in Jobs : job[j].at # "idle" => HonestAnswer(job[j])

Honest ==
    /\ Sound
    /\ RequestsHonest /\ OneCaller /\ WebhooksHonest /\ JobsHonest
    /\ PaidForReal /\ CreditNeedsPaidTrip /\ FailedMeansUncharged

-----------------------------------------------------------------------------
(* Which actions write what *)

RequestWritten ==
    (\A p \in Requests : request'[p] \in {request[p], NoRequest})
        \/ \E p \in Requests : Arrive(p) \/ RequestStep(p)

WebhookWritten ==
    (\A w \in Webhooks : webhook'[w] \in {webhook[w], NoWebhook})
        \/ \E w \in Webhooks, t \in Txns, state \in {"prompted", "paid", "refused"} :
              ReceiveWebhook(w, t, state)

JobWritten ==
    (\A j \in Jobs : job'[j] \in {job[j], NoJob})
        \/ \E j \in Jobs : (\E t \in Txns : Pick(j, t)) \/ Query(j) \/ ReopenGuard(j) \/ ApplyResolved(j)

TxnWritten ==
    \/ txn' = txn
    \/ \E p \in Requests :
          \/ \E r \in Rides, t \in Txns : InitiateCardPayment(p, r, t)
          \/ \E t \in Txns : InsertIntent(p, t)
          \/ RecordReply(p) \/ ApplyVerification(p) \/ RequestFails(p)
    \/ \E w \in Webhooks : ApplyWebhook(w)
    \/ \E j \in Jobs : GiveUp(j) \/ ApplyResolved(j)

ChargeWritten ==
    charge' = charge \/ (\E p \in Requests : CallProvider(p)) \/ (\E t \in Txns : CustomerDecides(t))

CollectedWritten ==
    collected' = collected \/ \E p \in Requests, r \in Rides : ConfirmCollection(p, r)

PaidWritten ==
    \/ paid' = paid
    \/ \E p \in Requests : ApplyVerification(p) \/ BookCash(p)
    \/ \E w \in Webhooks : ApplyWebhook(w)
    \/ \E j \in Jobs : MarkPaid(j)

CreditsWritten ==
    \/ credits' = credits
    \/ \E p \in Requests : ApplyVerification(p)
    \/ \E w \in Webhooks : ApplyWebhook(w)

TripWritten ==
    trip' = trip \/ \E r \in Rides : AssignDriver(r) \/ CompleteTrip(r)

\* What decides whether a callback is applied, and what it does then.
GuardWritten ==
    \/ /\ seen' = seen /\ credits' = credits
       /\ \A w \in Webhooks : webhook'[w] \in {webhook[w], NoWebhook}
    \/ \E w \in Webhooks, t \in Txns, state \in {"prompted", "paid", "refused"} : ReceiveWebhook(w, t, state)
    \/ \E w \in Webhooks : ApplyWebhook(w)
    \/ \E p \in Requests : ApplyVerification(p)
    \/ \E j \in Jobs : ReopenGuard(j) \/ ApplyResolved(j)

Written ==
    /\ RequestWritten /\ WebhookWritten /\ JobWritten
    /\ TxnWritten /\ ChargeWritten /\ CollectedWritten
    /\ PaidWritten /\ CreditsWritten /\ TripWritten /\ GuardWritten

LEMMA Writers == ASSUME Sound, [Next]_vars PROVE Written
<1> USE DEF money, outside, processes, counters, Written, RequestWritten, WebhookWritten, JobWritten,
            TxnWritten, ChargeWritten, CollectedWritten, PaidWritten, CreditsWritten, TripWritten,
            GuardWritten
<1>1. ASSUME NEW r \in Rides, AssignDriver(r) \/ CompleteTrip(r) PROVE Written
  BY <1>1 DEF AssignDriver, CompleteTrip
<1>2. ASSUME NEW p \in Requests, Arrive(p) PROVE Written
  BY <1>2 DEF Arrive, LoadRide, ConfirmCollection, InitiateCardPayment, VerifyCard
<1>3. ASSUME NEW p \in Requests, RequestStep(p) PROVE Written
  BY <1>3 DEF RequestStep, CheckInFlight, InsertIntent, CallProvider, Recorded, CardRecorded, RecordReply, ApplyVerification,
              BookCash, Settle
<1>4. ASSUME NEW p \in Requests, RequestFails(p) PROVE Written
  BY <1>4 DEF RequestFails, Sound, TypeOK
<1>5. ASSUME NEW t \in Txns, CustomerDecides(t) PROVE Written
  BY <1>5 DEF CustomerDecides
<1>6. ASSUME NEW w \in Webhooks, NEW t \in Txns, NEW state \in {"prompted", "paid", "refused"},
             ReceiveWebhook(w, t, state)
      PROVE  Written
  BY <1>6 DEF ReceiveWebhook
<1>7. ASSUME NEW w \in Webhooks, ApplyWebhook(w) \/ WebhookFails(w) PROVE Written
  BY <1>7 DEF ApplyWebhook, Settle, WebhookFails, Sound, TypeOK
<1>8. ASSUME NEW j \in Jobs, NEW t \in Txns, Pick(j, t) PROVE Written
  BY <1>8 DEF Pick
<1>9. ASSUME NEW j \in Jobs, Query(j) \/ ReopenGuard(j) \/ ApplyResolved(j) PROVE Written
  BY <1>9 DEF Query, ReopenGuard, ApplyResolved
<1>10. ASSUME NEW j \in Jobs, GiveUp(j) \/ NotYet(j) \/ MarkPaid(j) \/ JobFails(j) PROVE Written
  BY <1>10 DEF GiveUp, NotYet, MarkPaid, JobFails, Sound, TypeOK
<1>11. CASE Crash
  BY <1>11 DEF Crash
<1>12. CASE UNCHANGED vars
  BY <1>12 DEF vars
<1> QED
  BY <1>1, <1>2, <1>3, <1>4, <1>5, <1>6, <1>7, <1>8, <1>9, <1>10, <1>11, <1>12 DEF Next, JobStep

\* What has happened stays so.
ChargesLast ==
    \A t \in Txns : /\ charge[t] \in {"paid", "refused"} => charge'[t] = charge[t]
                    /\ charge[t] # "none" => charge'[t] # "none"
                    /\ charge'[t] # charge[t] =>
                          \/ charge[t] = "prompted"
                          \/ \E p \in Requests :
                                /\ request[p].at = "calling" /\ request[p].txn = t
                                /\ request'[p].at = "replied" /\ request'[p].reply # "rejected"
Lasts ==
    /\ RowsGrow
    /\ ChargesLast
    /\ \A r \in Rides : collected[r] => collected'[r]
    /\ \A r \in Rides : paid[r] => paid'[r]
    /\ \A r \in Rides : trip[r] = "completed" => trip'[r] = "completed"

LEMMA Lasting == ASSUME Honest, RowsGrow, Written PROVE Lasts
<1>2. ChargesLast
  <2> USE DEF Honest, Sound, TypeOK, ChargesLast, Request
  <2>1. ASSUME NEW p \in Requests, CallProvider(p) PROVE ChargesLast
    <3>1. request[p].at = "calling" /\ charge[request[p].txn] = "none"
      BY <2>1, CalledMoves DEF RequestsHonest, RequestHonest
    <3>2. ASSUME NEW t \in Txns, charge'[t] # charge[t]
          PROVE  /\ charge[t] = "none"
                 /\ request[p].txn = t /\ request'[p].at = "replied" /\ request'[p].reply # "rejected"
      BY <2>1, <3>1, <3>2, CalledMoves
    <3> QED
      BY <3>1, <3>2
  <2>2. ASSUME NEW t \in Txns, CustomerDecides(t) PROVE ChargesLast
    BY <2>2 DEF CustomerDecides
  <2> QED
    BY <2>1, <2>2 DEF Written, ChargeWritten
<1>3. \A r \in Rides : collected[r] => collected'[r]
  BY DEF Written, CollectedWritten, ConfirmCollection, Honest, Sound, TypeOK
<1>4. \A r \in Rides : paid[r] => paid'[r]
  <2> USE DEF MarkedPaid, money, Honest, Sound, TypeOK
  <2>1. ASSUME NEW p \in Requests, ApplyVerification(p) \/ BookCash(p), NEW r \in Rides, paid[r] PROVE paid'[r]
    BY <2>1 DEF ApplyVerification, BookCash, Settle
  <2>2. ASSUME NEW w \in Webhooks, ApplyWebhook(w), NEW r \in Rides, paid[r] PROVE paid'[r]
    BY <2>2 DEF ApplyWebhook, Settle
  <2>3. ASSUME NEW j \in Jobs, MarkPaid(j), NEW r \in Rides, paid[r] PROVE paid'[r]
    BY <2>3 DEF MarkPaid
  <2> QED
    BY <2>1, <2>2, <2>3 DEF Written, PaidWritten
<1>5. \A r \in Rides : trip[r] = "completed" => trip'[r] = "completed"
  BY DEF Written, TripWritten, AssignDriver, CompleteTrip, Honest, Sound, TypeOK
<1> QED
  BY <1>2, <1>3, <1>4, <1>5 DEF Lasts

-----------------------------------------------------------------------------
(* The processes are honest *)

LEMMA CallbackHeard ==
    ASSUME NEW w, NEW t, NEW state \in {"prompted", "paid", "refused"}, ReceiveWebhook(w, t, state)
    PROVE  LET kind == Told(txn[t].aggregator, state) IN
           /\ kind # "none"
           /\ kind = "success" => charge[t] = "paid"
           /\ kind = "failed" => charge[t] = "refused"
<1>1. Sends(t, state)
  BY DEF ReceiveWebhook
<1>2. LET kind == Told(txn[t].aggregator, state) IN
      /\ kind \in {"success", "failed", "pending"}
      /\ kind = "success" => charge[t] = "paid"
      /\ kind = "failed" => charge[t] = "refused"
  BY <1>1, CallbackTrue
<1> QED
  BY <1>2

LEMMA WebhooksStayHonest == ASSUME Honest, Lasts, Written PROVE WebhooksHonest'
<1> USE DEF Honest, Sound, TypeOK, ProcessOK, Exists, Lasts, RowsGrow, ChargesLast, WebhooksHonest
<1>1. ASSUME NEW w \in Webhooks, NEW t \in Txns, NEW state \in {"prompted", "paid", "refused"},
             ReceiveWebhook(w, t, state)
      PROVE  WebhooksHonest'
  <2>1. /\ \A v \in Webhooks : v # w => webhook'[v] = webhook[v]
        /\ webhook'[w].txn = t /\ webhook'[w].kind = Told(txn[t].aggregator, state)
        /\ UNCHANGED <<txn, charge>> /\ txn[t].aggregator # "dpo"
    BY <1>1 DEF ReceiveWebhook, outside
  <2>2. charge[t] # "none"
    BY <1>1 DEF ReceiveWebhook, Sends
  <2>3. /\ Told(txn[t].aggregator, state) # "none"
        /\ Told(txn[t].aggregator, state) = "success" => charge[t] = "paid"
        /\ Told(txn[t].aggregator, state) = "failed" => charge[t] = "refused"
    BY <1>1, CallbackHeard
  <2> QED
    BY <2>1, <2>2, <2>3
<1>2. ASSUME \A w \in Webhooks : webhook'[w] \in {webhook[w], NoWebhook}
      PROVE  WebhooksHonest'
  BY <1>2 DEF NoWebhook
<1> QED
  BY <1>1, <1>2 DEF Written, WebhookWritten

LEMMA CallerStaysAlone == ASSUME Honest, Written PROVE OneCaller'
<1> USE DEF Honest, Sound, TypeOK, ProcessOK, Exists, OneCaller, Charging, Request, NoRequest
<1>1. ASSUME NEW p \in Requests, Arrive(p) PROVE OneCaller'
  <2>1. ASSUME NEW r \in Rides, NEW t \in Txns, InitiateCardPayment(p, r, t) PROVE OneCaller'
    BY <2>1 DEF InitiateCardPayment
  <2>2. ASSUME NEW r \in Rides, LoadRide(p, r) PROVE OneCaller'
    BY <2>2 DEF LoadRide
  <2>3. ASSUME NEW r \in Rides, ConfirmCollection(p, r) PROVE OneCaller'
    BY <2>3 DEF ConfirmCollection
  <2>4. ASSUME NEW t \in Txns, VerifyCard(p, t) PROVE OneCaller'
    BY <2>4 DEF VerifyCard
  <2> QED
    BY <1>1, <2>1, <2>2, <2>3, <2>4 DEF Arrive
<1>2. ASSUME NEW p \in Requests, RequestStep(p) PROVE OneCaller'
  <2>1. ASSUME CheckInFlight(p) PROVE OneCaller'
    BY <2>1 DEF CheckInFlight
  <2>2. ASSUME NEW t \in Txns, InsertIntent(p, t) PROVE OneCaller'
    BY <2>2 DEF InsertIntent
  <2>3. ASSUME CallProvider(p) PROVE OneCaller'
    BY <2>3, CalledMoves
  <2>4. ASSUME RecordReply(p) \/ ApplyVerification(p) \/ BookCash(p) PROVE OneCaller'
    BY <2>4 DEF RecordReply, ApplyVerification, BookCash
  <2> QED
    BY <1>2, <2>1, <2>2, <2>3, <2>4 DEF RequestStep
<1>3. ASSUME \A p \in Requests : request'[p] \in {request[p], NoRequest}
      PROVE  OneCaller'
  BY <1>3
<1> QED
  BY <1>1, <1>2, <1>3 DEF Written, RequestWritten

\* While p is calling, the row stays as it was inserted.
LEMMA CalledRowStays ==
    ASSUME Honest, Written, NEW p \in Requests, request[p].at = "calling"
    PROVE  txn'[request[p].txn] = txn[request[p].txn]
<1> DEFINE t == request[p].txn
<1> USE DEF Honest, Sound, TypeOK, ProcessOK, Exists, RequestsHonest, RequestHonest
<1>1. ASSUME NEW q \in Requests,
             \/ \E r \in Rides, u \in Txns : InitiateCardPayment(q, r, u)
             \/ \E u \in Txns : InsertIntent(q, u)
      PROVE  txn'[t] = txn[t]
  <2>1. ASSUME NEW r \in Rides, NEW u \in Txns, InitiateCardPayment(q, r, u) PROVE txn'[t] = txn[t]
    BY <2>1 DEF InitiateCardPayment
  <2>2. ASSUME NEW u \in Txns, InsertIntent(q, u) PROVE txn'[t] = txn[t]
    BY <2>2 DEF InsertIntent
  <2> QED
    BY <1>1, <2>1, <2>2
<1>2. ASSUME NEW q \in Requests, RecordReply(q) \/ RequestFails(q) PROVE txn'[t] = txn[t]
  BY <1>2 DEF Recorded, CardRecorded, RecordReply, RequestFails, OneCaller, Charging
<1>3. ASSUME NEW q \in Requests, ApplyVerification(q) PROVE txn'[t] = txn[t]
  BY <1>3 DEF ApplyVerification, Settle
<1>4. ASSUME NEW w \in Webhooks, ApplyWebhook(w) PROVE txn'[t] = txn[t]
  BY <1>4 DEF ApplyWebhook, Settle, WebhooksHonest
<1>5. ASSUME NEW j \in Jobs, GiveUp(j) \/ ApplyResolved(j) PROVE txn'[t] = txn[t]
  BY <1>5 DEF GiveUp, ApplyResolved, JobsHonest, HonestAnswer
<1> QED
  BY <1>1, <1>2, <1>3, <1>4, <1>5 DEF Written, TxnWritten

\* Where a request comes from.
RequestCame(p) ==
    \/ request'[p] \in {request[p], NoRequest}
    \/ request'[p].at \in {"loaded", "clear"}
    \/ /\ request'[p].at = "calling"
       /\ txn[request'[p].txn].status = "none"
       /\ txn'[request'[p].txn].status = "pending"
       /\ charge' = charge
    \/ /\ request'[p].at = "replied" /\ request[p].at = "calling"
       /\ request'[p].txn = request[p].txn
       /\ request'[p].reply = "rejected" => charge' = charge
    \/ request'[p].at = "verifying" /\ txn[request'[p].txn].aggregator = "dpo" /\ charge[request'[p].txn] # "none"
    \/ request'[p].at = "confirming" /\ collected'[request'[p].ride]

LEMMA RequestsCome == ASSUME Sound, Written PROVE \A p \in Requests : RequestCame(p)
<1> USE DEF Sound, TypeOK, Request, RequestCame, outside
<1>0. ASSUME NEW p \in Requests, NEW r \in Rides, LoadRide(p, r) PROVE \A q \in Requests : RequestCame(q)
  BY <1>0 DEF LoadRide, NoRequest
<1>1. ASSUME NEW p \in Requests, NEW r \in Rides, ConfirmCollection(p, r)
      PROVE  \A q \in Requests : RequestCame(q)
  BY <1>1 DEF ConfirmCollection, NoRequest
<1>2. ASSUME NEW p \in Requests, NEW r \in Rides, NEW t \in Txns, InitiateCardPayment(p, r, t)
      PROVE  \A q \in Requests : RequestCame(q)
  BY <1>2 DEF InitiateCardPayment, NoRequest
<1>3. ASSUME NEW p \in Requests, NEW t \in Txns, VerifyCard(p, t)
      PROVE  \A q \in Requests : RequestCame(q)
  BY <1>3 DEF VerifyCard, NoRequest
<1>4. ASSUME NEW p \in Requests, CheckInFlight(p) PROVE \A q \in Requests : RequestCame(q)
  BY <1>4 DEF CheckInFlight
<1>5. ASSUME NEW p \in Requests, NEW t \in Txns, InsertIntent(p, t) PROVE \A q \in Requests : RequestCame(q)
  BY <1>5 DEF InsertIntent
<1>6. ASSUME NEW p \in Requests, CallProvider(p) PROVE \A q \in Requests : RequestCame(q)
  <2>1. RequestCame(p)
    BY <1>6, CalledMoves
  <2> QED
    BY <1>6, <2>1, CalledMoves
<1>7. ASSUME NEW p \in Requests, RecordReply(p) \/ ApplyVerification(p) \/ BookCash(p)
      PROVE  \A q \in Requests : RequestCame(q)
  BY <1>7 DEF Recorded, CardRecorded, RecordReply, ApplyVerification, BookCash
<1> QED
  BY <1>0, <1>1, <1>2, <1>3, <1>4, <1>5, <1>6, <1>7 DEF Written, RequestWritten, Arrive, RequestStep

\* Nobody else touches the charge of a row while it is being charged, nor after it was
\* refused.
LEMMA ChargeOfCalled ==
    ASSUME Honest, Lasts, NEW p \in Requests, Charging(p), Charging(p)', request'[p].txn = request[p].txn,
           charge'[request[p].txn] # charge[request[p].txn], charge[request[p].txn] = "none"
    PROVE  request[p].at = "calling" /\ request'[p].at = "replied" /\ request'[p].reply # "rejected"
  BY DEF Honest, Sound, TypeOK, ProcessOK, Exists, Lasts, ChargesLast, OneCaller, Charging

LEMMA ChargeOfCalling ==
    ASSUME Honest, Lasts, NEW p \in Requests, request[p].at = "calling", request'[p] = request[p]
    PROVE  charge'[request[p].txn] = charge[request[p].txn]
<1>1. charge[request[p].txn] = "none"
  BY DEF Honest, RequestsHonest, RequestHonest
<1>2. Charging(p) /\ Charging(p)'
  BY DEF Charging
<1> QED
  BY <1>1, <1>2, ChargeOfCalled

LEMMA RequestsStayHonest == ASSUME Honest, Sound', Lasts, Written PROVE RequestsHonest'
<1> SUFFICES ASSUME NEW p \in Requests PROVE RequestHonest(p)'
  BY DEF RequestsHonest
<1>0. RequestCame(p)
  BY RequestsCome DEF Honest
<1> USE DEF Honest, Sound, TypeOK, ProcessOK, Exists, Lasts, RowsGrow, ChargesLast, RequestsHonest,
            RequestHonest, RequestCame, NoRequest, Request, ChargeOK
<1>1. request'[p].at = "calling" => txn'[request'[p].txn].status = "pending" /\ charge'[request'[p].txn] = "none"
  <2>1. CASE request'[p] = request[p]
    <3>1. request[p].at = "calling" => txn'[request[p].txn] = txn[request[p].txn]
      BY CalledRowStays
    <3>2. request[p].at = "calling" => charge'[request[p].txn] = charge[request[p].txn]
      BY <2>1, ChargeOfCalling
    <3> QED
      BY <2>1, <3>1, <3>2
  <2> QED
    BY <1>0, <2>1
<1>2. request'[p].at = "replied" /\ request'[p].reply = "rejected" => charge'[request'[p].txn] = "none"
  <2>1. CASE request'[p] = request[p]
    BY <2>1, ChargeOfCalled DEF Charging
  <2> QED
    BY <1>0, <2>1
<1>3. request'[p].at = "verifying" => txn'[request'[p].txn].aggregator = "dpo" /\ charge'[request'[p].txn] # "none"
  BY <1>0
<1>4. request'[p].at = "confirming" => collected'[request'[p].ride]
  BY <1>0
<1> QED
  BY <1>1, <1>2, <1>3, <1>4

\* An answer about a row that exists stays true...
LEMMA AnswersLast ==
    ASSUME Honest, Sound', Lasts, Written, NEW me \in Job, Exists(me.txn), HonestAnswer(me)
    PROVE  HonestAnswer(me)'
<1>0. me.txn \in Txns /\ \A p \in Requests : request[p].at = "calling" => request[p].txn # me.txn
  BY DEF Exists, HonestAnswer
<1>2. charge'[me.txn] = charge[me.txn] \/ charge[me.txn] = "prompted"
  BY <1>0 DEF Lasts, ChargesLast
<1> USE DEF Honest, Sound, TypeOK, ProcessOK, Exists, HonestAnswer
<1>1. \A p \in Requests : request'[p].at = "calling" => request'[p].txn # me.txn
  BY RequestsCome DEF RequestCame, NoRequest
<1>3. txn'[me.txn].aggregator = txn[me.txn].aggregator
  BY DEF Lasts, RowsGrow
<1> QED
  BY <1>1, <1>2, <1>3

\* ... so it is enough that each sweep has one that was true before its step.
LEMMA JobsStayHonest == ASSUME Honest, Sound', Lasts, Written PROVE JobsHonest'
<1>1. \A me \in Job : Exists(me.txn) /\ HonestAnswer(me) => HonestAnswer(me)'
  BY AnswersLast
<1> DEFINE Truthful(i) == job'[i].at # "idle" => Exists(job'[i].txn) /\ HonestAnswer(job'[i])
<1>2. SUFFICES \A i \in Jobs : Truthful(i)
  <2>1. \A i \in Jobs : job'[i] \in Job
    BY DEF Sound, TypeOK
  <2> QED
    BY <1>1, <2>1 DEF JobsHonest, HonestAnswer
<1>3. \A i \in Jobs : (Exists(job[i].txn) /\ HonestAnswer(job[i])) \/ job[i].at = "idle"
  BY DEF Honest, Sound, ProcessOK, JobsHonest
<1>4. CASE \A i \in Jobs : job'[i] \in {job[i], NoJob}
  BY <1>3, <1>4 DEF NoJob
<1>5. ASSUME NEW j \in Jobs, \A i \in Jobs : i # j => job'[i] = job[i], Truthful(j)
      PROVE  \A i \in Jobs : Truthful(i)
  BY <1>3, <1>5
<1>6. ASSUME NEW j \in Jobs, NEW t \in Txns, Pick(j, t) PROVE \A i \in Jobs : Truthful(i)
  <2>1. /\ job'[j] = [NoJob EXCEPT !.at = "picked", !.txn = t]
        /\ \A i \in Jobs : i # j => job'[i] = job[i]
    BY <1>6 DEF Pick, Honest, Sound, TypeOK
  <2>2. job'[j].txn = t /\ job'[j].kind = "none" /\ job'[j].at = "picked"
    BY <2>1 DEF NoJob
  <2>3. Truthful(j)
    BY <1>6, <2>2 DEF Pick, Calling, Exists, HonestAnswer
  <2> QED
    BY <1>5, <2>1, <2>3
<1>7. ASSUME NEW j \in Jobs, Query(j) PROVE \A i \in Jobs : Truthful(i)
  <2> DEFINE kind == Answered(job[j].txn)
             at == IF kind = "pending" THEN "pending" ELSE "resolved"
  <2>1. /\ job[j] \in Job /\ job[j].at # "idle"
        /\ job'[j] = [job[j] EXCEPT !.at = at, !.kind = kind]
        /\ \A i \in Jobs : i # j => job'[i] = job[i]
    BY <1>7 DEF Query, Honest, Sound, TypeOK
  <2>2. /\ kind = "success" => charge[job[j].txn] = "paid"
        /\ kind = "failed" => txn[job[j].txn].aggregator = "dpo" \/ charge[job[j].txn] \in {"none", "refused"}
        /\ at # "paying"
    BY <1>3, <2>1, AnswersTrue DEF Honest
  <2> HIDE DEF kind, at
  <2>3. job'[j].txn = job[j].txn /\ job'[j].kind = kind /\ job'[j].at = at
    BY <2>1 DEF Job
  <2>4. Truthful(j)
    BY <1>3, <2>1, <2>2, <2>3 DEF HonestAnswer
  <2> QED
    BY <1>5, <2>1, <2>4
<1>8. ASSUME NEW j \in Jobs, ReopenGuard(j) PROVE \A i \in Jobs : Truthful(i)
  <2>1. /\ job[j] \in Job /\ job[j].at # "idle"
        /\ job'[j] = [job[j] EXCEPT !.at = "updating"]
        /\ \A i \in Jobs : i # j => job'[i] = job[i]
    BY <1>8 DEF ReopenGuard, Honest, Sound, TypeOK
  <2>2. Truthful(j)
    BY <1>3, <2>1 DEF HonestAnswer, Job
  <2> QED
    BY <1>5, <2>1, <2>2
<1>9. ASSUME NEW j \in Jobs, ApplyResolved(j) PROVE \A i \in Jobs : Truthful(i)
  <2>1. /\ job[j] \in Job /\ job[j].at # "idle"
        /\ \A i \in Jobs : i # j => job'[i] = job[i]
        /\ job'[j] = NoJob \/ (job[j].kind = "success" /\ job'[j] = [job[j] EXCEPT !.at = "paying"])
    BY <1>9 DEF ApplyResolved, Succeeded, Honest, Sound, TypeOK
  <2>2. Truthful(j)
    BY <1>3, <2>1 DEF HonestAnswer, Job, NoJob
  <2> QED
    BY <1>5, <2>1, <2>2
<1> QED
  BY <1>4, <1>6, <1>7, <1>8, <1>9 DEF Written, JobWritten

-----------------------------------------------------------------------------
(* So the money is right *)

\* A charge that went through settles its row.
LEMMA SettlesRight ==
    ASSUME Honest, Lasts, NEW t, Exists(t), charge[t] = "paid", EarningsWritable(txn[t].ride), Settle(t),
           charge' = charge
    PROVE  PaidForReal' /\ CreditNeedsPaidTrip' /\ FailedMeansUncharged'
<1> USE DEF Honest, Sound, TypeOK, ProcessOK, Exists, Lasts, RowsGrow, Settle, MarkedPaid, Row, ChargeOK
<1>1. PaidForReal'
  BY DEF PaidForReal
<1>2. CreditNeedsPaidTrip'
  BY DEF CreditNeedsPaidTrip, EarningsWritable
<1>3. FailedMeansUncharged'
  BY DEF FailedMeansUncharged
<1> QED
  BY <1>1, <1>2, <1>3

\* So does any other news of a row, as long as only what was not charged is called failed.
LEMMA StatusRight ==
    ASSUME Honest, Lasts, NEW t \in Txns, NEW s \in TxnStatus, txn' = [txn EXCEPT ![t].status = s],
           UNCHANGED <<money, charge, collected>>,
           s = "failed" => txn[t].aggregator = "dpo" \/ charge[t] \in {"none", "refused"}
    PROVE  PaidForReal' /\ CreditNeedsPaidTrip' /\ FailedMeansUncharged'
<1>1. \A u \in Txns : /\ txn'[u].ride = txn[u].ride /\ txn'[u].aggregator = txn[u].aggregator
                      /\ txn'[u].status = IF u = t THEN s ELSE txn[u].status
  BY DEF Honest, Sound, TypeOK, Row
<1>2. UNCHANGED <<paid, credits, trip, charge, collected>>
  BY DEF money
<1>3. PaidForReal /\ CreditNeedsPaidTrip /\ FailedMeansUncharged
  BY DEF Honest
<1>4. PaidForReal'
  BY <1>1, <1>2, <1>3 DEF PaidForReal
<1>5. CreditNeedsPaidTrip'
  BY <1>1, <1>2, <1>3 DEF CreditNeedsPaidTrip
<1>6. FailedMeansUncharged'
  BY <1>1, <1>2, <1>3 DEF FailedMeansUncharged
<1> QED
  BY <1>4, <1>5, <1>6

LEMMA VerificationRight ==
    ASSUME Honest, Lasts, NEW p \in Requests, ApplyVerification(p)
    PROVE  PaidForReal' /\ CreditNeedsPaidTrip' /\ FailedMeansUncharged'
<1> DEFINE t == request[p].txn
<1>1. Exists(t) /\ charge' = charge /\ collected' = collected /\ txn[t].aggregator = "dpo"
  BY DEF ApplyVerification, outside, Honest, Sound, ProcessOK, RequestsHonest, RequestHonest
<1>0. charge[t] # "none"
  BY DEF ApplyVerification, Honest, RequestsHonest, RequestHonest
<1>2. CASE charge[t] = "paid" /\ EarningsWritable(txn[t].ride) /\ Settle(t)
  BY <1>1, <1>2, SettlesRight
<1>3. CASE txn' = [txn EXCEPT ![t].status = "failed"] /\ UNCHANGED money
  BY <1>1, <1>3, StatusRight DEF Exists, TxnStatus
<1>4. CASE UNCHANGED <<money, txn>>
  BY <1>1, <1>4 DEF Honest, money, PaidForReal, CreditNeedsPaidTrip, FailedMeansUncharged
<1> QED
  BY <1>0, <1>2, <1>3, <1>4, Verified

LEMMA WebhookRight ==
    ASSUME Honest, Lasts, NEW w \in Webhooks, ApplyWebhook(w)
    PROVE  PaidForReal' /\ CreditNeedsPaidTrip' /\ FailedMeansUncharged'
<1> DEFINE t == webhook[w].txn
<1>1. /\ Exists(t) /\ charge' = charge /\ collected' = collected
      /\ webhook[w].kind = "success" => charge[t] = "paid"
      /\ webhook[w].kind = "failed" => charge[t] = "refused"
      /\ webhook[w].kind \in {"success", "failed", "pending"}
  BY DEF ApplyWebhook, outside, Honest, Sound, TypeOK, ProcessOK, WebhooksHonest, Webhook
<1>2. CASE charge[t] = "paid" /\ EarningsWritable(txn[t].ride) /\ Settle(t)
  BY <1>1, <1>2, SettlesRight
<1>3. CASE /\ UNCHANGED money
           /\ \E s \in {"processing", "failed"} :
                 /\ txn' = [txn EXCEPT ![t].status = s]
                 /\ s = "failed" => webhook[w].kind \notin {"success", "pending"}
  <2>1. PICK s \in {"processing", "failed"} :
           /\ txn' = [txn EXCEPT ![t].status = s]
           /\ s = "failed" => webhook[w].kind \notin {"success", "pending"}
    BY <1>3
  <2>2. t \in Txns /\ (s = "failed" => charge[t] = "refused") /\ s \in TxnStatus
    BY <1>1, <2>1 DEF Exists, TxnStatus
  <2> QED
    BY <1>1, <1>3, <2>1, <2>2, StatusRight
<1>4. CASE UNCHANGED <<money, txn>>
  BY <1>1, <1>4 DEF Honest, money, PaidForReal, CreditNeedsPaidTrip, FailedMeansUncharged
<1> QED
  BY <1>1, <1>2, <1>3, <1>4 DEF ApplyWebhook, Succeeded

LEMMA PaidStaysReal == ASSUME Honest, Lasts, Written PROVE PaidForReal'
<1> USE DEF Honest, Sound, TypeOK, ProcessOK, Exists, ChargeOK, Lasts, RowsGrow, ChargesLast, PaidForReal, MarkedPaid
<1>1. CASE paid' = paid
  BY <1>1
<1>2. ASSUME NEW p \in Requests, BookCash(p) PROVE PaidForReal'
  <2> DEFINE r == request[p].ride
  <2>1. /\ r \in Rides /\ collected[r] /\ paid' = [paid EXCEPT ![r] = TRUE]
        /\ UNCHANGED <<txn, charge, collected>>
    BY <1>2 DEF BookCash, RequestsHonest, RequestHonest, outside
  <2> HIDE DEF r
  <2> QED
    BY <2>1
<1>3. ASSUME NEW j \in Jobs, MarkPaid(j) PROVE PaidForReal'
  BY <1>3, SMTT(30) DEF MarkPaid, JobsHonest, HonestAnswer
<1> QED
  BY <1>1, <1>2, <1>3, VerificationRight, WebhookRight DEF Written, PaidWritten

LEMMA CreditStaysRight == ASSUME Honest, Lasts, Written PROVE CreditNeedsPaidTrip'
<1>1. CASE credits' = credits
  BY <1>1 DEF Honest, Sound, TypeOK, ProcessOK, Exists, ChargeOK, Lasts, RowsGrow, ChargesLast,
              CreditNeedsPaidTrip
<1> QED
  BY <1>1, VerificationRight, WebhookRight DEF Written, CreditsWritten

LEMMA FailedStaysUncharged == ASSUME Honest, Sound', Lasts, Written PROVE FailedMeansUncharged'
<1>8. ASSUME NEW t \in Txns, NEW s \in TxnStatus \ {"failed"}, txn' = [txn EXCEPT ![t].status = s],
             UNCHANGED <<money, charge, collected>>
      PROVE  FailedMeansUncharged'
  BY <1>8, StatusRight
<1>5. ASSUME NEW p \in Requests, RequestFails(p), txn' # txn PROVE FailedMeansUncharged'
  <2>1. request[p].txn \in Txns
    BY <1>5 DEF RequestFails, Honest, Sound, ProcessOK, Exists
  <2> QED
    BY <1>5, <1>8, <2>1 DEF RequestFails, outside, TxnStatus
<1>6. ASSUME NEW j \in Jobs, GiveUp(j) PROVE FailedMeansUncharged'
  <2>1. job[j].txn \in Txns
    BY <1>6 DEF GiveUp, Honest, Sound, ProcessOK, Exists
  <2>2. txn' = [txn EXCEPT ![job[j].txn].status = "timeout"] /\ UNCHANGED <<money, charge, collected>>
    BY <1>6 DEF GiveUp, GivenUp, outside
  <2>3. "timeout" \in TxnStatus \ {"failed"}
    BY DEF TxnStatus
  <2> HIDE DEF money
  <2> QED
    BY <1>8, <2>1, <2>2, <2>3
<1> USE DEF Honest, Sound, TypeOK, ProcessOK, Exists, ChargeOK, Lasts, RowsGrow, ChargesLast, Row
<1>1. CASE txn' = txn
  BY <1>1, SMTT(30) DEF FailedMeansUncharged, RequestsHonest, RequestHonest
<1>2. ASSUME NEW p \in Requests, NEW r \in Rides, NEW t \in Txns, InitiateCardPayment(p, r, t)
      PROVE  FailedMeansUncharged'
  BY <1>2 DEF FailedMeansUncharged, InitiateCardPayment, outside
<1>3. ASSUME NEW p \in Requests, NEW t \in Txns, InsertIntent(p, t) PROVE FailedMeansUncharged'
  BY <1>3 DEF FailedMeansUncharged, InsertIntent, outside
<1>4. ASSUME NEW p \in Requests, RecordReply(p) PROVE FailedMeansUncharged'
  <2> DEFINE u == request[p].txn
  <2>1. /\ charge' = charge /\ request[p].at = "replied" /\ u \in Txns
        /\ txn' = txn \/ txn' = [txn EXCEPT ![u].status = AfterReply(request[p].reply)]
    BY <1>4 DEF Recorded, CardRecorded, RecordReply, outside
  <2>2. AfterReply(request[p].reply) = "failed" => charge[u] = "none"
    BY <2>1 DEF AfterReply, RequestsHonest, RequestHonest
  <2>3. CASE txn' = txn
    BY <1>1, <2>3
  <2>4. CASE txn' = [txn EXCEPT ![u].status = AfterReply(request[p].reply)]
    <3> HIDE DEF u
    <3> QED
      BY <2>1, <2>2, <2>4 DEF FailedMeansUncharged
  <2> QED
    BY <2>1, <2>3, <2>4
<1>7. ASSUME NEW j \in Jobs, ApplyResolved(j) PROVE FailedMeansUncharged'
  BY <1>7, SMTT(30) DEF FailedMeansUncharged, ApplyResolved, Terminal, outside, JobsHonest, HonestAnswer
<1> QED
  BY <1>1, <1>2, <1>3, <1>4, <1>5, <1>6, <1>7, VerificationRight, WebhookRight DEF Written, TxnWritten

-----------------------------------------------------------------------------

LEMMA InitHonest == Init => Honest
<1> SUFFICES ASSUME Init PROVE Honest
  OBVIOUS
<1>1. Sound
  BY InitSound
<1>2. RequestsHonest /\ OneCaller /\ WebhooksHonest /\ JobsHonest
  BY DEF Init, NoRequest, NoWebhook, NoJob, RequestsHonest, RequestHonest, OneCaller, Charging,
         WebhooksHonest, JobsHonest
<1>3. PaidForReal /\ CreditNeedsPaidTrip /\ FailedMeansUncharged
  BY DEF Init, PaidForReal, CreditNeedsPaidTrip, FailedMeansUncharged
<1> QED
  BY <1>1, <1>2, <1>3 DEF Honest

LEMMA StepHonest == Honest /\ [Next]_vars => Honest'
<1> SUFFICES ASSUME Honest, [Next]_vars PROVE Honest'
  OBVIOUS
<1>1. RowsGrow /\ Sound' /\ Written
  BY StepSound, Writers DEF Honest
<1>2. Lasts
  BY <1>1, Lasting
<1>3. RequestsHonest' /\ OneCaller' /\ WebhooksHonest' /\ JobsHonest'
  BY <1>1, <1>2, RequestsStayHonest, CallerStaysAlone, WebhooksStayHonest, JobsStayHonest
<1>4. PaidForReal' /\ CreditNeedsPaidTrip' /\ FailedMeansUncharged'
  BY <1>1, <1>2, PaidStaysReal, CreditStaysRight, FailedStaysUncharged
<1> QED
  BY <1>1, <1>3, <1>4 DEF Honest

LEMMA AlwaysHonest == Spec => []Honest
  BY InitHonest, StepHonest, PTL DEF Spec

\* A ride is marked paid only for a charge that went through or for cash its driver says
\* he holds, however the webhook, the sweep, the verification and the confirmation interleave.
THEOREM PaidIsForReal == Spec => []PaidForReal
<1>1. Honest => PaidForReal
  BY DEF Honest
<1> QED
  BY AlwaysHonest, <1>1, PTL

\* A driver's wallet is credited only for a completed trip whose charge went through and
\* which is marked paid.
THEOREM CreditIsEarned == Spec => []CreditNeedsPaidTrip
<1>1. Honest => CreditNeedsPaidTrip
  BY DEF Honest
<1> QED
  BY AlwaysHonest, <1>1, PTL

\* A mobile payment that says failed was not charged, and is not charged later.
THEOREM FailedIsUncharged == Spec => []FailedMeansUncharged
<1>1. Honest => FailedMeansUncharged
  BY DEF Honest
<1> QED
  BY AlwaysHonest, <1>1, PTL

-----------------------------------------------------------------------------
(* A success that is not paid is being paid, unless something fails *)

\* A sweep between its two UPDATEs stays there until it makes the second, or a fault.
SweepGoesOn ==
    faults' = 0 => /\ faults = 0
                   /\ \A j \in Jobs : job[j].at = "paying" => job'[j] = job[j] \/ MarkPaid(j)

LEMMA SweepsGoOn == ASSUME Sound, [Next]_vars PROVE SweepGoesOn
<1> USE DEF Sound, TypeOK, processes, counters, SweepGoesOn
<1>1. ASSUME NEW r \in Rides, AssignDriver(r) \/ CompleteTrip(r) PROVE SweepGoesOn
  BY <1>1 DEF AssignDriver, CompleteTrip
<1>2. ASSUME NEW p \in Requests, Arrive(p) PROVE SweepGoesOn
  BY <1>2 DEF Arrive, LoadRide, ConfirmCollection, InitiateCardPayment, VerifyCard
<1>3. ASSUME NEW p \in Requests, RequestStep(p) PROVE SweepGoesOn
  BY <1>3 DEF RequestStep, CheckInFlight, InsertIntent, CallProvider, Recorded, CardRecorded, RecordReply, ApplyVerification,
              BookCash
<1>4. ASSUME NEW p \in Requests, RequestFails(p) PROVE SweepGoesOn
  BY <1>4 DEF RequestFails
<1>5. ASSUME NEW t \in Txns, CustomerDecides(t) PROVE SweepGoesOn
  BY <1>5 DEF CustomerDecides
<1>6. ASSUME NEW w \in Webhooks, NEW t \in Txns, NEW state \in {"prompted", "paid", "refused"},
             ReceiveWebhook(w, t, state)
      PROVE  SweepGoesOn
  BY <1>6 DEF ReceiveWebhook
<1>7. ASSUME NEW w \in Webhooks, ApplyWebhook(w) PROVE SweepGoesOn
  BY <1>7 DEF ApplyWebhook
<1>8. ASSUME NEW w \in Webhooks, WebhookFails(w) PROVE SweepGoesOn
  BY <1>8 DEF WebhookFails
<1>9. ASSUME NEW j \in Jobs, NEW t \in Txns, Pick(j, t) PROVE SweepGoesOn
  BY <1>9 DEF Pick
<1>10. ASSUME NEW j \in Jobs, JobStep(j) PROVE SweepGoesOn
  BY <1>10 DEF JobStep, Query, GiveUp, NotYet, ReopenGuard, ApplyResolved, MarkPaid
<1>11. ASSUME NEW j \in Jobs, JobFails(j) PROVE SweepGoesOn
  BY <1>11 DEF JobFails
<1>12. CASE Crash
  BY <1>12 DEF Crash
<1>13. CASE UNCHANGED vars
  BY <1>13 DEF vars
<1> QED
  BY <1>1, <1>2, <1>3, <1>4, <1>5, <1>6, <1>7, <1>8, <1>9, <1>10, <1>11, <1>12, <1>13 DEF Next

LEMMA SuccessIsNew ==
    ASSUME Honest, Written, NEW t \in Txns, txn'[t].status = "success", txn[t].status # "success"
    PROVE  paid'[txn'[t].ride] \/ \E j \in Jobs : job'[j].at = "paying" /\ job'[j].txn = t
<1> USE DEF Honest, Sound, TypeOK, ProcessOK, Exists, Row, money
<1>0. ASSUME NEW u, Exists(u), Settle(u) PROVE paid'[txn'[t].ride]
  BY <1>0 DEF Settle, MarkedPaid
<1>1. ASSUME NEW p \in Requests, NEW u \in Txns,
             InsertIntent(p, u) \/ \E r \in Rides : InitiateCardPayment(p, r, u)
      PROVE  FALSE
  <2>1. CASE InsertIntent(p, u)
    BY <2>1 DEF InsertIntent
  <2>2. ASSUME NEW r \in Rides, InitiateCardPayment(p, r, u) PROVE FALSE
    BY <2>2 DEF InitiateCardPayment
  <2> QED
    BY <1>1, <2>1, <2>2
<1>2. ASSUME NEW p \in Requests, RecordReply(p) \/ RequestFails(p) PROVE FALSE
  BY <1>2 DEF Recorded, CardRecorded, RecordReply, RequestFails, AfterReply
<1>3. ASSUME NEW p \in Requests, ApplyVerification(p) PROVE paid'[txn'[t].ride]
  BY <1>0, <1>3 DEF ApplyVerification
<1>4. ASSUME NEW w \in Webhooks, ApplyWebhook(w) PROVE paid'[txn'[t].ride]
  BY <1>0, <1>4 DEF ApplyWebhook
<1>5. ASSUME NEW j \in Jobs, GiveUp(j) PROVE FALSE
  BY <1>5 DEF GiveUp, GivenUp
<1>6. ASSUME NEW j \in Jobs, ApplyResolved(j) PROVE job'[j].at = "paying" /\ job'[j].txn = t
  <2>1. job[j] \in Job /\ job[j].txn \in Txns /\ job[j].txn \notin seen
    BY <1>6 DEF ApplyResolved
  <2>2. txn' = [txn EXCEPT ![job[j].txn].status = IF Terminal(@) THEN @ ELSE job[j].kind]
    BY <1>6, <2>1 DEF ApplyResolved
  <2>3. t = job[j].txn /\ job[j].kind = "success"
    BY <2>1, <2>2 DEF Terminal
  <2>4. job' = [job EXCEPT ![j] = [@ EXCEPT !.at = "paying"]]
    BY <1>6, <2>1, <2>3 DEF ApplyResolved, Succeeded
  <2> QED
    BY <2>1, <2>3, <2>4 DEF Job
<1> QED
  BY <1>1, <1>2, <1>3, <1>4, <1>5, <1>6 DEF Written, TxnWritten

LEMMA SuccessStaysPaid ==
    ASSUME Honest, Lasts, Written, SweepGoesOn, SuccessMeansPaid
    PROVE  SuccessMeansPaid'
<1> SUFFICES ASSUME faults' = 0, NEW t \in Txns, txn'[t].status = "success", txn[t].status = "success"
             PROVE  paid'[txn'[t].ride] \/ \E j \in Jobs : job'[j].at = "paying" /\ job'[j].txn = t
  BY SuccessIsNew DEF SuccessMeansPaid
<1>1. txn[t].ride \in Rides /\ txn'[t].ride = txn[t].ride
  BY DEF Honest, Sound, ProcessOK, Lasts, RowsGrow
<1>2. CASE paid[txn[t].ride]
  BY <1>1, <1>2 DEF Lasts
<1>3. ASSUME NEW i \in Jobs, job[i].at = "paying", job[i].txn = t
      PROVE  paid'[txn'[t].ride] \/ (job'[i].at = "paying" /\ job'[i].txn = t)
  <2>1. CASE job'[i] = job[i]
    BY <1>3, <2>1
  <2>2. CASE MarkPaid(i)
    <3>1. paid \in [Rides -> BOOLEAN]
      BY DEF Honest, Sound, TypeOK
    <3>2. paid' = [paid EXCEPT ![txn[t].ride] = TRUE]
      BY <1>3, <2>2 DEF MarkPaid, MarkedPaid
    <3> QED
      BY <1>1, <3>1, <3>2
  <2> QED
    BY <1>3, <2>1, <2>2 DEF SweepGoesOn
<1> QED
  BY <1>2, <1>3 DEF SuccessMeansPaid, SweepGoesOn

\* While nothing fails, a row that says success belongs to a paid ride, but for a sweep
\* between its two UPDATEs, which then makes the second.
THEOREM SuccessIsPaid == Spec => []SuccessMeansPaid
<1>1. Init => SuccessMeansPaid
  BY DEF Init, SuccessMeansPaid
<1>2. Honest /\ SuccessMeansPaid /\ [Next]_vars => SuccessMeansPaid'
  BY StepSound, Writers, Lasting, SweepsGoOn, SuccessStaysPaid DEF Honest
<1> QED
  BY AlwaysHonest, <1>1, <1>2, PTL DEF Spec

-----------------------------------------------------------------------------
(* A mobile payment is credited once *)

Alone == ~EarlyPayment /\ \A i, j \in Jobs : i = j

On(w, t) == webhook[w].at # "idle" /\ webhook[w].txn = t

\* The customer decides after the reply was recorded.
Undecided ==
    \A p \in Requests :
        LET t == request[p].txn IN
        Charging(p) /\ txn[t].aggregator # "dpo" => charge[t] \in {"none", "prompted"}

\* A sweep reopens the guard only of a row whose charge is decided.
ResolvedDecided ==
    \A j \in Jobs :
        LET t == job[j].txn IN
        job[j].at \in {"resolved", "updating", "paying"} /\ txn[t].aggregator # "dpo" => charge[t] # "prompted"

\* So, until then and until a sweep that found it undecided has written that down, one
\* callback gets past the guard, and it credits.
Undelivered(t) == charge[t] = "prompted" \/ \E j \in Jobs : job[j].at = "pending" /\ job[j].txn = t

OneDelivery(t) ==
    /\ t \notin seen => credits[t] = 0 /\ \A w \in Webhooks : ~On(w, t)
    /\ \A v, w \in Webhooks : On(v, t) /\ On(w, t) => v = w
    /\ \A w \in Webhooks : On(w, t) => credits[t] = 0

GuardedOnce == \A t \in Txns : txn[t].aggregator # "dpo" /\ Undelivered(t) => OneDelivery(t)

\* A credited row stays a success, or was given up by such a sweep, and then nothing
\* moves it any more.
Credited(t) ==
    /\ credits[t] = 1
    /\ \/ txn[t].status = "success"
       \/ /\ txn[t].status = "timeout" /\ t \in seen
          /\ \A w \in Webhooks : ~On(w, t)
          /\ \A j \in Jobs : job[j].at # "idle" => job[j].txn # t

CreditedStays == \A t \in Txns : txn[t].aggregator # "dpo" /\ credits[t] > 0 => Credited(t)

Once == Undecided /\ ResolvedDecided /\ GuardedOnce /\ CreditedStays

LEMMA StaysUndecided == ASSUME Alone, Honest, Sound', Lasts, Written, Undecided PROVE Undecided'
<1> SUFFICES ASSUME NEW p \in Requests, Charging(p)', txn'[request'[p].txn].aggregator # "dpo"
             PROVE  charge'[request'[p].txn] \in {"none", "prompted"}
  BY DEF Undecided
<1> DEFINE t == request'[p].txn
<1>0. RequestCame(p)
  BY RequestsCome DEF Honest
<1> USE DEF Honest, Sound, TypeOK, ProcessOK, Exists, Charging, Request, ChargeOK
<1>1. CASE charge' = charge /\ t \in Txns /\ txn[t].status = "none"
  BY <1>1
<1>2. CASE Charging(p) /\ request[p].txn = t
  <2>1. t \in Txns /\ charge[t] \in {"none", "prompted"}
    BY <1>2 DEF Lasts, RowsGrow, Undecided
  <2>2. ASSUME NEW u \in Txns, CustomerDecides(u) PROVE charge'[t] = charge[t]
    BY <1>2, <2>2 DEF CustomerDecides, Calling, Alone
  <2>3. ASSUME NEW q \in Requests, CallProvider(q) PROVE charge'[t] \in {charge[t], "prompted"}
    BY <2>1, <2>3, CalledMoves
  <2> QED
    BY <2>1, <2>2, <2>3 DEF Written, ChargeWritten
<1> QED
  BY <1>0, <1>1, <1>2 DEF RequestCame, NoRequest

LEMMA StaysDecided == ASSUME Honest, Lasts, Written, ResolvedDecided PROVE ResolvedDecided'
<1> USE DEF Honest, Sound, TypeOK, ProcessOK, Exists, Lasts, RowsGrow, ChargesLast, Job, JobsHonest,
            HonestAnswer, ResolvedDecided
<1>1. ASSUME \A j \in Jobs : job'[j] \in {job[j], NoJob} PROVE ResolvedDecided'
  BY <1>1 DEF NoJob
<1>2. ASSUME NEW j \in Jobs, NEW t \in Txns, Pick(j, t) PROVE ResolvedDecided'
  BY <1>2 DEF Pick, NoJob
<1>3. ASSUME NEW j \in Jobs, Query(j) PROVE ResolvedDecided'
  <2> DEFINE kind == Answered(job[j].txn)
             at == IF kind = "pending" THEN "pending" ELSE "resolved"
  <2>1. job[j] \in Job /\ job[j].txn \in Txns /\ UNCHANGED <<txn, charge>>
    BY <1>3 DEF Query, outside
  <2>2. \A i \in Jobs : job'[i] = IF i = j THEN [job[j] EXCEPT !.at = at, !.kind = kind] ELSE job[i]
    BY <1>3 DEF Query
  <2>3. at = "resolved" /\ txn[job[j].txn].aggregator # "dpo" => charge[job[j].txn] # "prompted"
    <3>1. Exists(job[j].txn)
      BY <1>3 DEF Query
    <3> QED
      BY <3>1, <2>1, AnswersTrue
  <2>4. at \in {"pending", "resolved"}
    OBVIOUS
  <2> HIDE DEF kind, at
  <2>5. job'[j].txn = job[j].txn /\ job'[j].at = at
    <3>1. job[j] \in Job /\ job'[j] = [job[j] EXCEPT !.at = at, !.kind = kind]
      BY <2>1, <2>2
    <3> QED
      BY <3>1
  <2> QED
    BY <2>1, <2>2, <2>3, <2>4, <2>5
<1>4. ASSUME NEW j \in Jobs, ReopenGuard(j) PROVE ResolvedDecided'
  BY <1>4 DEF ReopenGuard, outside
<1>5. ASSUME NEW j \in Jobs, ApplyResolved(j) PROVE ResolvedDecided'
  <2>1. /\ job[j].at = "updating" /\ charge' = charge
        /\ \A i \in Jobs \ {j} : job'[i] = job[i]
    BY <1>5 DEF ApplyResolved, outside
  <2>2. job'[j] = NoJob \/ (job'[j].txn = job[j].txn /\ job'[j].at = "paying")
    BY <1>5 DEF ApplyResolved
  <2> QED
    BY <2>1, <2>2 DEF NoJob
<1> QED
  BY <1>1, <1>2, <1>3, <1>4, <1>5 DEF Written, JobWritten

\* The charge was undelivered before, or it is only now being made.
LEMMA WasUndelivered ==
    ASSUME Honest, Lasts, Written, NEW t \in Txns, Undelivered(t)', txn'[t].aggregator # "dpo"
    PROVE  Undelivered(t) \/ (charge[t] = "none" /\ charge'[t] = "prompted")
<1> USE DEF Honest, Sound, TypeOK, ProcessOK, Exists, Job, Undelivered
<1>1. CASE charge'[t] = "prompted"
  BY <1>1 DEF Lasts, ChargesLast
<1>2. ASSUME NEW j \in Jobs, job'[j].at = "pending", job'[j].txn = t, charge'[t] # "prompted"
      PROVE  Undelivered(t)
  <2>1. CASE job'[j] \in {job[j], NoJob}
    BY <1>2, <2>1 DEF NoJob
  <2>2. ASSUME NEW i \in Jobs, NEW u \in Txns, Pick(i, u) PROVE job'[j] = job[j]
    BY <1>2, <2>2 DEF Pick, NoJob
  <2>3. ASSUME NEW i \in Jobs, Query(i) PROVE Undelivered(t)
    <3>1. CASE i # j
      BY <1>2, <2>3, <3>1 DEF Query
    <3>2. CASE i = j
      <4>1. job[j].txn = t /\ Answered(t) = "pending" /\ txn' = txn
        BY <1>2, <2>3, <3>2 DEF Query
      <4>2. Exists(t) /\ Sound
        BY <2>3, <3>2, <4>1 DEF Query
      <4>3. charge[t] = "prompted"
        BY <4>1, <4>2, AnswersTrue
      <4> QED
        BY <4>3
    <3> QED
      BY <3>1, <3>2
  <2>4. ASSUME NEW i \in Jobs, ReopenGuard(i) \/ ApplyResolved(i) PROVE job'[j] = job[j]
    BY <1>2, <2>4 DEF ReopenGuard, ApplyResolved, NoJob
  <2> QED
    BY <2>1, <2>2, <2>3, <2>4 DEF Written, JobWritten
<1> QED
  BY <1>1, <1>2

LEMMA StaysGuarded ==
    ASSUME Alone, Honest, Sound', Lasts, Written, Once, CreditNeedsPaidTrip'
    PROVE  GuardedOnce'
<1> SUFFICES ASSUME NEW t \in Txns, txn'[t].aggregator # "dpo", Undelivered(t)' PROVE OneDelivery(t)'
  BY DEF GuardedOnce
<1>0. Undelivered(t) \/ (charge[t] = "none" /\ charge'[t] = "prompted")
  BY WasUndelivered
<1> USE DEF Honest, Sound, TypeOK, ProcessOK, Exists, OneDelivery, On
<1>1. CASE charge[t] = "none" /\ charge'[t] = "prompted"
  <2>1. credits'[t] = 0
    BY <1>1 DEF CreditNeedsPaidTrip
  <2>2. \A w \in Webhooks : ~On(w, t)
    BY <1>1 DEF WebhooksHonest
  <2>3. \A w \in Webhooks : ~On(w, t)'
    BY <1>1, <2>2 DEF Written, WebhookWritten, NoWebhook, ReceiveWebhook, Sends
  <2> QED
    BY <2>1, <2>3
<1>2. CASE Undelivered(t)
  <2>1. txn[t].aggregator # "dpo" /\ OneDelivery(t)
    <3>1. Exists(t)
      BY <1>2 DEF Undelivered, ChargeOK
    <3> QED
      BY <1>2, <3>1 DEF Lasts, RowsGrow, Once, GuardedOnce
  <2>2. CASE /\ seen' = seen /\ credits' = credits
             /\ \A w \in Webhooks : webhook'[w] \in {webhook[w], NoWebhook}
    BY <2>1, <2>2 DEF NoWebhook
  <2>3. ASSUME NEW w \in Webhooks, NEW u \in Txns, NEW state \in {"prompted", "paid", "refused"},
               ReceiveWebhook(w, u, state)
        PROVE  OneDelivery(t)'
    BY <2>1, <2>3 DEF ReceiveWebhook, money
  <2>4. ASSUME NEW w \in Webhooks, ApplyWebhook(w) PROVE OneDelivery(t)'
    <3>1. /\ seen' = seen
          /\ \A v \in Webhooks : webhook'[v] = IF v = w THEN NoWebhook ELSE webhook[v]
      BY <2>4 DEF ApplyWebhook
    <3>2. webhook[w].txn # t => credits'[t] = credits[t]
      BY <2>4 DEF ApplyWebhook, Settle, money
    <3> QED
      BY <2>1, <2>4, <3>1, <3>2 DEF NoWebhook, ApplyWebhook
  <2>5. ASSUME NEW p \in Requests, ApplyVerification(p) PROVE OneDelivery(t)'
    <3>1. seen' = seen /\ webhook' = webhook /\ request[p].txn # t
      BY <2>1, <2>5 DEF ApplyVerification, RequestsHonest, RequestHonest
    <3>2. credits'[t] = credits[t]
      BY <2>5, <3>1, OthersUnverified
    <3> QED
      BY <2>1, <3>1, <3>2
  <2>6. ASSUME NEW j \in Jobs, ReopenGuard(j) PROVE OneDelivery(t)'
    <3>1. job[j].txn # t
      BY <2>1, <2>6, <1>2 DEF ReopenGuard, Undelivered, Once, ResolvedDecided, Alone
    <3> QED
      BY <2>1, <2>6, <3>1 DEF ReopenGuard, money
  <2>7. ASSUME NEW j \in Jobs, ApplyResolved(j) PROVE OneDelivery(t)'
    BY <2>1, <2>7 DEF ApplyResolved, money
  <2> QED
    BY <2>2, <2>3, <2>4, <2>5, <2>6, <2>7 DEF Written, GuardWritten
<1> QED
  BY <1>0, <1>1, <1>2

LEMMA StaysCredited ==
    ASSUME Alone, Honest, Sound', Lasts, Written, Once
    PROVE  CreditedStays'
<1> SUFFICES ASSUME NEW t \in Txns, txn'[t].aggregator # "dpo", credits'[t] > 0 PROVE Credited(t)'
  BY DEF CreditedStays
<1> USE DEF Honest, Sound, TypeOK, ProcessOK, Exists, On, Row, Credited
<1>1. CASE credits[t] = 0
  <2>1. ASSUME NEW p \in Requests, ApplyVerification(p) PROVE FALSE
    <3>1. request[p].txn # t
      BY <2>1 DEF ApplyVerification, RequestsHonest, RequestHonest, Lasts, RowsGrow
    <3> QED
      BY <1>1, <2>1, <3>1, OthersUnverified
  <2>2. ASSUME NEW w \in Webhooks, ApplyWebhook(w) PROVE credits'[t] = 1 /\ txn'[t].status = "success"
    <3>1. Settle(webhook[w].txn) /\ webhook[w].txn = t
      BY <1>1, <2>2 DEF ApplyWebhook, Settle, money
    <3> QED
      BY <1>1, <3>1 DEF Settle
  <2> QED
    BY <1>1, <2>1, <2>2 DEF Written, CreditsWritten
<1>2. CASE credits[t] > 0
  <2>1. Exists(t) /\ txn[t].aggregator # "dpo" /\ charge[t] = "paid" /\ Credited(t)
    BY <1>2 DEF Lasts, RowsGrow, CreditNeedsPaidTrip, ChargeOK, Once, CreditedStays
  <2>2. ASSUME NEW p \in Requests, Charging(p) PROVE request[p].txn # t
    <3>1. txn[request[p].txn].aggregator # "dpo" => charge[request[p].txn] \in {"none", "prompted"}
      BY <2>2 DEF Once, Undecided
    <3> QED
      BY <2>1, <3>1
  <2>3. credits'[t] = 1
    <3>1. ASSUME NEW p \in Requests, ApplyVerification(p) PROVE credits'[t] = credits[t]
      <4>1. request[p].txn # t
        BY <2>1, <3>1 DEF ApplyVerification, RequestsHonest, RequestHonest
      <4> QED
        BY <3>1, <4>1, OthersUnverified
    <3>2. ASSUME NEW w \in Webhooks, ApplyWebhook(w) PROVE credits'[t] = credits[t]
      BY <2>1, <3>2 DEF ApplyWebhook, Settle, money, Terminal
    <3> QED
      BY <2>1, <3>1, <3>2 DEF Written, CreditsWritten
  <2>4. \/ txn'[t].status = txn[t].status
        \/ /\ txn[t].status = "success" /\ txn'[t].status = "timeout"
           /\ \E j \in Jobs : job[j].txn = t /\ GiveUp(j)
    <3>1. ASSUME NEW p \in Requests,
                 \/ \E r \in Rides, u \in Txns : InitiateCardPayment(p, r, u)
                 \/ \E u \in Txns : InsertIntent(p, u)
          PROVE  txn'[t] = txn[t]
      <4>1. ASSUME NEW r \in Rides, NEW u \in Txns, InitiateCardPayment(p, r, u) PROVE txn'[t] = txn[t]
        BY <2>1, <4>1 DEF InitiateCardPayment
      <4>2. ASSUME NEW u \in Txns, InsertIntent(p, u) PROVE txn'[t] = txn[t]
        BY <2>1, <4>2 DEF InsertIntent
      <4> QED
        BY <3>1, <4>1, <4>2
    <3>2. ASSUME NEW p \in Requests, RecordReply(p) \/ RequestFails(p) PROVE txn'[t] = txn[t]
      BY <2>2, <3>2 DEF Recorded, CardRecorded, RecordReply, RequestFails, Charging
    <3>3. ASSUME NEW p \in Requests, ApplyVerification(p) PROVE txn'[t] = txn[t]
      <4>1. request[p].txn # t
        BY <2>1, <3>3 DEF ApplyVerification, RequestsHonest, RequestHonest
      <4> QED
        BY <3>3, <4>1, OthersUnverified
    <3>4. ASSUME NEW w \in Webhooks, ApplyWebhook(w) PROVE txn'[t] = txn[t]
      BY <2>1, <3>4 DEF ApplyWebhook, Settle, Terminal
    <3>5. ASSUME NEW j \in Jobs, GiveUp(j) PROVE txn'[t] = txn[t] \/ (job[j].txn = t /\ txn'[t].status = "timeout")
      <4>1. job[j].txn \in Txns
        BY <3>5 DEF GiveUp
      <4>2. txn' = [txn EXCEPT ![job[j].txn].status = "timeout"]
        BY <3>5 DEF GiveUp, GivenUp
      <4> QED
        BY <4>1, <4>2
    <3>6. ASSUME NEW j \in Jobs, GiveUp(j), job[j].txn = t PROVE txn[t].status = "success"
      BY <2>1, <3>6 DEF GiveUp
    <3>7. ASSUME NEW j \in Jobs, ApplyResolved(j) PROVE txn'[t].status = txn[t].status
      <4>1. job[j].at = "updating" /\ (txn' = txn \/ txn' = [txn EXCEPT ![job[j].txn].status =
                                            IF Terminal(@) THEN @ ELSE job[j].kind])
        BY <3>7 DEF ApplyResolved
      <4>2. CASE job[j].txn = t
        <5>1. txn[t].status = "success"
          BY <2>1, <4>1, <4>2
        <5> QED
          BY <2>1, <4>1, <4>2, <5>1 DEF Terminal
      <4>3. CASE job[j].txn # t
        BY <4>1, <4>3
      <4> QED
        BY <4>2, <4>3
    <3> QED
      BY <3>1, <3>2, <3>3, <3>4, <3>5, <3>6, <3>7 DEF Written, TxnWritten
  <2>5. CASE txn[t].status = "success" /\ txn'[t].status = "success"
    BY <2>3, <2>5
  <2>6. ASSUME NEW j \in Jobs, job[j].txn = t, GiveUp(j), txn'[t].status = "timeout" PROVE Credited(t)'
    <3>1. t \in seen /\ \A w \in Webhooks : ~On(w, t)
      BY <1>2, <2>1, <2>6 DEF GiveUp, Once, GuardedOnce, OneDelivery, Undelivered
    <3>2. seen' = seen /\ webhook' = webhook
      BY <2>6 DEF GiveUp
    <3>3. \A i \in Jobs : job'[i].at = "idle"
      BY <2>6 DEF GiveUp, NoJob, Alone
    <3> QED
      BY <2>3, <2>6, <3>1, <3>2, <3>3
  <2>7. CASE txn[t].status = "timeout" /\ txn'[t].status = "timeout"
    <3>0. t \in seen /\ (\A w \in Webhooks : ~On(w, t)) /\ (\A j \in Jobs : job[j].at # "idle" => job[j].txn # t)
      BY <2>1, <2>7
    <3>1. t \in seen'
      <4>1. ASSUME NEW j \in Jobs, ReopenGuard(j) \/ ApplyResolved(j) PROVE t \in seen'
        BY <3>0, <4>1 DEF ReopenGuard, ApplyResolved
      <4>2. ASSUME NEW p \in Requests, ApplyVerification(p) PROVE t \in seen'
        BY <3>0, <4>2 DEF ApplyVerification
      <4>3. ASSUME NEW w \in Webhooks, ApplyWebhook(w) PROVE t \in seen'
        BY <3>0, <4>3 DEF ApplyWebhook
      <4>4. ASSUME NEW w \in Webhooks, NEW u \in Txns, NEW state \in {"prompted", "paid", "refused"},
                   ReceiveWebhook(w, u, state)
            PROVE  t \in seen'
        BY <3>0, <4>4 DEF ReceiveWebhook
      <4> QED
        BY <3>0, <4>1, <4>2, <4>3, <4>4 DEF Written, GuardWritten
    <3>2. \A w \in Webhooks : ~On(w, t)'
      <4>1. CASE \A w \in Webhooks : webhook'[w] \in {webhook[w], NoWebhook}
        BY <3>0, <4>1 DEF NoWebhook
      <4>2. ASSUME NEW v \in Webhooks, NEW u \in Txns, NEW state \in {"prompted", "paid", "refused"},
                   ReceiveWebhook(v, u, state)
            PROVE  u # t /\ \A w \in Webhooks : webhook'[w] =
                      IF w = v THEN [at |-> "guarded", txn |-> u, kind |-> Told(txn[u].aggregator, state)] ELSE webhook[w]
        BY <3>0, <4>2 DEF ReceiveWebhook
      <4>3. ASSUME NEW v \in Webhooks, NEW u \in Txns, NEW state \in {"prompted", "paid", "refused"},
                   ReceiveWebhook(v, u, state)
            PROVE  \A w \in Webhooks : ~On(w, t)'
        BY <3>0, <4>2, <4>3
      <4> QED
        BY <4>1, <4>3 DEF Written, WebhookWritten
    <3>3. \A j \in Jobs : job'[j].at # "idle" => job'[j].txn # t
      <4>1. CASE \A j \in Jobs : job'[j] \in {job[j], NoJob}
        BY <3>0, <4>1 DEF NoJob
      <4>2. ASSUME NEW i \in Jobs, NEW u \in Txns, Pick(i, u)
            PROVE  \A j \in Jobs : job'[j].at # "idle" => job'[j].txn # t
        BY <2>7, <3>0, <4>2 DEF Pick, NoJob
      <4>3. ASSUME NEW i \in Jobs, Query(i) \/ ReopenGuard(i)
            PROVE  \A j \in Jobs : job'[j].at # "idle" => job'[j].txn # t
        <5>1. job[i] \in Job /\ job[i].at # "idle" /\ \A j \in Jobs : j # i => job'[j] = job[j]
          BY <4>3 DEF Query, ReopenGuard
        <5>2. job'[i].txn = job[i].txn
          <6>1. CASE Query(i)
            BY <5>1, <6>1 DEF Query
          <6>2. CASE ReopenGuard(i)
            BY <5>1, <6>2 DEF ReopenGuard
          <6> QED
            BY <4>3, <6>1, <6>2
        <5>3. job'[i].txn # t
          BY <3>0, <5>1, <5>2
        <5>4. ASSUME NEW j \in Jobs, job'[j].at # "idle" PROVE job'[j].txn # t
          <6>1. CASE j = i
            BY <5>3, <6>1
          <6>2. CASE j # i
            BY <3>0, <5>1, <5>4, <6>2
          <6> QED
            BY <6>1, <6>2
        <5> QED
          BY <5>4
      <4>4. ASSUME NEW i \in Jobs, ApplyResolved(i)
            PROVE  \A j \in Jobs : job'[j].at # "idle" => job'[j].txn # t
        <5>1. /\ job[i].at # "idle"
              /\ \A j \in Jobs : j # i => job'[j] = job[j]
          BY <4>4 DEF ApplyResolved
        <5>2. job'[i] = NoJob \/ job'[i].txn = job[i].txn
          BY <4>4 DEF ApplyResolved, Job
        <5>3. job'[i].at # "idle" => job'[i].txn # t
          BY <3>0, <5>1, <5>2 DEF NoJob
        <5> QED
          BY <3>0, <5>1, <5>3
      <4> QED
        BY <4>1, <4>2, <4>3, <4>4 DEF Written, JobWritten
    <3> QED
      BY <2>3, <2>7, <3>1, <3>2, <3>3
  <2> QED
    BY <2>1, <2>4, <2>5, <2>6, <2>7
<1> QED
  BY <1>1, <1>2

LEMMA InitOnce == Init => Once
  BY DEF Init, Once, Undecided, ResolvedDecided, GuardedOnce, OneDelivery, CreditedStays, On, Charging,
         NoRequest, NoWebhook, NoJob

\* However often and late the aggregator calls, and whatever a sweep does meanwhile, a
\* mobile payment is credited at most once, if nobody pays before the reply to the call is
\* recorded and sweeps do not overlap.
THEOREM MobileIsCreditedOnce == Spec => []MobileCreditedOnce
<1> DEFINE I == Alone => Once
<1>1. Init => I
  BY InitOnce
<1>2. Honest /\ Honest' /\ I /\ [Next]_vars => I'
  <2> SUFFICES ASSUME Honest, Honest', Alone, Once, [Next]_vars PROVE Once'
    BY DEF Alone
  <2>1. RowsGrow /\ Written /\ Sound' /\ CreditNeedsPaidTrip'
    BY StepSound, Writers DEF Honest
  <2>2. Lasts
    BY <2>1, Lasting
  <2> QED
    BY <2>1, <2>2, StaysUndecided, StaysDecided, StaysGuarded, StaysCredited DEF Once
<1>3. Sound /\ I => MobileCreditedOnce
  BY DEF Sound, TypeOK, MobileCreditedOnce, Alone, Once, CreditedStays, Credited
<1>4. Honest => Sound
  BY DEF Honest
<1> HIDE DEF I
<1> QED
  BY AlwaysHonest, <1>1, <1>2, <1>3, <1>4, PTL DEF Spec
=============================================================================
