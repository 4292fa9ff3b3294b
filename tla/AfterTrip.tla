------------------------------ MODULE AfterTrip ------------------------------
(***************************************************************************)
(* The calls that close a trip, as the apps make them: the hand-over code  *)
(* of a delivery (deliveries.service.ts), the ratings both sides give      *)
(* (rides.service.rate) and the emergency alert (safety.service.ts).  Each *)
(* is a POST that ApiClient sends again when no answer comes, so the       *)
(* server may be working on the same call twice; a person may also press   *)
(* again after an error, with another value.  The services check first and *)
(* write later, in two statements without a lock.                          *)
(*                                                                         *)
(* One ride, on whose deliveries row, rating columns and alerts the calls  *)
(* meet; one person who may be in danger.  SMS_API_URL is set, as it is    *)
(* outside development.  Bounds: Calls at once, MaxPresses in all,         *)
(* MaxTries of each, MaxFaults failures, MaxAlerts alarms.                 *)
(***************************************************************************)
EXTENDS Naturals, FiniteSets

CONSTANTS Calls, Stars, Names, MaxPresses, MaxTries, MaxFaults, MaxAlerts

ASSUME CallsAssumption ==
    /\ Stars \subseteq 1..5
    /\ {MaxPresses, MaxTries, MaxFaults, MaxAlerts} \subseteq Nat

VARIABLES
    over,       \* the ride is completed
    rating,     \* rides.driver_rating and rides.rider_rating, 0 for NULL
    tally,      \* users.rating_sum and rating_count of the two people
    delivery,   \* the deliveries row: failed, collected, delivered, to
    alerts,     \* per alarm, sos_alerts.status of its row, or "none"
    contact,    \* users.emergency_contact_phone is set
    notice,     \* per alarm, where raise and notifyEmergencyContact are: the call it is of,
                \* what the answer promised, whether a gateway took a message for the
                \* contact, whether the row says so (contact_notified_at)
    call,       \* per call: what was pressed, and the try the app waits for
    handler,    \* per call and try: where the server is
    raced,      \* what two handlers were deciding at once (history only)
    presses, faults

sos    == <<alerts, contact, notice>>
row    == <<over, rating, tally, delivery, sos>>
vars   == <<row, call, handler, raced, presses, faults>>

Tries  == 1..MaxTries
Alerts == 1..MaxAlerts
People == {"rider", "driver"}      \* who is being rated
NoOne  == "no one"

\* A call: rate with the person rated, confirm with the name of the receiver, alarm
\* with a position or without.
Jobs ==
    [op : {"rate"}, on : People, with : Stars]
        \cup [op : {"confirm"}, on : {"goods"}, with : Names]
        \cup [op : {"alarm"}, on : {"alerts"}, with : BOOLEAN]
Idle == [op |-> "none", on |-> NoOne, with |-> 0]

NoNotice == [at |-> "unused", by |-> <<>>, promised |-> FALSE, reached |-> FALSE, marked |-> FALSE]

Init ==
    /\ over = FALSE
    /\ rating = [p \in People |-> 0]
    /\ tally = [p \in People |-> [sum |-> 0, count |-> 0]]
    /\ delivery = [failed |-> FALSE, collected |-> FALSE, delivered |-> FALSE, to |-> NoOne]
    /\ alerts = [a \in Alerts |-> "none"]
    /\ contact = FALSE
    /\ notice = [a \in Alerts |-> NoNotice]
    /\ call = [c \in Calls |-> [job |-> Idle, waits |-> 0]]
    /\ handler = [c \in Calls |-> [k \in Tries |-> "idle"]]
    /\ raced = {} /\ presses = 0 /\ faults = 0

-----------------------------------------------------------------------------
(* The app *)

Quiet(c) == call[c].waits = 0 /\ \A k \in Tries : handler[c][k] = "idle"

Press(c, job) ==
    /\ presses < MaxPresses /\ Quiet(c)
    /\ presses' = presses + 1
    /\ call' = [call EXCEPT ![c] = [job |-> job, waits |-> 1]]
    /\ handler' = [handler EXCEPT ![c][1] = "sent"]
    /\ UNCHANGED <<row, raced, faults>>

\* No answer in time: sent again, and after the last try the person sees an error.
TimesOut(c) ==
    /\ call[c].waits # 0
    /\ IF call[c].waits < MaxTries
       THEN /\ call' = [call EXCEPT ![c].waits = @ + 1]
            /\ handler' = [handler EXCEPT ![c][call[c].waits + 1] = "sent"]
       ELSE call' = [call EXCEPT ![c].waits = 0] /\ UNCHANGED handler
    /\ UNCHANGED <<row, raced, presses, faults>>

\* The handler of try k is through: the app hears of it if it still waits for that try.
Ends(c, k) ==
    /\ handler' = [handler EXCEPT ![c][k] = "idle"]
    /\ call' = IF call[c].waits = k THEN [call EXCEPT ![c].waits = 0] ELSE call

Job(c) == call[c].job
At(c, k, op, place) == Job(c).op = op /\ handler[c][k] = place
Proceeds(c, k) ==
    /\ handler' = [handler EXCEPT ![c][k] = "decided"]
    /\ UNCHANGED call
    /\ raced' = IF \E d \in Calls, j \in Tries :
                     handler[d][j] = "decided" /\ Job(d).on = Job(c).on
                THEN raced \cup {Job(c).on} ELSE raced

Fault == faults < MaxFaults /\ faults' = faults + 1

\* Lost on the way, a statement throws, or the process restarts: the call ends and nothing
\* is written (the two updates of a rating are one transaction).
Fails(c, k) ==
    /\ Fault /\ handler[c][k] # "idle"
    /\ Ends(c, k)
    /\ notice' = [a \in Alerts |-> IF notice[a].at = "raised" /\ notice[a].by = <<c, k>>
                                  THEN [notice[a] EXCEPT !.at = "done"] ELSE notice[a]]
    /\ UNCHANGED <<over, rating, tally, delivery, alerts, contact, raced, presses>>

-----------------------------------------------------------------------------
(* Ratings *)

\* Mutant: the column that is already there is not looked at.
RateAnyway(c, k) ==
    /\ At(c, k, "rate", "sent")
    /\ IF over THEN Proceeds(c, k) ELSE Ends(c, k) /\ UNCHANGED raced
    /\ UNCHANGED <<row, presses, faults>>

\* Only a completed ride is rated, and a rating is final.
CheckRating(c, k) ==
    /\ At(c, k, "rate", "sent")
    /\ IF over /\ rating[Job(c).on] = 0 THEN Proceeds(c, k) ELSE Ends(c, k) /\ UNCHANGED raced
    /\ UNCHANGED <<row, presses, faults>>

WriteRating(c, k) ==
    /\ At(c, k, "rate", "decided")
    /\ LET p == Job(c).on
       IN /\ rating' = [rating EXCEPT ![p] = Job(c).with]
          /\ tally' = [tally EXCEPT ![p] = [sum |-> @.sum + Job(c).with, count |-> @.count + 1]]
    /\ Ends(c, k)
    /\ UNCHANGED <<over, delivery, sos, raced, presses, faults>>

-----------------------------------------------------------------------------
(* The hand-over *)

Collect ==
    /\ ~delivery.collected
    /\ delivery' = [delivery EXCEPT !.collected = TRUE]
    /\ UNCHANGED <<over, rating, tally, sos, call, handler, raced, presses, faults>>

\* The courier reports that nobody took it; nothing asks whether somebody has.
MarkFailed ==
    /\ ~delivery.failed
    /\ delivery' = [delivery EXCEPT !.failed = TRUE]
    /\ UNCHANGED <<over, rating, tally, sos, call, handler, raced, presses, faults>>

\* Mutant: a confirmation is not final.
ConfirmAgain(c, k) ==
    /\ At(c, k, "confirm", "sent")
    /\ Proceeds(c, k)
    /\ UNCHANGED <<row, presses, faults>>

\* Confirmed before: the same answer.  The code the receiver says may be wrong.
CheckCode(c, k) ==
    /\ At(c, k, "confirm", "sent")
    /\ \/ ~delivery.delivered /\ Proceeds(c, k)
       \/ Ends(c, k) /\ UNCHANGED raced
    /\ UNCHANGED <<row, presses, faults>>

WriteDelivered(c, k) ==
    /\ At(c, k, "confirm", "decided")
    /\ delivery' = [delivery EXCEPT !.delivered = TRUE, !.to = Job(c).with]
    /\ Ends(c, k)
    /\ UNCHANGED <<over, rating, tally, sos, raced, presses, faults>>

-----------------------------------------------------------------------------
(* The alert *)

\* setEmergencyContact; nothing takes a contact away again.
SaveContact ==
    /\ ~contact /\ contact' = TRUE
    /\ UNCHANGED <<over, rating, tally, delivery, alerts, notice, call, handler, raced, presses, faults>>

\* The alarm goes on record.  A failing INSERT is caught; without a position it always
\* fails, as its parameters $4 and $5 have no type.  The push to the operations room has
\* no listener in the repository and is not modelled, nor is a key that nobody reads.
Raise(c, k) ==
    /\ At(c, k, "alarm", "sent")
    /\ \E a \in Alerts :
          /\ notice[a].at = "unused" /\ \A b \in Alerts : b < a => notice[b].at # "unused"
          /\ notice' = [notice EXCEPT ![a].at = "raised", ![a].by = <<c, k>>]
          /\ \/ Job(c).with /\ alerts' = [alerts EXCEPT ![a] = "open"] /\ UNCHANGED faults
             \/ ~Job(c).with /\ UNCHANGED <<alerts, faults>>
             \/ Fault /\ UNCHANGED alerts
    /\ handler' = [handler EXCEPT ![c][k] = "raised"]
    /\ UNCHANGED <<over, rating, tally, delivery, contact, call, raced, presses>>

\* The answer promises a message if context found a contact; a failing lookup is caught
\* there.  notifyEmergencyContact goes on by itself.
Answer(c, k) ==
    /\ At(c, k, "alarm", "raised")
    /\ \E a \in Alerts :
          /\ notice[a].at = "raised" /\ notice[a].by = <<c, k>>
          /\ \/ notice' = [notice EXCEPT ![a].at = "looking", ![a].promised = contact] /\ UNCHANGED faults
             \/ notice' = [notice EXCEPT ![a].at = "looking"] /\ Fault
    /\ Ends(c, k)
    /\ UNCHANGED <<over, rating, tally, delivery, alerts, contact, raced, presses>>

Notifies(a, next) ==
    /\ notice' = [notice EXCEPT ![a] = next]
    /\ UNCHANGED <<over, rating, tally, delivery, alerts, contact, call, handler, raced, presses>>

\* Mutant: what is not on record is not told.
LookUpRecorded(a) ==
    /\ notice[a].at = "looking"
    /\ Notifies(a, [notice[a] EXCEPT !.at = IF contact /\ alerts[a] # "none" THEN "messaging" ELSE "done"])
    /\ UNCHANGED faults

LookUp(a) ==
    /\ notice[a].at = "looking"
    /\ Notifies(a, [notice[a] EXCEPT !.at = IF contact THEN "messaging" ELSE "done"])
    /\ UNCHANGED faults

\* Not configured, refused or unreachable: sendWhatsApp never throws.
SendWhatsApp(a) ==
    /\ notice[a].at = "messaging"
    /\ \E taken \in BOOLEAN : Notifies(a, [notice[a] EXCEPT !.at = "texting", !.reached = taken])
    /\ UNCHANGED faults

\* Nobody looks at what the SMS gateway answers.
SendSms(a) ==
    /\ notice[a].at = "texting"
    /\ \/ Notifies(a, [notice[a] EXCEPT !.at = "marking", !.reached = TRUE]) /\ UNCHANGED faults
       \/ Notifies(a, [notice[a] EXCEPT !.at = "marking"]) /\ Fault

MarkNotified(a) ==
    /\ notice[a].at = "marking"
    /\ Notifies(a, [notice[a] EXCEPT !.at = "done", !.marked = (alerts[a] # "none")])
    /\ UNCHANGED faults

\* A statement or the gateway's line fails, or the process restarts.
NoticeFails(a) ==
    /\ notice[a].at \in {"looking", "messaging", "texting", "marking"}
    /\ Notifies(a, [notice[a] EXCEPT !.at = "done"])
    /\ Fault

\* Mutant: whatever the alert's status is by now.
AcknowledgeAny(a) ==
    /\ alerts[a] # "none"
    /\ alerts' = [alerts EXCEPT ![a] = "acknowledged"]
    /\ UNCHANGED <<over, rating, tally, delivery, contact, notice, call, handler, raced, presses, faults>>

\* Any administrator whose list showed the alert, however old the list is.
Acknowledge(a) ==
    /\ alerts[a] = "open"
    /\ alerts' = [alerts EXCEPT ![a] = "acknowledged"]
    /\ UNCHANGED <<over, rating, tally, delivery, contact, notice, call, handler, raced, presses, faults>>

Resolve(a, how) ==
    /\ alerts[a] # "none"
    /\ alerts' = [alerts EXCEPT ![a] = how]
    /\ UNCHANGED <<over, rating, tally, delivery, contact, notice, call, handler, raced, presses, faults>>

-----------------------------------------------------------------------------
Complete ==
    /\ ~over /\ over' = TRUE
    /\ UNCHANGED <<rating, tally, delivery, sos, call, handler, raced, presses, faults>>

Serve(c, k) ==
    \/ CheckRating(c, k) \/ WriteRating(c, k)
    \/ CheckCode(c, k) \/ WriteDelivered(c, k) \/ Raise(c, k) \/ Answer(c, k)

Notify(a) == LookUp(a) \/ SendWhatsApp(a) \/ SendSms(a) \/ MarkNotified(a) \/ NoticeFails(a)

Next ==
    \/ Complete \/ Collect \/ MarkFailed \/ SaveContact
    \/ \E c \in Calls : TimesOut(c) \/ \E job \in Jobs : Press(c, job)
    \/ \E c \in Calls, k \in Tries : Serve(c, k) \/ Fails(c, k)
    \/ \E a \in Alerts : Notify(a) \/ Acknowledge(a) \/ \E how \in {"resolved", "false_alarm"} : Resolve(a, how)

Spec == Init /\ [][Next]_vars

-----------------------------------------------------------------------------
\* The average moves once per ride and side, by the stars on the ride ("stays exact no
\* matter how many trips", rate): resends and second presses count once, unless two of
\* them passed the check before either wrote.
RatingsAddUp ==
    \A p \in People : p \notin raced =>
        /\ tally[p].sum = rating[p]
        /\ tally[p].count = IF rating[p] = 0 THEN 0 ELSE 1

\* The first confirmation stands: nobody becomes the receiver of goods that somebody
\* else received, unless two confirmations passed the check together.
ConfirmationStands ==
    [][delivery.delivered /\ "goods" \notin raced => delivery'.to = delivery.to]_vars

\* An alert an administrator has closed does not come back on the list, whatever the
\* others still have on their screens.
ResolvedStays ==
    [][\A a \in Alerts : alerts[a] \in {"resolved", "false_alarm"} =>
            alerts'[a] \in {"resolved", "false_alarm"}]_vars

\* While nothing fails, an answer that says the contact is told (contactNotified) is made
\* good, although nobody waits for notifyEmergencyContact, which looks for the contact
\* again, and although the alarm may be on no record; and a row that says he was told
\* (contact_notified_at, "what actually happened rather than what was intended") is right.
ContactHears ==
    faults = 0 =>
        \A a \in Alerts :
            /\ notice[a].promised /\ notice[a].at = "done" => notice[a].reached
            /\ notice[a].marked => notice[a].reached
=============================================================================
