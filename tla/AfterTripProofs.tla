--------------------------- MODULE AfterTripProofs ---------------------------
(***************************************************************************)
(* Theorems about AfterTrip, for any number of calls, tries, presses,      *)
(* faults and alerts.                                                      *)
(*                                                                         *)
(* The services check and then write, without a lock.  What a handler saw  *)
(* at its check still holds at its write as long as no second handler of   *)
(* the same thing has passed its check in between: Alone and Fresh.        *)
(* What an answer promised about the contact is made good step by step as  *)
(* long as nothing fails: Heard.                                           *)
(***************************************************************************)
EXTENDS AfterTrip, TLAPS

Delivery == [failed : BOOLEAN, collected : BOOLEAN, delivered : BOOLEAN, to : Names \cup {NoOne}]
AlertStates == {"none", "open", "acknowledged", "resolved", "false_alarm"}
Places == {"idle", "sent", "decided", "raised"}
Notices ==
    [at : {"unused", "raised", "looking", "messaging", "texting", "marking", "done"},
     by : {<<>>} \cup (Calls \X Tries), promised : BOOLEAN, reached : BOOLEAN, marked : BOOLEAN]

\* Every variable has its type.
TypeOK ==
    /\ over \in BOOLEAN
    /\ rating \in [People -> Nat]
    /\ tally \in [People -> [sum : Nat, count : Nat]]
    /\ delivery \in Delivery
    /\ alerts \in [Alerts -> AlertStates]
    /\ contact \in BOOLEAN
    /\ notice \in [Alerts -> Notices]
    /\ call \in [Calls -> [job : Jobs \cup {Idle}, waits : Nat]]
    /\ handler \in [Calls -> [Tries -> Places]]
    /\ presses \in Nat /\ faults \in Nat

Decided(c, k) == handler[c][k] = "decided"

\* Unless two were deciding at once, one handler at most is between the check and the
\* write of a thing...
Alone ==
    \A c, d \in Calls, j, k \in Tries :
        /\ Decided(c, j) /\ Decided(d, k)
        /\ Job(c).on = Job(d).on /\ Job(c).on \notin raced
        => c = d /\ j = k

\* ...and what it saw at the check is still so.
Fresh ==
    \A c \in Calls, k \in Tries :
        Decided(c, k) /\ Job(c).on \notin raced =>
            /\ Job(c).on \in People => rating[Job(c).on] = 0
            /\ Job(c).on = "goods" => ~delivery.delivered

IInv == TypeOK /\ Alone /\ Fresh /\ RatingsAddUp

\* While nothing fails, what a notice promises rests on a contact that stays, and behind
\* the SMS lies a message that a gateway took.
Heard ==
    faults = 0 =>
        \A a \in Alerts :
            /\ notice[a].promised => contact
            /\ notice[a].at = "marking" => notice[a].reached
            /\ notice[a].at = "done" /\ notice[a].promised => notice[a].reached
            /\ notice[a].marked => notice[a].at = "done" /\ notice[a].reached

-----------------------------------------------------------------------------
(* Types *)

\* What a person presses for a rating or a hand-over is about that.
LEMMA JobType ==
    ASSUME TypeOK, NEW c \in Calls
    PROVE  /\ Job(c).op = "rate" => Job(c).on \in People /\ Job(c).with \in 1..5
           /\ Job(c).op = "confirm" => Job(c).on = "goods" /\ Job(c).with \in Names
<1>1. Job(c) \in Jobs \cup {Idle}
  BY DEF TypeOK, Job
<1>2. CASE Job(c) = Idle
  BY <1>2 DEF Idle
<1>3. CASE Job(c) \in [op : {"rate"}, on : People, with : Stars]
  BY <1>3, CallsAssumption
<1>4. CASE Job(c) \in [op : {"confirm"}, on : {"goods"}, with : Names]
  BY <1>4
<1>5. CASE Job(c) \in [op : {"alarm"}, on : {"alerts"}, with : BOOLEAN]
  BY <1>5
<1>6. QED
  BY <1>1, <1>2, <1>3, <1>4, <1>5 DEF Jobs

\* A handler that is through leaves the types of calls and handlers as they are.
LEMMA EndsType ==
    ASSUME TypeOK, NEW c \in Calls, NEW k \in Tries, Ends(c, k)
    PROVE  /\ call' \in [Calls -> [job : Jobs \cup {Idle}, waits : Nat]]
           /\ handler' \in [Calls -> [Tries -> Places]]
BY DEF TypeOK, Ends, Places

\* So does one that goes on to its write.
LEMMA ProceedsType ==
    ASSUME TypeOK, NEW c \in Calls, NEW k \in Tries, Proceeds(c, k)
    PROVE  /\ call' \in [Calls -> [job : Jobs \cup {Idle}, waits : Nat]]
           /\ handler' \in [Calls -> [Tries -> Places]]
BY DEF TypeOK, Proceeds, Places

\* The notices that raise and the loss of a handler write.
LEMMA NoticeChanges ==
    ASSUME NEW n \in Notices
    PROVE  /\ [n EXCEPT !.at = "done"] \in Notices
           /\ [n EXCEPT !.at = "looking"] \in Notices
           /\ \A p \in BOOLEAN : [n EXCEPT !.at = "looking", !.promised = p] \in Notices
           /\ \A c \in Calls, k \in Tries : [n EXCEPT !.at = "raised", !.by = <<c, k>>] \in Notices
BY DEF Notices

\* A notice that is rewritten within its type keeps the types of the alert.
LEMMA NoticeType ==
    ASSUME TypeOK, NEW a \in Alerts, NEW next \in Notices, notice' = [notice EXCEPT ![a] = next]
    PROVE  notice' \in [Alerts -> Notices]
BY DEF TypeOK

\* Every step keeps the types.
LEMMA TypeStep == TypeOK /\ [Next]_vars => TypeOK'
<1> SUFFICES ASSUME TypeOK, [Next]_vars PROVE TypeOK'
  OBVIOUS
<1>1. CASE Complete \/ Collect \/ MarkFailed \/ SaveContact
  BY <1>1 DEF TypeOK, Complete, Collect, MarkFailed, SaveContact, Delivery, sos
<1>2. ASSUME NEW c \in Calls, TimesOut(c) PROVE TypeOK'
  <2>1. /\ call' \in [Calls -> [job : Jobs \cup {Idle}, waits : Nat]]
        /\ handler' \in [Calls -> [Tries -> Places]]
    <3>1. CASE call[c].waits < MaxTries
      <4>1. call' = [call EXCEPT ![c] = [job |-> call[c].job, waits |-> call[c].waits + 1]]
        BY <1>2, <3>1 DEF TypeOK, TimesOut
      <4>2. call' \in [Calls -> [job : Jobs \cup {Idle}, waits : Nat]]
        BY <4>1 DEF TypeOK
      <4>3. handler' = [handler EXCEPT ![c] = [@ EXCEPT ![call[c].waits + 1] = "sent"]]
        BY <1>2, <3>1 DEF TimesOut
      <4>4. handler' \in [Calls -> [Tries -> Places]]
        BY <4>3 DEF TypeOK, Places
      <4>5. QED
        BY <4>2, <4>4
    <3>2. CASE ~(call[c].waits < MaxTries)
      <4>1. call' = [call EXCEPT ![c].waits = 0] /\ handler' = handler
        BY <1>2, <3>2 DEF TimesOut
      <4>2. QED
        BY <4>1 DEF TypeOK
    <3>3. QED
      BY <3>1, <3>2
  <2>2. QED
    BY <1>2, <2>1 DEF TypeOK, TimesOut, row, sos
<1>3. ASSUME NEW c \in Calls, NEW job \in Jobs, Press(c, job) PROVE TypeOK'
  <2>1. call' \in [Calls -> [job : Jobs \cup {Idle}, waits : Nat]]
    BY <1>3 DEF TypeOK, Press
  <2>2. handler' \in [Calls -> [Tries -> Places]]
    BY <1>3 DEF TypeOK, Press, Places
  <2>3. QED
    BY <1>3, <2>1, <2>2 DEF TypeOK, Press, row, sos
<1>4. ASSUME NEW c \in Calls, NEW k \in Tries, Fails(c, k) PROVE TypeOK'
  <2>1. notice' \in [Alerts -> Notices]
    <3> DEFINE stops(a) == notice[a].at = "raised" /\ notice[a].by = <<c, k>>
    <3>1. \A a \in Alerts : notice[a] \in Notices /\ [notice[a] EXCEPT !.at = "done"] \in Notices
      BY NoticeChanges DEF TypeOK
    <3>2. notice' = [a \in Alerts |-> IF stops(a) THEN [notice[a] EXCEPT !.at = "done"] ELSE notice[a]]
      BY <1>4 DEF Fails
    <3>3. QED
      BY <3>1, <3>2
  <2>2. Ends(c, k) /\ faults' = faults + 1 /\ UNCHANGED <<over, rating, tally, delivery, alerts, contact, presses>>
    BY <1>4 DEF Fails, Fault
  <2>3. /\ call' \in [Calls -> [job : Jobs \cup {Idle}, waits : Nat]]
        /\ handler' \in [Calls -> [Tries -> Places]]
    BY <2>2, EndsType
  <2>4. QED
    BY <2>1, <2>2, <2>3 DEF TypeOK
<1>5. ASSUME NEW c \in Calls, NEW k \in Tries, CheckRating(c, k) \/ CheckCode(c, k) PROVE TypeOK'
  BY <1>5, EndsType, ProceedsType DEF TypeOK, CheckRating, CheckCode, row, sos
<1>6. ASSUME NEW c \in Calls, NEW k \in Tries, WriteRating(c, k) PROVE TypeOK'
  <2>1. Job(c).on \in People /\ Job(c).with \in Nat
    BY <1>6, JobType DEF WriteRating, At
  <2>2. rating' \in [People -> Nat] /\ tally' \in [People -> [sum : Nat, count : Nat]]
    BY <1>6, <2>1 DEF WriteRating, TypeOK
  <2>3. QED
    BY <1>6, <2>2, EndsType DEF TypeOK, WriteRating, sos
<1>7. ASSUME NEW c \in Calls, NEW k \in Tries, WriteDelivered(c, k) PROVE TypeOK'
  <2>1. Job(c).with \in Names
    BY <1>7, JobType DEF WriteDelivered, At
  <2>2. delivery' \in Delivery
    BY <1>7, <2>1 DEF WriteDelivered, TypeOK, Delivery
  <2>3. QED
    BY <1>7, <2>2, EndsType DEF TypeOK, WriteDelivered, sos
<1>8. ASSUME NEW c \in Calls, NEW k \in Tries, Raise(c, k) PROVE TypeOK'
  <2>1. PICK a \in Alerts :
           /\ notice' = [notice EXCEPT ![a].at = "raised", ![a].by = <<c, k>>]
           /\ alerts' \in {alerts, [alerts EXCEPT ![a] = "open"]}
           /\ faults' \in {faults, faults + 1}
    BY <1>8 DEF Raise, Fault
  <2>2. alerts' \in [Alerts -> AlertStates]
    BY <2>1 DEF TypeOK, AlertStates
  <2>3. notice' \in [Alerts -> Notices]
    <3>1. notice' = [notice EXCEPT ![a] = [notice[a] EXCEPT !.at = "raised", !.by = <<c, k>>]]
      BY <2>1 DEF TypeOK
    <3>2. [notice[a] EXCEPT !.at = "raised", !.by = <<c, k>>] \in Notices
      BY NoticeChanges DEF TypeOK
    <3>3. QED
      BY <3>1, <3>2, NoticeType
  <2>4. handler' \in [Calls -> [Tries -> Places]]
    BY <1>8 DEF Raise, TypeOK, Places
  <2>5. QED
    BY <1>8, <2>1, <2>2, <2>3, <2>4 DEF TypeOK, Raise
<1>9. ASSUME NEW a \in Alerts,
             Acknowledge(a) \/ \E how \in {"resolved", "false_alarm"} : Resolve(a, how)
      PROVE  TypeOK'
  BY <1>9 DEF TypeOK, Acknowledge, Resolve, AlertStates
<1>10. ASSUME NEW c \in Calls, NEW k \in Tries, Answer(c, k) PROVE TypeOK'
  <2>1. PICK a \in Alerts :
           /\ \/ notice' = [notice EXCEPT ![a].at = "looking", ![a].promised = contact]
              \/ notice' = [notice EXCEPT ![a].at = "looking"]
           /\ faults' \in {faults, faults + 1}
    BY <1>10 DEF Answer, Fault
  <2>2. notice' \in [Alerts -> Notices]
    <3>1. \/ notice' = [notice EXCEPT ![a] = [notice[a] EXCEPT !.at = "looking", !.promised = contact]]
          \/ notice' = [notice EXCEPT ![a] = [notice[a] EXCEPT !.at = "looking"]]
      BY <2>1 DEF TypeOK
    <3>2. /\ [notice[a] EXCEPT !.at = "looking", !.promised = contact] \in Notices
          /\ [notice[a] EXCEPT !.at = "looking"] \in Notices
      BY NoticeChanges DEF TypeOK
    <3>3. QED
      BY <3>1, <3>2, NoticeType
  <2>3. QED
    BY <1>10, <2>1, <2>2, EndsType DEF TypeOK, Answer
<1>11. ASSUME NEW a \in Alerts, Notify(a) PROVE TypeOK'
  <2>1. \E next \in Notices : Notifies(a, next)
    <3>1. notice[a] \in Notices
      BY DEF TypeOK
    <3>2. QED
      BY <1>11, <3>1 DEF Notify, LookUp, SendWhatsApp, SendSms, MarkNotified, NoticeFails, Notices
  <2>2. notice' \in [Alerts -> Notices]
    BY <2>1, NoticeType DEF Notifies
  <2>3. faults' \in {faults, faults + 1}
    BY <1>11 DEF Notify, LookUp, SendWhatsApp, SendSms, MarkNotified, NoticeFails, Fault
  <2>4. QED
    BY <2>1, <2>2, <2>3 DEF TypeOK, Notifies
<1>12. CASE UNCHANGED vars
  BY <1>12 DEF TypeOK, vars, row, sos
<1>13. QED
  BY <1>1, <1>2, <1>3, <1>4, <1>5, <1>6, <1>7, <1>8, <1>9, <1>10, <1>11, <1>12 DEF Next, Serve

-----------------------------------------------------------------------------
(* Deciding *)

\* A step in which nobody passes a check and nothing is written keeps every decision.
LEMMA NobodyDecides ==
    ASSUME IInv, UNCHANGED <<rating, tally, delivery.delivered, raced>>,
           \A c \in Calls, k \in Tries : Decided(c, k)' => Decided(c, k) /\ Job(c)' = Job(c)
    PROVE  Alone' /\ Fresh' /\ RatingsAddUp'
BY DEF IInv, Alone, Fresh, RatingsAddUp

\* A handler that ends leaves the others where they are.
LEMMA EndsKeeps ==
    ASSUME TypeOK, NEW c \in Calls, NEW k \in Tries, Ends(c, k)
    PROVE  \A d \in Calls, j \in Tries :
              /\ Job(d)' = Job(d)
              /\ Decided(d, j)' <=> Decided(d, j) /\ ~(d = c /\ j = k)
BY DEF TypeOK, Ends, Job, Decided

\* Nor does one that passes its check disturb them.
LEMMA ProceedsKeeps ==
    ASSUME TypeOK, NEW c \in Calls, NEW k \in Tries, Proceeds(c, k)
    PROVE  \A d \in Calls, j \in Tries :
              /\ Job(d)' = Job(d)
              /\ Decided(d, j)' <=> Decided(d, j) \/ (d = c /\ j = k)
BY DEF TypeOK, Proceeds, Job, Decided

\* Passing the check, with the column still as the check wants it.
LEMMA PassesCheck ==
    ASSUME IInv, NEW c \in Calls, NEW k \in Tries, Proceeds(c, k), ~Decided(c, k),
           UNCHANGED <<rating, tally, delivery>>,
           Job(c).on \in People => rating[Job(c).on] = 0,
           Job(c).on = "goods" => ~delivery.delivered
    PROVE  Alone' /\ Fresh' /\ RatingsAddUp'
<1> DEFINE x == Job(c).on
<1>0. TypeOK
  BY DEF IInv
<1>1. \A d \in Calls, j \in Tries :
         /\ Job(d)' = Job(d)
         /\ Decided(d, j)' <=> Decided(d, j) \/ (d = c /\ j = k)
  BY <1>0, ProceedsKeeps
<1>2. raced \subseteq raced'
  BY DEF Proceeds
<1>3. ASSUME NEW d \in Calls, NEW j \in Tries, Decided(d, j), Job(d).on = x
      PROVE  x \in raced'
  BY <1>3 DEF Proceeds, Decided
<1>4. Alone'
  BY <1>1, <1>2, <1>3 DEF IInv, Alone
<1>5. Fresh'
  BY <1>1, <1>2 DEF IInv, Fresh
<1>6. RatingsAddUp'
  BY <1>2 DEF IInv, RatingsAddUp
<1>7. QED
  BY <1>4, <1>5, <1>6

\* The invariant is inductive.
LEMMA InvStep == IInv /\ [Next]_vars => IInv'
<1> SUFFICES ASSUME IInv, [Next]_vars PROVE Alone' /\ Fresh' /\ RatingsAddUp'
  BY TypeStep DEF IInv
<1>0. TypeOK
  BY DEF IInv
<1>1. CASE Complete \/ Collect \/ MarkFailed \/ SaveContact
  BY <1>1, <1>0, NobodyDecides
     DEF Complete, Collect, MarkFailed, SaveContact, Decided, Job, TypeOK, Delivery
<1>2. ASSUME NEW c \in Calls, TimesOut(c) PROVE Alone' /\ Fresh' /\ RatingsAddUp'
  <2>1. \A d \in Calls, k \in Tries : Decided(d, k)' => Decided(d, k) /\ Job(d)' = Job(d)
    <3>1. \A d \in Calls : Job(d)' = Job(d)
      <4>1. \E n : call' = [call EXCEPT ![c].waits = n]
        BY <1>2, <1>0 DEF TimesOut, TypeOK
      <4>2. \A d \in Calls : call'[d].job = call[d].job
        BY <1>0, <4>1 DEF TypeOK
      <4>3. QED
        BY <4>2 DEF Job
    <3>2. \A d \in Calls, k \in Tries : Decided(d, k)' => Decided(d, k)
      <4>1. \/ handler' = [handler EXCEPT ![c] = [@ EXCEPT ![call[c].waits + 1] = "sent"]]
            \/ handler' = handler
        BY <1>2 DEF TimesOut
      <4>2. QED
        BY <4>1, <1>0 DEF Decided, TypeOK
    <3>3. QED
      BY <3>1, <3>2
  <2>2. QED
    BY <1>2, <2>1, NobodyDecides DEF TimesOut, row
<1>3. ASSUME NEW c \in Calls, NEW job \in Jobs, Press(c, job)
      PROVE  Alone' /\ Fresh' /\ RatingsAddUp'
  <2>1. \A d \in Calls, k \in Tries : Decided(d, k)' => Decided(d, k) /\ Job(d)' = Job(d)
    BY <1>3, <1>0 DEF Press, Quiet, Decided, Job, TypeOK
  <2>2. QED
    BY <1>3, <2>1, NobodyDecides DEF Press, row
<1>4. ASSUME NEW c \in Calls, NEW k \in Tries, Ends(c, k), UNCHANGED <<rating, tally, delivery, raced>>
      PROVE  Alone' /\ Fresh' /\ RatingsAddUp'
  BY <1>4, <1>0, EndsKeeps, NobodyDecides
<1>5. ASSUME NEW c \in Calls, NEW k \in Tries, CheckRating(c, k)
      PROVE  Alone' /\ Fresh' /\ RatingsAddUp'
  <2>1. Job(c).on \in People /\ Job(c).on # "goods" /\ ~Decided(c, k)
    BY <1>5, <1>0, JobType DEF CheckRating, At, Decided, People
  <2>2. QED
    BY <1>4, <1>5, <2>1, PassesCheck DEF CheckRating, row
<1>6. ASSUME NEW c \in Calls, NEW k \in Tries, CheckCode(c, k)
      PROVE  Alone' /\ Fresh' /\ RatingsAddUp'
  <2>1. Job(c).on \notin People /\ ~Decided(c, k)
    BY <1>6, <1>0, JobType DEF CheckCode, At, Decided, People
  <2>2. QED
    BY <1>4, <1>6, <2>1, PassesCheck DEF CheckCode, row
<1>7. ASSUME NEW c \in Calls, NEW k \in Tries, WriteRating(c, k)
      PROVE  Alone' /\ Fresh' /\ RatingsAddUp'
  <2> DEFINE p == Job(c).on
  <2>1. p \in People /\ Job(c).with \in 1..5 /\ Decided(c, k)
    BY <1>7, <1>0, JobType DEF WriteRating, At, Decided
  <2>2. p \notin raced => rating[p] = 0
    BY <2>1 DEF IInv, Fresh
  <2>3. /\ rating' = [rating EXCEPT ![p] = Job(c).with]
        /\ tally' = [tally EXCEPT ![p] = [sum |-> @.sum + Job(c).with, count |-> @.count + 1]]
        /\ UNCHANGED <<delivery, raced>>
    BY <1>7 DEF WriteRating
  <2>4. \A d \in Calls, j \in Tries :
           /\ Job(d)' = Job(d)
           /\ Decided(d, j)' <=> Decided(d, j) /\ ~(d = c /\ j = k)
    BY <1>7, <1>0, EndsKeeps DEF WriteRating
  <2>5. Alone'
    BY <2>3, <2>4 DEF IInv, Alone
  <2>6. Fresh'
    <3> SUFFICES ASSUME NEW d \in Calls, NEW j \in Tries, Decided(d, j)', Job(d).on \notin raced
                 PROVE  /\ Job(d).on \in People => rating'[Job(d).on] = 0
                        /\ Job(d).on = "goods" => ~delivery.delivered
      BY <2>3, <2>4 DEF Fresh
    <3>1. Decided(d, j) /\ Job(d).on # p
      BY <2>1, <2>4 DEF IInv, Alone
    <3>2. QED
      BY <3>1, <2>3, <1>0 DEF IInv, Fresh, TypeOK
  <2>7. RatingsAddUp'
    <3> SUFFICES ASSUME NEW q \in People, q \notin raced
                 PROVE  /\ tally'[q].sum = rating'[q]
                        /\ tally'[q].count = IF rating'[q] = 0 THEN 0 ELSE 1
      BY <2>3 DEF RatingsAddUp
    <3>1. /\ tally[q].sum = rating[q]
          /\ tally[q].count = IF rating[q] = 0 THEN 0 ELSE 1
      BY DEF IInv, RatingsAddUp
    <3>2. CASE q = p
      BY <3>1, <3>2, <2>1, <2>2, <2>3, <1>0 DEF TypeOK
    <3>3. CASE q # p
      BY <3>1, <3>3, <2>1, <2>3, <1>0 DEF TypeOK
    <3>4. QED
      BY <3>2, <3>3
  <2>8. QED
    BY <2>5, <2>6, <2>7
<1>8. ASSUME NEW c \in Calls, NEW k \in Tries, WriteDelivered(c, k)
      PROVE  Alone' /\ Fresh' /\ RatingsAddUp'
  <2>1. Job(c).on = "goods" /\ Job(c).on \notin People /\ Decided(c, k)
    BY <1>8, <1>0, JobType DEF WriteDelivered, At, Decided, People
  <2>2. UNCHANGED <<rating, tally, raced>>
    BY <1>8 DEF WriteDelivered
  <2>3. \A d \in Calls, j \in Tries :
           /\ Job(d)' = Job(d)
           /\ Decided(d, j)' <=> Decided(d, j) /\ ~(d = c /\ j = k)
    BY <1>8, <1>0, EndsKeeps DEF WriteDelivered
  <2>4. Alone'
    BY <2>2, <2>3 DEF IInv, Alone
  <2>5. Fresh'
    BY <2>1, <2>2, <2>3 DEF IInv, Fresh, Alone
  <2>6. QED
    BY <2>2, <2>4, <2>5 DEF IInv, RatingsAddUp
<1>9. ASSUME NEW a \in Alerts,
             Acknowledge(a) \/ \E how \in {"resolved", "false_alarm"} : Resolve(a, how)
      PROVE  Alone' /\ Fresh' /\ RatingsAddUp'
  BY <1>9, NobodyDecides DEF Acknowledge, Resolve, Decided, Job
<1>10. ASSUME NEW c \in Calls, NEW k \in Tries, Raise(c, k)
       PROVE  Alone' /\ Fresh' /\ RatingsAddUp'
  <2>1. handler' = [handler EXCEPT ![c][k] = "raised"] /\ UNCHANGED <<call, rating, tally, delivery, raced>>
    BY <1>10 DEF Raise
  <2>2. \A d \in Calls, j \in Tries : Decided(d, j)' => Decided(d, j) /\ Job(d)' = Job(d)
    BY <2>1, <1>0 DEF Decided, Job, TypeOK
  <2>3. QED
    BY <2>1, <2>2, NobodyDecides
<1>11. ASSUME NEW a \in Alerts, Notify(a) PROVE Alone' /\ Fresh' /\ RatingsAddUp'
  <2>1. UNCHANGED <<call, handler, rating, tally, delivery, raced>>
    BY <1>11 DEF Notify, LookUp, SendWhatsApp, SendSms, MarkNotified, NoticeFails, Notifies
  <2>2. QED
    BY <2>1, NobodyDecides DEF Decided, Job
<1>12. CASE UNCHANGED vars
  BY <1>12, NobodyDecides DEF vars, row, Decided, Job
<1>13. QED
  BY <1>1, <1>2, <1>3, <1>4, <1>5, <1>6, <1>7, <1>8, <1>9, <1>10, <1>11, <1>12
     DEF Next, Serve, Answer, Fails

LEMMA InvHolds == Spec => []IInv
<1>1. Init => IInv
  <2> SUFFICES ASSUME Init PROVE IInv
    OBVIOUS
  <2>1. TypeOK
    BY DEF Init, TypeOK, Delivery, AlertStates, Notices, NoNotice, Places
  <2>2. Alone /\ Fresh
    BY DEF Init, Alone, Fresh, Decided
  <2>3. RatingsAddUp
    BY DEF Init, RatingsAddUp
  <2>4. QED
    BY <2>1, <2>2, <2>3 DEF IInv
<1>2. QED
  BY <1>1, InvStep, PTL DEF Spec

-----------------------------------------------------------------------------
\* The average moves once per ride and side, by the stars on the ride, for any number of
\* presses, resends and failures: rate's check and its transaction, where no two calls
\* decide together.
THEOREM AverageMovesOnce == Spec => []RatingsAddUp
<1>1. IInv => RatingsAddUp
  BY DEF IInv
<1>2. QED
  BY <1>1, InvHolds, PTL

\* The first confirmation of a hand-over stands: confirmDelivery answers a second one
\* without writing, unless the two passed the check together.
THEOREM FirstReceiverStands == Spec => ConfirmationStands
<1>1. IInv /\ [Next]_vars =>
         [delivery.delivered /\ "goods" \notin raced => delivery'.to = delivery.to]_vars
  <2> SUFFICES ASSUME IInv, Next, delivery.delivered, "goods" \notin raced
               PROVE  delivery'.to = delivery.to
    OBVIOUS
  <2>0. TypeOK
    BY DEF IInv
  <2>1. ASSUME NEW c \in Calls, NEW k \in Tries, WriteDelivered(c, k) PROVE FALSE
    <3>1. Job(c).on = "goods" /\ Decided(c, k)
      BY <2>1, <2>0, JobType DEF WriteDelivered, At, Decided
    <3>2. QED
      BY <3>1 DEF IInv, Fresh
  <2>2. CASE Collect \/ MarkFailed
    BY <2>2, <2>0 DEF Collect, MarkFailed, TypeOK, Delivery
  <2>3. ASSUME NEW c \in Calls, NEW k \in Tries, Serve(c, k) \/ Fails(c, k)
        PROVE  WriteDelivered(c, k) \/ UNCHANGED delivery
    BY <2>3 DEF Serve, Fails, CheckRating, WriteRating, CheckCode, Raise, Answer, row
  <2>4. ASSUME NEW a \in Alerts,
               Notify(a) \/ Acknowledge(a) \/ \E how \in {"resolved", "false_alarm"} : Resolve(a, how)
        PROVE  UNCHANGED delivery
    BY <2>4 DEF Notify, LookUp, SendWhatsApp, SendSms, MarkNotified, NoticeFails, Notifies,
                Acknowledge, Resolve
  <2>5. ASSUME NEW c \in Calls, TimesOut(c) \/ \E job \in Jobs : Press(c, job)
        PROVE  UNCHANGED delivery
    BY <2>5 DEF TimesOut, Press, row
  <2>6. CASE Complete \/ SaveContact
    BY <2>6 DEF Complete, SaveContact
  <2>7. QED
    BY <2>1, <2>2, <2>3, <2>4, <2>5, <2>6 DEF Next
<1>2. QED
  BY <1>1, InvHolds, PTL DEF Spec, ConfirmationStands

\* An alarm that nobody raised has no row yet.
FreshRow == \A a \in Alerts : notice[a].at = "unused" => alerts[a] = "none"

LEMMA RowsAreFresh == Spec => []FreshRow
<1>1. Init => FreshRow
  BY DEF Init, FreshRow
<1>2. TypeOK /\ FreshRow /\ [Next]_vars => FreshRow'
  <2> SUFFICES ASSUME TypeOK, FreshRow, [Next]_vars PROVE FreshRow'
    OBVIOUS
  <2>1. ASSUME NEW c \in Calls, NEW k \in Tries, Raise(c, k) PROVE FreshRow'
    <3>1. PICK a \in Alerts :
             /\ notice' = [notice EXCEPT ![a].at = "raised", ![a].by = <<c, k>>]
             /\ alerts' = alerts \/ alerts' = [alerts EXCEPT ![a] = "open"]
      BY <2>1 DEF Raise
    <3>2. notice'[a].at = "raised"
      BY <3>1 DEF TypeOK, Notices
    <3>3. \A b \in Alerts : b # a => notice'[b] = notice[b] /\ alerts'[b] = alerts[b]
      BY <3>1 DEF TypeOK
    <3>4. QED
      BY <3>2, <3>3 DEF FreshRow
  <2>2. ASSUME NEW c \in Calls, NEW k \in Tries, Answer(c, k) \/ Fails(c, k) PROVE FreshRow'
    <3>1. UNCHANGED alerts
      BY <2>2 DEF Answer, Fails
    <3>2. \A a \in Alerts : notice'[a].at = "unused" => notice[a].at = "unused"
      <4>1. CASE Answer(c, k)
        <5>1. PICK a \in Alerts :
                 \/ notice' = [notice EXCEPT ![a].at = "looking", ![a].promised = contact]
                 \/ notice' = [notice EXCEPT ![a].at = "looking"]
          BY <4>1 DEF Answer
        <5>2. notice'[a].at = "looking" /\ \A b \in Alerts : b # a => notice'[b] = notice[b]
          BY <5>1 DEF TypeOK, Notices
        <5>3. QED
          BY <5>2
      <4>2. CASE Fails(c, k)
        <5> DEFINE stops(a) == notice[a].at = "raised" /\ notice[a].by = <<c, k>>
        <5>1. notice' = [a \in Alerts |-> IF stops(a) THEN [notice[a] EXCEPT !.at = "done"] ELSE notice[a]]
          BY <4>2 DEF Fails
        <5>2. \A a \in Alerts : [notice[a] EXCEPT !.at = "done"].at = "done"
          BY DEF TypeOK, Notices
        <5>3. QED
          BY <5>1, <5>2
      <4>3. QED
        BY <2>2, <4>1, <4>2
    <3>3. QED
      BY <3>1, <3>2 DEF FreshRow
  <2>3. ASSUME NEW a \in Alerts, Notify(a) PROVE FreshRow'
    <3>0. notice[a] \in Notices
      BY DEF TypeOK
    <3>1. \A x, y \in BOOLEAN, w \in {"messaging", "texting", "marking", "done"} :
             /\ [notice[a] EXCEPT !.at = w].at = w
             /\ [notice[a] EXCEPT !.at = w, !.reached = x].at = w
             /\ [notice[a] EXCEPT !.at = w, !.marked = y].at = w
      BY <3>0 DEF Notices
    <3>2. UNCHANGED alerts
      BY <2>3 DEF Notify, LookUp, SendWhatsApp, SendSms, MarkNotified, NoticeFails, Notifies
    <3>3. ASSUME NEW next, notice' = [notice EXCEPT ![a] = next], next.at # "unused" PROVE FreshRow'
      BY <3>2, <3>3 DEF FreshRow, TypeOK
    <3>4. CASE LookUp(a)
      BY <3>1, <3>3, <3>4 DEF LookUp, Notifies
    <3>5. CASE SendWhatsApp(a)
      BY <3>1, <3>3, <3>5 DEF SendWhatsApp, Notifies
    <3>6. CASE SendSms(a)
      BY <3>1, <3>3, <3>6 DEF SendSms, Notifies
    <3>7. CASE MarkNotified(a)
      BY <3>1, <3>3, <3>7 DEF MarkNotified, Notifies
    <3>8. CASE NoticeFails(a)
      BY <3>1, <3>3, <3>8 DEF NoticeFails, Notifies
    <3>9. QED
      BY <2>3, <3>4, <3>5, <3>6, <3>7, <3>8 DEF Notify
  <2>4. CASE UNCHANGED notice /\ \A a \in Alerts : alerts[a] = "none" => alerts'[a] = "none"
    BY <2>4 DEF FreshRow
  <2>5. CASE \E a \in Alerts : Acknowledge(a) \/ \E how \in {"resolved", "false_alarm"} : Resolve(a, how)
    BY <2>4, <2>5 DEF Acknowledge, Resolve, TypeOK
  <2>6. QED
    BY <2>1, <2>2, <2>3, <2>4, <2>5
       DEF Next, Serve, Complete, Collect, MarkFailed, SaveContact, TimesOut, Press, CheckRating,
           WriteRating, CheckCode, WriteDelivered, vars, row, sos
<1>3. IInv => TypeOK
  BY DEF IInv
<1>4. QED
  BY <1>1, <1>2, <1>3, InvHolds, PTL DEF Spec

\* An alert that an administrator closed stays closed: the guard of acknowledge asks for
\* an open one, raise takes a fresh row, and resolve writes one of the two closing words.
THEOREM ClosedAlertsStayClosed == Spec => ResolvedStays
<1>1. IInv /\ FreshRow /\ [Next]_vars =>
         [\A a \in Alerts : alerts[a] \in {"resolved", "false_alarm"} =>
              alerts'[a] \in {"resolved", "false_alarm"}]_vars
  <2> SUFFICES ASSUME TypeOK, FreshRow, Next, NEW a \in Alerts, alerts[a] \in {"resolved", "false_alarm"}
               PROVE  alerts'[a] \in {"resolved", "false_alarm"}
    BY DEF IInv
  <2>1. ASSUME NEW c \in Calls, NEW k \in Tries, Raise(c, k)
        PROVE  alerts'[a] \in {"resolved", "false_alarm"}
    BY <2>1 DEF Raise, TypeOK, FreshRow
  <2>2. ASSUME NEW b \in Alerts, Acknowledge(b) \/ \E how \in {"resolved", "false_alarm"} : Resolve(b, how)
        PROVE  alerts'[a] \in {"resolved", "false_alarm"}
    BY <2>2 DEF Acknowledge, Resolve, TypeOK
  <2>3. ASSUME NEW c \in Calls, NEW k \in Tries, Serve(c, k) \/ Fails(c, k)
        PROVE  Raise(c, k) \/ UNCHANGED alerts
    BY <2>3 DEF Serve, Fails, CheckRating, WriteRating, CheckCode, WriteDelivered, Answer, row, sos
  <2>4. ASSUME NEW b \in Alerts, Notify(b) PROVE UNCHANGED alerts
    BY <2>4 DEF Notify, LookUp, SendWhatsApp, SendSms, MarkNotified, NoticeFails, Notifies
  <2>5. ASSUME NEW c \in Calls, TimesOut(c) \/ \E job \in Jobs : Press(c, job)
        PROVE  UNCHANGED alerts
    BY <2>5 DEF TimesOut, Press, row, sos
  <2>6. CASE Complete \/ Collect \/ MarkFailed \/ SaveContact
    BY <2>6 DEF Complete, Collect, MarkFailed, SaveContact, sos
  <2>7. QED
    BY <2>1, <2>2, <2>3, <2>4, <2>5, <2>6 DEF Next
<1>2. QED
  BY <1>1, InvHolds, RowsAreFresh, PTL DEF Spec, ResolvedStays

-----------------------------------------------------------------------------
(* The contact *)

\* A step that leaves the alerts' notices and the contact alone leaves Heard.
LEMMA HeardStays ==
    ASSUME TypeOK, Heard, UNCHANGED notice, contact => contact', faults' \in {faults, faults + 1}
    PROVE  Heard'
BY DEF Heard, TypeOK

\* A step that fails leaves nothing to be made good.
LEMMA FaultExcuses ==
    ASSUME TypeOK, Fault
    PROVE  Heard'
BY DEF Heard, TypeOK, Fault

\* One notice goes on, and what it then says is true.
LEMMA NoticeGoesOn ==
    ASSUME TypeOK, Heard, NEW a \in Alerts, NEW next \in Notices,
           notice' = [notice EXCEPT ![a] = next], UNCHANGED contact, UNCHANGED faults,
           faults = 0 =>
               /\ next.promised => contact
               /\ next.at = "marking" => next.reached
               /\ next.at = "done" /\ next.promised => next.reached
               /\ next.marked => next.at = "done" /\ next.reached
    PROVE  Heard'
<1> SUFFICES ASSUME faults = 0, NEW b \in Alerts
             PROVE  /\ notice'[b].promised => contact
                    /\ notice'[b].at = "marking" => notice'[b].reached
                    /\ notice'[b].at = "done" /\ notice'[b].promised => notice'[b].reached
                    /\ notice'[b].marked => notice'[b].at = "done" /\ notice'[b].reached
  BY DEF Heard
<1>1. CASE b = a
  <2>1. notice'[b] = next
    BY <1>1 DEF TypeOK
  <2>2. QED
    BY <2>1
<1>2. CASE b # a
  <2>1. notice'[b] = notice[b]
    BY <1>2 DEF TypeOK
  <2>2. QED
    BY <2>1 DEF Heard
<1>3. QED
  BY <1>1, <1>2

LEMMA HeardStep == TypeOK /\ Heard /\ [Next]_vars => Heard'
<1> SUFFICES ASSUME TypeOK, Heard, [Next]_vars PROVE Heard'
  OBVIOUS
<1>0. /\ \A a \in Alerts : notice[a] \in Notices
      /\ contact \in BOOLEAN /\ faults \in Nat
  BY DEF TypeOK
<1>1. ASSUME NEW c \in Calls, NEW k \in Tries, Raise(c, k) PROVE Heard'
  <2>1. PICK a \in Alerts :
           /\ notice[a].at = "unused"
           /\ notice' = [notice EXCEPT ![a].at = "raised", ![a].by = <<c, k>>]
           /\ Fault \/ UNCHANGED faults
    BY <1>1 DEF Raise
  <2> DEFINE next == [notice[a] EXCEPT !.at = "raised", !.by = <<c, k>>]
  <2>2. CASE Fault
    BY <2>2, FaultExcuses
  <2>3. CASE UNCHANGED faults
    <3>1. notice' = [notice EXCEPT ![a] = next]
      BY <2>1 DEF TypeOK
    <3>2. /\ next \in Notices /\ next.at = "raised"
          /\ next.promised = notice[a].promised /\ next.marked = notice[a].marked
      BY <1>0 DEF Notices
    <3>3. faults = 0 => (next.promised => contact) /\ ~next.marked
      BY <2>1, <3>2 DEF Heard
    <3> HIDE DEF next
    <3>4. QED
      BY <1>1, <2>3, <3>1, <3>2, <3>3, NoticeGoesOn DEF Raise
  <2>4. QED
    BY <2>1, <2>2, <2>3
<1>2. ASSUME NEW c \in Calls, NEW k \in Tries, Answer(c, k) PROVE Heard'
  <2>1. PICK a \in Alerts :
           /\ notice[a].at = "raised"
           /\ \/ notice' = [notice EXCEPT ![a].at = "looking", ![a].promised = contact] /\ UNCHANGED faults
              \/ Fault
    BY <1>2 DEF Answer
  <2> DEFINE next == [notice[a] EXCEPT !.at = "looking", !.promised = contact]
  <2>2. CASE Fault
    BY <2>2, FaultExcuses
  <2>3. CASE ~Fault
    <3>1. notice' = [notice EXCEPT ![a] = next] /\ UNCHANGED faults
      BY <2>1, <2>3 DEF TypeOK
    <3>2. /\ next \in Notices /\ next.at = "looking" /\ next.promised = contact
          /\ next.marked = notice[a].marked
      BY <1>0 DEF Notices
    <3>3. faults = 0 => ~next.marked
      BY <2>1, <3>2 DEF Heard
    <3> HIDE DEF next
    <3>4. QED
      BY <1>2, <3>1, <3>2, <3>3, NoticeGoesOn DEF Answer
  <2>4. QED
    BY <2>2, <2>3
<1>3. ASSUME NEW a \in Alerts, LookUp(a) PROVE Heard'
  <2> DEFINE next == [notice[a] EXCEPT !.at = IF contact THEN "messaging" ELSE "done"]
  <2>1. next \in Notices
    BY <1>0 DEF Notices
  <2>2. /\ next.at = IF contact THEN "messaging" ELSE "done"
        /\ next.promised = notice[a].promised /\ next.marked = notice[a].marked
    BY <1>0 DEF Notices
  <2>3. faults = 0 => (next.promised => contact) /\ ~next.marked
    BY <1>3, <2>2 DEF Heard, LookUp
  <2>4. notice' = [notice EXCEPT ![a] = next] /\ UNCHANGED <<contact, faults>>
    BY <1>3 DEF LookUp, Notifies
  <2> HIDE DEF next
  <2>5. QED
    BY <2>1, <2>2, <2>3, <2>4, NoticeGoesOn
<1>4. ASSUME NEW a \in Alerts, SendWhatsApp(a) PROVE Heard'
  <2>1. PICK taken \in BOOLEAN : Notifies(a, [notice[a] EXCEPT !.at = "texting", !.reached = taken])
    BY <1>4 DEF SendWhatsApp
  <2> DEFINE next == [notice[a] EXCEPT !.at = "texting", !.reached = taken]
  <2>2. /\ next \in Notices /\ next.at = "texting"
        /\ next.promised = notice[a].promised /\ next.marked = notice[a].marked
    BY <1>0 DEF Notices
  <2>3. faults = 0 => (next.promised => contact) /\ ~next.marked
    BY <1>4, <2>2 DEF Heard, SendWhatsApp
  <2>4. notice' = [notice EXCEPT ![a] = next] /\ UNCHANGED <<contact, faults>>
    BY <1>4, <2>1 DEF SendWhatsApp, Notifies
  <2> HIDE DEF next
  <2>5. QED
    BY <2>2, <2>3, <2>4, NoticeGoesOn
<1>5. ASSUME NEW a \in Alerts, SendSms(a) PROVE Heard'
  <2> DEFINE next == [notice[a] EXCEPT !.at = "marking", !.reached = TRUE]
  <2>1. CASE Fault
    BY <2>1, FaultExcuses
  <2>2. CASE ~Fault
    <3>1. /\ next \in Notices /\ next.at = "marking" /\ next.reached
          /\ next.promised = notice[a].promised /\ next.marked = notice[a].marked
      BY <1>0 DEF Notices
    <3>2. faults = 0 => (next.promised => contact) /\ ~next.marked
      BY <1>5, <3>1 DEF Heard, SendSms
    <3>3. notice' = [notice EXCEPT ![a] = next] /\ UNCHANGED <<contact, faults>>
      BY <1>5, <2>2 DEF SendSms, Notifies
    <3> HIDE DEF next
    <3>4. QED
      BY <3>1, <3>2, <3>3, NoticeGoesOn
  <2>3. QED
    BY <2>1, <2>2
<1>6. ASSUME NEW a \in Alerts, MarkNotified(a) PROVE Heard'
  <2> DEFINE next == [notice[a] EXCEPT !.at = "done", !.marked = (alerts[a] # "none")]
  <2>1. /\ next \in Notices /\ next.at = "done"
        /\ next.promised = notice[a].promised /\ next.reached = notice[a].reached
    BY <1>0 DEF Notices
  <2>2. faults = 0 => (next.promised => contact) /\ next.reached
    BY <1>6, <2>1 DEF Heard, MarkNotified
  <2>3. notice' = [notice EXCEPT ![a] = next] /\ UNCHANGED <<contact, faults>>
    BY <1>6 DEF MarkNotified, Notifies
  <2> HIDE DEF next
  <2>4. QED
    BY <2>1, <2>2, <2>3, NoticeGoesOn
<1>7. ASSUME Fault PROVE Heard'
  BY <1>7, FaultExcuses
<1>8. CASE /\ UNCHANGED notice
           /\ contact => contact'
           /\ faults' \in {faults, faults + 1}
  BY <1>8, HeardStays
<1>9. CASE UNCHANGED vars
  BY <1>8, <1>9 DEF vars, row, sos
<1>10. CASE Next
  <2>1. ASSUME NEW c \in Calls, NEW k \in Tries, Serve(c, k) \/ Fails(c, k) PROVE Heard'
    BY <2>1, <1>1, <1>2, <1>7, <1>8
       DEF Serve, Fails, CheckRating, WriteRating, CheckCode, WriteDelivered, row, sos
  <2>2. ASSUME NEW a \in Alerts,
               Notify(a) \/ Acknowledge(a) \/ \E how \in {"resolved", "false_alarm"} : Resolve(a, how)
        PROVE  Heard'
    BY <2>2, <1>3, <1>4, <1>5, <1>6, <1>7, <1>8 DEF Notify, NoticeFails, Acknowledge, Resolve
  <2>3. ASSUME NEW c \in Calls, TimesOut(c) \/ \E job \in Jobs : Press(c, job) PROVE Heard'
    BY <2>3, <1>8 DEF TimesOut, Press, row, sos
  <2>4. CASE Complete \/ Collect \/ MarkFailed \/ SaveContact
    BY <2>4, <1>8 DEF Complete, Collect, MarkFailed, SaveContact, sos
  <2>5. QED
    BY <1>10, <2>1, <2>2, <2>3, <2>4 DEF Next
<1>11. QED
  BY <1>9, <1>10

\* While nothing fails, the contact an answer speaks of is told and a row that says so is
\* right, for any number of alarms, resends and administrators: raise and
\* notifyEmergencyContact, which find the contact each by itself, as nothing takes a
\* saved contact away.
THEOREM ContactIsTold == Spec => []ContactHears
<1>1. Init => Heard
  BY DEF Init, Heard, NoNotice
<1>2. Heard => ContactHears
  BY DEF Heard, ContactHears
<1>3. IInv => TypeOK
  BY DEF IInv
<1>4. Spec => []Heard
  BY <1>1, <1>3, HeardStep, InvHolds, PTL DEF Spec
<1>5. QED
  BY <1>2, <1>4, PTL
=============================================================================
