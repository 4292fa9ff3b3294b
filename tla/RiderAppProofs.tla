---------------------------- MODULE RiderAppProofs ----------------------------
(***************************************************************************)
(* Theorems about RiderApp, for any number of rides, drivers, presses,     *)
(* tries and breaks: one press makes one ride, and what the app, the       *)
(* search and a driver do to the rides table is what RideLifecycle allows. *)
(*                                                                         *)
(* The second needs to know that a search at work has a row: its handler   *)
(* has answered (Searches), a try is served once (Untried), and a row has  *)
(* a key from the moment it exists (Rows).                                 *)
(***************************************************************************)
EXTENDS RiderApp, TLAPS

Statuses == {"none", "requested", "searching", "accepted", "arrived", "in_progress",
             "completed", "cancelled", "expired"}
Request  == [at : {"idle", "sent", "inserting", "answered", "done"},
             ride : Rides \cup {NoRide}, status : Statuses]
Places   == {"idle", "starting", "joining", "writing", "looking", "over"}
Screen   == [ride : Rides \cup {NoRide}, status : Statuses, requesting : BOOLEAN, presses : Nat]
Pushes   == [ride : Rides, status : Statuses]

\* Every variable the theorems are about has its type.
TypeOK ==
    /\ status \in [Rides -> Statuses]
    /\ key \in [Rides -> Nat]
    /\ app \in Screen
    /\ awaiting \in [Presses -> Nat]
    /\ handler \in [Presses -> [Tries -> Request]]
    /\ loop \in [Presses -> [Tries -> Places]]
    /\ rooms \subseteq Rides /\ found \subseteq Rides /\ pending \subseteq Pushes

\* A row and its key come in one statement.
Rows == \A r \in Rides : key[r] = 0 <=> status[r] = "none"

\* Presses to come and tries to come have not reached the server.
Untried ==
    \A p \in Presses :
        /\ p > app.presses => awaiting[p] = 0
        /\ \A k \in Tries :
              p > app.presses \/ (awaiting[p] # 0 /\ k > awaiting[p]) => handler[p][k].at = "idle"

\* A search starts with the answer, and looks for a ride that has a row.
Searches ==
    \A p \in Presses, k \in Tries :
        loop[p][k] # "idle" =>
            /\ handler[p][k].at \in {"answered", "done"}
            /\ handler[p][k].ride \in Rides
            /\ status[handler[p][k].ride] # "none"

IInv == TypeOK /\ Rows /\ Untried /\ Searches /\ OnePressOneRide

\* A step of the table as RideLifecycle has them.
TableStep == [Life!LNext]_table

-----------------------------------------------------------------------------
(* The table *)

\* What the moves have in common: rows are never taken away, and a row appears only when
\* a ride is opened.
LEMMA MovesKeepRows ==
    ASSUME TypeOK, NEW r \in Rides,
           \/ Life!BackToSearch(r) \/ Life!GiveUp(r)
           \/ \E d \in Drivers : Life!Assign(r, d)
    PROVE  /\ status' \in [Rides -> Statuses]
           /\ \A q \in Rides : status'[q] = "none" <=> status[q] = "none"
           /\ TableStep
<1>1. status[r] # "none"
  BY DEF Life!BackToSearch, Life!GiveUp, Life!Assign, Life!Move, Statuses
<1>2. PICK s \in Statuses \ {"none"} : status' = [status EXCEPT ![r] = s]
  BY DEF Life!BackToSearch, Life!GiveUp, Life!Assign, Life!Move, Statuses
<1>3. TableStep
  BY DEF TableStep, Life!LNext
<1>4. QED
  BY <1>1, <1>2, <1>3 DEF TypeOK

\* A row that is opened is the next free one.
LEMMA NextRideIsFree ==
    ASSUME TypeOK, \E r \in Rides : key[r] = 0
    PROVE  NextRide \in Rides /\ key[NextRide] = 0
BY DEF NextRide

\* Steps that leave the table, its keys and the searches alone keep everything about
\* them but what the app is doing.
LEMMA TableAlone ==
    ASSUME IInv, UNCHANGED <<table, key>>
    PROVE  Rows' /\ OnePressOneRide' /\ TableStep /\ status' \in [Rides -> Statuses] /\ key' \in [Rides -> Nat]
BY DEF IInv, TypeOK, Rows, OnePressOneRide, TableStep, table

\* A step of a search leaves requests alone.
LEMMA GoesKeeps ==
    ASSUME IInv, NEW p \in Presses, NEW k \in Tries,
           NEW from \in Places \ {"idle"}, NEW to \in Places, Goes(p, k, from, to),
           UNCHANGED <<handler, client>>,
           \A r \in Rides : status'[r] = "none" <=> status[r] = "none"
    PROVE  loop' \in [Presses -> [Tries -> Places]] /\ Untried' /\ Searches'
<1>1. loop' \in [Presses -> [Tries -> Places]]
  BY DEF Goes, IInv, TypeOK
<1>2. Untried'
  BY DEF IInv, Untried, client
<1>3. \A q \in Presses, j \in Tries : loop'[q][j] # "idle" => loop[q][j] # "idle"
  BY DEF Goes, IInv, TypeOK
<1>4. Searches'
  BY <1>3 DEF IInv, Searches
<1>5. QED
  BY <1>1, <1>2, <1>4

\* The search a step of it is about has a ride.
LEMMA SoughtIsRide ==
    ASSUME IInv, NEW p \in Presses, NEW k \in Tries, loop[p][k] # "idle"
    PROVE  Sought(p, k) \in Rides /\ status[Sought(p, k)] # "none"
BY DEF IInv, Searches, Sought

\* A status that is written is pushed later.
LEMMA WritesType ==
    ASSUME TypeOK, NEW r \in Rides, NEW s \in Statuses, Writes(r, s)
    PROVE  pending' \subseteq Pushes
BY DEF TypeOK, Writes, Push, Pushes

\* A try is sent: that try of that press changes, and what the app waits for.
LEMMA SendKeeps ==
    ASSUME TypeOK, NEW p \in Nat, NEW k \in Nat, Send(p, k)
    PROVE  /\ awaiting' \in [Presses -> Nat]
           /\ handler' \in [Presses -> [Tries -> Request]]
           /\ \A q \in Presses : awaiting'[q] = IF q = p THEN k ELSE awaiting[q]
           /\ \A q \in Presses, j \in Tries :
                 ~(q = p /\ j = k) => handler'[q][j] = handler[q][j]
<1>1. \A x \in Request : [x EXCEPT !.at = "sent"] \in Request
  BY DEF Request
<1>2. awaiting' = [awaiting EXCEPT ![p] = k]
  BY DEF Send
<1>3. handler' = [handler EXCEPT ![p][k].at = "sent"]
  BY DEF Send
<1>4. handler \in [Presses -> [Tries -> Request]] /\ awaiting \in [Presses -> Nat]
  BY DEF TypeOK
<1>5. handler' \in [Presses -> [Tries -> Request]]
  BY <1>1, <1>3, <1>4
<1>6. \A q \in Presses, j \in Tries : ~(q = p /\ j = k) => handler'[q][j] = handler[q][j]
  BY <1>3, <1>4
<1>7. QED
  BY <1>2, <1>4, <1>5, <1>6

-----------------------------------------------------------------------------
(* The steps *)

\* The app: presses, resends, answers.
LEMMA AppStep ==
    ASSUME IInv,
           \/ RequestRide \/ \E p \in Presses : TimesOut(p)
           \/ \E p \in Presses, k \in Tries : Answered(p, k)
    PROVE  IInv' /\ TableStep
<1>0. UNCHANGED <<table, key, loop, link>>
  BY DEF RequestRide, TimesOut, Answered
<1>1. /\ Rows' /\ OnePressOneRide' /\ TableStep
      /\ status' \in [Rides -> Statuses] /\ key' \in [Rides -> Nat]
  BY <1>0, TableAlone
<1>2. /\ loop' \in [Presses -> [Tries -> Places]]
      /\ rooms' \subseteq Rides /\ found' \subseteq Rides /\ pending' \subseteq Pushes
  BY <1>0 DEF IInv, TypeOK, link
<1>t. TypeOK
  BY DEF IInv
<1>3. CASE RequestRide
  <2> DEFINE p == app.presses + 1
  <2>1. app' = [app EXCEPT !.requesting = TRUE, !.presses = @ + 1] /\ Send(p, 1)
    BY <1>3 DEF RequestRide
  <2>2. app' \in Screen /\ app'.presses = app.presses + 1 /\ app.presses \in Nat
    <3>1. app \in Screen /\ app.presses \in Nat /\ app.presses + 1 \in Nat
      BY <1>t DEF TypeOK, Screen
    <3>2. app' = [app EXCEPT !.requesting = TRUE, !.presses = app.presses + 1]
      BY <2>1
    <3>3. QED
      BY <3>1, <3>2 DEF Screen
  <2>3. /\ awaiting' \in [Presses -> Nat] /\ handler' \in [Presses -> [Tries -> Request]]
        /\ \A q \in Presses : awaiting'[q] = IF q = p THEN 1 ELSE awaiting[q]
        /\ \A q \in Presses, j \in Tries : ~(q = p /\ j = 1) => handler'[q][j] = handler[q][j]
    <3>1. p \in Nat /\ 1 \in Nat
      BY <2>2
    <3>2. QED
      BY <2>1, <3>1, <1>t, SendKeeps
  <2>4. \A q \in Presses : q > app.presses + 1 => q # p /\ q > app.presses
    BY <2>2 DEF Presses
  <2>5. Untried'
    <3>1. ASSUME NEW q \in Presses, q # p
          PROVE  /\ q > app'.presses => awaiting'[q] = 0
                 /\ \A k \in Tries :
                      q > app'.presses \/ (awaiting'[q] # 0 /\ k > awaiting'[q])
                          => handler'[q][k].at = "idle"
      <4>1. q \in Nat /\ app.presses \in Nat
        BY <2>2 DEF Presses
      <4>2. awaiting'[q] = awaiting[q] /\ \A k \in Tries : handler'[q][k] = handler[q][k]
        BY <3>1, <2>3
      <4>3. q > app'.presses => q > app.presses
        BY <4>1, <2>2
      <4>4. QED
        BY <4>2, <4>3 DEF IInv, Untried
    <3>2. ASSUME p \in Presses
          PROVE  /\ ~(p > app'.presses)
                 /\ awaiting'[p] = 1
                 /\ \A k \in Tries : k > 1 => handler'[p][k].at = "idle"
      <4>1. p > app.presses
        BY <2>2
      <4>2. \A k \in Tries : handler[p][k].at = "idle"
        BY <3>2, <4>1 DEF IInv, Untried
      <4>3. QED
        BY <3>2, <4>2, <2>2, <2>3 DEF Tries
    <3>3. QED
      BY <3>1, <3>2 DEF Untried
  <2>6. Searches'
    <3> SUFFICES ASSUME NEW q \in Presses, NEW k \in Tries, loop[q][k] # "idle"
                 PROVE  handler'[q][k] = handler[q][k]
      BY <1>0 DEF IInv, Searches, table
    <3>1. handler[q][k].at # "idle"
      BY DEF IInv, Searches
    <3>2. ~(q > app.presses)
      BY <3>1 DEF IInv, Untried
    <3>3. q # p
      BY <3>2, <2>2
    <3>4. QED
      BY <3>3, <2>3
  <2>7. QED
    BY <1>1, <1>2, <2>2, <2>3, <2>5, <2>6 DEF IInv, TypeOK
<1>4. ASSUME NEW p \in Presses, TimesOut(p) PROVE IInv' /\ TableStep
  <2>1. CASE awaiting[p] < MaxTries
    <3> DEFINE k == awaiting[p] + 1
    <3>1. app' = app /\ Send(p, k)
      BY <1>4, <2>1 DEF TimesOut
    <3>2. awaiting[p] \in Nat /\ awaiting[p] # 0 /\ k \in Nat
      BY <1>4, <1>t DEF TimesOut, TypeOK
    <3>3. /\ awaiting' \in [Presses -> Nat] /\ handler' \in [Presses -> [Tries -> Request]]
          /\ \A q \in Presses : awaiting'[q] = IF q = p THEN k ELSE awaiting[q]
          /\ \A q \in Presses, j \in Tries : ~(q = p /\ j = k) => handler'[q][j] = handler[q][j]
      BY <3>1, <3>2, <1>t, SendKeeps DEF Presses
    <3>4. ~(p > app.presses)
      BY <3>2 DEF IInv, Untried
    <3>5. Untried'
      <4> SUFFICES ASSUME NEW q \in Presses
                   PROVE  /\ q > app.presses => awaiting'[q] = 0
                          /\ \A j \in Tries :
                                q > app.presses \/ (awaiting'[q] # 0 /\ j > awaiting'[q])
                                   => handler'[q][j].at = "idle"
        BY <3>1 DEF Untried
      <4>1. CASE q # p
        BY <4>1, <3>3 DEF IInv, Untried
      <4>2. CASE q = p
        <5>1. \A j \in Tries : j > k => j > awaiting[p] /\ j # k
          BY <3>2 DEF Tries
        <5>2. \A j \in Tries : j # k => handler'[p][j] = handler[p][j]
          BY <3>3
        <5>3. awaiting'[p] = k
          BY <3>3
        <5>4. QED
          BY <4>2, <3>2, <3>4, <5>1, <5>2, <5>3 DEF IInv, Untried
      <4>3. QED
        BY <4>1, <4>2
    <3>6. Searches'
      <4> SUFFICES ASSUME NEW q \in Presses, NEW j \in Tries, loop[q][j] # "idle"
                   PROVE  handler'[q][j] = handler[q][j]
        BY <1>0 DEF IInv, Searches, table
      <4>1. handler[q][j].at # "idle"
        BY DEF IInv, Searches
      <4>2. ~(q = p /\ j = k)
        <5> SUFFICES ASSUME q = p, j = k PROVE FALSE
          OBVIOUS
        <5>1. j > awaiting[p]
          BY <3>2
        <5>2. QED
          BY <5>1, <4>1, <3>2 DEF IInv, Untried
      <4>3. QED
        BY <4>2, <3>3
    <3>7. QED
      BY <1>1, <1>2, <1>t, <3>1, <3>3, <3>5, <3>6 DEF IInv, TypeOK
  <2>2. CASE ~(awaiting[p] < MaxTries)
    <3>1. /\ app' = [app EXCEPT !.requesting = FALSE]
          /\ awaiting' = [awaiting EXCEPT ![p] = 0] /\ handler' = handler
      BY <1>4, <2>2 DEF TimesOut
    <3>2. app' \in Screen /\ app'.presses = app.presses
      BY <3>1, <1>t DEF TypeOK, Screen
    <3>3. awaiting' \in [Presses -> Nat]
      BY <3>1, <1>t DEF TypeOK
    <3>4. Untried'
      BY <3>1, <3>2, <1>t DEF IInv, Untried, TypeOK
    <3>5. Searches'
      BY <3>1, <1>0 DEF IInv, Searches, table
    <3>6. QED
      BY <1>1, <1>2, <1>t, <3>1, <3>2, <3>3, <3>4, <3>5 DEF IInv, TypeOK
  <2>3. QED
    BY <2>1, <2>2
<1>5. ASSUME NEW p \in Presses, NEW k \in Tries, Answered(p, k) PROVE IInv' /\ TableStep
  <2> DEFINE x == [handler[p][k] EXCEPT !.at = "done", !.status = "none"]
  <2>1. /\ awaiting' = [awaiting EXCEPT ![p] = 0]
        /\ \/ app' = [app EXCEPT !.requesting = FALSE]
           \/ app' = [app EXCEPT !.ride = handler[p][k].ride, !.status = handler[p][k].status]
    BY <1>5 DEF Answered
  <2>2. handler[p][k] \in Request /\ handler[p][k].at = "answered"
    <3>1. handler[p][k].at = "answered"
      BY <1>5 DEF Answered
    <3>2. QED
      BY <3>1, <1>t DEF TypeOK
  <2>3. app' \in Screen /\ app'.presses = app.presses
    BY <2>1, <2>2, <1>t DEF TypeOK, Screen, Request
  <2>a. x \in Request /\ x.at = "done" /\ x.ride = handler[p][k].ride
    BY <2>2 DEF Request, Statuses
  <2>b. handler' = [handler EXCEPT ![p][k] = x]
    <3>1. handler' = [handler EXCEPT ![p][k].at = "done", ![p][k].status = "none"]
      BY <1>5 DEF Answered
    <3>2. handler \in [Presses -> [Tries -> Request]]
      BY <1>t DEF TypeOK
    <3>3. QED
      BY <3>1, <3>2 DEF Request
  <2>4. awaiting' \in [Presses -> Nat] /\ handler' \in [Presses -> [Tries -> Request]]
    BY <2>1, <2>a, <2>b, <1>t DEF TypeOK
  <2>5. \A q \in Presses, j \in Tries :
           /\ ~(q = p /\ j = k) => handler'[q][j] = handler[q][j]
           /\ handler'[p][k].at = "done" /\ handler'[p][k].ride = handler[p][k].ride
    BY <2>a, <2>b, <1>t DEF TypeOK
  <2>6. \A q \in Presses : awaiting'[q] = IF q = p THEN 0 ELSE awaiting[q]
    BY <2>1, <1>t DEF TypeOK
  <2>7. ~(p > app.presses)
    BY <2>2 DEF IInv, Untried
  <2>8. Untried'
    BY <2>3, <2>5, <2>6, <2>7 DEF IInv, Untried
  <2>9. Searches'
    BY <2>5, <1>0 DEF IInv, Searches, table
  <2>10. QED
    BY <1>1, <1>2, <1>t, <2>3, <2>4, <2>8, <2>9 DEF IInv, TypeOK
<1>6. QED
  BY <1>3, <1>4, <1>5

\* The request on the server.
LEMMA ServeStep ==
    ASSUME IInv, NEW p \in Presses, NEW k \in Tries, Serve(p, k)
    PROVE  IInv' /\ TableStep
<1>t. TypeOK
  BY DEF IInv
<1>1. handler[p][k].at \in {"sent", "inserting"} /\ handler[p][k] \in Request
  BY <1>t DEF Serve, Look, Insert, TypeOK
<1>2. loop[p][k] = "idle"
  BY <1>1 DEF IInv, Searches
<1>3. ~(p > app.presses) /\ (awaiting[p] # 0 => ~(k > awaiting[p]))
  BY <1>1 DEF IInv, Untried
<1>4. UNCHANGED <<client, link>>
  BY DEF Serve, Look, Insert
<1>5. /\ app' \in Screen /\ awaiting' \in [Presses -> Nat]
      /\ rooms' \subseteq Rides /\ found' \subseteq Rides /\ pending' \subseteq Pushes
  BY <1>4, <1>t DEF TypeOK, client, link
<1>6. ASSUME NEW x \in Request, handler' = [handler EXCEPT ![p] = [@ EXCEPT ![k] = x]]
      PROVE  /\ handler' \in [Presses -> [Tries -> Request]]
             /\ \A q \in Presses, j \in Tries :
                   handler'[q][j] = IF q = p /\ j = k THEN x ELSE handler[q][j]
             /\ Untried'
  <2>1. /\ handler' \in [Presses -> [Tries -> Request]]
        /\ \A q \in Presses, j \in Tries :
              handler'[q][j] = IF q = p /\ j = k THEN x ELSE handler[q][j]
    BY <1>6, <1>t DEF TypeOK
  <2>2. Untried'
    BY <2>1, <1>3, <1>4 DEF IInv, Untried, client
  <2>3. QED
    BY <2>1, <2>2
\* The request goes on or is refused: the table stays as it is.
<1>7. ASSUME NEW x \in Request, handler' = [handler EXCEPT ![p] = [@ EXCEPT ![k] = x]],
             UNCHANGED <<table, key, loop>>
      PROVE  IInv' /\ TableStep
  <2>1. Searches'
    BY <1>2, <1>6, <1>7 DEF IInv, Searches, table
  <2>2. loop' \in [Presses -> [Tries -> Places]]
    BY <1>7, <1>t DEF TypeOK
  <2>3. QED
    BY <1>5, <1>6, <1>7, <2>1, <2>2, TableAlone DEF IInv, TypeOK
\* The request is answered, and a search starts.
<1>8. ASSUME NEW r \in Rides, NEW s \in Statuses, Replies(p, k, r, s), status'[r] # "none",
             \A q \in Rides : status[q] # "none" => status'[q] # "none"
      PROVE  /\ handler' \in [Presses -> [Tries -> Request]]
             /\ loop' \in [Presses -> [Tries -> Places]]
             /\ Untried' /\ Searches'
  <2> DEFINE x == IF awaiting[p] = k THEN [at |-> "answered", ride |-> r, status |-> s]
                  ELSE [at |-> "done", ride |-> r, status |-> "none"]
  <2>1. x \in Request /\ x.at \in {"answered", "done"} /\ x.ride = r
    BY DEF Request, Statuses
  <2>2. handler' = [handler EXCEPT ![p] = [@ EXCEPT ![k] = x]]
    BY <1>8 DEF Replies
  <2>3. /\ handler' \in [Presses -> [Tries -> Request]]
        /\ \A q \in Presses, j \in Tries :
              handler'[q][j] = IF q = p /\ j = k THEN x ELSE handler[q][j]
        /\ Untried'
    BY <2>1, <2>2, <1>6
  <2>4. loop' = [loop EXCEPT ![p] = [@ EXCEPT ![k] = "starting"]]
    BY <1>8 DEF Replies
  <2>5. /\ loop' \in [Presses -> [Tries -> Places]]
        /\ \A q \in Presses, j \in Tries : ~(q = p /\ j = k) => loop'[q][j] = loop[q][j]
    BY <2>4, <1>t DEF TypeOK, Places
  <2>6. Searches'
    <3> SUFFICES ASSUME NEW q \in Presses, NEW j \in Tries, loop'[q][j] # "idle"
                 PROVE  /\ handler'[q][j].at \in {"answered", "done"}
                        /\ handler'[q][j].ride \in Rides
                        /\ status'[handler'[q][j].ride] # "none"
      BY DEF Searches
    <3>1. CASE q = p /\ j = k
      BY <3>1, <2>1, <2>3, <1>8
    <3>2. CASE ~(q = p /\ j = k)
      BY SMTT(30), <3>2, <2>3, <2>5, <1>8 DEF IInv, Searches
    <3>3. QED
      BY <3>1, <3>2
  <2>7. QED
    BY <2>3, <2>5, <2>6
<1>9. CASE Look(p, k)
  <2>1. CASE Keyed(p) = {}
    <3> DEFINE x == [handler[p][k] EXCEPT !.at = "inserting"]
    <3>1. x \in Request
      BY <1>1 DEF Request
    <3>2. handler' = [handler EXCEPT ![p] = [@ EXCEPT ![k] = x]] /\ UNCHANGED <<table, key, loop>>
      BY <1>9, <2>1, <1>t DEF Look, TypeOK
    <3>3. QED
      BY <3>1, <3>2, <1>7
  <2>2. ASSUME NEW r \in Keyed(p), Replies(p, k, r, status[r]), UNCHANGED <<table, key>>
        PROVE  IInv' /\ TableStep
    <3>1. r \in Rides /\ key[r] = p /\ p # 0
      BY DEF Keyed, Presses
    <3>2. status[r] \in Statuses /\ status[r] # "none" /\ status' = status
      BY <3>1, <2>2, <1>t DEF IInv, Rows, TypeOK, table
    <3>3. QED
      BY <3>1, <3>2, <2>2, <1>5, <1>8, TableAlone DEF IInv, TypeOK
  <2>3. QED
    BY <1>9, <2>1, <2>2 DEF Look
<1>10. CASE Insert(p, k)
  <2> DEFINE r == NextRide
  <2>1. CASE handler' = [handler EXCEPT ![p][k] = Refusal] /\ UNCHANGED <<table, key, loop>>
    <3>1. Refusal \in Request
      BY DEF Refusal, Request, Statuses
    <3>2. QED
      BY <3>1, <2>1, <1>7
  <2>2. CASE /\ Keyed(p) = {} /\ (\E q \in Rides : key[q] = 0)
             /\ Life!Open(r) /\ key' = [key EXCEPT ![r] = p] /\ Replies(p, k, r, "requested")
    <3>1. r \in Rides /\ key[r] = 0 /\ p \in Nat /\ p # 0
      BY <2>2, <1>t, NextRideIsFree DEF Presses
    <3>2. status' = [status EXCEPT ![r] = "requested"]
      BY <2>2 DEF Life!Open, Life!Move
    <3>3. /\ status' \in [Rides -> Statuses] /\ key' \in [Rides -> Nat]
          /\ \A q \in Rides : q # r => status'[q] = status[q] /\ key'[q] = key[q]
          /\ status'[r] = "requested" /\ key'[r] = p
      BY <3>1, <3>2, <2>2, <1>t DEF TypeOK, Statuses
    <3>4. Rows'
      BY <3>1, <3>3 DEF IInv, Rows
    <3>5. \A q \in Rides : key[q] # p
      BY <2>2 DEF Keyed
    <3>6. OnePressOneRide'
      BY <3>3, <3>5 DEF IInv, OnePressOneRide
    <3>7. TableStep
      BY <2>2, <3>1 DEF TableStep, Life!LNext
    <3>8. \A q \in Rides : status[q] # "none" => status'[q] # "none"
      BY <3>3
    <3>9. "requested" \in Statuses
      BY DEF Statuses
    <3>10. /\ handler' \in [Presses -> [Tries -> Request]]
           /\ loop' \in [Presses -> [Tries -> Places]]
           /\ Untried' /\ Searches'
      BY <3>1, <3>3, <3>8, <3>9, <2>2, <1>8
    <3>11. QED
      BY <3>3, <3>4, <3>6, <3>7, <3>10, <1>5 DEF IInv, TypeOK
  <2>3. QED
    BY <1>10, <2>1, <2>2 DEF Insert
<1>11. QED
  BY <1>9, <1>10 DEF Serve

\* Searches, cancellations and claims.
LEMMA SearchStep ==
    ASSUME IInv,
           \/ \E p \in Presses, k \in Tries : Search(p, k)
           \/ CancelRide \/ \E r \in Rides, d \in Drivers : Claim(r, d)
    PROVE  IInv' /\ TableStep
<1>t. TypeOK
  BY DEF IInv
\* A step of a search that leaves the table alone.
<1>1. ASSUME NEW p \in Presses, NEW k \in Tries,
             NEW from \in Places \ {"idle"}, NEW to \in Places, Goes(p, k, from, to),
             UNCHANGED <<table, key, handler, client>>,
             rooms' \subseteq Rides, found' \subseteq Rides, pending' \subseteq Pushes
      PROVE  IInv' /\ TableStep
  <2>1. loop' \in [Presses -> [Tries -> Places]] /\ Untried' /\ Searches'
    BY <1>1, GoesKeeps DEF table
  <2>2. QED
    BY <1>1, <1>t, <2>1, TableAlone DEF IInv, TypeOK, client
\* A step that writes a ride's status.
<1>2. ASSUME NEW r \in Rides,
             \/ Life!BackToSearch(r) \/ Life!GiveUp(r)
             \/ \E d \in Drivers : Life!Assign(r, d),
             UNCHANGED key
      PROVE  /\ status' \in [Rides -> Statuses] /\ key' \in [Rides -> Nat]
             /\ \A q \in Rides : status'[q] = "none" <=> status[q] = "none"
             /\ Rows' /\ OnePressOneRide' /\ TableStep
  <2>1. /\ status' \in [Rides -> Statuses]
        /\ \A q \in Rides : status'[q] = "none" <=> status[q] = "none"
        /\ TableStep
    BY <1>2, <1>t, MovesKeepRows
  <2>2. QED
    BY <1>2, <1>t, <2>1 DEF IInv, Rows, OnePressOneRide, TypeOK
<1>3. ASSUME NEW p \in Presses, NEW k \in Tries, Search(p, k) PROVE IInv' /\ TableStep
  <2>1. CASE ReadRide(p, k) \/ JoinRooms(p, k) \/ StopLooking(p, k)
    <3>1. PICK from \in Places \ {"idle"}, to \in Places : Goes(p, k, from, to)
      BY <2>1 DEF ReadRide, JoinRooms, StopLooking, Places
    <3>2. loop[p][k] # "idle"
      BY <3>1 DEF Goes
    <3>3. rooms' \subseteq Rides /\ found' \subseteq Rides /\ pending' \subseteq Pushes
      BY <2>1, <3>2, <1>t, SoughtIsRide DEF ReadRide, JoinRooms, StopLooking, TypeOK, link
    <3>4. UNCHANGED <<table, key, handler, client>>
      BY <2>1 DEF ReadRide, JoinRooms, StopLooking
    <3>5. QED
      BY <3>1, <3>3, <3>4, <1>1
  <2>2. CASE WriteSearching(p, k)
    <3>1. Goes(p, k, "writing", "looking") /\ Sought(p, k) \in Rides
      BY <2>2, SoughtIsRide DEF WriteSearching, Goes
    <3>2. /\ status' \in [Rides -> Statuses] /\ key' \in [Rides -> Nat]
          /\ \A q \in Rides : status'[q] = "none" <=> status[q] = "none"
          /\ Rows' /\ OnePressOneRide' /\ TableStep
      BY <2>2, <3>1, <1>2 DEF WriteSearching
    <3>3. loop' \in [Presses -> [Tries -> Places]] /\ Untried' /\ Searches'
      BY <2>2, <3>1, <3>2, GoesKeeps DEF WriteSearching, Places
    <3>4. pending' \subseteq Pushes
      BY <2>2, <3>1, <1>t, WritesType DEF WriteSearching, Statuses
    <3>5. QED
      BY <2>2, <3>2, <3>3, <3>4, <1>t DEF WriteSearching, IInv, TypeOK, client
  <2>3. CASE Expire(p, k)
    <3>1. Goes(p, k, "looking", "over") /\ Sought(p, k) \in Rides
      BY <2>3, SoughtIsRide DEF Expire, Goes
    <3>2. pending' \subseteq Pushes
      BY <2>3, <3>1, <1>t, WritesType DEF Expire, Statuses
    <3>3. /\ UNCHANGED <<key, handler, client, rooms, found>>
          /\ "looking" \in Places \ {"idle"} /\ "over" \in Places
      BY <2>3 DEF Expire, Places
    <3>4. CASE UNCHANGED table
      BY <3>1, <3>2, <3>3, <3>4, <1>1, <1>t DEF TypeOK
    <3>5. CASE Life!GiveUp(Sought(p, k))
      <4>1. /\ status' \in [Rides -> Statuses] /\ key' \in [Rides -> Nat]
            /\ \A q \in Rides : status'[q] = "none" <=> status[q] = "none"
            /\ Rows' /\ OnePressOneRide' /\ TableStep
        BY <3>1, <3>3, <3>5, <1>2
      <4>2. loop' \in [Presses -> [Tries -> Places]] /\ Untried' /\ Searches'
        BY <3>1, <3>3, <4>1, GoesKeeps
      <4>3. QED
        BY <3>2, <3>3, <4>1, <4>2, <1>t DEF IInv, TypeOK, client
    <3>6. QED
      BY <2>3, <3>4, <3>5 DEF Expire
  <2>4. QED
    BY <1>3, <2>1, <2>2, <2>3 DEF Search
<1>4. CASE CancelRide
  <2>1. app.ride \in Rides
    BY <1>4, <1>t DEF CancelRide, TypeOK, Screen
  <2>2. /\ status' \in [Rides -> Statuses] /\ key' \in [Rides -> Nat]
        /\ \A q \in Rides : status'[q] = "none" <=> status[q] = "none"
        /\ Rows' /\ OnePressOneRide' /\ TableStep
    BY <1>4, <2>1, <1>2 DEF CancelRide
  <2>3. pending' \subseteq Pushes
    BY <1>4, <2>1, <1>t, WritesType DEF CancelRide, Statuses
  <2>4. app' \in Screen /\ app'.presses = app.presses
    BY ZenonT(40), <1>4, <1>t DEF CancelRide, TypeOK, Screen, Statuses
  <2>5. Untried' /\ Searches'
    BY <1>4, <2>2, <2>4 DEF CancelRide, IInv, Untried, Searches
  <2>6. QED
    BY <1>4, <2>2, <2>3, <2>4, <2>5, <1>t DEF CancelRide, IInv, TypeOK
<1>5. ASSUME NEW r \in Rides, NEW d \in Drivers, Claim(r, d) PROVE IInv' /\ TableStep
  <2>1. /\ status' \in [Rides -> Statuses] /\ key' \in [Rides -> Nat]
        /\ \A q \in Rides : status'[q] = "none" <=> status[q] = "none"
        /\ Rows' /\ OnePressOneRide' /\ TableStep
    BY <1>5, <1>2 DEF Claim
  <2>2. pending' \subseteq Pushes
    BY <1>5, <1>t, WritesType DEF Claim, Statuses
  <2>3. Untried' /\ Searches'
    BY <1>5, <2>1 DEF Claim, IInv, Untried, Searches, client
  <2>4. QED
    BY <1>5, <2>1, <2>2, <2>3, <1>t DEF Claim, IInv, TypeOK, client
<1>6. QED
  BY <1>3, <1>4, <1>5

\* Pushes, connections and what breaks.
LEMMA LinkStep ==
    ASSUME IInv,
           \/ Handshake \/ Drop \/ Restart \/ \E m \in pending : Emit(m)
           \/ \E p \in Presses, k \in Tries : SearchFails(p, k)
           \/ UNCHANGED vars
    PROVE  IInv' /\ TableStep
<1>t. TypeOK
  BY DEF IInv
<1>1. CASE Handshake \/ Drop \/ UNCHANGED vars
  <2>1. UNCHANGED <<server, client, pending>>
    BY <1>1 DEF Handshake, Connect, FindRides, Rejoin, Advances, Drop, vars, link
  <2>2. rooms' \subseteq Rides /\ found' \subseteq Rides
    BY <1>1, <1>t
       DEF Handshake, Connect, FindRides, Rejoin, Drop, Severed, vars, link, TypeOK
  <2>3. QED
    BY <2>1, <2>2, TableAlone DEF server, client, IInv, TypeOK, Untried, Searches, table
<1>2. ASSUME NEW m \in pending, Emit(m) PROVE IInv' /\ TableStep
  <2>1. m \in Pushes
    BY <1>t DEF TypeOK
  <2>2. app' \in Screen /\ app'.presses = app.presses
    BY <1>2, <2>1, <1>t DEF Emit, TypeOK, Screen, Pushes
  <2>3. pending' \subseteq Pushes /\ UNCHANGED <<server, awaiting, rooms, found>>
    BY <1>2, <1>t DEF Emit, TypeOK
  <2>4. Untried' /\ Searches'
    BY <2>2, <2>3 DEF IInv, Untried, Searches, server, table
  <2>5. QED
    BY <2>2, <2>3, <2>4, <1>t, TableAlone DEF server, IInv, TypeOK
<1>3. ASSUME NEW p \in Presses, NEW k \in Tries, SearchFails(p, k) PROVE IInv' /\ TableStep
  <2>1. /\ UNCHANGED <<table, key, handler, client, link>>
        /\ \/ Goes(p, k, "starting", "over") \/ Goes(p, k, "writing", "over")
           \/ Goes(p, k, "joining", "writing")
    BY <1>3 DEF SearchFails, Goes
  <2>2. loop' \in [Presses -> [Tries -> Places]] /\ Untried' /\ Searches'
    BY <2>1, GoesKeeps DEF Places, table
  <2>3. QED
    BY <2>1, <2>2, <1>t, TableAlone DEF IInv, TypeOK, link, client
<1>4. CASE Restart
  <2>1. /\ UNCHANGED <<table, key, client>> /\ pending' = {} /\ rooms' = {} /\ found' = {}
        /\ handler' = [p \in Presses |-> [k \in Tries |->
                         IF handler[p][k].at \in {"idle", "done"} THEN handler[p][k]
                         ELSE [handler[p][k] EXCEPT !.at = "done"]]]
        /\ loop' = [p \in Presses |-> [k \in Tries |->
                      IF loop[p][k] = "idle" THEN "idle" ELSE "over"]]
    BY <1>4 DEF Restart, Severed
  <2>2. /\ handler' \in [Presses -> [Tries -> Request]]
        /\ \A p \in Presses, k \in Tries :
              /\ handler[p][k].at \in {"idle", "done"} => handler'[p][k] = handler[p][k]
              /\ handler[p][k].at \notin {"idle", "done"} =>
                    handler'[p][k].at = "done" /\ handler'[p][k].ride = handler[p][k].ride
    <3>1. \A p \in Presses, k \in Tries : handler[p][k] \in Request
      BY <1>t DEF TypeOK
    <3>2. \A p \in Presses, k \in Tries :
             LET x == [handler[p][k] EXCEPT !.at = "done"]
             IN  x \in Request /\ x.at = "done" /\ x.ride = handler[p][k].ride
      BY <3>1 DEF Request
    <3>3. QED
      BY <2>1, <3>1, <3>2
  <2>3. /\ loop' \in [Presses -> [Tries -> Places]]
        /\ \A p \in Presses, k \in Tries : loop'[p][k] # "idle" => loop[p][k] # "idle"
    BY <2>1 DEF Places
  <2>4. Untried'
    BY <2>1, <2>2 DEF IInv, Untried, client
  <2>5. Searches'
    BY <2>1, <2>2, <2>3 DEF IInv, Searches, table
  <2>6. QED
    BY <2>1, <2>2, <2>3, <2>4, <2>5, <1>t, TableAlone DEF IInv, TypeOK, client
<1>5. QED
  BY <1>1, <1>2, <1>3, <1>4

\* The invariant is inductive, and every step is one of the table's life or leaves it.
LEMMA InvStep == IInv /\ [Next]_vars => IInv' /\ TableStep
BY AppStep, ServeStep, SearchStep, LinkStep DEF Next, Step

LEMMA InvHolds == Spec => []IInv
<1>1. Init => IInv
  <2> SUFFICES ASSUME Init PROVE IInv
    OBVIOUS
  <2>1. TypeOK
    BY DEF Init, Life!LInit, TypeOK, Statuses, Screen, Unsent, Request, Places
  <2>2. Rows /\ OnePressOneRide
    BY DEF Init, Life!LInit, Rows, OnePressOneRide
  <2>3. Untried /\ Searches
    BY DEF Init, Unsent, Untried, Searches
  <2>4. QED
    BY <2>1, <2>2, <2>3 DEF IInv
<1>2. QED
  BY <1>1, InvStep, PTL DEF Spec

-----------------------------------------------------------------------------
\* One press makes one ride, for any number of presses, resends, restarts and lost
\* answers: createOrGet looks for the key, and the insert asks again.
THEOREM PressMakesOneRide == Spec => []OnePressOneRide
<1>1. IInv => OnePressOneRide
  BY DEF IInv
<1>2. QED
  BY <1>1, InvHolds, PTL

\* Whatever requests, searches, drivers, cancellations and restarts do together, the rides
\* table changes only as RideLifecycle allows, so the app may rely on what it promises.
THEOREM TableKeepsItsPromise == Spec => Life!LSpec
<1>1. Init => Life!LInit
  BY DEF Init
<1>2. IInv /\ [Next]_vars => [Life!LNext]_(Life!lvars)
  BY InvStep DEF TableStep, table, Life!lvars
<1>3. QED
  BY <1>1, <1>2, InvHolds, PTL DEF Spec, Life!LSpec
=============================================================================
