------------------------- MODULE RideDispatchProofs -------------------------
(***************************************************************************)
(* Theorems about RideDispatch, for every value of its constants.          *)
(*                                                                         *)
(* First types, and with them that no loop or handler refers to a ride that*)
(* has no row or to a driver that does not exist (Sane); then the rides    *)
(* table: a ride's driver is final, trips have drivers who began them, and *)
(* every step is a step of RideLifecycle or leaves the table alone; last   *)
(* offers and the drivers' locks.                                          *)
(***************************************************************************)
EXTENDS RideDispatch, TLAPS

-----------------------------------------------------------------------------
(* Types *)

\* What a suspended loop or handler remembers refers to something: a loop has a ride
\* whose row exists, and a driver from the lock to its release; a handler has a ride,
\* and a driver wherever it writes his row next.
ProcessOK ==
    /\ \A l \in Dispatchers :
          /\ dispatcher[l].at # "off" =>
                dispatcher[l].ride \in Rides /\ status[dispatcher[l].ride] # "none"
          /\ Holding(l) => dispatcher[l].driver \in Drivers
    /\ \A h \in Handlers :
          /\ handler[h].at # "idle" =>
                handler[h].ride \in Rides /\ status[handler[h].ride] # "none"
          /\ handler[h].at \notin {"idle", "cancelling"} => handler[h].driver \in Drivers

Sane == TypeOK /\ ProcessOK

\* The records an action may put in a loop's place.
LEMMA DispatcherUpdates ==
    ASSUME NEW me \in Dispatcher, NEW a \in DispatcherAt, NEW d \in Drivers \cup {NoDriver},
           NEW todo \in SUBSET Drivers, NEW tried \in SUBSET Drivers,
           NEW p \in 0..MaxPasses, NEW w \in BOOLEAN
    PROVE  /\ [me EXCEPT !.at = a] \in Dispatcher
           /\ [me EXCEPT !.at = a, !.won = w] \in Dispatcher
           /\ [me EXCEPT !.at = a, !.driver = d] \in Dispatcher
           /\ [me EXCEPT !.at = a, !.todo = todo] \in Dispatcher
           /\ [me EXCEPT !.at = a, !.driver = d, !.todo = todo] \in Dispatcher
           /\ [me EXCEPT !.at = a, !.pass = p, !.todo = todo, !.tried = tried] \in Dispatcher
<1>1. [me EXCEPT !.at = a] \in Dispatcher
  BY DEF Dispatcher
<1>2. [me EXCEPT !.at = a, !.won = w] \in Dispatcher
  BY DEF Dispatcher
<1>3. [me EXCEPT !.at = a, !.driver = d] \in Dispatcher
  BY DEF Dispatcher
<1>4. [me EXCEPT !.at = a, !.todo = todo] \in Dispatcher
  BY DEF Dispatcher
<1>5. [me EXCEPT !.at = a, !.driver = d, !.todo = todo] \in Dispatcher
  BY DEF Dispatcher
<1>6. [me EXCEPT !.at = a, !.pass = p, !.todo = todo, !.tried = tried] \in Dispatcher
  BY DEF Dispatcher
<1> QED
  BY <1>1, <1>2, <1>3, <1>4, <1>5, <1>6

LEMMA OffIdle == Off \in Dispatcher /\ Idle \in Handler
<1>1. Off \in Dispatcher
  BY BoundsAssumption DEF BoundsAssumption, Off, Dispatcher, DispatcherAt
<1>2. Idle \in Handler
  BY DEF Idle, Handler, HandlerAt
<1> QED
  BY <1>1, <1>2

LEMMA InitSane == Init => Sane
<1> SUFFICES ASSUME Init PROVE TypeOK /\ ProcessOK
  BY DEF Sane
<1>1. TypeOK
  BY OffIdle DEF Init, TypeOK, RideStatus
<1>2. ProcessOK
  BY DEF Init, ProcessOK, Off, Idle, Holding
<1> QED
  BY <1>1, <1>2

\* A step of one loop, or of one handler, that leaves the others alone.
LEMMA LoopMoves ==
    ASSUME ProcessOK, NEW l \in Dispatchers,
           handler' = handler,
           \A k \in Dispatchers \ {l} : dispatcher'[k] = dispatcher[k],
           \A r \in Rides : status[r] # "none" => status'[r] # "none",
           dispatcher'[l].at # "off" =>
               dispatcher'[l].ride \in Rides /\ status'[dispatcher'[l].ride] # "none",
           dispatcher'[l].at \in {"notifying", "waiting", "closing"} =>
               dispatcher'[l].driver \in Drivers
    PROVE  ProcessOK'
  BY DEF ProcessOK, Holding

LEMMA HandlerMoves ==
    ASSUME ProcessOK, NEW h \in Handlers,
           dispatcher' = dispatcher,
           \A g \in Handlers \ {h} : handler'[g] = handler[g],
           \A r \in Rides : status[r] # "none" => status'[r] # "none",
           handler'[h].at # "idle" =>
               handler'[h].ride \in Rides /\ status'[handler'[h].ride] # "none",
           handler'[h].at \notin {"idle", "cancelling"} => handler'[h].driver \in Drivers
    PROVE  ProcessOK'
  BY DEF ProcessOK, Holding

\* Every step of the dispatch loop.
LEMMA DispatchSane ==
    ASSUME Sane, NEW l \in Dispatchers, DispatchStep(l)
    PROVE  Sane'
<1> DEFINE me == dispatcher[l]
<1>a. TypeOK /\ ProcessOK /\ me \in Dispatcher
  BY DEF Sane, TypeOK
<1>b. /\ me.at # "off" => me.ride \in Rides /\ status[me.ride] # "none"
      /\ Holding(l) => me.driver \in Drivers
  BY <1>a DEF ProcessOK
<1>c. SUFFICES dispatcher' \in [Dispatchers -> Dispatcher] /\ TypeOK' /\ ProcessOK'
  BY DEF Sane
<1>1. CASE StartDispatch(l)
  <2>1. [me EXCEPT !.at = "marking"] \in Dispatcher
    BY <1>a DEF Dispatcher, DispatcherAt
  <2>2. dispatcher' \in [Dispatchers -> Dispatcher]
    BY <1>a, <1>1, <2>1, OffIdle DEF StartDispatch, TypeOK
  <2>3. TypeOK'
    BY <1>a, <1>b, <1>1, <2>2 DEF StartDispatch, TypeOK, database, redis, bounds
  <2>4. ProcessOK'
    BY <1>a, <1>b, <1>1, LoopMoves DEF StartDispatch, TypeOK, Off, database
  <2> QED
    BY <2>2, <2>3, <2>4
<1>2. CASE MarkSearching(l)
  <2>1. [me EXCEPT !.at = "searching"] \in Dispatcher
    BY <1>a DEF Dispatcher, DispatcherAt
  <2>2. dispatcher' \in [Dispatchers -> Dispatcher]
    BY <1>a, <1>2, <2>1, OffIdle DEF MarkSearching, TypeOK
  <2>3. TypeOK'
    BY <1>a, <1>b, <1>2, <2>2 DEF MarkSearching, TypeOK, RideStatus, redis, bounds
  <2>4. ProcessOK'
    <3>1. /\ handler' = handler
          /\ \A k \in Dispatchers \ {l} : dispatcher'[k] = dispatcher[k]
      BY <1>a, <1>2 DEF MarkSearching, TypeOK
    <3>2. \A r \in Rides : status[r] # "none" => status'[r] # "none"
      BY <1>a, <1>2 DEF MarkSearching, TypeOK, database
    <3>3. /\ dispatcher'[l].at # "off" =>
                dispatcher'[l].ride \in Rides /\ status'[dispatcher'[l].ride] # "none"
          /\ dispatcher'[l].at \in {"notifying", "waiting", "closing"} =>
                dispatcher'[l].driver \in Drivers
      <4>1. dispatcher'[l] \in {Off, [me EXCEPT !.at = "searching"]}
        BY <1>a, <1>2 DEF MarkSearching, TypeOK
      <4>2. me.at = "marking"
        BY <1>2 DEF MarkSearching
      <4> QED
        BY <1>a, <1>b, <3>2, <4>1, <4>2 DEF Off, Dispatcher
    <3> QED
      BY <1>a, <3>1, <3>2, <3>3, LoopMoves
  <2> QED
    BY <2>2, <2>3, <2>4
<1>3. CASE FindCandidates(l)
  <2>1. ASSUME NEW found \in SUBSET Eligible(l)
        PROVE  [me EXCEPT !.at = Onward(found), !.pass = me.pass + 1,
                          !.todo = found, !.tried = me.tried \cup found] \in Dispatcher
    <3>1. me.pass + 1 \in 0..MaxPasses
      BY <1>a, <1>3, BoundsAssumption DEF FindCandidates, PassesLeft, Dispatcher, BoundsAssumption
    <3>2. /\ Onward(found) \in DispatcherAt
          /\ found \in SUBSET Drivers
          /\ me.tried \cup found \in SUBSET Drivers
      BY <1>a DEF Onward, DispatcherAt, Eligible, Dispatcher
    <3> QED
      BY <1>a, <3>1, <3>2, DispatcherUpdates
  <2>2. dispatcher' \in [Dispatchers -> Dispatcher]
    BY <1>a, <1>3, <2>1, OffIdle DEF FindCandidates, TypeOK
  <2>3. TypeOK'
    BY <1>a, <1>b, <1>3, <2>2 DEF FindCandidates, TypeOK, database, redis, bounds
  <2>4. ProcessOK'
    <3>1. /\ handler' = handler
          /\ \A k \in Dispatchers \ {l} : dispatcher'[k] = dispatcher[k]
      BY <1>a, <1>3 DEF FindCandidates, TypeOK
    <3>2. \A r \in Rides : status[r] # "none" => status'[r] # "none"
      BY <1>a, <1>3 DEF FindCandidates, TypeOK, database
    <3>3. /\ dispatcher'[l].at # "off" =>
                dispatcher'[l].ride \in Rides /\ status'[dispatcher'[l].ride] # "none"
          /\ dispatcher'[l].at \in {"notifying", "waiting", "closing"} =>
                dispatcher'[l].driver \in Drivers
      BY <1>a, <1>b, <1>3, <3>2 DEF FindCandidates, TypeOK, Onward, database
    <3> QED
      BY <1>a, <3>1, <3>2, <3>3, LoopMoves
  <2> QED
    BY <2>2, <2>3, <2>4
<1>4. ASSUME NEW d \in Drivers, ReserveDriver(l, d)
      PROVE  dispatcher' \in [Dispatchers -> Dispatcher] /\ TypeOK' /\ ProcessOK'
  <2>1. /\ [me EXCEPT !.at = "notifying", !.driver = d, !.todo = @ \ {d}] \in Dispatcher
        /\ [me EXCEPT !.at = Onward(me.todo \ {d}), !.todo = @ \ {d}] \in Dispatcher
    <3>1. /\ "notifying" \in DispatcherAt
          /\ Onward(me.todo \ {d}) \in DispatcherAt
          /\ me.todo \ {d} \in SUBSET Drivers
      BY <1>a DEF Onward, DispatcherAt, Dispatcher
    <3> QED
      BY <1>a, <3>1 DEF Dispatcher
  <2>2. dispatcher' \in [Dispatchers -> Dispatcher]
    BY <1>a, <1>4, <2>1, OffIdle DEF ReserveDriver, TypeOK
  <2>3. TypeOK'
    BY <1>a, <1>b, <1>4, <2>2 DEF ReserveDriver, TypeOK, database, bounds
  <2>4. ProcessOK'
    <3>1. /\ handler' = handler
          /\ \A k \in Dispatchers \ {l} : dispatcher'[k] = dispatcher[k]
      BY <1>a, <1>4 DEF ReserveDriver, TypeOK
    <3>2. \A r \in Rides : status[r] # "none" => status'[r] # "none"
      BY <1>a, <1>4 DEF ReserveDriver, TypeOK, database
    <3>3. /\ dispatcher'[l].at # "off" =>
                dispatcher'[l].ride \in Rides /\ status'[dispatcher'[l].ride] # "none"
          /\ dispatcher'[l].at \in {"notifying", "waiting", "closing"} =>
                dispatcher'[l].driver \in Drivers
      <4>1. dispatcher'[l] \in
               {[me EXCEPT !.at = "notifying", !.driver = d, !.todo = @ \ {d}],
                [me EXCEPT !.at = Onward(me.todo \ {d}), !.todo = @ \ {d}]}
        BY <1>a, <1>4 DEF ReserveDriver, TypeOK
      <4>2. me.at = "offering"
        BY <1>4 DEF ReserveDriver
      <4> QED
        BY <1>a, <1>b, <3>2, <4>1, <4>2 DEF Onward, Dispatcher
    <3> QED
      BY <1>a, <3>1, <3>2, <3>3, LoopMoves
  <2> QED
    BY <2>2, <2>3, <2>4
<1>5. CASE SendOffer(l)
  <2>1. [me EXCEPT !.at = "waiting"] \in Dispatcher
    BY <1>a DEF Dispatcher, DispatcherAt
  <2>2. dispatcher' \in [Dispatchers -> Dispatcher]
    BY <1>a, <1>5, <2>1, OffIdle DEF SendOffer, TypeOK
  <2>3. TypeOK'
    BY <1>a, <1>b, <1>5, <2>2 DEF SendOffer, TypeOK, Holding, bounds
  <2>4. ProcessOK'
    BY <1>a, <1>b, <1>5, LoopMoves DEF SendOffer, TypeOK, Holding
  <2> QED
    BY <2>2, <2>3, <2>4
<1>6. CASE ReceiveAnswer(l)
  <2>1. ASSUME NEW w \in BOOLEAN PROVE [me EXCEPT !.at = "closing", !.won = w] \in Dispatcher
    BY <1>a DEF Dispatcher, DispatcherAt
  <2>2. dispatcher' \in [Dispatchers -> Dispatcher]
    BY <1>a, <1>6, <2>1, OffIdle DEF ReceiveAnswer, TypeOK
  <2>3. TypeOK'
    BY <1>a, <1>b, <1>6, <2>2 DEF ReceiveAnswer, TypeOK, Holding, database, bounds
  <2>4. ProcessOK'
    BY <1>a, <1>b, <1>6, LoopMoves DEF ReceiveAnswer, TypeOK, Holding, database
  <2> QED
    BY <2>2, <2>3, <2>4
<1>7. CASE OfferTimesOut(l)
  <2>1. [me EXCEPT !.at = "closing"] \in Dispatcher
    BY <1>a DEF Dispatcher, DispatcherAt
  <2>2. dispatcher' \in [Dispatchers -> Dispatcher]
    BY <1>a, <1>7, <2>1, OffIdle DEF OfferTimesOut, TypeOK
  <2>3. TypeOK'
    BY <1>a, <1>b, <1>7, <2>2 DEF OfferTimesOut, TypeOK, database, redis, bounds
  <2>4. ProcessOK'
    BY <1>a, <1>b, <1>7, LoopMoves DEF OfferTimesOut, TypeOK, Holding, database
  <2> QED
    BY <2>2, <2>3, <2>4
<1>8. CASE CloseOffer(l)
  <2>2. dispatcher' \in [Dispatchers -> Dispatcher]
    BY <1>a, <1>8, OffIdle DEF CloseOffer, TypeOK
  <2>3. TypeOK'
    BY <1>a, <1>b, <1>8, <2>2 DEF CloseOffer, Closed, Released, TypeOK, Holding, bounds
  <2>4. ProcessOK'
    <3>1. /\ handler' = handler
          /\ \A k \in Dispatchers \ {l} : dispatcher'[k] = dispatcher[k]
      BY <1>a, <1>8 DEF CloseOffer, TypeOK
    <3>2. \A r \in Rides : status[r] # "none" => status'[r] # "none"
      BY <1>a, <1>8 DEF CloseOffer, TypeOK, database
    <3>3. /\ dispatcher'[l].at # "off" =>
                dispatcher'[l].ride \in Rides /\ status'[dispatcher'[l].ride] # "none"
          /\ dispatcher'[l].at \in {"notifying", "waiting", "closing"} =>
                dispatcher'[l].driver \in Drivers
      BY <1>a, <1>b, <1>8, <3>2 DEF CloseOffer, TypeOK, Off
    <3> QED
      BY <1>a, <3>1, <3>2, <3>3, LoopMoves
  <2> QED
    BY <2>2, <2>3, <2>4
<1>9. CASE ExpireRide(l)
  <2>1. Off \in Dispatcher
    BY OffIdle
  <2>2. dispatcher' \in [Dispatchers -> Dispatcher]
    BY <1>a, <1>9, <2>1, OffIdle DEF ExpireRide, TypeOK
  <2>3. TypeOK'
    BY <1>a, <1>b, <1>9, <2>2 DEF ExpireRide, Expired, RideStatus, TypeOK, redis, bounds
  <2>4. ProcessOK'
    BY <1>a, <1>b, <1>9, LoopMoves DEF ExpireRide, Expired, TypeOK, Off
  <2> QED
    BY <2>2, <2>3, <2>4
<1> QED
  BY <1>1, <1>2, <1>3, <1>4, <1>5, <1>6, <1>7, <1>8, <1>9 DEF DispatchStep

\* Every request of a driver or a rider that holds a handler.
LEMMA HandlerSane ==
    ASSUME Sane, NEW h \in Handlers, Arrive(h) \/ HandlerStep(h)
    PROVE  Sane'
<1> DEFINE me == handler[h]
<1>a. TypeOK /\ ProcessOK /\ me \in Handler
  BY DEF Sane, TypeOK
<1>b. /\ me.at # "idle" => me.ride \in Rides /\ status[me.ride] # "none"
      /\ me.at \notin {"idle", "cancelling"} => me.driver \in Drivers
  BY <1>a DEF ProcessOK
<1>c. SUFFICES handler' \in [Handlers -> Handler] /\ TypeOK' /\ ProcessOK'
  BY DEF Sane
<1>1. ASSUME NEW r \in Rides, Cancel(h, r)
      PROVE  handler' \in [Handlers -> Handler] /\ TypeOK' /\ ProcessOK'
  <2>1. handler' \in [Handlers -> Handler]
    BY <1>a, <1>b, <1>1, OffIdle DEF Cancel, TypeOK, Handler, HandlerAt
  <2>2. TypeOK'
    BY <1>a, <1>b, <1>1, <2>1 DEF Cancel, TypeOK, database, redis, bounds
  <2>3. ProcessOK'
    <3>1. /\ dispatcher' = dispatcher
          /\ \A g \in Handlers \ {h} : handler'[g] = handler[g]
      BY <1>a, <1>1 DEF Cancel, TypeOK
    <3>2. \A q \in Rides : status[q] # "none" => status'[q] # "none"
      BY <1>a, <1>b, <1>1 DEF Cancel, TypeOK, database
    <3>3. /\ handler'[h].at # "idle" =>
                handler'[h].ride \in Rides /\ status'[handler'[h].ride] # "none"
          /\ handler'[h].at \notin {"idle", "cancelling"} => handler'[h].driver \in Drivers
      BY <1>a, <1>b, <1>1, <3>2 DEF Cancel, TypeOK, Handler
    <3> QED
      BY <1>a, <3>1, <3>2, <3>3, HandlerMoves
  <2> QED
    BY <2>1, <2>2, <2>3
<1>2. ASSUME NEW r \in Rides, NEW d \in Drivers, Claim(h, r, d)
      PROVE  handler' \in [Handlers -> Handler] /\ TypeOK' /\ ProcessOK'
  <2>1. handler' \in [Handlers -> Handler]
    BY <1>a, <1>b, <1>2, OffIdle DEF Claim, TypeOK, Handler, HandlerAt
  <2>2. TypeOK'
    BY <1>a, <1>b, <1>2, <2>1 DEF Claim, TypeOK, RideStatus, redis, bounds
  <2>3. ProcessOK'
    <3>1. /\ dispatcher' = dispatcher
          /\ \A g \in Handlers \ {h} : handler'[g] = handler[g]
      BY <1>a, <1>2 DEF Claim, TypeOK
    <3>2. \A q \in Rides : status[q] # "none" => status'[q] # "none"
      BY <1>a, <1>b, <1>2 DEF Claim, TypeOK, database
    <3>3. /\ handler'[h].at # "idle" =>
                handler'[h].ride \in Rides /\ status'[handler'[h].ride] # "none"
          /\ handler'[h].at \notin {"idle", "cancelling"} => handler'[h].driver \in Drivers
      BY <1>a, <1>b, <1>2, <3>2 DEF Claim, Claimable, TypeOK, Handler
    <3> QED
      BY <1>a, <3>1, <3>2, <3>3, HandlerMoves
  <2> QED
    BY <2>1, <2>2, <2>3
<1>3. ASSUME NEW r \in Rides, NEW d \in Drivers, NEW s \in {"arrived", "in_progress"},
             Transition(h, r, d, s)
      PROVE  handler' \in [Handlers -> Handler] /\ TypeOK' /\ ProcessOK'
  <2>1. handler' \in [Handlers -> Handler]
    BY <1>a, <1>b, <1>3, OffIdle DEF Transition, TypeOK, Handler, HandlerAt
  <2>2. TypeOK'
    BY <1>a, <1>b, <1>3, <2>1 DEF Transition, AllowedFrom, TypeOK, RideStatus, redis, bounds
  <2>3. ProcessOK'
    <3>1. /\ dispatcher' = dispatcher
          /\ \A g \in Handlers \ {h} : handler'[g] = handler[g]
      BY <1>a, <1>3 DEF Transition, TypeOK
    <3>2. \A q \in Rides : status[q] # "none" => status'[q] # "none"
      BY <1>a, <1>b, <1>3 DEF Transition, TypeOK, database
    <3>3. /\ handler'[h].at # "idle" =>
                handler'[h].ride \in Rides /\ status'[handler'[h].ride] # "none"
          /\ handler'[h].at \notin {"idle", "cancelling"} => handler'[h].driver \in Drivers
      BY <1>a, <1>b, <1>3, <3>2 DEF Transition, AllowedFrom, TypeOK, Handler
    <3> QED
      BY <1>a, <3>1, <3>2, <3>3, HandlerMoves
  <2> QED
    BY <2>1, <2>2, <2>3
<1>4. ASSUME NEW r \in Rides, NEW d \in Drivers, Complete(h, r, d)
      PROVE  handler' \in [Handlers -> Handler] /\ TypeOK' /\ ProcessOK'
  <2>1. handler' \in [Handlers -> Handler]
    BY <1>a, <1>b, <1>4, OffIdle DEF Complete, TypeOK, Handler, HandlerAt
  <2>2. TypeOK'
    BY <1>a, <1>b, <1>4, <2>1 DEF Complete, TypeOK, database, redis, bounds
  <2>3. ProcessOK'
    <3>1. /\ dispatcher' = dispatcher
          /\ \A g \in Handlers \ {h} : handler'[g] = handler[g]
      BY <1>a, <1>4 DEF Complete, TypeOK
    <3>2. \A q \in Rides : status[q] # "none" => status'[q] # "none"
      BY <1>a, <1>b, <1>4 DEF Complete, TypeOK, database
    <3>3. /\ handler'[h].at # "idle" =>
                handler'[h].ride \in Rides /\ status'[handler'[h].ride] # "none"
          /\ handler'[h].at \notin {"idle", "cancelling"} => handler'[h].driver \in Drivers
      BY <1>a, <1>b, <1>4, <3>2 DEF Complete, Completable, TypeOK, Handler
    <3> QED
      BY <1>a, <3>1, <3>2, <3>3, HandlerMoves
  <2> QED
    BY <2>1, <2>2, <2>3
<1>5. CASE AnswerAccepted(h)
  <2>1. handler' \in [Handlers -> Handler]
    BY <1>a, <1>b, <1>5, OffIdle DEF AnswerAccepted, TypeOK, Handler, HandlerAt
  <2>2. TypeOK'
    BY <1>a, <1>b, <1>5, <2>1 DEF AnswerAccepted, TypeOK, database, bounds
  <2>3. ProcessOK'
    <3>1. /\ dispatcher' = dispatcher
          /\ \A g \in Handlers \ {h} : handler'[g] = handler[g]
      BY <1>a, <1>5 DEF AnswerAccepted, TypeOK
    <3>2. \A r \in Rides : status[r] # "none" => status'[r] # "none"
      BY <1>a, <1>b, <1>5 DEF AnswerAccepted, TypeOK, database
    <3>3. /\ handler'[h].at # "idle" =>
                handler'[h].ride \in Rides /\ status'[handler'[h].ride] # "none"
          /\ handler'[h].at \notin {"idle", "cancelling"} => handler'[h].driver \in Drivers
      BY <1>a, <1>b, <1>5, <3>2 DEF AnswerAccepted, TypeOK
    <3> QED
      BY <1>a, <3>1, <3>2, <3>3, HandlerMoves
  <2> QED
    BY <2>1, <2>2, <2>3
<1>6. CASE SetDriverState(h)
  <2>1. handler' \in [Handlers -> Handler]
    BY <1>a, <1>b, <1>6, OffIdle DEF SetDriverState, TypeOK, Handler, HandlerAt
  <2>2. TypeOK'
    BY <1>a, <1>b, <1>6, <2>1 DEF SetDriverState, TypeOK, redis, bounds
  <2>3. ProcessOK'
    <3>1. /\ dispatcher' = dispatcher
          /\ \A g \in Handlers \ {h} : handler'[g] = handler[g]
      BY <1>a, <1>6 DEF SetDriverState, TypeOK
    <3>2. \A r \in Rides : status[r] # "none" => status'[r] # "none"
      BY <1>a, <1>b, <1>6 DEF SetDriverState, TypeOK, database
    <3>3. /\ handler'[h].at # "idle" =>
                handler'[h].ride \in Rides /\ status'[handler'[h].ride] # "none"
          /\ handler'[h].at \notin {"idle", "cancelling"} => handler'[h].driver \in Drivers
      BY <1>a, <1>b, <1>6, <3>2 DEF SetDriverState, TypeOK, Idle
    <3> QED
      BY <1>a, <3>1, <3>2, <3>3, HandlerMoves
  <2> QED
    BY <2>1, <2>2, <2>3
<1>7. CASE CloseTrip(h)
  <2>1. handler' \in [Handlers -> Handler]
    BY <1>a, <1>b, <1>7, OffIdle DEF CloseTrip, TypeOK, Handler, HandlerAt
  <2>2. TypeOK'
    BY <1>a, <1>b, <1>7, <2>1 DEF CloseTrip, TypeOK, RideStatus, redis, bounds
  <2>3. ProcessOK'
    <3>1. /\ dispatcher' = dispatcher
          /\ \A g \in Handlers \ {h} : handler'[g] = handler[g]
      BY <1>a, <1>7 DEF CloseTrip, TypeOK
    <3>2. \A r \in Rides : status[r] # "none" => status'[r] # "none"
      BY <1>a, <1>b, <1>7 DEF CloseTrip, TypeOK, database
    <3>3. /\ handler'[h].at # "idle" =>
                handler'[h].ride \in Rides /\ status'[handler'[h].ride] # "none"
          /\ handler'[h].at \notin {"idle", "cancelling"} => handler'[h].driver \in Drivers
      BY <1>a, <1>b, <1>7, <3>2 DEF CloseTrip, TypeOK
    <3> QED
      BY <1>a, <3>1, <3>2, <3>3, HandlerMoves
  <2> QED
    BY <2>1, <2>2, <2>3
<1>8. CASE SettleTrip(h)
  <2>1. handler' \in [Handlers -> Handler]
    BY <1>a, <1>b, <1>8, OffIdle DEF SettleTrip, TypeOK, Handler, HandlerAt
  <2>2. TypeOK'
    BY <1>a, <1>b, <1>8, <2>1 DEF SettleTrip, TypeOK, redis, bounds
  <2>3. ProcessOK'
    <3>1. /\ dispatcher' = dispatcher
          /\ \A g \in Handlers \ {h} : handler'[g] = handler[g]
      BY <1>a, <1>8 DEF SettleTrip, TypeOK
    <3>2. \A r \in Rides : status[r] # "none" => status'[r] # "none"
      BY <1>a, <1>b, <1>8 DEF SettleTrip, TypeOK, database
    <3>3. /\ handler'[h].at # "idle" =>
                handler'[h].ride \in Rides /\ status'[handler'[h].ride] # "none"
          /\ handler'[h].at \notin {"idle", "cancelling"} => handler'[h].driver \in Drivers
      BY <1>a, <1>b, <1>8, <3>2 DEF SettleTrip, TypeOK, Idle
    <3> QED
      BY <1>a, <3>1, <3>2, <3>3, HandlerMoves
  <2> QED
    BY <2>1, <2>2, <2>3
<1>9. CASE CancelRide(h)
  <2>1. handler' \in [Handlers -> Handler]
    BY <1>a, <1>b, <1>9, OffIdle DEF CancelRide, TypeOK, Handler, HandlerAt
  <2>2. TypeOK'
    BY <1>a, <1>b, <1>9, <2>1 DEF CancelRide, TypeOK, RideStatus, redis, bounds
  <2>3. ProcessOK'
    <3>1. /\ dispatcher' = dispatcher
          /\ \A g \in Handlers \ {h} : handler'[g] = handler[g]
      BY <1>a, <1>9 DEF CancelRide, TypeOK
    <3>2. \A r \in Rides : status[r] # "none" => status'[r] # "none"
      BY <1>a, <1>b, <1>9 DEF CancelRide, TypeOK, database
    <3>3. /\ handler'[h].at # "idle" =>
                handler'[h].ride \in Rides /\ status'[handler'[h].ride] # "none"
          /\ handler'[h].at \notin {"idle", "cancelling"} => handler'[h].driver \in Drivers
      BY <1>a, <1>b, <1>9, <3>2 DEF CancelRide, TypeOK, Idle, Handler
    <3> QED
      BY <1>a, <3>1, <3>2, <3>3, HandlerMoves
  <2> QED
    BY <2>1, <2>2, <2>3
<1>10. CASE FreeDriver(h)
  <2>1. handler' \in [Handlers -> Handler]
    BY <1>a, <1>b, <1>10, OffIdle DEF FreeDriver, TypeOK, Handler, HandlerAt
  <2>2. TypeOK'
    BY <1>a, <1>b, <1>10, <2>1 DEF FreeDriver, TypeOK, redis, bounds
  <2>3. ProcessOK'
    <3>1. /\ dispatcher' = dispatcher
          /\ \A g \in Handlers \ {h} : handler'[g] = handler[g]
      BY <1>a, <1>10 DEF FreeDriver, TypeOK
    <3>2. \A r \in Rides : status[r] # "none" => status'[r] # "none"
      BY <1>a, <1>b, <1>10 DEF FreeDriver, TypeOK, database
    <3>3. /\ handler'[h].at # "idle" =>
                handler'[h].ride \in Rides /\ status'[handler'[h].ride] # "none"
          /\ handler'[h].at \notin {"idle", "cancelling"} => handler'[h].driver \in Drivers
      BY <1>a, <1>b, <1>10, <3>2 DEF FreeDriver, TypeOK, Idle
    <3> QED
      BY <1>a, <3>1, <3>2, <3>3, HandlerMoves
  <2> QED
    BY <2>1, <2>2, <2>3
<1> QED
  BY <1>1, <1>2, <1>3, <1>4, <1>5, <1>6, <1>7, <1>8, <1>9, <1>10 DEF Arrive, HandlerStep

\* What happens to the system from outside: requests, declines, time and failure.
LEMMA OutsideSane ==
    ASSUME Sane,
           \/ \E r \in Rides, l \in Dispatchers : CreateOrGet(r, l)
           \/ \E l \in Dispatchers : DispatchFails(l)
           \/ \E h \in Handlers : HandlerFails(h)
           \/ \E r \in Rides, d \in Drivers : DeclineOffer(r, d) \/ ExpireKey(r, d)
           \/ \E d \in Drivers : TakeOffline(d) \/ ExpireLock(d)
           \/ Crash
    PROVE  Sane'
<1>a. TypeOK /\ ProcessOK
  BY DEF Sane
<1>b. SUFFICES TypeOK' /\ ProcessOK'
  BY DEF Sane
<1>1. ASSUME NEW r \in Rides, NEW l \in Dispatchers, CreateOrGet(r, l)
      PROVE  TypeOK' /\ ProcessOK'
  <2>1. [Off EXCEPT !.at = "starting", !.ride = r] \in Dispatcher
    BY OffIdle DEF Dispatcher, DispatcherAt
  <2>2. dispatcher' \in [Dispatchers -> Dispatcher]
    BY <1>a, <1>1, <2>1 DEF CreateOrGet, TypeOK
  <2>3. TypeOK'
    <3>1. status' \in {status, [status EXCEPT ![r] = "requested"]}
      BY <1>1 DEF CreateOrGet
    <3>2. status' \in [Rides -> RideStatus]
      BY <1>a, <3>1 DEF TypeOK, RideStatus
    <3>3. requests' \in Nat
      <4>1. requests \in Nat /\ requests' = requests + 1
        BY <1>a, <1>1 DEF CreateOrGet, TypeOK
      <4> QED
        BY <4>1
    <3> QED
      BY <1>a, <1>1, <2>2, <3>2, <3>3 DEF CreateOrGet, TypeOK, redis
  <2>4. \A q \in Rides : status[q] # "none" => status'[q] # "none"
    BY <1>a, <1>1 DEF CreateOrGet, TypeOK
  <2>5. dispatcher'[l].at = "starting" /\ dispatcher'[l].ride = r /\ status'[r] # "none"
    BY <1>a, <1>1 DEF CreateOrGet, TypeOK, Off
  <2>6. /\ handler' = handler
        /\ \A k \in Dispatchers \ {l} : dispatcher'[k] = dispatcher[k]
    BY <1>a, <1>1 DEF CreateOrGet, TypeOK
  <2>7. ProcessOK'
    BY <1>a, <2>4, <2>5, <2>6, LoopMoves
  <2> QED
    BY <2>3, <2>7
<1>2. ASSUME NEW l \in Dispatchers, DispatchFails(l) PROVE TypeOK' /\ ProcessOK'
  <2>1. dispatcher' \in [Dispatchers -> Dispatcher]
    BY <1>a, <1>2, OffIdle DEF DispatchFails, TypeOK
  <2>2. lock' \in [Drivers -> Rides \cup {NoRide}]
    BY <1>a, <1>2 DEF DispatchFails, Released, TypeOK
  <2>3. offer' \in [Rides -> [Drivers -> {"none", "open", "accepted", "lapsed"}]]
    <3>1. Closed(dispatcher[l]) \in [Rides -> [Drivers -> {"none", "open", "accepted", "lapsed"}]]
      BY ZenonT(40), <1>a DEF Closed, TypeOK
    <3> QED
      BY <1>a, <1>2, <3>1 DEF DispatchFails, TypeOK
  <2>4. TypeOK'
    BY <1>a, <1>2, <2>1, <2>2, <2>3 DEF DispatchFails, TypeOK
  <2>5. ProcessOK'
    BY <1>a, <1>2, LoopMoves DEF DispatchFails, Off, TypeOK
  <2> QED
    BY <2>4, <2>5
<1>3. ASSUME NEW h \in Handlers, HandlerFails(h) PROVE TypeOK' /\ ProcessOK'
  <2>1. handler' \in [Handlers -> Handler]
    BY <1>a, <1>3, OffIdle DEF HandlerFails, TypeOK
  <2>2. TypeOK'
    BY <1>a, <1>3, <2>1 DEF HandlerFails, TypeOK, database, redis
  <2>3. ProcessOK'
    BY <1>a, <1>3, HandlerMoves DEF HandlerFails, Idle, TypeOK, database
  <2> QED
    BY <2>2, <2>3
<1>4. ASSUME NEW r \in Rides, NEW d \in Drivers, DeclineOffer(r, d) \/ ExpireKey(r, d)
      PROVE  TypeOK' /\ ProcessOK'
  <2>1. TypeOK'
    <3>1. CASE DeclineOffer(r, d)
      BY <1>a, <3>1 DEF DeclineOffer, TypeOK, bounds
    <3>2. CASE ExpireKey(r, d)
      <4>1. tokens' \in SUBSET (Rides \X Drivers)
        BY <1>a, <3>2 DEF ExpireKey, TypeOK
      <4>2. answer' \in [Rides -> [Drivers -> {"none", "accepted", "declined"}]]
        <5>1. answer' \in {answer, [answer EXCEPT ![r][d] = "none"]}
          BY <3>2 DEF ExpireKey
        <5>2. answer \in [Rides -> [Drivers -> {"none", "accepted", "declined"}]]
          BY <1>a DEF TypeOK
        <5>3. [answer EXCEPT ![r][d] = "none"]
                 \in [Rides -> [Drivers -> {"none", "accepted", "declined"}]]
          BY <5>2
        <5> QED
          BY <5>1, <5>2, <5>3
      <4> QED
        BY <1>a, <3>2, <4>1, <4>2 DEF ExpireKey, TypeOK, database, bounds
    <3> QED
      BY <1>4, <3>1, <3>2
  <2>2. UNCHANGED <<status, dispatcher, handler>>
    BY <1>4 DEF DeclineOffer, ExpireKey, database
  <2> QED
    BY <1>a, <2>1, <2>2 DEF ProcessOK, Holding
<1>5. ASSUME NEW d \in Drivers, TakeOffline(d) \/ ExpireLock(d) PROVE TypeOK' /\ ProcessOK'
  <2>1. TypeOK'
    BY <1>a, <1>5 DEF TakeOffline, ExpireLock, TypeOK, database, redis, bounds
  <2>2. UNCHANGED <<status, dispatcher, handler>>
    BY <1>5 DEF TakeOffline, ExpireLock, database
  <2> QED
    BY <1>a, <2>1, <2>2 DEF ProcessOK, Holding
<1>6. CASE Crash
  <2>1. TypeOK'
    BY <1>a, <1>6, OffIdle DEF Crash, TypeOK, database, redis
  <2>2. ProcessOK'
    BY <1>6 DEF Crash, ProcessOK, Holding, Off, Idle
  <2> QED
    BY <2>1, <2>2
<1> QED
  BY <1>1, <1>2, <1>3, <1>4, <1>5, <1>6

LEMMA StepSane == Sane /\ [Next]_vars => Sane'
<1> SUFFICES ASSUME Sane, [Next]_vars PROVE Sane'
  OBVIOUS
<1>1. CASE UNCHANGED vars
  BY <1>1 DEF Sane, TypeOK, ProcessOK, Holding, vars, database, redis, bounds
<1>2. CASE Next
  BY <1>2, DispatchSane, HandlerSane, OutsideSane DEF Next
<1> QED
  BY <1>1, <1>2

\* Every variable keeps its type, and every loop and handler its references.
THEOREM AlwaysSane == Spec => []Sane
BY InitSane, StepSane, PTL DEF Spec

\* The type invariant that the runs check.
THEOREM TypesHold == Spec => []TypeOK
<1>1. Sane => TypeOK
  BY DEF Sane
<1> QED
  BY <1>1, AlwaysSane, PTL

-----------------------------------------------------------------------------
(* Drivers and trips *)

\* The driver of a ride is never replaced: only a claim writes him, and its WHERE
\* asks for NULL.
THEOREM DriverIsFinal == Spec => DriverAssignedOnce
<1>1. Sane /\ [Next]_vars => [\A r \in Rides : driver[r] # NoDriver => driver'[r] = driver[r]]_vars
  <2> SUFFICES ASSUME Sane, Next, NEW r \in Rides, driver[r] # NoDriver
               PROVE  driver'[r] = driver[r]
    BY DEF vars, database
  <2>1. ASSUME NEW h \in Handlers, NEW q \in Rides, NEW d \in Drivers, Claim(h, q, d)
        PROVE  driver'[r] = driver[r]
    BY <2>1 DEF Claim, Claimable, Sane, TypeOK
  <2>3. ASSUME NEW l \in Dispatchers, DispatchStep(l) \/ DispatchFails(l) PROVE driver' = driver
    BY <2>3 DEF DispatchStep, DispatchFails, database, StartDispatch, MarkSearching,
         FindCandidates, ReserveDriver, SendOffer, ReceiveAnswer, OfferTimesOut, CloseOffer,
         ExpireRide
  <2>4. ASSUME NEW h \in Handlers, HandlerStep(h) \/ HandlerFails(h) PROVE driver' = driver
    BY <2>4 DEF HandlerStep, HandlerFails, database, AnswerAccepted, SetDriverState, CloseTrip,
         SettleTrip, CancelRide, FreeDriver
  <2>5. ASSUME NEW h \in Handlers, Arrive(h) PROVE driver'[r] = driver[r]
    <3>1. ASSUME NEW q \in Rides, NEW d \in Drivers, NEW s \in {"arrived", "in_progress"},
                 Transition(h, q, d, s)
          PROVE  driver' = driver
      BY <3>1 DEF Transition
    <3>2. ASSUME NEW q \in Rides, Cancel(h, q) PROVE driver' = driver
      BY <3>2 DEF Cancel, database
    <3>3. ASSUME NEW q \in Rides, NEW d \in Drivers, Complete(h, q, d) PROVE driver' = driver
      BY <3>3 DEF Complete, database
    <3> QED
      BY <2>1, <2>5, <3>1, <3>2, <3>3 DEF Arrive
  <2>6. ASSUME NEW q \in Rides, NEW d \in Drivers, DeclineOffer(q, d) \/ ExpireKey(q, d)
        PROVE  driver' = driver
    BY <2>6 DEF DeclineOffer, ExpireKey, database
  <2>7. ASSUME NEW d \in Drivers, TakeOffline(d) \/ ExpireLock(d) PROVE driver' = driver
    BY <2>7 DEF TakeOffline, ExpireLock, database
  <2>8. ASSUME NEW q \in Rides, NEW l \in Dispatchers, CreateOrGet(q, l) PROVE driver' = driver
    BY <2>8 DEF CreateOrGet
  <2>9. CASE Crash
    BY <2>9 DEF Crash, database
  <2> QED
    BY <2>1, <2>3, <2>4, <2>5, <2>6, <2>7, <2>8, <2>9 DEF Next
<1> QED
  BY <1>1, AlwaysSane, PTL DEF Spec, DriverAssignedOnce

\* TripsHaveDrivers is not inductive: a completion writes what its SELECT saw some
\* awaits ago.  It saw a started trip of its own driver, and neither the start nor
\* the driver of a ride is ever taken back.
TripInv ==
    /\ TripsHaveDrivers
    /\ \A r \in Rides :
          /\ status[r] = "in_progress" => started[r]
          /\ started[r] => driver[r] # NoDriver
    /\ \A h \in Handlers :
          /\ handler[h].at \in {"claimed", "moved", "completing", "completed"} =>
                driver[handler[h].ride] = handler[h].driver
          /\ handler[h].at \in {"completing", "completed"} => started[handler[h].ride]

\* A step that leaves the trips and the handlers alone.
LEMMA TripsUndisturbed ==
    ASSUME TripInv, UNCHANGED <<status, driver, started, settled, handler>>
    PROVE  TripInv'
  BY DEF TripInv, TripsHaveDrivers

\* A step that only moves one ride's status, to one that asks for nothing more, or
\* for what the ride already has.
LEMMA StatusMoves ==
    ASSUME Sane, TripInv, NEW r \in Rides, NEW s \in RideStatus,
           status' = [status EXCEPT ![r] = s],
           UNCHANGED <<driver, started, settled>>,
           \/ s \in {"requested", "searching", "cancelled", "expired"}
           \/ s = "completed" /\ started[r],
           \A h \in Handlers :
              \/ handler'[h] = handler[h]
              \/ handler'[h].at \in {"idle", "cancelled"}
              \/ /\ handler[h].at = "completing"
                 /\ handler'[h] = [handler[h] EXCEPT !.at = "completed"]
    PROVE  TripInv'
<1>1. TripsHaveDrivers'
  BY DEF TripInv, TripsHaveDrivers, Sane, TypeOK
<1>2. \A q \in Rides : (status'[q] = "in_progress" => started'[q]) /\ (started'[q] => driver'[q] # NoDriver)
  BY DEF TripInv, Sane, TypeOK
<1>3. \A g \in Handlers :
          /\ handler'[g].at \in {"claimed", "moved", "completing", "completed"} =>
                driver'[handler'[g].ride] = handler'[g].driver
          /\ handler'[g].at \in {"completing", "completed"} => started'[handler'[g].ride]
  <2> TAKE g \in Handlers
  <2>1. CASE handler'[g] = handler[g]
    BY <2>1 DEF TripInv
  <2>2. CASE handler'[g].at \in {"idle", "cancelled"}
    BY <2>2
  <2>3. CASE handler[g].at = "completing" /\ handler'[g] = [handler[g] EXCEPT !.at = "completed"]
    BY <2>3 DEF TripInv, Sane, TypeOK, Handler
  <2> QED
    BY <2>1, <2>2, <2>3
<1> QED
  BY <1>1, <1>2, <1>3 DEF TripInv

\* The steps of the dispatch loop.
LEMMA DispatchKeepsTrips ==
    ASSUME Sane, TripInv, NEW l \in Dispatchers, DispatchStep(l) \/ DispatchFails(l)
    PROVE  TripInv'
<1>a. handler' = handler /\ UNCHANGED <<driver, started, settled>>
  BY DEF DispatchStep, DispatchFails, StartDispatch, MarkSearching, FindCandidates, database,
       ReserveDriver, SendOffer, ReceiveAnswer, OfferTimesOut, CloseOffer, ExpireRide
<1>b. dispatcher[l].at # "off" => dispatcher[l].ride \in Rides
  BY DEF Sane, ProcessOK
<1>1. CASE MarkSearching(l)
  <2>1. \/ UNCHANGED status
        \/ status' = [status EXCEPT ![dispatcher[l].ride] = "searching"]
    BY <1>1 DEF MarkSearching
  <2>2. dispatcher[l].ride \in Rides /\ "searching" \in RideStatus
    BY <1>1, <1>b DEF MarkSearching, RideStatus
  <2> QED
    BY <1>a, <2>1, <2>2, TripsUndisturbed, StatusMoves
<1>2. CASE ExpireRide(l)
  <2>1. \/ UNCHANGED status
        \/ status' = [status EXCEPT ![dispatcher[l].ride] = "expired"]
    BY <1>2 DEF ExpireRide, Expired, Sane, TypeOK
  <2>2. dispatcher[l].ride \in Rides /\ "expired" \in RideStatus
    BY <1>2, <1>b DEF ExpireRide, RideStatus
  <2> QED
    BY <1>a, <2>1, <2>2, TripsUndisturbed, StatusMoves
<1>3. CASE UNCHANGED status
  BY <1>a, <1>3, TripsUndisturbed
<1> QED
  BY <1>1, <1>2, <1>3 DEF DispatchStep, DispatchFails, StartDispatch, FindCandidates, database,
       ReserveDriver, SendOffer, ReceiveAnswer, OfferTimesOut, CloseOffer

\* The requests of drivers and riders.
LEMMA HandlersKeepTrips ==
    ASSUME Sane, TripInv, NEW h \in Handlers, Arrive(h) \/ HandlerStep(h)
    PROVE  TripInv'
<1> DEFINE me == handler[h]
<1>a. TypeOK /\ me \in Handler
  BY DEF Sane, TypeOK
<1>b. me.at # "idle" => me.ride \in Rides
  BY DEF Sane, ProcessOK
<1>1. ASSUME NEW r \in Rides, NEW d \in Drivers, Claim(h, r, d) PROVE TripInv'
  <2>1. TripsHaveDrivers'
    BY <1>a, <1>1, NullAssumption DEF Claim, Claimable, TripInv, TripsHaveDrivers, TypeOK,
         NullAssumption
  <2>2. \A q \in Rides :
           (status'[q] = "in_progress" => started'[q]) /\ (started'[q] => driver'[q] # NoDriver)
    BY <1>a, <1>1, NullAssumption DEF Claim, Claimable, TripInv, TypeOK, NullAssumption
  <2>3. \A g \in Handlers : handler'[g].at \in {"claimed", "moved", "completing", "completed"}
                               => driver'[handler'[g].ride] = handler'[g].driver
    <3> SUFFICES ASSUME NEW g \in Handlers,
                        handler'[g].at \in {"claimed", "moved", "completing", "completed"}
                 PROVE  driver'[handler'[g].ride] = handler'[g].driver
      OBVIOUS
    <3>1. CASE g = h
      BY <1>a, <1>1, <3>1 DEF Claim, TypeOK
    <3>2. CASE g # h
      <4>1. /\ handler'[g] = handler[g]
            /\ handler[g].ride \in Rides
            /\ handler[g].driver \in Drivers
            /\ driver[handler[g].ride] = handler[g].driver
        BY <1>a, <1>1, <3>2 DEF Claim, TypeOK, Sane, ProcessOK, TripInv
      <4>2. handler[g].ride # r
        BY <1>1, <4>1, NullAssumption DEF Claim, Claimable, NullAssumption
      <4> QED
        BY <1>a, <1>1, <4>1, <4>2 DEF Claim, TypeOK
    <3> QED
      BY <3>1, <3>2
  <2>4. \A g \in Handlers : handler'[g].at \in {"completing", "completed"}
                               => started'[handler'[g].ride]
    BY <1>a, <1>1 DEF Claim, TripInv, TypeOK
  <2> QED
    BY <2>1, <2>2, <2>3, <2>4 DEF TripInv
<1>2. ASSUME NEW r \in Rides, NEW d \in Drivers, NEW s \in {"arrived", "in_progress"},
             Transition(h, r, d, s)
      PROVE  TripInv'
  <2>1. TripsHaveDrivers'
    BY <1>a, <1>2, NullAssumption DEF Transition, TripInv, TripsHaveDrivers, TypeOK, NullAssumption
  <2>2. \A q \in Rides :
           (status'[q] = "in_progress" => started'[q]) /\ (started'[q] => driver'[q] # NoDriver)
    BY <1>a, <1>2, NullAssumption DEF Transition, TripInv, TypeOK, NullAssumption
  <2>3. \A g \in Handlers : handler'[g].at \in {"claimed", "moved", "completing", "completed"}
                               => driver'[handler'[g].ride] = handler'[g].driver
    BY <1>a, <1>2 DEF Transition, TripInv, TypeOK
  <2>4. \A g \in Handlers : handler'[g].at \in {"completing", "completed"}
                               => started'[handler'[g].ride]
    BY <1>a, <1>2 DEF Transition, TripInv, TypeOK
  <2> QED
    BY <2>1, <2>2, <2>3, <2>4 DEF TripInv
<1>3. ASSUME NEW r \in Rides, NEW d \in Drivers, Complete(h, r, d) PROVE TripInv'
  <2>1. UNCHANGED <<status, driver, started, settled>>
    BY <1>3 DEF Complete, database
  <2>2. \A g \in Handlers :
          /\ handler'[g].at \in {"claimed", "moved", "completing", "completed"} =>
                driver[handler'[g].ride] = handler'[g].driver
          /\ handler'[g].at \in {"completing", "completed"} => started[handler'[g].ride]
    BY <1>a, <1>3 DEF Complete, Completable, TripInv, TypeOK
  <2> QED
    BY <2>1, <2>2 DEF TripInv, TripsHaveDrivers
<1>4. CASE \E r \in Rides : Cancel(h, r)
  <2>1. UNCHANGED <<status, driver, started, settled>>
    BY <1>4 DEF Cancel, database
  <2>2. \A g \in Handlers : handler'[g] = handler[g] \/ handler'[g].at = "cancelling"
    BY <1>a, <1>4 DEF Cancel, TypeOK
  <2> QED
    BY <2>1, <2>2 DEF TripInv, TripsHaveDrivers
<1>5. CASE AnswerAccepted(h)
  <2>1. UNCHANGED <<status, driver, started, settled>>
    BY <1>5 DEF AnswerAccepted, database
  <2>2. /\ \A g \in Handlers \ {h} : handler'[g] = handler[g]
        /\ handler'[h] = [me EXCEPT !.at = "moved"]
        /\ me.at = "claimed"
    BY <1>a, <1>5 DEF AnswerAccepted, TypeOK
  <2>3. \A g \in Handlers :
          /\ handler'[g].at \in {"claimed", "moved", "completing", "completed"} =>
                driver[handler'[g].ride] = handler'[g].driver
          /\ handler'[g].at \in {"completing", "completed"} => started[handler'[g].ride]
    BY <1>a, <2>2 DEF TripInv, Handler
  <2> QED
    BY <2>1, <2>3 DEF TripInv, TripsHaveDrivers
<1>6. CASE SetDriverState(h) \/ FreeDriver(h)
  <2>1. UNCHANGED <<status, driver, started, settled>>
    BY <1>6 DEF SetDriverState, FreeDriver
  <2>2. \A g \in Handlers : handler'[g] = handler[g] \/ handler'[g].at = "idle"
    BY <1>a, <1>6 DEF SetDriverState, FreeDriver, TypeOK, Idle
  <2> QED
    BY <2>1, <2>2 DEF TripInv, TripsHaveDrivers
<1>7. CASE CloseTrip(h)
  <2>1. /\ me.at = "completing" /\ me.ride \in Rides /\ started[me.ride]
        /\ "completed" \in RideStatus
    BY <1>b, <1>7 DEF CloseTrip, TripInv, RideStatus
  <2>2. \A g \in Handlers :
           \/ handler'[g] = handler[g]
           \/ handler[g].at = "completing" /\ handler'[g] = [handler[g] EXCEPT !.at = "completed"]
    BY <1>a, <1>7 DEF CloseTrip, TypeOK
  <2>3. /\ status' = [status EXCEPT ![me.ride] = "completed"]
        /\ UNCHANGED <<driver, started, settled>>
    BY <1>7 DEF CloseTrip
  <2> QED
    BY <2>1, <2>2, <2>3, StatusMoves
<1>8. CASE SettleTrip(h)
  <2>1. me.at = "completed" /\ me.ride \in Rides /\ started[me.ride] /\ driver[me.ride] # NoDriver
    BY <1>b, <1>8 DEF SettleTrip, TripInv
  <2>2. /\ UNCHANGED <<status, driver, started>>
        /\ settled' = [settled EXCEPT ![me.ride] = @ + 1]
    BY <1>8 DEF SettleTrip
  <2>3. \A g \in Handlers : handler'[g] = handler[g] \/ handler'[g].at = "idle"
    BY <1>a, <1>8 DEF SettleTrip, TypeOK, Idle
  <2>4. TripsHaveDrivers'
    BY <1>a, <2>1, <2>2 DEF TripInv, TripsHaveDrivers, TypeOK
  <2> QED
    BY <2>2, <2>3, <2>4 DEF TripInv
<1>9. CASE CancelRide(h)
  <2>1. \/ UNCHANGED status
        \/ status' = [status EXCEPT ![me.ride] = "cancelled"]
    BY <1>a, <1>9 DEF CancelRide, TypeOK
  <2>2. \A g \in Handlers : handler'[g] = handler[g] \/ handler'[g].at \in {"idle", "cancelled"}
    BY <1>a, <1>9 DEF CancelRide, TypeOK, Idle, Handler
  <2>3. me.ride \in Rides /\ "cancelled" \in RideStatus /\ UNCHANGED <<driver, started, settled>>
    BY <1>b, <1>9 DEF CancelRide, RideStatus
  <2>4. CASE UNCHANGED status
    BY <2>2, <2>3, <2>4 DEF TripInv, TripsHaveDrivers
  <2> QED
    BY <2>1, <2>2, <2>3, <2>4, StatusMoves
<1> QED
  BY <1>1, <1>2, <1>3, <1>4, <1>5, <1>6, <1>7, <1>8, <1>9 DEF Arrive, HandlerStep

LEMMA StepKeepsTrips == Sane /\ TripInv /\ [Next]_vars => TripInv'
<1> SUFFICES ASSUME Sane, TripInv, [Next]_vars PROVE TripInv'
  OBVIOUS
<1>1. ASSUME NEW r \in Rides, NEW l \in Dispatchers, CreateOrGet(r, l) PROVE TripInv'
  <2>1. /\ UNCHANGED <<driver, started, settled, handler>>
        /\ UNCHANGED status \/ status' = [status EXCEPT ![r] = "requested"]
        /\ "requested" \in RideStatus
    BY <1>1 DEF CreateOrGet, RideStatus
  <2> QED
    BY <2>1, TripsUndisturbed, StatusMoves
<1>2. ASSUME NEW h \in Handlers, HandlerFails(h) PROVE TripInv'
  <2>1. /\ UNCHANGED <<status, driver, started, settled>>
        /\ \A g \in Handlers : handler'[g] = handler[g] \/ handler'[g].at = "idle"
    BY <1>2 DEF HandlerFails, database, Sane, TypeOK, Idle
  <2> QED
    BY <2>1 DEF TripInv, TripsHaveDrivers
<1>3. CASE Crash
  <2>1. /\ UNCHANGED <<status, driver, started, settled>>
        /\ \A g \in Handlers : handler'[g].at = "idle"
    BY <1>3 DEF Crash, database, Idle
  <2> QED
    BY <2>1 DEF TripInv, TripsHaveDrivers
<1>4. ASSUME NEW r \in Rides, NEW d \in Drivers, DeclineOffer(r, d) \/ ExpireKey(r, d)
      PROVE  TripInv'
  BY <1>4, TripsUndisturbed DEF DeclineOffer, ExpireKey, database
<1>5. ASSUME NEW d \in Drivers, TakeOffline(d) \/ ExpireLock(d) PROVE TripInv'
  BY <1>5, TripsUndisturbed DEF TakeOffline, ExpireLock, database
<1>6. CASE UNCHANGED vars
  BY <1>6, TripsUndisturbed DEF vars, database
<1> QED
  BY <1>1, <1>2, <1>3, <1>4, <1>5, <1>6, DispatchKeepsTrips, HandlersKeepTrips DEF Next

\* Together with the types, TripInv is an invariant...
LEMMA AlwaysTripInv == Spec => [](Sane /\ TripInv)
<1>1. Init => Sane /\ TripInv
  BY InitSane DEF Init, TripInv, TripsHaveDrivers, Idle
<1>2. Sane /\ TripInv /\ [Next]_vars => Sane' /\ TripInv'
  BY StepSane, StepKeepsTrips
<1> QED
  BY <1>1, <1>2, PTL DEF Spec

\* ... and with it: an accepted, arrived, running or closed ride has a driver, and one
\* that is closed or booked on a driver's row was begun by its driver.
THEOREM TripsAreDriven == Spec => []TripsHaveDrivers
<1>1. TripInv => TripsHaveDrivers
  BY DEF TripInv
<1> QED
  BY <1>1, AlwaysTripInv, PTL

-----------------------------------------------------------------------------
(* The rides table *)

\* A step that leaves the three columns alone stutters.
LEMMA Stutters ==
    ASSUME UNCHANGED <<status, driver, started>>
    PROVE  [Lifecycle!LNext]_(Lifecycle!lvars)
  BY DEF Lifecycle!lvars

\* A step of the dispatch loop searches again, gives up, or stutters.
LEMMA DispatchImplements ==
    ASSUME Sane, NEW l \in Dispatchers, DispatchStep(l) \/ DispatchFails(l)
    PROVE  [Lifecycle!LNext]_(Lifecycle!lvars)
<1> DEFINE r == dispatcher[l].ride
<1>a. UNCHANGED <<driver, started>>
  BY DEF DispatchStep, DispatchFails, StartDispatch, MarkSearching, FindCandidates, database,
       ReserveDriver, SendOffer, ReceiveAnswer, OfferTimesOut, CloseOffer, ExpireRide
<1>1. CASE MarkSearching(l)
  <2>1. r \in Rides /\ status[r] # "none"
    BY <1>1 DEF MarkSearching, Sane, ProcessOK
  <2>2. UNCHANGED status \/ status' = [status EXCEPT ![r] = "searching"]
    BY <1>1 DEF MarkSearching
  <2>3. CASE status' = [status EXCEPT ![r] = "searching"]
    <3>1. Lifecycle!BackToSearch(r)
      BY <1>a, <2>1, <2>3 DEF Lifecycle!BackToSearch, Lifecycle!Move
    <3> QED
      BY <2>1, <3>1 DEF Lifecycle!LNext
  <2> QED
    BY <1>a, <2>2, <2>3, Stutters
<1>2. CASE ExpireRide(l)
  <2>1. r \in Rides
    BY <1>2 DEF ExpireRide, Sane, ProcessOK
  <2>2. CASE status[r] = "searching"
    <3>1. Lifecycle!GiveUp(r)
      BY <1>a, <1>2, <2>1, <2>2 DEF ExpireRide, Expired, Sane, TypeOK,
           Lifecycle!GiveUp, Lifecycle!Move
    <3> QED
      BY <2>1, <3>1 DEF Lifecycle!LNext
  <2>3. CASE status[r] # "searching"
    BY <1>a, <1>2, <2>3, Stutters DEF ExpireRide, Expired, Sane, TypeOK
  <2> QED
    BY <2>2, <2>3
<1>3. CASE UNCHANGED status
  BY <1>a, <1>3, Stutters
<1> QED
  BY <1>1, <1>2, <1>3 DEF DispatchStep, DispatchFails, StartDispatch, FindCandidates, database,
       ReserveDriver, SendOffer, ReceiveAnswer, OfferTimesOut, CloseOffer

\* A request assigns, moves along, closes, gives up, or stutters.
LEMMA HandlersImplement ==
    ASSUME Sane, TripInv, NEW h \in Handlers, Arrive(h) \/ HandlerStep(h)
    PROVE  [Lifecycle!LNext]_(Lifecycle!lvars)
<1> DEFINE me == handler[h]
<1>1. ASSUME NEW r \in Rides, NEW d \in Drivers, Claim(h, r, d) PROVE Lifecycle!LNext
  <2>1. Lifecycle!Assign(r, d)
    BY <1>1 DEF Claim, Claimable, Lifecycle!Assign, Lifecycle!Move
  <2> QED
    BY <2>1 DEF Lifecycle!LNext
<1>2. ASSUME NEW r \in Rides, NEW d \in Drivers, NEW s \in {"arrived", "in_progress"},
             Transition(h, r, d, s)
      PROVE  Lifecycle!LNext
  <2>1. driver[r] # NoDriver
    BY <1>2, NullAssumption DEF Transition, NullAssumption
  <2>2. CASE s = "arrived"
    <3>1. Lifecycle!ReachPickup(r)
      BY <1>2, <2>1, <2>2 DEF Transition, AllowedFrom, Sane, TypeOK,
           Lifecycle!ReachPickup, Lifecycle!Move
    <3> QED
      BY <3>1 DEF Lifecycle!LNext
  <2>3. CASE s = "in_progress"
    <3>1. Lifecycle!Begin(r)
      BY <1>2, <2>1, <2>3 DEF Transition, AllowedFrom, Sane, TypeOK,
           Lifecycle!Begin, Lifecycle!Move
    <3> QED
      BY <3>1 DEF Lifecycle!LNext
  <2> QED
    BY <2>2, <2>3
<1>3. CASE CloseTrip(h)
  <2>1. me.ride \in Rides /\ started[me.ride] /\ driver[me.ride] # NoDriver
    BY <1>3 DEF CloseTrip, Sane, ProcessOK, TripInv
  <2>2. Lifecycle!Close(me.ride)
    BY <1>3, <2>1 DEF CloseTrip, Lifecycle!Close, Lifecycle!Move
  <2> QED
    BY <2>1, <2>2 DEF Lifecycle!LNext
<1>4. CASE CancelRide(h)
  <2>1. me.ride \in Rides /\ status[me.ride] # "none"
    BY <1>4 DEF CancelRide, Sane, ProcessOK
  <2>2. CASE status[me.ride] \in {"completed", "cancelled"}
    BY <1>4, <2>1, <2>2, Stutters DEF CancelRide, Sane, TypeOK
  <2>3. CASE status[me.ride] \notin {"completed", "cancelled"}
    <3>1. Lifecycle!GiveUp(me.ride)
      BY <1>4, <2>1, <2>3 DEF CancelRide, Sane, TypeOK, Lifecycle!GiveUp, Lifecycle!Move
    <3> QED
      BY <2>1, <3>1 DEF Lifecycle!LNext
  <2> QED
    BY <2>2, <2>3
<1>5. CASE UNCHANGED <<status, driver, started>>
  BY <1>5, Stutters
<1>6. ASSUME NEW r \in Rides, NEW d \in Drivers, Complete(h, r, d)
      PROVE  UNCHANGED <<status, driver, started>>
  BY <1>6 DEF Complete, database
<1>7. ASSUME NEW r \in Rides, Cancel(h, r)
      PROVE  UNCHANGED <<status, driver, started>>
  BY <1>7 DEF Cancel, database
<1>8. AnswerAccepted(h) \/ SetDriverState(h) \/ SettleTrip(h) \/ FreeDriver(h)
         => UNCHANGED <<status, driver, started>>
  BY DEF AnswerAccepted, SetDriverState, SettleTrip, FreeDriver, database
<1> QED
  BY <1>1, <1>2, <1>3, <1>4, <1>5, <1>6, <1>7, <1>8 DEF Arrive, HandlerStep

\* Every step of every client, loop, driver and failure, seen through the three
\* columns, is a step of RideLifecycle or none.
THEOREM RidesTableKeepsItsPromise == Spec => ImplementsLifecycle
<1>1. Init => Lifecycle!LInit
  BY DEF Init, Lifecycle!LInit
<1>2. Sane /\ TripInv /\ [Next]_vars => [Lifecycle!LNext]_(Lifecycle!lvars)
  <2> SUFFICES ASSUME Sane, TripInv, [Next]_vars PROVE [Lifecycle!LNext]_(Lifecycle!lvars)
    OBVIOUS
  <2>1. ASSUME NEW r \in Rides, NEW l \in Dispatchers, CreateOrGet(r, l)
        PROVE  [Lifecycle!LNext]_(Lifecycle!lvars)
    <3>1. CASE UNCHANGED status
      BY <2>1, <3>1, Stutters DEF CreateOrGet
    <3>2. CASE ~UNCHANGED status
      <4>1. Lifecycle!Open(r)
        BY <2>1, <3>2 DEF CreateOrGet, Lifecycle!Open, Lifecycle!Move
      <4> QED
        BY <4>1 DEF Lifecycle!LNext
    <3> QED
      BY <3>1, <3>2
  <2>2. ASSUME NEW r \in Rides, NEW d \in Drivers, DeclineOffer(r, d) \/ ExpireKey(r, d)
        PROVE  UNCHANGED <<status, driver, started>>
    BY <2>2 DEF DeclineOffer, ExpireKey, database
  <2>3. ASSUME NEW d \in Drivers, TakeOffline(d) \/ ExpireLock(d)
        PROVE  UNCHANGED <<status, driver, started>>
    BY <2>3 DEF TakeOffline, ExpireLock, database
  <2>4. ASSUME NEW h \in Handlers, HandlerFails(h) PROVE UNCHANGED <<status, driver, started>>
    BY <2>4 DEF HandlerFails, database
  <2>5. Crash \/ UNCHANGED vars => UNCHANGED <<status, driver, started>>
    BY DEF Crash, vars, database
  <2> QED
    BY <2>1, <2>2, <2>3, <2>4, <2>5, DispatchImplements, HandlersImplement, Stutters DEF Next
<1> QED
  BY <1>1, <1>2, AlwaysTripInv, PTL DEF Spec, ImplementsLifecycle, Lifecycle!LSpec

-----------------------------------------------------------------------------
(* Locks *)

\* Unless offers are slow, a loop that is offering has the driver's lock, and no two
\* loops have the same driver's.
LockInv ==
    /\ \A l \in Dispatchers : Holding(l) => lock[dispatcher[l].driver] = dispatcher[l].ride
    /\ \A k, l \in Dispatchers :
          k # l /\ Holding(k) /\ Holding(l) => dispatcher[k].driver # dispatcher[l].driver

\* A loop that lets go of its lock takes away nobody else's.
LEMMA ReleaseKeepsLocks ==
    ASSUME Sane, LockInv, NEW l \in Dispatchers, Holding(l),
           lock' = Released(dispatcher[l].driver, dispatcher[l].ride),
           ~Holding(l)',
           \A k \in Dispatchers \ {l} : dispatcher'[k] = dispatcher[k]
    PROVE  LockInv'
<1>1. \A k \in Dispatchers : Holding(k)' => /\ k # l /\ Holding(k) /\ dispatcher'[k] = dispatcher[k]
                                            /\ lock'[dispatcher[k].driver] = lock[dispatcher[k].driver]
  BY DEF Holding, LockInv, Released, Sane, TypeOK, ProcessOK
<1> QED
  BY <1>1 DEF LockInv

\* A loop that neither takes nor releases.
LEMMA SameLocks ==
    ASSUME LockInv, UNCHANGED lock,
           \A k \in Dispatchers :
              \/ ~Holding(k)'
              \/ /\ Holding(k)
                 /\ dispatcher'[k].driver = dispatcher[k].driver
                 /\ dispatcher'[k].ride = dispatcher[k].ride
    PROVE  LockInv'
  BY DEF LockInv

LEMMA StepKeepsLocks ==
    ASSUME ~SlowOffers, Sane, LockInv, [Next]_vars
    PROVE  LockInv'
<1>a. TypeOK /\ ProcessOK
  BY DEF Sane
<1>1. ASSUME NEW l \in Dispatchers, NEW d \in Drivers, ReserveDriver(l, d) PROVE LockInv'
  <2>a. /\ dispatcher[l].at = "offering"
        /\ dispatcher[l].ride \in Rides
        /\ \A k \in Dispatchers \ {l} : dispatcher'[k] = dispatcher[k]
    BY <1>a, <1>1 DEF ReserveDriver, TypeOK, ProcessOK
  <2>1. CASE lock[d] = NoRide
    <3>1. /\ lock' = [lock EXCEPT ![d] = dispatcher[l].ride]
          /\ dispatcher'[l].driver = d
          /\ dispatcher'[l].ride = dispatcher[l].ride
      <4>1. /\ lock' = [lock EXCEPT ![d] = dispatcher[l].ride]
            /\ dispatcher'[l] = [dispatcher[l] EXCEPT !.at = "notifying", !.driver = d, !.todo = @ \ {d}]
        BY <1>a, <1>1, <2>1 DEF ReserveDriver, Unlocked, TypeOK
      <4>2. dispatcher[l] \in Dispatcher
        BY <1>a DEF TypeOK
      <4> QED
        BY <4>1, <4>2 DEF Dispatcher
    <3>2. \A k \in Dispatchers \ {l} : Holding(k) => dispatcher[k].driver # d
      BY <1>a, <2>1, NullAssumption DEF LockInv, ProcessOK, Holding, NullAssumption
    <3>3. \A k \in Dispatchers \ {l} : Holding(k)' => Holding(k) /\ dispatcher[k].driver \in Drivers
      BY <1>a, <2>a DEF ProcessOK, Holding
    <3> QED
      <4>1. \A k \in Dispatchers : Holding(k)' => lock'[dispatcher'[k].driver] = dispatcher'[k].ride
        <5>1. lock'[d] = dispatcher[l].ride /\ \A e \in Drivers \ {d} : lock'[e] = lock[e]
          BY <1>a, <3>1 DEF TypeOK
        <5> QED
          BY <2>a, <3>1, <3>2, <3>3, <5>1 DEF LockInv
      <4>2. \A j, k \in Dispatchers :
               j # k /\ Holding(j)' /\ Holding(k)' => dispatcher'[j].driver # dispatcher'[k].driver
        BY <2>a, <3>1, <3>2, <3>3 DEF LockInv
      <4> QED
        BY <4>1, <4>2 DEF LockInv
  <2>2. CASE lock[d] # NoRide
    <3>1. UNCHANGED lock
      BY <1>1, <2>2 DEF ReserveDriver, Unlocked
    <3>2. ~Holding(l)'
      <4>1. dispatcher'[l] = [dispatcher[l] EXCEPT !.at = Onward(dispatcher[l].todo \ {d}),
                                                   !.todo = @ \ {d}]
        BY <1>a, <1>1, <2>2 DEF ReserveDriver, Unlocked, TypeOK
      <4>2. dispatcher[l] \in Dispatcher
        BY <1>a DEF TypeOK
      <4> QED
        BY <4>1, <4>2 DEF Dispatcher, Onward, Holding
    <3> QED
      BY <2>a, <3>1, <3>2, SameLocks DEF Holding
  <2> QED
    BY <2>1, <2>2
<1>2. ASSUME NEW l \in Dispatchers, CloseOffer(l) PROVE LockInv'
  <2>1. /\ Holding(l)
        /\ lock' = Released(dispatcher[l].driver, dispatcher[l].ride)
        /\ \A k \in Dispatchers \ {l} : dispatcher'[k] = dispatcher[k]
    BY <1>a, <1>2 DEF CloseOffer, Holding, TypeOK
  <2>2. ~Holding(l)'
    BY <1>a, <1>2 DEF CloseOffer, Holding, TypeOK, Off
  <2> QED
    BY <2>1, <2>2, ReleaseKeepsLocks
<1>3. ASSUME NEW l \in Dispatchers, DispatchFails(l) PROVE LockInv'
  <2>1. /\ ~Holding(l)'
        /\ \A k \in Dispatchers \ {l} : dispatcher'[k] = dispatcher[k]
    BY <1>a, <1>3 DEF DispatchFails, Holding, TypeOK, Off
  <2>2. lock' = IF Holding(l) THEN Released(dispatcher[l].driver, dispatcher[l].ride) ELSE lock
    BY <1>3 DEF DispatchFails
  <2>3. CASE Holding(l)
    BY <2>1, <2>2, <2>3, ReleaseKeepsLocks
  <2>4. CASE ~Holding(l)
    BY <2>1, <2>2, <2>4, SameLocks DEF Holding
  <2> QED
    BY <2>3, <2>4
<1>4. ASSUME NEW l \in Dispatchers,
             \/ StartDispatch(l) \/ MarkSearching(l) \/ FindCandidates(l) \/ SendOffer(l)
             \/ ReceiveAnswer(l) \/ OfferTimesOut(l) \/ ExpireRide(l)
      PROVE  LockInv'
  <2>1. UNCHANGED lock /\ \A k \in Dispatchers \ {l} : dispatcher'[k] = dispatcher[k]
    BY <1>a, <1>4 DEF StartDispatch, MarkSearching, FindCandidates, SendOffer, ReceiveAnswer,
         OfferTimesOut, ExpireRide, redis, TypeOK
  <2>2. \/ ~Holding(l)'
        \/ /\ Holding(l)
           /\ dispatcher'[l].driver = dispatcher[l].driver
           /\ dispatcher'[l].ride = dispatcher[l].ride
    <3>1. CASE StartDispatch(l)
      BY <1>a, <3>1 DEF StartDispatch, TypeOK, Dispatcher, Off, Holding
    <3>2. CASE MarkSearching(l)
      BY <1>a, <3>2 DEF MarkSearching, TypeOK, Dispatcher, Off, Holding
    <3>3. CASE FindCandidates(l)
      BY <1>a, <3>3 DEF FindCandidates, TypeOK, Dispatcher, Onward, Holding
    <3>4. CASE SendOffer(l)
      BY <1>a, <3>4 DEF SendOffer, TypeOK, Dispatcher, Holding
    <3>5. CASE ReceiveAnswer(l)
      BY <1>a, <3>5 DEF ReceiveAnswer, TypeOK, Dispatcher, Holding
    <3>6. CASE OfferTimesOut(l)
      BY <1>a, <3>6 DEF OfferTimesOut, TypeOK, Dispatcher, Holding
    <3>7. CASE ExpireRide(l)
      BY <1>a, <3>7 DEF ExpireRide, TypeOK, Dispatcher, Off, Holding
    <3> QED
      BY <1>4, <3>1, <3>2, <3>3, <3>4, <3>5, <3>6, <3>7
  <2> QED
    BY <2>1, <2>2, SameLocks DEF Holding
<1>5. ASSUME NEW r \in Rides, NEW l \in Dispatchers, CreateOrGet(r, l) PROVE LockInv'
  <2>1. /\ UNCHANGED lock
        /\ ~Holding(l)'
        /\ \A k \in Dispatchers \ {l} : dispatcher'[k] = dispatcher[k]
    BY <1>a, <1>5 DEF CreateOrGet, redis, Off, Holding, TypeOK
  <2> QED
    BY <2>1, SameLocks DEF Holding
<1>6. ASSUME NEW d \in Drivers, ExpireLock(d) PROVE LockInv'
  <2>1. /\ lock' = [lock EXCEPT ![d] = NoRide]
        /\ UNCHANGED dispatcher
        /\ \A l \in Dispatchers : Holding(l) => dispatcher[l].driver # d
    BY <1>6 DEF ExpireLock
  <2> QED
    BY <1>a, <2>1 DEF LockInv, Holding, TypeOK, ProcessOK
<1>7. CASE Crash
  <2>1. \A l \in Dispatchers : ~Holding(l)'
    BY <1>7 DEF Crash, Off, Holding
  <2> QED
    BY <2>1 DEF LockInv
<1>8. CASE UNCHANGED <<dispatcher, lock>>
  BY <1>8 DEF LockInv, Holding
<1>9. ASSUME NEW h \in Handlers, Arrive(h) \/ HandlerStep(h) \/ HandlerFails(h)
      PROVE  UNCHANGED <<dispatcher, lock>>
  BY <1>9 DEF Arrive, HandlerStep, HandlerFails, Claim, Transition, Complete, Cancel, redis,
       AnswerAccepted, SetDriverState, CloseTrip, SettleTrip, CancelRide, FreeDriver
<1>10. ASSUME NEW r \in Rides, NEW d \in Drivers, DeclineOffer(r, d) \/ ExpireKey(r, d)
       PROVE  UNCHANGED <<dispatcher, lock>>
  BY <1>10 DEF DeclineOffer, ExpireKey
<1>11. ASSUME NEW d \in Drivers, TakeOffline(d) PROVE UNCHANGED <<dispatcher, lock>>
  BY <1>11 DEF TakeOffline, redis
<1>12. UNCHANGED vars => UNCHANGED <<dispatcher, lock>>
  BY DEF vars, redis
<1> QED
  BY <1>1, <1>2, <1>3, <1>4, <1>5, <1>6, <1>7, <1>8, <1>9, <1>10, <1>11, <1>12
  DEF Next, DispatchStep

\* While no offer outlasts its lock, no driver looks at two offers at a time, whatever
\* rides, retries, failures and restarts there are.
THEOREM NoDoubleOffers == ~SlowOffers => (Spec => []OfferExclusive)
<1> SUFFICES ASSUME ~SlowOffers PROVE Spec => []OfferExclusive
  OBVIOUS
<1>1. Init => Sane /\ LockInv
  BY InitSane DEF Init, LockInv, Holding, Off
<1>2. Sane /\ LockInv /\ [Next]_vars => Sane' /\ LockInv'
  BY StepSane, StepKeepsLocks
<1>3. LockInv => OfferExclusive
  BY DEF LockInv, OfferExclusive, Holding
<1> QED
  BY <1>1, <1>2, <1>3, PTL DEF Spec

\* A step after which every loop that held a lock still holds it.
LEMMA HoldersStay ==
    ASSUME LockHeldOnlyForOffer, UNCHANGED <<lock, crashes>>,
           \A k \in Dispatchers : Holding(k) =>
              /\ Holding(k)'
              /\ dispatcher'[k].driver = dispatcher[k].driver
              /\ dispatcher'[k].ride = dispatcher[k].ride
    PROVE  LockHeldOnlyForOffer'
  BY DEF LockHeldOnlyForOffer

\* A loop that lets go: the lock it leaves behind, if any, is another ride's.
LEMMA ReleaseKeepsHolders ==
    ASSUME Sane, LockHeldOnlyForOffer, NEW l \in Dispatchers, Holding(l),
           lock' = Released(dispatcher[l].driver, dispatcher[l].ride),
           UNCHANGED crashes,
           \A k \in Dispatchers \ {l} : dispatcher'[k] = dispatcher[k]
    PROVE  LockHeldOnlyForOffer'
<1> SUFFICES ASSUME crashes = 0, NEW d \in Drivers, lock'[d] # NoRide
             PROVE  \E k \in Dispatchers :
                       /\ Holding(k)'
                       /\ dispatcher'[k].driver = d
                       /\ dispatcher'[k].ride = lock'[d]
  BY DEF LockHeldOnlyForOffer
<1>1. /\ lock'[d] = lock[d]
      /\ d = dispatcher[l].driver => lock[d] # dispatcher[l].ride
  BY DEF Released, Sane, TypeOK
<1>2. PICK k \in Dispatchers :
         Holding(k) /\ dispatcher[k].driver = d /\ dispatcher[k].ride = lock[d]
  BY <1>1 DEF LockHeldOnlyForOffer
<1>3. k # l
  BY <1>1, <1>2
<1> QED
  BY <1>1, <1>2, <1>3 DEF Holding

LEMMA StepHoldsLocks ==
    ASSUME Sane, LockHeldOnlyForOffer, [Next]_vars
    PROVE  LockHeldOnlyForOffer'
<1>a. TypeOK /\ ProcessOK
  BY DEF Sane
<1>1. ASSUME NEW l \in Dispatchers, NEW d \in Drivers, ReserveDriver(l, d)
      PROVE  LockHeldOnlyForOffer'
  <2>a. /\ dispatcher[l].at = "offering"
        /\ dispatcher[l] \in Dispatcher
        /\ \A k \in Dispatchers \ {l} : dispatcher'[k] = dispatcher[k]
        /\ UNCHANGED crashes
    BY <1>a, <1>1 DEF ReserveDriver, TypeOK, bounds
  <2>1. CASE lock[d] = NoRide
    <3>1. /\ lock' = [lock EXCEPT ![d] = dispatcher[l].ride]
          /\ dispatcher'[l] = [dispatcher[l] EXCEPT !.at = "notifying", !.driver = d,
                                                    !.todo = @ \ {d}]
      BY <1>a, <1>1, <2>1 DEF ReserveDriver, Unlocked, TypeOK
    <3>2. Holding(l)' /\ dispatcher'[l].driver = d /\ dispatcher'[l].ride = dispatcher[l].ride
      BY <2>a, <3>1 DEF Holding, Dispatcher
    <3>3. lock'[d] = dispatcher[l].ride /\ \A e \in Drivers \ {d} : lock'[e] = lock[e]
      BY <1>a, <3>1 DEF TypeOK
    <3>4. \A k \in Dispatchers : Holding(k) => k # l
      BY <2>a DEF Holding
    <3> QED
      BY <2>a, <3>2, <3>3, <3>4 DEF LockHeldOnlyForOffer, Holding
  <2>2. CASE lock[d] # NoRide
    <3>1. UNCHANGED lock
      BY <1>1, <2>2 DEF ReserveDriver, Unlocked
    <3> QED
      BY <2>a, <3>1, HoldersStay DEF Holding
  <2> QED
    BY <2>1, <2>2
<1>2. ASSUME NEW l \in Dispatchers, CloseOffer(l) PROVE LockHeldOnlyForOffer'
  BY <1>a, <1>2, ReleaseKeepsHolders DEF CloseOffer, Holding, TypeOK, bounds
<1>3. ASSUME NEW l \in Dispatchers, DispatchFails(l) PROVE LockHeldOnlyForOffer'
  <2>1. /\ \A k \in Dispatchers \ {l} : dispatcher'[k] = dispatcher[k]
        /\ UNCHANGED crashes
        /\ lock' = IF Holding(l) THEN Released(dispatcher[l].driver, dispatcher[l].ride) ELSE lock
    BY <1>a, <1>3 DEF DispatchFails, TypeOK
  <2>2. CASE Holding(l)
    BY <2>1, <2>2, ReleaseKeepsHolders
  <2>3. CASE ~Holding(l)
    BY <2>1, <2>3, HoldersStay DEF Holding
  <2> QED
    BY <2>2, <2>3
<1>4. ASSUME NEW l \in Dispatchers,
             \/ StartDispatch(l) \/ MarkSearching(l) \/ FindCandidates(l) \/ SendOffer(l)
             \/ ReceiveAnswer(l) \/ OfferTimesOut(l) \/ ExpireRide(l)
      PROVE  LockHeldOnlyForOffer'
  <2>1. /\ UNCHANGED <<lock, crashes>>
        /\ \A k \in Dispatchers \ {l} : dispatcher'[k] = dispatcher[k]
    BY <1>a, <1>4 DEF StartDispatch, MarkSearching, FindCandidates, SendOffer, ReceiveAnswer,
         OfferTimesOut, ExpireRide, redis, bounds, TypeOK
  <2>2. Holding(l) =>
           /\ Holding(l)'
           /\ dispatcher'[l].driver = dispatcher[l].driver
           /\ dispatcher'[l].ride = dispatcher[l].ride
    <3>1. CASE StartDispatch(l) \/ MarkSearching(l) \/ FindCandidates(l) \/ ExpireRide(l)
      BY <3>1 DEF StartDispatch, MarkSearching, FindCandidates, ExpireRide, Holding
    <3>2. CASE SendOffer(l)
      BY <1>a, <3>2 DEF SendOffer, TypeOK, Dispatcher, Holding
    <3>3. CASE ReceiveAnswer(l)
      BY <1>a, <3>3 DEF ReceiveAnswer, TypeOK, Dispatcher, Holding
    <3>4. CASE OfferTimesOut(l)
      BY <1>a, <3>4 DEF OfferTimesOut, TypeOK, Dispatcher, Holding
    <3> QED
      BY <1>4, <3>1, <3>2, <3>3, <3>4
  <2> QED
    BY <2>1, <2>2, HoldersStay DEF Holding
<1>5. ASSUME NEW r \in Rides, NEW l \in Dispatchers, CreateOrGet(r, l)
      PROVE  LockHeldOnlyForOffer'
  <2>1. /\ UNCHANGED <<lock, crashes>>
        /\ ~Holding(l)
        /\ \A k \in Dispatchers \ {l} : dispatcher'[k] = dispatcher[k]
    BY <1>a, <1>5 DEF CreateOrGet, redis, Holding, TypeOK
  <2> QED
    BY <2>1, HoldersStay DEF Holding
<1>6. ASSUME NEW d \in Drivers, ExpireLock(d) PROVE LockHeldOnlyForOffer'
  <2>1. lock' = [lock EXCEPT ![d] = NoRide] /\ UNCHANGED <<dispatcher, crashes>>
    BY <1>6 DEF ExpireLock, bounds
  <2> QED
    BY <1>a, <2>1 DEF LockHeldOnlyForOffer, Holding, TypeOK
<1>7. CASE Crash
  <2>1. crashes' # 0
    BY <1>a, <1>7 DEF Crash, TypeOK
  <2> QED
    BY <2>1 DEF LockHeldOnlyForOffer
<1>8. CASE UNCHANGED <<dispatcher, lock, crashes>>
  BY <1>8, HoldersStay DEF Holding
<1>9. ASSUME NEW h \in Handlers, Arrive(h) \/ HandlerStep(h) \/ HandlerFails(h)
      PROVE  UNCHANGED <<dispatcher, lock, crashes>>
  BY <1>9 DEF Arrive, HandlerStep, HandlerFails, Claim, Transition, Complete, Cancel, redis,
       AnswerAccepted, SetDriverState, CloseTrip, SettleTrip, CancelRide, FreeDriver, bounds
<1>10. ASSUME NEW r \in Rides, NEW d \in Drivers, DeclineOffer(r, d) \/ ExpireKey(r, d)
       PROVE  UNCHANGED <<dispatcher, lock, crashes>>
  BY <1>10 DEF DeclineOffer, ExpireKey, bounds
<1>11. ASSUME NEW d \in Drivers, TakeOffline(d) PROVE UNCHANGED <<dispatcher, lock, crashes>>
  BY <1>11 DEF TakeOffline, redis, bounds
<1>12. UNCHANGED vars => UNCHANGED <<dispatcher, lock, crashes>>
  BY DEF vars, redis, bounds
<1> QED
  BY <1>1, <1>2, <1>3, <1>4, <1>5, <1>6, <1>7, <1>8, <1>9, <1>10, <1>11, <1>12
  DEF Next, DispatchStep

\* As long as the process lives, every lock belongs to a loop that is offering: every
\* way out of an offer, a thrown error included, gives it back.
THEOREM LocksAreHeld == Spec => []LockHeldOnlyForOffer
<1>1. Init => Sane /\ LockHeldOnlyForOffer
  BY InitSane DEF Init, LockHeldOnlyForOffer
<1>2. Sane /\ LockHeldOnlyForOffer /\ [Next]_vars => Sane' /\ LockHeldOnlyForOffer'
  BY StepSane, StepHoldsLocks
<1> QED
  BY <1>1, <1>2, PTL DEF Spec

-----------------------------------------------------------------------------
(* Offers and winners *)

\* Why an offer closed as accepted is the winner's: the answer is written after the
\* UPDATE that made him the driver, and nobody replaces a driver.
OfferInv ==
    /\ \A r \in Rides, d \in Drivers : <<r, d>> \in tokens => offer[r][d] # "none"
    /\ OnlyOfferedDriverDrives
    /\ AcceptedOfferWon
    /\ \A r \in Rides, d \in Drivers : answer[r][d] = "accepted" => driver[r] = d
    /\ \A l \in Dispatchers : dispatcher[l].won =>
          dispatcher[l].at = "closing" /\ driver[dispatcher[l].ride] = dispatcher[l].driver

\* A step that leaves rides, rows, tokens and answers alone, and no loop believes to
\* have won that did not before.
LEMMA OffersUndisturbed ==
    ASSUME OfferInv, UNCHANGED <<driver, offer, tokens, answer>>,
           \A l \in Dispatchers : dispatcher'[l] = dispatcher[l] \/ ~dispatcher'[l].won
    PROVE  OfferInv'
  BY DEF OfferInv, OnlyOfferedDriverDrives, AcceptedOfferWon

\* Closing an offer keeps the row, and makes it accepted only for the ride's driver.
LEMMA ClosingKeepsOffers ==
    ASSUME Sane, OfferInv, NEW l \in Dispatchers, dispatcher[l].at = "closing",
           offer' = Closed(dispatcher[l])
    PROVE  \A r \in Rides, d \in Drivers :
              /\ offer[r][d] # "none" => offer'[r][d] # "none"
              /\ offer'[r][d] = "accepted" => driver[r] = d
<1> DEFINE me == dispatcher[l]
<1>1. /\ me.ride \in Rides /\ me.driver \in Drivers
      /\ me.won => driver[me.ride] = me.driver
      /\ offer \in [Rides -> [Drivers -> {"none", "open", "accepted", "lapsed"}]]
  BY DEF Sane, TypeOK, ProcessOK, Holding, OfferInv
<1> TAKE r \in Rides, d \in Drivers
<1>2. CASE r = me.ride /\ d = me.driver
  <2>1. offer'[r][d] = IF offer[r][d] # "open" THEN offer[r][d]
                       ELSE IF me.won THEN "accepted" ELSE "lapsed"
    BY <1>1, <1>2 DEF Closed
  <2> QED
    BY <1>1, <1>2, <2>1 DEF OfferInv, AcceptedOfferWon
<1>3. CASE ~(r = me.ride /\ d = me.driver)
  <2>1. offer'[r][d] = offer[r][d]
    BY <1>1, <1>3 DEF Closed
  <2> QED
    BY <2>1 DEF OfferInv, AcceptedOfferWon
<1> QED
  BY <1>2, <1>3

\* A step that only closes rows.
LEMMA OffersClosed ==
    ASSUME TypeOK, OfferInv, UNCHANGED <<driver, tokens, answer>>,
           \A r \in Rides, d \in Drivers :
              /\ offer[r][d] # "none" => offer'[r][d] # "none"
              /\ offer'[r][d] = "accepted" => driver[r] = d,
           \A l \in Dispatchers : dispatcher'[l] = dispatcher[l] \/ ~dispatcher'[l].won
    PROVE  OfferInv'
<1>1. \A r \in Rides, d \in Drivers : <<r, d>> \in tokens' => offer'[r][d] # "none"
  BY DEF OfferInv
<1>2. OnlyOfferedDriverDrives'
  BY DEF OfferInv, OnlyOfferedDriverDrives, TypeOK
<1>3. AcceptedOfferWon'
  BY DEF AcceptedOfferWon
<1>4. \A r \in Rides, d \in Drivers : answer'[r][d] = "accepted" => driver'[r] = d
  BY DEF OfferInv
<1>5. \A l \in Dispatchers : dispatcher'[l].won =>
         dispatcher'[l].at = "closing" /\ driver'[dispatcher'[l].ride] = dispatcher'[l].driver
  BY DEF OfferInv
<1> QED
  BY <1>1, <1>2, <1>3, <1>4, <1>5 DEF OfferInv

LEMMA DispatchKeepsOffers ==
    ASSUME Sane, OfferInv, NEW l \in Dispatchers, DispatchStep(l)
    PROVE  OfferInv'
<1> DEFINE me == dispatcher[l]
<1>a. TypeOK /\ me \in Dispatcher
  BY DEF Sane, TypeOK
<1>b. /\ me.at # "off" => me.ride \in Rides
      /\ Holding(l) => me.driver \in Drivers
      /\ me.at # "closing" => ~me.won
  BY DEF Sane, ProcessOK, OfferInv
<1>1. CASE StartDispatch(l) \/ MarkSearching(l) \/ ExpireRide(l)
  <2>1. /\ UNCHANGED <<driver, offer, tokens, answer>>
        /\ \A k \in Dispatchers \ {l} : dispatcher'[k] = dispatcher[k]
        /\ me.at # "closing"
    BY <1>a, <1>1 DEF StartDispatch, MarkSearching, ExpireRide, TypeOK, database, redis
  <2>2. dispatcher'[l] \in {Off, [me EXCEPT !.at = "marking"], [me EXCEPT !.at = "searching"]}
    BY <1>a, <1>1 DEF StartDispatch, MarkSearching, ExpireRide, TypeOK
  <2>3. ~dispatcher'[l].won
    BY <1>a, <1>b, <2>1, <2>2 DEF Off, Dispatcher
  <2> QED
    BY <2>1, <2>3, OffersUndisturbed
<1>2. CASE FindCandidates(l)
  <2>1. /\ UNCHANGED <<driver, offer, tokens, answer>>
        /\ \A k \in Dispatchers \ {l} : dispatcher'[k] = dispatcher[k]
        /\ dispatcher'[l].won = me.won
        /\ ~me.won
    BY <1>a, <1>b, <1>2 DEF FindCandidates, TypeOK, database, redis, Dispatcher
  <2> QED
    BY <2>1, OffersUndisturbed
<1>3. ASSUME NEW d \in Drivers, ReserveDriver(l, d) PROVE OfferInv'
  <2>1. /\ UNCHANGED <<driver, offer, tokens, answer>>
        /\ \A k \in Dispatchers \ {l} : dispatcher'[k] = dispatcher[k]
        /\ ~me.won
    BY <1>a, <1>b, <1>3 DEF ReserveDriver, TypeOK, database
  <2>2. dispatcher'[l] \in
           {[me EXCEPT !.at = "notifying", !.driver = d, !.todo = @ \ {d}],
            [me EXCEPT !.at = Onward(me.todo \ {d}), !.todo = @ \ {d}]}
    BY <1>a, <1>3 DEF ReserveDriver, TypeOK
  <2>3. dispatcher'[l].won = me.won
    BY <1>a, <2>2 DEF Dispatcher
  <2> QED
    BY <2>1, <2>3, OffersUndisturbed
<1>4. CASE SendOffer(l)
  <2>1. /\ UNCHANGED <<driver, answer>>
        /\ me.ride \in Rides /\ me.driver \in Drivers
        /\ offer' = [offer EXCEPT ![me.ride][me.driver] = IF @ = "none" THEN "open" ELSE @]
        /\ tokens' = tokens \cup {<<me.ride, me.driver>>}
    BY <1>b, <1>4 DEF SendOffer, Holding
  <2>2. \A r \in Rides, d \in Drivers :
           /\ offer[r][d] # "none" => offer'[r][d] = offer[r][d]
           /\ offer'[r][d] = "accepted" => offer[r][d] = "accepted"
           /\ <<r, d>> \in tokens' => <<r, d>> \in tokens \/ offer'[r][d] # "none"
    <3> TAKE r \in Rides, d \in Drivers
    <3>1. CASE r = me.ride /\ d = me.driver
      BY <1>a, <2>1, <3>1 DEF TypeOK
    <3>2. CASE ~(r = me.ride /\ d = me.driver)
      BY <1>a, <2>1, <3>2 DEF TypeOK
    <3> QED
      BY <3>1, <3>2
  <2>3. \A k \in Dispatchers : dispatcher'[k] = dispatcher[k] \/ ~dispatcher'[k].won
    BY <1>a, <1>b, <1>4 DEF SendOffer, TypeOK, Dispatcher
  <2> QED
    BY SMTT(30), <2>1, <2>2, <2>3 DEF OfferInv, OnlyOfferedDriverDrives, AcceptedOfferWon
<1>5. CASE ReceiveAnswer(l)
  <2>1. /\ UNCHANGED <<driver, offer, tokens>>
        /\ me.ride \in Rides /\ me.driver \in Drivers
        /\ answer' = [answer EXCEPT ![me.ride][me.driver] = "none"]
        /\ \A k \in Dispatchers \ {l} : dispatcher'[k] = dispatcher[k]
        /\ dispatcher'[l] = [me EXCEPT !.at = "closing", !.won = answer[me.ride][me.driver] = "accepted"]
    BY <1>a, <1>b, <1>5 DEF ReceiveAnswer, AnswerTo, Holding, TypeOK, database
  <2>2. \A r \in Rides, d \in Drivers : answer'[r][d] = "accepted" => answer[r][d] = "accepted"
    <3> TAKE r \in Rides, d \in Drivers
    <3>1. CASE r = me.ride /\ d = me.driver
      BY <1>a, <2>1, <3>1 DEF TypeOK
    <3>2. CASE ~(r = me.ride /\ d = me.driver)
      BY <1>a, <2>1, <3>2 DEF TypeOK
    <3> QED
      BY <3>1, <3>2
  <2>3. dispatcher'[l].won => /\ dispatcher'[l].at = "closing"
                              /\ driver[dispatcher'[l].ride] = dispatcher'[l].driver
    <3>1. /\ dispatcher'[l].at = "closing"
          /\ dispatcher'[l].ride = me.ride
          /\ dispatcher'[l].driver = me.driver
          /\ dispatcher'[l].won = (answer[me.ride][me.driver] = "accepted")
      BY <1>a, <2>1 DEF Dispatcher
    <3>2. answer[me.ride][me.driver] = "accepted" => driver[me.ride] = me.driver
      BY <2>1 DEF OfferInv
    <3> QED
      BY <3>1, <3>2
  <2>4. \A k \in Dispatchers : dispatcher'[k].won =>
           dispatcher'[k].at = "closing" /\ driver[dispatcher'[k].ride] = dispatcher'[k].driver
    <3> TAKE k \in Dispatchers
    <3>1. CASE k = l
      BY <2>3, <3>1
    <3>2. CASE k # l
      BY <2>1, <3>2 DEF OfferInv
    <3> QED
      BY <3>1, <3>2
  <2> QED
    BY <2>1, <2>2, <2>4 DEF OfferInv, OnlyOfferedDriverDrives, AcceptedOfferWon
<1>6. CASE OfferTimesOut(l)
  <2>1. /\ UNCHANGED <<driver, offer, tokens, answer>>
        /\ \A k \in Dispatchers \ {l} : dispatcher'[k] = dispatcher[k]
        /\ dispatcher'[l].won = me.won
        /\ ~me.won
    BY <1>a, <1>b, <1>6 DEF OfferTimesOut, TypeOK, database, redis, Dispatcher
  <2> QED
    BY <2>1, OffersUndisturbed
<1>7. CASE CloseOffer(l)
  <2>1. /\ UNCHANGED <<driver, tokens, answer>>
        /\ me.ride \in Rides /\ me.driver \in Drivers
        /\ offer' = Closed(me)
        /\ \A k \in Dispatchers \ {l} : dispatcher'[k] = dispatcher[k]
    BY <1>a, <1>b, <1>7 DEF CloseOffer, Holding, TypeOK
  <2>2. ~dispatcher'[l].won
    BY <1>a, <1>7 DEF CloseOffer, TypeOK, Off
  <2>3. me.at = "closing"
    BY <1>7 DEF CloseOffer
  <2>4. \A r \in Rides, d \in Drivers :
           /\ offer[r][d] # "none" => offer'[r][d] # "none"
           /\ offer'[r][d] = "accepted" => driver[r] = d
    BY <2>1, <2>3, ClosingKeepsOffers
  <2>5. \A k \in Dispatchers : dispatcher'[k] = dispatcher[k] \/ ~dispatcher'[k].won
    BY <2>1, <2>2
  <2> QED
    BY <1>a, <2>1, <2>4, <2>5, OffersClosed
<1> QED
  BY <1>1, <1>2, <1>3, <1>4, <1>5, <1>6, <1>7 DEF DispatchStep

\* A claim, its answer, and the requests that touch no offer.
LEMMA HandlersKeepOffers ==
    ASSUME Sane, TripInv, OfferInv, NEW h \in Handlers, Arrive(h) \/ HandlerStep(h)
    PROVE  OfferInv'
<1>a. TypeOK /\ handler[h] \in Handler
  BY DEF Sane, TypeOK
<1>1. ASSUME NEW r \in Rides, NEW d \in Drivers, Claim(h, r, d) PROVE OfferInv'
  <2>1. /\ UNCHANGED <<offer, tokens, answer, dispatcher>>
        /\ driver[r] = NoDriver
        /\ driver' = [driver EXCEPT ![r] = d]
        /\ offer[r][d] # "none"
    BY <1>1 DEF Claim, Claimable, HasToken, OfferInv, redis
  <2>2. /\ \A e \in Drivers : offer[r][e] # "accepted" /\ answer[r][e] # "accepted"
        /\ \A l \in Dispatchers : dispatcher[l].won => dispatcher[l].ride # r
    BY <2>1, NullAssumption
    DEF OfferInv, AcceptedOfferWon, Sane, ProcessOK, Holding, NullAssumption
  <2>3. /\ OnlyOfferedDriverDrives'
        /\ AcceptedOfferWon'
        /\ \A q \in Rides, e \in Drivers : answer'[q][e] = "accepted" => driver'[q] = e
    BY <1>a, <2>1, <2>2 DEF OfferInv, OnlyOfferedDriverDrives, AcceptedOfferWon, TypeOK
  <2>4. \A l \in Dispatchers : dispatcher'[l].won =>
           dispatcher'[l].at = "closing" /\ driver'[dispatcher'[l].ride] = dispatcher'[l].driver
    BY <1>a, <2>1, <2>2 DEF OfferInv, TypeOK
  <2> QED
    BY <2>1, <2>3, <2>4 DEF OfferInv
<1>2. CASE AnswerAccepted(h)
  <2>1. /\ UNCHANGED <<driver, offer, tokens, dispatcher>>
        /\ answer' = [answer EXCEPT ![handler[h].ride][handler[h].driver] = "accepted"]
        /\ handler[h].ride \in Rides /\ handler[h].driver \in Drivers
        /\ driver[handler[h].ride] = handler[h].driver
    BY <1>2 DEF AnswerAccepted, Sane, ProcessOK, TripInv, database
  <2>2. \A r \in Rides, d \in Drivers : answer'[r][d] = "accepted" => driver[r] = d
    <3> TAKE r \in Rides, d \in Drivers
    <3>1. CASE r = handler[h].ride /\ d = handler[h].driver
      BY <2>1, <3>1
    <3>2. CASE ~(r = handler[h].ride /\ d = handler[h].driver)
      BY <1>a, <2>1, <3>2 DEF TypeOK, OfferInv
    <3> QED
      BY <3>1, <3>2
  <2> QED
    BY <2>1, <2>2 DEF OfferInv, OnlyOfferedDriverDrives, AcceptedOfferWon
<1>3. CASE UNCHANGED <<driver, offer, tokens, answer, dispatcher>>
  BY <1>3, OffersUndisturbed
<1>4. ASSUME NEW r \in Rides, NEW d \in Drivers, NEW s \in {"arrived", "in_progress"},
             Transition(h, r, d, s)
      PROVE  UNCHANGED <<driver, offer, tokens, answer, dispatcher>>
  BY <1>4 DEF Transition, redis
<1>5. ASSUME NEW r \in Rides, NEW d \in Drivers, Complete(h, r, d)
      PROVE  UNCHANGED <<driver, offer, tokens, answer, dispatcher>>
  BY <1>5 DEF Complete, database, redis
<1>6. ASSUME NEW r \in Rides, Cancel(h, r)
      PROVE  UNCHANGED <<driver, offer, tokens, answer, dispatcher>>
  BY <1>6 DEF Cancel, database, redis
<1>7. SetDriverState(h) \/ CloseTrip(h) \/ SettleTrip(h) \/ CancelRide(h) \/ FreeDriver(h)
         => UNCHANGED <<driver, offer, tokens, answer, dispatcher>>
  BY DEF SetDriverState, CloseTrip, SettleTrip, CancelRide, FreeDriver, redis
<1> QED
  BY <1>1, <1>2, <1>3, <1>4, <1>5, <1>6, <1>7 DEF Arrive, HandlerStep

LEMMA StepKeepsOffers == Sane /\ TripInv /\ OfferInv /\ [Next]_vars => OfferInv'
<1> SUFFICES ASSUME Sane, TripInv, OfferInv, [Next]_vars PROVE OfferInv'
  OBVIOUS
<1>a. TypeOK
  BY DEF Sane
<1>1. ASSUME NEW r \in Rides, NEW l \in Dispatchers, CreateOrGet(r, l) PROVE OfferInv'
  <2>1. /\ UNCHANGED <<driver, offer, tokens, answer>>
        /\ \A k \in Dispatchers : dispatcher'[k] = dispatcher[k] \/ ~dispatcher'[k].won
    BY <1>a, <1>1 DEF CreateOrGet, redis, Off, TypeOK
  <2> QED
    BY <2>1, OffersUndisturbed
<1>2. ASSUME NEW l \in Dispatchers, DispatchFails(l) PROVE OfferInv'
  <2>1. /\ UNCHANGED <<driver, tokens, answer>>
        /\ \A k \in Dispatchers : dispatcher'[k] = dispatcher[k] \/ ~dispatcher'[k].won
    BY <1>a, <1>2 DEF DispatchFails, Off, TypeOK
  <2>2. CASE UNCHANGED offer
    BY <2>1, <2>2, OffersUndisturbed
  <2>3. CASE dispatcher[l].at = "closing" /\ offer' = Closed(dispatcher[l])
    <3>1. \A r \in Rides, d \in Drivers :
             /\ offer[r][d] # "none" => offer'[r][d] # "none"
             /\ offer'[r][d] = "accepted" => driver[r] = d
      BY <2>3, ClosingKeepsOffers
    <3> QED
      BY <1>a, <2>1, <3>1, OffersClosed
  <2> QED
    BY <1>2, <2>2, <2>3 DEF DispatchFails
<1>3. ASSUME NEW r \in Rides, NEW d \in Drivers, DeclineOffer(r, d) PROVE OfferInv'
  <2>1. /\ UNCHANGED <<driver, tokens, dispatcher>>
        /\ answer' = [answer EXCEPT ![r][d] = "declined"]
        /\ offer' = [offer EXCEPT ![r][d] = IF @ = "open" THEN "lapsed" ELSE @]
    BY <1>3 DEF DeclineOffer
  <2>2. \A q \in Rides, e \in Drivers :
           /\ answer'[q][e] = "accepted" => answer[q][e] = "accepted"
           /\ offer[q][e] # "none" => offer'[q][e] # "none"
           /\ offer'[q][e] = "accepted" => offer[q][e] = "accepted"
    <3> TAKE q \in Rides, e \in Drivers
    <3>1. CASE q = r /\ e = d
      BY <1>a, <2>1, <3>1 DEF TypeOK
    <3>2. CASE ~(q = r /\ e = d)
      BY <1>a, <2>1, <3>2 DEF TypeOK
    <3> QED
      BY <3>1, <3>2
  <2> QED
    BY <2>1, <2>2 DEF OfferInv, OnlyOfferedDriverDrives, AcceptedOfferWon
<1>4. ASSUME NEW r \in Rides, NEW d \in Drivers, ExpireKey(r, d) PROVE OfferInv'
  <2>1. /\ UNCHANGED <<driver, offer, dispatcher>>
        /\ tokens' \subseteq tokens
        /\ UNCHANGED answer \/ answer' = [answer EXCEPT ![r][d] = "none"]
    BY <1>4 DEF ExpireKey, database
  <2>2. \A q \in Rides, e \in Drivers : answer'[q][e] = "accepted" => answer[q][e] = "accepted"
    <3> TAKE q \in Rides, e \in Drivers
    <3>1. CASE q = r /\ e = d
      BY <1>a, <2>1, <3>1 DEF TypeOK
    <3>2. CASE ~(q = r /\ e = d)
      BY <1>a, <2>1, <3>2 DEF TypeOK
    <3> QED
      BY <3>1, <3>2
  <2> QED
    BY <2>1, <2>2 DEF OfferInv, OnlyOfferedDriverDrives, AcceptedOfferWon
<1>5. CASE Crash
  BY <1>5, OffersUndisturbed DEF Crash, Off, database, redis
<1>6. CASE UNCHANGED <<driver, offer, tokens, answer, dispatcher>>
  BY <1>6, OffersUndisturbed
<1>7. ASSUME NEW d \in Drivers, TakeOffline(d) \/ ExpireLock(d)
      PROVE  UNCHANGED <<driver, offer, tokens, answer, dispatcher>>
  BY <1>7 DEF TakeOffline, ExpireLock, database, redis
<1>8. ASSUME NEW h \in Handlers, HandlerFails(h)
      PROVE  UNCHANGED <<driver, offer, tokens, answer, dispatcher>>
  BY <1>8 DEF HandlerFails, database, redis
<1>9. UNCHANGED vars => UNCHANGED <<driver, offer, tokens, answer, dispatcher>>
  BY DEF vars, database, redis
<1> QED
  BY <1>1, <1>2, <1>3, <1>4, <1>5, <1>6, <1>7, <1>8, <1>9, DispatchKeepsOffers,
     HandlersKeepOffers DEF Next

LEMMA AlwaysOfferInv == Spec => [](Sane /\ TripInv /\ OfferInv)
<1>1. Init => OfferInv
  BY DEF Init, OfferInv, OnlyOfferedDriverDrives, AcceptedOfferWon, Off
<1> QED
  BY <1>1, AlwaysTripInv, StepKeepsOffers, PTL DEF Spec

\* Nobody drives a ride he was not offered.
THEOREM DriversWereOffered == Spec => []OnlyOfferedDriverDrives
<1>1. OfferInv => OnlyOfferedDriverDrives
  BY DEF OfferInv
<1> QED
  BY <1>1, AlwaysOfferInv, PTL

\* An offer that says accepted belongs to the ride's driver.
THEOREM AcceptedOffersWon == Spec => []AcceptedOfferWon
<1>1. OfferInv => AcceptedOfferWon
  BY DEF OfferInv
<1> QED
  BY <1>1, AlwaysOfferInv, PTL

-----------------------------------------------------------------------------
(* Open offers *)

Attends(l, r, d) ==
    /\ dispatcher[l].at \in {"waiting", "closing"}
    /\ dispatcher[l].ride = r /\ dispatcher[l].driver = d

\* A step after which every offer is open that was, if it still is, and every loop
\* attends the offer it attended, unless that is closed now.
LEMMA AttendedUndisturbed ==
    ASSUME OpenOfferAttended, faults' + crashes' = 0 => faults + crashes = 0,
           \A r \in Rides, d \in Drivers : offer'[r][d] = "open" => offer[r][d] = "open",
           \A l \in Dispatchers, r \in Rides, d \in Drivers :
              Attends(l, r, d) => Attends(l, r, d)' \/ offer'[r][d] # "open"
    PROVE  OpenOfferAttended'
  BY DEF OpenOfferAttended, Attends

LEMMA DispatchKeepsAttended ==
    ASSUME Sane, OpenOfferAttended, NEW l \in Dispatchers, DispatchStep(l)
    PROVE  OpenOfferAttended'
<1> DEFINE me == dispatcher[l]
<1>a. TypeOK /\ me \in Dispatcher
  BY DEF Sane, TypeOK
<1>b. /\ me.at # "off" => me.ride \in Rides
      /\ Holding(l) => me.driver \in Drivers
  BY DEF Sane, ProcessOK
<1>1. CASE UNCHANGED <<offer, faults, crashes>> /\ me.at \notin {"waiting", "closing"}
           /\ \A k \in Dispatchers \ {l} : dispatcher'[k] = dispatcher[k]
  BY <1>1, AttendedUndisturbed DEF Attends
<1>2. StartDispatch(l) \/ MarkSearching(l) \/ FindCandidates(l) \/ ExpireRide(l) =>
         UNCHANGED <<offer, faults, crashes>> /\ me.at \notin {"waiting", "closing"}
           /\ \A k \in Dispatchers \ {l} : dispatcher'[k] = dispatcher[k]
  BY <1>a DEF StartDispatch, MarkSearching, FindCandidates, ExpireRide, TypeOK, database, bounds
<1>3. ASSUME NEW d \in Drivers, ReserveDriver(l, d)
      PROVE  UNCHANGED <<offer, faults, crashes>> /\ me.at \notin {"waiting", "closing"}
              /\ \A k \in Dispatchers \ {l} : dispatcher'[k] = dispatcher[k]
  BY <1>a, <1>3 DEF ReserveDriver, TypeOK, database, bounds
<1>4. CASE SendOffer(l)
  <2>1. /\ UNCHANGED <<faults, crashes>>
        /\ me.at = "notifying" /\ me.ride \in Rides /\ me.driver \in Drivers
        /\ offer' = [offer EXCEPT ![me.ride][me.driver] = IF @ = "none" THEN "open" ELSE @]
        /\ dispatcher' = [dispatcher EXCEPT ![l].at = "waiting"]
    BY <1>b, <1>4 DEF SendOffer, Holding, bounds
  <2>2. /\ dispatcher'[l] = [me EXCEPT !.at = "waiting"]
        /\ \A k \in Dispatchers \ {l} : dispatcher'[k] = dispatcher[k]
    BY <1>a, <2>1 DEF TypeOK
  <2>3. Attends(l, me.ride, me.driver)'
    BY <1>a, <2>2 DEF Attends, Dispatcher
  <2>4. \A r \in Rides, d \in Drivers :
           offer'[r][d] = "open" => offer[r][d] = "open" \/ (r = me.ride /\ d = me.driver)
    BY <1>a, <2>1 DEF TypeOK
  <2>5. \A k \in Dispatchers, r \in Rides, d \in Drivers : Attends(k, r, d) => Attends(k, r, d)'
    BY <2>1, <2>2 DEF Attends
  <2> QED
    BY <2>1, <2>3, <2>4, <2>5 DEF OpenOfferAttended, Attends
<1>5. CASE ReceiveAnswer(l) \/ OfferTimesOut(l)
  <2>1. /\ UNCHANGED <<offer, faults, crashes>>
        /\ \A k \in Dispatchers \ {l} : dispatcher'[k] = dispatcher[k]
        /\ dispatcher'[l] \in {[me EXCEPT !.at = "closing", !.won = AnswerTo(me) = "accepted"],
                               [me EXCEPT !.at = "closing"]}
    BY <1>a, <1>5 DEF ReceiveAnswer, OfferTimesOut, TypeOK, database, bounds
  <2>2. /\ dispatcher'[l].at = "closing"
        /\ dispatcher'[l].ride = me.ride
        /\ dispatcher'[l].driver = me.driver
    BY <1>a, <2>1 DEF Dispatcher
  <2>3. \A k \in Dispatchers, r \in Rides, d \in Drivers : Attends(k, r, d) => Attends(k, r, d)'
    BY <2>1, <2>2 DEF Attends
  <2> QED
    BY <2>1, <2>3, AttendedUndisturbed
<1>6. CASE CloseOffer(l)
  <2>1. /\ UNCHANGED <<faults, crashes>>
        /\ me.ride \in Rides /\ me.driver \in Drivers
        /\ offer' = Closed(me)
        /\ \A k \in Dispatchers \ {l} : dispatcher'[k] = dispatcher[k]
    BY <1>a, <1>b, <1>6 DEF CloseOffer, Holding, TypeOK, bounds
  <2>2. \A r \in Rides, d \in Drivers :
           offer'[r][d] = "open" => offer[r][d] = "open" /\ ~(r = me.ride /\ d = me.driver)
    BY <1>a, <2>1 DEF Closed, TypeOK
  <2>3. \A k \in Dispatchers, r \in Rides, d \in Drivers :
           Attends(k, r, d) => Attends(k, r, d)' \/ offer'[r][d] # "open"
    BY <2>1, <2>2 DEF Attends
  <2> QED
    BY <2>1, <2>2, <2>3, AttendedUndisturbed
<1> QED
  BY <1>1, <1>2, <1>3, <1>4, <1>5, <1>6 DEF DispatchStep

LEMMA StepKeepsAttended == Sane /\ OpenOfferAttended /\ [Next]_vars => OpenOfferAttended'
<1> SUFFICES ASSUME Sane, OpenOfferAttended, [Next]_vars PROVE OpenOfferAttended'
  OBVIOUS
<1>a. TypeOK
  BY DEF Sane
<1>1. ASSUME NEW r \in Rides, NEW l \in Dispatchers, CreateOrGet(r, l) PROVE OpenOfferAttended'
  <2>1. /\ UNCHANGED <<offer, faults, crashes>>
        /\ dispatcher[l].at = "off"
        /\ \A k \in Dispatchers \ {l} : dispatcher'[k] = dispatcher[k]
    BY <1>a, <1>1 DEF CreateOrGet, TypeOK
  <2> QED
    BY <2>1, AttendedUndisturbed DEF Attends
<1>2. ASSUME \/ \E l \in Dispatchers : DispatchFails(l)
             \/ \E h \in Handlers : HandlerFails(h)
             \/ Crash
      PROVE  OpenOfferAttended'
  <2>1. faults' + crashes' # 0
    BY <1>a, <1>2 DEF DispatchFails, HandlerFails, Crash, TypeOK
  <2> QED
    BY <2>1 DEF OpenOfferAttended
<1>3. ASSUME NEW r \in Rides, NEW d \in Drivers, DeclineOffer(r, d) PROVE OpenOfferAttended'
  <2>1. /\ UNCHANGED <<dispatcher, faults, crashes>>
        /\ offer' = [offer EXCEPT ![r][d] = IF @ = "open" THEN "lapsed" ELSE @]
    BY <1>3 DEF DeclineOffer, bounds
  <2>2. \A q \in Rides, e \in Drivers : offer'[q][e] = "open" => offer[q][e] = "open"
    BY <1>a, <2>1 DEF TypeOK
  <2> QED
    BY <2>1, <2>2, AttendedUndisturbed DEF Attends
<1>4. CASE UNCHANGED <<offer, dispatcher, faults, crashes>>
  BY <1>4, AttendedUndisturbed DEF Attends
<1>5. ASSUME NEW r \in Rides, NEW d \in Drivers, ExpireKey(r, d)
      PROVE  UNCHANGED <<offer, dispatcher, faults, crashes>>
  BY <1>5 DEF ExpireKey, database, bounds
<1>6. ASSUME NEW d \in Drivers, TakeOffline(d) \/ ExpireLock(d)
      PROVE  UNCHANGED <<offer, dispatcher, faults, crashes>>
  BY <1>6 DEF TakeOffline, ExpireLock, database, bounds
<1>7. ASSUME NEW h \in Handlers, Arrive(h) \/ HandlerStep(h)
      PROVE  UNCHANGED <<offer, dispatcher, faults, crashes>>
  <2>1. ASSUME NEW r \in Rides, NEW d \in Drivers, Claim(h, r, d)
        PROVE  UNCHANGED <<offer, dispatcher, faults, crashes>>
    BY <2>1 DEF Claim, bounds
  <2>2. ASSUME NEW r \in Rides, NEW d \in Drivers, NEW s \in {"arrived", "in_progress"},
               Transition(h, r, d, s)
        PROVE  UNCHANGED <<offer, dispatcher, faults, crashes>>
    BY <2>2 DEF Transition, bounds
  <2>3. ASSUME NEW r \in Rides, NEW d \in Drivers, Complete(h, r, d)
        PROVE  UNCHANGED <<offer, dispatcher, faults, crashes>>
    BY <2>3 DEF Complete, database, bounds
  <2>4. ASSUME NEW r \in Rides, Cancel(h, r)
        PROVE  UNCHANGED <<offer, dispatcher, faults, crashes>>
    BY <2>4 DEF Cancel, database, bounds
  <2>5. HandlerStep(h) => UNCHANGED <<offer, dispatcher, faults, crashes>>
    BY DEF HandlerStep, AnswerAccepted, SetDriverState, CloseTrip, SettleTrip, CancelRide,
           FreeDriver, database, bounds
  <2> QED
    BY <1>7, <2>1, <2>2, <2>3, <2>4, <2>5 DEF Arrive
<1>8. UNCHANGED vars => UNCHANGED <<offer, dispatcher, faults, crashes>>
  BY DEF vars, database, bounds
<1> QED
  BY <1>1, <1>2, <1>3, <1>4, <1>5, <1>6, <1>7, <1>8, DispatchKeepsAttended DEF Next

\* While nothing fails, an offer that is open has a loop that waits for its answer or
\* is closing it.
THEOREM OpenOffersAreAttended == Spec => []OpenOfferAttended
<1>1. Init => Sane /\ OpenOfferAttended
  BY InitSane DEF Init, OpenOfferAttended
<1>2. Sane /\ OpenOfferAttended /\ [Next]_vars => Sane' /\ OpenOfferAttended'
  BY StepSane, StepKeepsAttended
<1> QED
  BY <1>1, <1>2, PTL DEF Spec
=============================================================================
