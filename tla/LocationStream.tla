---------------------------- MODULE LocationStream ----------------------------
(***************************************************************************)
(* One driver's positions, from the phone's SQLite buffer over a link that *)
(* drops, through the gateway, to the live position in Redis, the pool of  *)
(* idle drivers, and the breadcrumbs in the database.                      *)
(*                                                                         *)
(* A fix is a number: the order in which it was recorded.  Its sequence    *)
(* number is what the app and the server tell fixes apart by.  Timing the  *)
(* model assumes: a ping's Redis commands end before the phone gives up on *)
(* its answer (8 s) or has come back over a new connection; a capture ends *)
(* before the next position (4 s).                                         *)
(***************************************************************************)
EXTENDS Integers, FiniteSets, Functions

CONSTANTS
    MaxFixes,       \* bound: positions recorded
    MaxBuffered,    \* _maxBufferedFixes
    BatchSize,      \* _batchSize
    FlushAt,        \* breadcrumbs that make a ping flush them itself (200)
    MaxTroubles,    \* bound: lost links, refused pings, failing stores, restarts of the server
    MaxRestarts     \* bound: times the app is killed or goes off line

ASSUME StreamBounds ==
    /\ MaxFixes \in Nat /\ MaxTroubles \in Nat /\ MaxRestarts \in Nat
    /\ MaxBuffered \in Nat \ {0} /\ BatchSize \in Nat \ {0} /\ FlushAt \in Nat \ {0}

VARIABLES
    rows,       \* the table fixes of the phone
    saved,      \* meta 'seq'
    seq,        \* _seq
    capture,    \* the _onPosition under way
    flush,      \* the flush under way
    running,    \* the queue is started
    linked,     \* the socket, as the phone sees it
    stale,      \* the token the socket was made with has run out
    lastSeq,    \* socket.data.lastSeq
    silent,     \* an older socket of this driver the gateway still thinks open
    job,        \* the ping the gateway is handling
    waiting,    \* breadcrumbBuffer, how often each fix is in it
    inserting,  \* the batches being inserted
    stored,     \* the table locations
    live,       \* the position of driver:{id}, None before the first
    pool,       \* the driver is in geo:drivers:{category}, out, or was swept out of it
    grace,      \* driver:reaping:{id}: there, in the half second its TTL reads 0, or not
    sweep,      \* reapStaleSockets
    recorded,   \* fixes recorded so far
    thinned,    \* fixes the buffer dropped
    lost,       \* breadcrumbs a failed insert or a restart of the server lost
    troubles, restarts

phone  == <<rows, saved, seq, capture, flush, running>>
crumbs == <<waiting, inserting, stored>>
place  == <<live, pool>>
ghosts == <<recorded, thinned, lost, restarts>>
vars   == <<phone, linked, stale, lastSeq, silent, job, crumbs, place, grace, sweep, ghosts, troubles>>

None  == 0
Fixes == 1..MaxFixes
Who   == {"ping", "timer"}
Empty == [f \in Fixes |-> 0]
Resting  == [at |-> "idle", seq |-> 0, id |-> None]
NoFlush  == [at |-> "idle", batch |-> {}, sent |-> {}]
NoJob    == [at |-> "idle", seq |-> 0, id |-> None]

Init ==
    /\ rows = {} /\ saved = 0 /\ seq = 0 /\ running = TRUE
    /\ capture = Resting /\ flush = NoFlush
    /\ linked = FALSE /\ stale = FALSE /\ lastSeq = 0 /\ silent = FALSE
    /\ job = NoJob
    /\ waiting = Empty /\ inserting = [w \in Who |-> Empty] /\ stored = Empty
    /\ live = None /\ pool = "out" /\ grace = "none" /\ sweep = "idle"
    /\ recorded = 0 /\ thinned = {} /\ lost = {}
    /\ troubles = 0 /\ restarts = 0

\* ORDER BY recorded_at LIMIT n.
Oldest(n) == {r \in rows : Cardinality({q \in rows : q.id <= r.id}) <= n}
Trouble   == troubles < MaxTroubles /\ troubles' = troubles + 1

-----------------------------------------------------------------------------
(* The phone: _onPosition *)

Position ==
    /\ running /\ capture.at = "idle" /\ recorded < MaxFixes
    /\ seq' = seq + 1 /\ recorded' = recorded + 1
    /\ capture' = [at |-> "insert", seq |-> seq + 1, id |-> recorded + 1]
    /\ UNCHANGED <<rows, saved, flush, running, linked, stale, lastSeq, silent, job, crumbs,
                   place, grace, sweep, thinned, lost, restarts, troubles>>

\* ConflictAlgorithm.replace: a row with that sequence number is overwritten.
InsertFix ==
    /\ capture.at = "insert"
    /\ rows' = {r \in rows : r.seq # capture.seq} \cup {[seq |-> capture.seq, id |-> capture.id]}
    /\ capture' = [capture EXCEPT !.at = "meta"]
    /\ UNCHANGED <<saved, seq, flush, running, linked, stale, lastSeq, silent, job, crumbs,
                   place, grace, sweep, ghosts, troubles>>

SaveSeq ==
    /\ capture.at = "meta"
    /\ saved' = capture.seq
    /\ capture' = [capture EXCEPT !.at = "trim"]
    /\ UNCHANGED <<rows, seq, flush, running, linked, stale, lastSeq, silent, job, crumbs,
                   place, grace, sweep, ghosts, troubles>>

\* Mutant: all of the oldest half goes.
ThinnedAll == Oldest(Cardinality(rows) \div 2)
\* Of the oldest half, the rows with an even sequence number.
Thinned == {r \in Oldest(Cardinality(rows) \div 2) : r.seq % 2 = 0}

\* _trimBuffer, and a flush if there is a connection.
TrimBuffer ==
    LET out == IF Cardinality(rows) <= MaxBuffered THEN {} ELSE Thinned IN
    /\ capture.at = "trim"
    /\ rows' = rows \ out
    /\ thinned' = thinned \cup {r.id : r \in out}
    /\ capture' = Resting
    /\ flush' = IF linked /\ flush.at = "idle" THEN [NoFlush EXCEPT !.at = "read"] ELSE flush
    /\ UNCHANGED <<saved, seq, running, linked, stale, lastSeq, silent, job, crumbs, place,
                   grace, sweep, recorded, lost, restarts, troubles>>

-----------------------------------------------------------------------------
(* The phone: flush *)

\* Mutant: the drain is not kept from being started again.
MayFlushAlways == linked
MayFlush == linked /\ flush.at = "idle"

FlushTick ==
    /\ running /\ MayFlush
    /\ rows # {}
    /\ flush' = [NoFlush EXCEPT !.at = "read"]
    /\ UNCHANGED <<rows, saved, seq, capture, running, linked, stale, lastSeq, silent, job,
                   crumbs, place, grace, sweep, ghosts, troubles>>

ReadBatch ==
    /\ flush.at = "read"
    /\ flush' = IF rows = {} THEN NoFlush
                ELSE [at |-> "send", batch |-> Oldest(BatchSize), sent |-> {}]
    /\ UNCHANGED <<rows, saved, seq, capture, running, linked, stale, lastSeq, silent, job,
                   crumbs, place, grace, sweep, ghosts, troubles>>

\* One fix at a time, oldest first; the ack of one comes before the next is sent.
SendFix ==
    LET left == flush.batch \ flush.sent
        next == CHOOSE r \in left : \A q \in left : r.id <= q.id
    IN
    /\ flush.at = "send"
    /\ IF left = {} \/ ~linked
       THEN flush' = [flush EXCEPT !.at = "delete"] /\ UNCHANGED job
       ELSE /\ job.at = "idle"
            /\ flush' = [flush EXCEPT !.at = "wait"]
            /\ job' = [at |-> "arrive", seq |-> next.seq, id |-> next.id]
    /\ UNCHANGED <<rows, saved, seq, capture, running, linked, stale, lastSeq, silent, crumbs,
                   place, grace, sweep, ghosts, troubles>>

\* emitWithAck gives null: the ping or its answer is gone.
AckTimeout ==
    /\ flush.at = "wait"
    /\ job.at = "idle" \/ ~linked
    /\ flush' = [flush EXCEPT !.at = "delete"]
    /\ UNCHANGED <<rows, saved, seq, capture, running, linked, stale, lastSeq, silent, job,
                   crumbs, place, grace, sweep, ghosts, troubles>>

\* Mutant: the whole batch goes, acknowledged or not.
AfterDeleteBatch == rows \ flush.batch
\* DELETE ... WHERE seq IN (...): the rows whose numbers were acknowledged.
AfterDelete == {r \in rows : \A s \in flush.sent : r.seq # s.seq}

DeleteSent ==
    /\ flush.at = "delete"
    /\ rows' = AfterDelete
    /\ flush' = IF flush.sent # {} /\ flush.sent = flush.batch
                THEN [NoFlush EXCEPT !.at = "read"] ELSE NoFlush
    /\ UNCHANGED <<saved, seq, capture, running, linked, stale, lastSeq, silent, job, crumbs,
                   place, grace, sweep, ghosts, troubles>>

-----------------------------------------------------------------------------
(* The gateway: onLocationUpdate *)

\* WsThrottleGuard refuses the ping: an exception, and no ack.
Throttle ==
    /\ job.at = "arrive"
    /\ Trouble
    /\ job' = NoJob
    /\ UNCHANGED <<phone, linked, stale, lastSeq, silent, crumbs, place, grace, sweep, ghosts>>

\* Mutant: a number that only follows the last one is taken for a replay.
IsStaleOffByOne == job.seq <= lastSeq + 1
IsStale == job.seq <= lastSeq

Receive ==
    /\ job.at = "arrive"
    /\ lastSeq' = IF IsStale THEN lastSeq ELSE job.seq
    /\ job' = [job EXCEPT !.at = IF IsStale THEN "queue" ELSE "pool"]
    /\ UNCHANGED <<phone, linked, stale, silent, crumbs, place, grace, sweep, ghosts, troubles>>

\* DispatchService.upsertDriverPosition.
UpsertPosition ==
    /\ job.at = "pool"
    /\ pool' = "in"
    /\ job' = [job EXCEPT !.at = "hash"]
    /\ UNCHANGED <<phone, linked, stale, lastSeq, silent, crumbs, live, grace, sweep, ghosts, troubles>>

WritePosition ==
    /\ job.at = "hash"
    /\ live' = job.id
    /\ job' = [job EXCEPT !.at = "grace"]
    /\ UNCHANGED <<phone, linked, stale, lastSeq, silent, crumbs, pool, grace, sweep, ghosts, troubles>>

EndGrace ==
    /\ job.at = "grace"
    /\ grace' = "none"
    /\ job' = [job EXCEPT !.at = "queue"]
    /\ UNCHANGED <<phone, linked, stale, lastSeq, silent, crumbs, place, sweep, ghosts, troubles>>

\* A Redis command of the handler fails: no ack, and lastSeq stays as it was raised.
PingFails ==
    /\ job.at \in {"pool", "hash", "grace"}
    /\ Trouble
    /\ job' = NoJob
    /\ UNCHANGED <<phone, linked, stale, lastSeq, silent, crumbs, place, grace, sweep, ghosts>>

\* How many breadcrumbs a buffer holds.
Length(buffer) == FoldFunction(LAMBDA a, b : a + b, 0, buffer)

\* RidesService.enqueueBreadcrumb; a full buffer is flushed before the ack.
Enqueue ==
    LET now == [waiting EXCEPT ![job.id] = @ + 1] IN
    /\ job.at = "queue"
    /\ IF Length(now) >= FlushAt
       THEN /\ inserting' = [inserting EXCEPT !["ping"] = now]
            /\ waiting' = Empty
            /\ job' = [job EXCEPT !.at = "insert"]
       ELSE /\ waiting' = now
            /\ job' = [job EXCEPT !.at = "ack"]
            /\ UNCHANGED inserting
    /\ UNCHANGED <<phone, linked, stale, lastSeq, silent, stored, place, grace, sweep, ghosts, troubles>>

\* JobsService.flushBreadcrumbs, every five seconds: the batch leaves the buffer first.
FlushTimer ==
    /\ waiting # Empty /\ inserting["timer"] = Empty
    /\ inserting' = [inserting EXCEPT !["timer"] = waiting]
    /\ waiting' = Empty
    /\ UNCHANGED <<phone, linked, stale, lastSeq, silent, job, stored, place, grace, sweep,
                   ghosts, troubles>>

\* The insert is done, or has failed and is only logged.
InsertBatch(w) ==
    /\ inserting[w] # Empty
    /\ \/ stored' = [f \in Fixes |-> stored[f] + inserting[w][f]] /\ UNCHANGED <<lost, troubles>>
       \/ /\ Trouble
          /\ lost' = lost \cup {f \in Fixes : inserting[w][f] > 0}
          /\ UNCHANGED stored
    /\ inserting' = [inserting EXCEPT ![w] = Empty]
    /\ job' = IF w = "ping" /\ job.at = "insert" THEN [job EXCEPT !.at = "ack"] ELSE job
    /\ UNCHANGED <<phone, linked, stale, lastSeq, silent, waiting, place, grace, sweep, recorded,
                   thinned, restarts>>

\* The ack reaches the phone, if it still waits on that connection.
Ack ==
    /\ job.at = "ack"
    /\ job' = NoJob
    /\ IF flush.at = "wait" /\ linked
       THEN flush' = [flush EXCEPT !.at = "send", !.sent = @ \cup {[seq |-> job.seq, id |-> job.id]}]
       ELSE UNCHANGED flush
    /\ UNCHANGED <<rows, saved, seq, capture, running, linked, stale, lastSeq, silent, crumbs,
                   place, grace, sweep, ghosts, troubles>>

-----------------------------------------------------------------------------
(* Connections *)

\* The handshake: a token that has run out is refused, and connect() never takes a
\* new one.  A new socket starts from lastSeq 0.
Connect ==
    /\ ~linked /\ ~stale /\ job.at = "idle" /\ flush.at # "wait"
    /\ linked' = TRUE /\ lastSeq' = 0
    /\ UNCHANGED <<phone, stale, silent, job, crumbs, place, grace, sweep, ghosts, troubles>>

\* The link is gone; a ping on it has arrived or not.  The gateway learns of it later.
\* By now the fifteen minutes of the token the socket was made with may be over.
LinkDrops ==
    /\ linked
    /\ Trouble
    /\ linked' = FALSE /\ silent' = TRUE
    /\ stale' \in {stale, TRUE}
    /\ job' = IF job.at = "arrive" THEN NoJob ELSE job
    /\ UNCHANGED <<phone, lastSeq, crumbs, place, grace, sweep, ghosts>>

\* handleDisconnect, at once or when reapStaleSockets finds the socket silent: perhaps
\* after the driver has come back over another one.
HandleDisconnect ==
    /\ silent
    /\ silent' = FALSE
    /\ grace' = "set"
    /\ UNCHANGED <<phone, linked, stale, lastSeq, job, crumbs, place, sweep, ghosts,
                   troubles>>

\* The app is killed: what was in memory is gone.
Kill ==
    /\ restarts < MaxRestarts
    /\ restarts' = restarts + 1
    /\ running' = FALSE /\ linked' = FALSE /\ stale' = FALSE
    /\ silent' = (silent \/ linked)
    /\ capture' = Resting /\ flush' = NoFlush
    /\ job' = IF job.at = "arrive" THEN NoJob ELSE job
    /\ UNCHANGED <<rows, saved, seq, lastSeq, crumbs, place, grace, sweep, recorded, thinned,
                   lost, troubles>>

\* stop(): no more positions, one last drain.  A capture under way goes on.
Stop ==
    /\ running
    /\ restarts < MaxRestarts
    /\ restarts' = restarts + 1
    /\ running' = FALSE
    /\ flush' = IF MayFlush THEN [NoFlush EXCEPT !.at = "read"] ELSE flush
    /\ UNCHANGED <<rows, saved, seq, capture, linked, stale, lastSeq, silent, job, crumbs, place,
                   grace, sweep, recorded, thinned, lost, troubles>>

\* start() of a new queue, once the last drain of the old one is over.
Start ==
    /\ ~running /\ flush.at = "idle"
    /\ running' = TRUE
    /\ seq' = saved
    /\ flush' = IF linked THEN [NoFlush EXCEPT !.at = "read"] ELSE NoFlush
    /\ UNCHANGED <<rows, saved, capture, linked, stale, lastSeq, silent, job, crumbs, place,
                   grace, sweep, ghosts, troubles>>

\* The server stops: buffered breadcrumbs, sockets and pings are gone; Redis is not.
ServerRestarts ==
    /\ Trouble
    /\ lost' = lost \cup {f \in Fixes : waiting[f] + inserting["ping"][f] + inserting["timer"][f] > 0}
    /\ waiting' = Empty /\ inserting' = [w \in Who |-> Empty]
    /\ job' = NoJob /\ sweep' = "idle"
    /\ linked' = FALSE /\ silent' = FALSE
    /\ stale' \in IF linked THEN {stale, TRUE} ELSE {stale}
    /\ UNCHANGED <<phone, lastSeq, stored, place, grace, recorded, thinned, restarts>>

-----------------------------------------------------------------------------
(* The pool: the grace key and reapStaleSockets *)

\* 45 seconds, of which Redis rounds the last half one to a TTL of 0.
GraceRunsOut ==
    /\ \/ grace = "set" /\ grace' = "last"
       \/ grace = "last" /\ grace' = "none"
    /\ UNCHANGED <<phone, linked, stale, lastSeq, silent, job, crumbs, place, sweep, ghosts, troubles>>

\* A TTL of 0; the key's value is the category, unless the key has just gone.
SweepLooks ==
    /\ sweep = "idle" /\ grace = "last"
    /\ sweep' \in {"remove", "del"}
    /\ UNCHANGED <<phone, linked, stale, lastSeq, silent, job, crumbs, place, grace, ghosts, troubles>>

SweepRemoves ==
    /\ sweep = "remove"
    /\ pool' = "swept"
    /\ sweep' = "del"
    /\ UNCHANGED <<phone, linked, stale, lastSeq, silent, job, crumbs, live, grace, ghosts, troubles>>

SweepDeletes ==
    /\ sweep = "del"
    /\ grace' = "none"
    /\ sweep' = "idle"
    /\ UNCHANGED <<phone, linked, stale, lastSeq, silent, job, crumbs, place, ghosts, troubles>>

-----------------------------------------------------------------------------

Capture == InsertFix \/ SaveSeq \/ TrimBuffer
Drain   == FlushTick \/ ReadBatch \/ SendFix \/ AckTimeout \/ DeleteSent
Handle  == Receive \/ UpsertPosition \/ WritePosition \/ EndGrace \/ Enqueue \/ Ack
Sweep   == SweepLooks \/ SweepRemoves \/ SweepDeletes

Next ==
    \/ Position \/ Capture \/ Drain \/ Handle \/ Sweep
    \/ Throttle \/ PingFails \/ FlushTimer \/ (\E w \in Who : InsertBatch(w))
    \/ Connect \/ LinkDrops \/ HandleDisconnect
    \/ Kill \/ Stop \/ Start \/ ServerRestarts \/ GraceRunsOut

Spec == Init /\ [][Next]_vars

-----------------------------------------------------------------------------
(* What a careful reader of this code wants to know *)

Row       == [seq : 1..MaxFixes, id : Fixes]
Capturing == [at : {"idle", "insert", "meta", "trim"}, seq : 0..MaxFixes, id : Fixes \cup {None}]
Draining  == [at : {"idle", "read", "send", "wait", "delete"}, batch : SUBSET Row, sent : SUBSET Row]
Handling  == [at : {"idle", "arrive", "pool", "hash", "grace", "queue", "insert", "ack"},
              seq : 0..MaxFixes, id : Fixes \cup {None}]

TypeOK ==
    /\ rows \subseteq Row
    /\ saved \in 0..MaxFixes /\ seq \in 0..MaxFixes
    /\ capture \in Capturing /\ flush \in Draining /\ job \in Handling
    /\ flush.sent \subseteq flush.batch /\ Cardinality(flush.batch) <= BatchSize
    /\ running \in BOOLEAN /\ linked \in BOOLEAN /\ stale \in BOOLEAN /\ silent \in BOOLEAN
    /\ lastSeq \in 0..MaxFixes
    /\ waiting \in [Fixes -> Nat] /\ inserting \in [Who -> [Fixes -> Nat]] /\ stored \in [Fixes -> Nat]
    /\ live \in Fixes \cup {None} /\ pool \in {"in", "out", "swept"}
    /\ grace \in {"none", "set", "last"} /\ sweep \in {"idle", "remove", "del"}

OnPhone    == {r.id : r \in rows} \cup {capture.id}
Copies(f)  == waiting[f] + inserting["ping"][f] + inserting["timer"][f] + stored[f]
Vanished   == {f \in 1..recorded : f \notin OnPhone \cup thinned \cup lost /\ Copies(f) = 0}

\* "Rows are deleted only after the server acknowledges the sequence number": a fix that
\* is neither on the phone nor on the server was thinned, or was in a batch the server
\* lost; beside these at most one goes each time the app is killed or goes off line.
FixAccountedFor == Cardinality(Vanished) <= restarts

\* "Losing the route entirely" is what thinning avoids: of two fixes recorded one after
\* the other it never drops both, however often it runs.
RouteSurvives == \A f \in thinned : f + 1 \notin thinned

\* A fix is stored once, and once more at most for each thing that went wrong while it
\* was on its way: nothing on the server tells a fix sent again from a new one.
CopiesExplained == \A f \in Fixes : Copies(f) <= 1 + troubles + restarts

\* While nothing failed and the app was not restarted (which may reuse a number), a fix
\* that is acknowledged has become the position dispatch and rider see, and the driver is
\* in the pool unless a sweep took them out since the ping arrived.
AckedIsLive ==
    [][(job.at = "ack" /\ flush'.sent # flush.sent /\ troubles + restarts = 0)
            => (live >= job.id /\ pool # "out")]_vars
=============================================================================
