------------------------- MODULE LocationStreamProofs -------------------------
(***************************************************************************)
(* Theorems about LocationStream, for any number of fixes, restarts and    *)
(* troubles, any buffer and any batch.                                     *)
(*                                                                         *)
(* The invariant comes in parts: what is where (Typed), how the sequence   *)
(* numbers of the buffer relate to the order of recording across restarts  *)
(* (Numbered), which of two neighbours was thinned (Halved), what a drain  *)
(* and the gateway have in hand (Batched, Answered), what a restart may    *)
(* still cost (Accounted), how often a fix may still be sent (Repeated),   *)
(* and what the live position owes to the pings while nothing went wrong   *)
(* (Current).                                                              *)
(***************************************************************************)
EXTENDS LocationStream, FiniteSetTheorems, WellFoundedInduction, TLAPS

-----------------------------------------------------------------------------
(* The invariant *)

\* What TypeOK leaves out.
Typed ==
    /\ TypeOK
    /\ IsFiniteSet(rows)
    /\ job.at # "idle" => job.seq \in 1..MaxFixes /\ job.id \in Fixes
    /\ recorded \in 0..MaxFixes /\ thinned \subseteq Fixes /\ lost \subseteq Fixes
    /\ troubles \in Nat /\ restarts \in Nat

\* The number the fix in hand has, or the next one would get.
Top ==
    IF capture.at # "idle" THEN capture.seq
    ELSE IF running THEN seq + 1 ELSE saved + 1

\* The buffer is numbered in the order of recording; a restart may forget the last
\* number, never more, and so reuse it for the next fix.
Numbered ==
    /\ saved <= recorded /\ seq <= recorded
    /\ capture.at # "idle" =>
          /\ capture.seq \in 1..MaxFixes /\ capture.seq <= recorded
          /\ capture.id = recorded /\ recorded \in Fixes
    /\ capture.at \in {"insert", "meta"} => saved \in {capture.seq - 1, capture.seq}
    /\ capture.at = "trim" => saved = capture.seq
    /\ running => seq \in IF capture.at = "idle" THEN {saved - 1, saved}
                          ELSE {capture.seq - 1, capture.seq}
    /\ capture.at = "idle" => capture.id = None
    /\ \A r \in rows :
          /\ r.seq <= Top
          /\ r.id <= recorded /\ (capture.at = "insert" => r.id < recorded)
          /\ r.id = recorded =>
                /\ saved \in {r.seq - 1, r.seq}
                /\ running => seq \in {r.seq - 1, r.seq}
                /\ capture.at # "idle" => r.seq = capture.seq
          /\ capture.at = "insert" /\ r.id = recorded - 1 => capture.seq \in {r.seq, r.seq + 1}
    /\ \A q, r \in rows : (q.id < r.id => q.seq < r.seq) /\ (q.id = r.id => q = r)

\* Of two neighbours that are left one has an odd number, and a fix whose neighbour was
\* thinned has one; the newest fix is never thinned.
Halved ==
    /\ \A f \in thinned : f < IF capture.at = "insert" THEN recorded - 1 ELSE recorded
    /\ \A q, r \in rows : r.id = q.id + 1 => r.seq = q.seq + 1
    /\ \A f \in thinned, r \in rows : r.id = f + 1 \/ f = r.id + 1 => r.seq % 2 = 1

OnServer(f) == Copies(f) > 0 \/ f \in lost

\* What a drain holds are different fixes, with the numbers of the buffer; a number of the
\* batch that may be used again is in the buffer.
Batched ==
    /\ \A s, t \in flush.batch : s.id = t.id \/ s.seq = t.seq => s = t
    /\ flush.at \in {"idle", "read"} => flush.batch = {}
    /\ \A s \in flush.batch :
          /\ s.id <= recorded /\ (capture.at = "insert" => s.id < recorded)
          /\ \A r \in rows : r.id = s.id => r = s
          /\ capture.at # "idle" \/ running =>
                s.seq <= Top /\ (s.seq = Top => \E r \in rows : r.seq = s.seq)

\* What a drain has acknowledged is on the server, or was lost there; while it waits, the
\* gateway works on a fix of its batch.
Answered ==
    /\ flush.at = "wait" /\ linked /\ job.at # "idle" => [seq |-> job.seq, id |-> job.id] \in flush.batch
    /\ \A s \in flush.sent : OnServer(s.id)
    /\ job.at # "idle" => job.id <= recorded
    /\ job.at \in {"insert", "ack"} => OnServer(job.id)
    /\ inserting["ping"] # Empty => job.at = "insert"
    /\ \A f \in Fixes : f > recorded => Copies(f) = 0

\* Fixes that are nowhere, or only in a capture that has put them in the buffer already...
InHand(f) == capture.at = "insert" /\ capture.id = f
Gone ==
    {f \in 1..recorded :
        ~InHand(f) /\ (\A r \in rows : r.id # f) /\ f \notin thinned /\ ~OnServer(f)}

\* ...and those that go when another fix, of the same number, is acknowledged.
Doomed ==
    Gone \cup
    {f \in 1..recorded : \E r \in rows, s \in flush.batch :
        r.id = f /\ s.seq = r.seq /\ s.id # r.id /\ s.id \notin Gone}

\* The fix in hand, or the next one, has the number of one in the buffer.
Collides == capture.at = "insert" /\ \E r \in rows : r.seq = capture.seq
MayCollide ==
    IF capture.at = "idle" THEN \E r \in rows : r.seq = Top
    ELSE ~running \/ seq # capture.seq
Debt == (IF Collides THEN 1 ELSE 0) + (IF MayCollide THEN 1 ELSE 0)

\* Every restart costs one fix at most, perhaps later.
Accounted == Cardinality(Doomed) + Debt <= restarts

\* The gateway is about to store f once more; the phone may send it once more.
Coming(f) == job.id = f /\ job.at \in {"arrive", "pool", "hash", "grace", "queue"}
Awaited(f) == flush.at = "wait" /\ linked /\ job.at # "idle" /\ job.id = f
Held(f) == (\E r \in rows \cup flush.batch : r.id = f) \/ InHand(f)
MaySend(f) ==
    /\ Held(f)
    /\ ~Awaited(f) /\ \A s \in flush.sent : s.id # f
One(p) == IF p THEN 1 ELSE 0
Load(f) == Copies(f) + One(Coming(f)) + One(MaySend(f))
Repeated == \A f \in Fixes : Load(f) <= 1 + (troubles + restarts)

\* While nothing went wrong numbers are fixes, and the position is that of the last ping
\* the gateway took, but for the one it is working on.
Current ==
    troubles + restarts = 0 =>
        /\ running /\ seq = recorded
        /\ capture.at # "idle" => capture.seq = capture.id
        /\ \A r \in rows \cup flush.batch : r.seq = r.id
        /\ job.at # "idle" => job.seq = job.id
        /\ job.at \in {"pool", "hash"} => lastSeq = job.seq
        /\ job.at \in {"grace", "queue", "insert", "ack"} => lastSeq >= job.seq
        /\ job.at \notin {"pool", "hash"} /\ lastSeq > 0 => live >= lastSeq
        /\ job.at # "pool" /\ lastSeq > 0 => pool # "out"

IInv ==
    /\ Typed /\ Numbered /\ Halved /\ RouteSurvives /\ Batched /\ Answered
    /\ Accounted /\ Repeated /\ Current

-----------------------------------------------------------------------------
(* Sets of rows *)

\* A set of fixes has an oldest one.
LEMMA OldestExists ==
    ASSUME NEW S, S \subseteq Row, IsFiniteSet(S), S # {}
    PROVE  \E r \in S : \A q \in S : r.id <= q.id
<1> DEFINE Upto(r) == {q \in S : q.id <= r.id}
           T == {Upto(r) : r \in S}
<1>0. \A r \in S : Upto(r) \in SUBSET S /\ IsFiniteSet(Upto(r))
  BY FS_Subset
<1>1. T \subseteq FiniteSubsetsOf(S) /\ T # {}
  BY <1>0 DEF FiniteSubsetsOf
<1>2. PICK u \in T : \A t \in T : <<t, u>> \notin StrictSubsetOrdering(S)
  BY <1>1, FS_StrictSubsetOrderingWellFounded, WFMin
<1>3. PICK r \in S : u = Upto(r)
  BY <1>2
<1>4. ASSUME NEW q \in S, ~(r.id <= q.id) PROVE FALSE
  <2>1. q.id \in Int /\ r.id \in Int /\ \A x \in S : x.id \in Int
    BY DEF Row, Fixes
  <2>2. Upto(q) \subseteq Upto(r) /\ r \in Upto(r) /\ r \notin Upto(q)
    BY <1>4, <2>1
  <2>3. <<Upto(q), Upto(r)>> \in StrictSubsetOrdering(S)
    BY <2>2 DEF StrictSubsetOrdering
  <2>4. QED
    BY <1>2, <1>3, <2>3
<1>5. QED
  BY <1>4

\* There are finitely many rows to have.
LEMMA RowsAreFinite == IsFiniteSet(Row)
<1> DEFINE N == 1..MaxFixes
           f == [p \in N \X N |-> [seq |-> p[1], id |-> p[2]]]
<1>1. IsFiniteSet(N)
  BY FS_Interval, StreamBounds
<1>2. IsFiniteSet(N \X N)
  BY <1>1, FS_Product
<1>3. f \in [N \X N -> Row]
  BY DEF Row, Fixes
<1>4. ASSUME NEW r \in Row PROVE \E p \in N \X N : f[p] = r
  <2>1. <<r.seq, r.id>> \in N \X N /\ f[<<r.seq, r.id>>] = r
    BY DEF Row, Fixes
  <2>2. QED
    BY <2>1
<1>5. f \in Surjection(N \X N, Row)
  BY <1>3, <1>4 DEF Surjection
<1> HIDE DEF f, N
<1>6. QED
  BY <1>2, <1>5, FS_Surjection

\* How many rows are as old as r, or older.
Rank(r) == Cardinality({q \in rows : q.id <= r.id})

\* Ranks count from 1, and an older row has a lower one.
LEMMA Ranks ==
    ASSUME rows \subseteq Row, IsFiniteSet(rows)
    PROVE  \A r \in rows :
              /\ Rank(r) \in Nat \ {0}
              /\ \A q \in rows : q.id < r.id => Rank(q) < Rank(r)
              /\ (\A q \in rows : q.id <= r.id) => Rank(r) = Cardinality(rows)
<1> SUFFICES ASSUME NEW r \in rows
             PROVE  /\ Rank(r) \in Nat \ {0}
                    /\ \A q \in rows : q.id < r.id => Rank(q) < Rank(r)
                    /\ (\A q \in rows : q.id <= r.id) => Rank(r) = Cardinality(rows)
  OBVIOUS
<1> DEFINE Upto(x) == {y \in rows : y.id <= x.id}
<1>0. \A x \in rows : x.id \in Int
  BY DEF Row, Fixes
<1>1. \A x \in rows : IsFiniteSet(Upto(x)) /\ Cardinality(Upto(x)) \in Nat
  BY FS_Subset, FS_CardinalityType
<1>2. Rank(r) # 0
  <2>1. r \in Upto(r)
    BY <1>0
  <2>2. QED
    BY <1>1, <2>1, FS_EmptySet DEF Rank
<1>3. ASSUME NEW q \in rows, q.id < r.id PROVE Rank(q) < Rank(r)
  <2>1. Upto(q) \subseteq Upto(r) /\ r \in Upto(r) /\ r \notin Upto(q)
    BY <1>0, <1>3
  <2>2. Cardinality(Upto(q)) <= Cardinality(Upto(r)) /\ Cardinality(Upto(q)) # Cardinality(Upto(r))
    BY <1>1, <2>1, FS_Subset
  <2>3. Rank(q) = Cardinality(Upto(q)) /\ Rank(r) = Cardinality(Upto(r))
    BY DEF Rank
  <2>4. Cardinality(Upto(q)) \in Nat /\ Cardinality(Upto(r)) \in Nat
    BY <1>1
  <2> HIDE DEF Upto
  <2>5. QED
    BY <2>2, <2>3, <2>4
<1>4. (\A q \in rows : q.id <= r.id) => Rank(r) = Cardinality(rows)
  <2> SUFFICES ASSUME \A q \in rows : q.id <= r.id PROVE Rank(r) = Cardinality(rows)
    OBVIOUS
  <2>1. Upto(r) = rows
    OBVIOUS
  <2>2. QED
    BY <2>1 DEF Rank
<1>5. QED
  BY <1>1, <1>2, <1>3, <1>4 DEF Rank

\* A batch holds no more than BatchSize rows: their ranks are different, and so bounded.
LEMMA BatchBounded ==
    ASSUME Typed, Numbered, NEW n \in Nat
    PROVE  Oldest(n) \subseteq rows /\ Cardinality(Oldest(n)) <= n
<1> DEFINE S == Oldest(n)
           f == [r \in S |-> Rank(r)]
<1>0. rows \subseteq Row /\ IsFiniteSet(rows)
  BY DEF Typed, TypeOK, Row
<1>1. S \subseteq rows /\ \A r \in S : Rank(r) \in 1..n
  BY <1>0, Ranks DEF Oldest, Rank
<1>2. \A q, r \in S : q # r => Rank(q) # Rank(r)
  <2>1. \A q, r \in S : q # r => q.id # r.id /\ q.id \in Int /\ r.id \in Int
    BY <1>0, <1>1 DEF Numbered, Row, Fixes
  <2>2. \A q, r \in S : q.id < r.id => Rank(q) < Rank(r)
    BY <1>0, <1>1, Ranks
  <2>3. \A q, r \in S : Rank(q) \in Int /\ Rank(r) \in Int
    BY <1>1
  <2>4. QED
    BY <2>1, <2>2, <2>3
<1>3. f \in Injection(S, 1..n)
  BY <1>1, <1>2 DEF Injection, IsInjective
<1>4. IsFiniteSet(1..n) /\ Cardinality(1..n) = n
  BY FS_Interval
<1>5. QED
  BY <1>1, <1>3, <1>4, FS_Injection

\* The newest row is not in the older half.
LEMMA NewestStays ==
    ASSUME Typed, NEW r \in rows, \A q \in rows : q.id <= r.id
    PROVE  r \notin Oldest(Cardinality(rows) \div 2)
<1>0. rows \subseteq Row /\ IsFiniteSet(rows)
  BY DEF Typed, TypeOK, Row
<1>1. Rank(r) = Cardinality(rows) /\ Cardinality(rows) \in Nat \ {0}
  BY <1>0, Ranks
<1>2. ~(Cardinality(rows) <= Cardinality(rows) \div 2)
  BY <1>1
<1>3. QED
  BY <1>1, <1>2 DEF Oldest, Rank

-----------------------------------------------------------------------------
(* Types *)

\* The oldest fix of a batch that is left is one of the batch.
LEMMA NextOfBatch ==
    ASSUME NEW left, left \subseteq Row, left # {}
    PROVE  (CHOOSE r \in left : \A q \in left : r.id <= q.id) \in left
BY OldestExists, RowsAreFinite, FS_Subset

DrainOK(d) == d \in Draining /\ d.sent \subseteq d.batch /\ Cardinality(d.batch) <= BatchSize

\* What drains and handlers are set to when they are through has their type.
LEMMA RestTypes ==
    /\ Resting \in Capturing
    /\ NoJob \in Handling /\ NoJob.at = "idle"
    /\ DrainOK(NoFlush) /\ DrainOK([NoFlush EXCEPT !.at = "read"])
<1>1. Cardinality({}) <= BatchSize
  BY FS_EmptySet, StreamBounds
<1>2. DrainOK(NoFlush) /\ DrainOK([NoFlush EXCEPT !.at = "read"])
  BY <1>1 DEF DrainOK, NoFlush, Draining
<1>3. Resting \in Capturing /\ NoJob \in Handling
  BY StreamBounds DEF Resting, NoJob, None, Capturing, Handling
<1>4. QED
  BY <1>2, <1>3 DEF NoJob

\* Moving on leaves the rest of a drain, a capture or a ping as it is.
LEMMA DrainMoves ==
    ASSUME NEW d, DrainOK(d), NEW p \in {"idle", "read", "send", "wait", "delete"}
    PROVE  /\ DrainOK([d EXCEPT !.at = p])
           /\ [d EXCEPT !.at = p].batch = d.batch /\ [d EXCEPT !.at = p].sent = d.sent
           /\ [d EXCEPT !.at = p].at = p
BY DEF DrainOK, Draining

LEMMA CaptureMoves ==
    ASSUME NEW c \in Capturing, NEW p \in {"idle", "insert", "meta", "trim"}
    PROVE  /\ [c EXCEPT !.at = p] \in Capturing
           /\ [c EXCEPT !.at = p].seq = c.seq /\ [c EXCEPT !.at = p].id = c.id
           /\ [c EXCEPT !.at = p].at = p
BY DEF Capturing

LEMMA PingMoves ==
    ASSUME NEW j \in Handling,
           NEW p \in {"idle", "arrive", "pool", "hash", "grace", "queue", "insert", "ack"}
    PROVE  /\ [j EXCEPT !.at = p] \in Handling
           /\ [j EXCEPT !.at = p].seq = j.seq /\ [j EXCEPT !.at = p].id = j.id
           /\ [j EXCEPT !.at = p].at = p
BY DEF Handling

\* Types of the parts make the types of the whole.
PhoneOK ==
    /\ rows \subseteq Row /\ IsFiniteSet(rows)
    /\ saved \in 0..MaxFixes /\ seq \in 0..MaxFixes /\ capture \in Capturing
    /\ running \in BOOLEAN
    /\ recorded \in 0..MaxFixes /\ thinned \subseteq Fixes /\ lost \subseteq Fixes
    /\ troubles \in Nat /\ restarts \in Nat
ServerOK ==
    /\ linked \in BOOLEAN /\ stale \in BOOLEAN /\ silent \in BOOLEAN
    /\ lastSeq \in 0..MaxFixes
    /\ live \in Fixes \cup {None} /\ pool \in {"in", "out", "swept"}
    /\ grace \in {"none", "set", "last"} /\ sweep \in {"idle", "remove", "del"}
CrumbsOK ==
    /\ waiting \in [Fixes -> Nat] /\ inserting \in [Who -> [Fixes -> Nat]]
    /\ stored \in [Fixes -> Nat]
JobOK == job \in Handling /\ (job.at # "idle" => job.seq \in 1..MaxFixes /\ job.id \in Fixes)

\* The parts are the whole.
LEMMA Parts == Typed <=> PhoneOK /\ ServerOK /\ CrumbsOK /\ JobOK /\ DrainOK(flush)
BY DEF Typed, TypeOK, PhoneOK, ServerOK, CrumbsOK, JobOK, DrainOK

\* The phone's part.
LEMMA PhoneTypes == Typed /\ Numbered /\ [Next]_vars => PhoneOK'
<1> SUFFICES ASSUME Typed, Numbered, [Next]_vars PROVE PhoneOK'
  OBVIOUS
<1> USE DEF PhoneOK
<1>0. PhoneOK
  BY Parts
<1>1. CASE Position
  <2>1. seq + 1 \in 1..MaxFixes /\ recorded + 1 \in Fixes
    BY <1>0, <1>1, StreamBounds DEF Position, Numbered, Fixes
  <2>2. /\ seq' = seq + 1 /\ recorded' = recorded + 1
        /\ capture' = [at |-> "insert", seq |-> seq + 1, id |-> recorded + 1]
    BY <1>1 DEF Position
  <2>3. seq' \in 0..MaxFixes /\ recorded' \in 0..MaxFixes
    BY <2>1, <2>2, StreamBounds DEF Fixes
  <2>4. capture' \in Capturing
    BY <2>1, <2>2, <2>3 DEF Capturing
  <2>5. QED
    BY <1>0, <1>1, <2>3, <2>4 DEF Position
<1>2. CASE InsertFix
  <2> DEFINE x == [seq |-> capture.seq, id |-> capture.id]
             kept == {r \in rows : r.seq # capture.seq}
  <2>1. x \in Row
    BY <1>2, <1>0 DEF InsertFix, Numbered, Row
  <2>2. IsFiniteSet(kept) /\ kept \subseteq rows
    BY <1>0, FS_Subset
  <2>3. rows' = kept \cup {x}
    BY <1>2 DEF InsertFix
  <2>4. rows' \subseteq Row /\ IsFiniteSet(rows')
    BY <1>0, <2>1, <2>2, <2>3, FS_AddElement
  <2>5. capture' \in Capturing
    BY <1>0, <1>2, CaptureMoves DEF InsertFix
  <2>6. QED
    BY <1>0, <1>2, <2>4, <2>5 DEF InsertFix, ghosts
<1>3. CASE SaveSeq
  <2>1. capture' = [capture EXCEPT !.at = "trim"] /\ saved' = capture.seq
    BY <1>3 DEF SaveSeq
  <2>2. capture' \in Capturing /\ saved' \in 0..MaxFixes
    BY <1>0, <2>1, CaptureMoves DEF Capturing
  <2>3. QED
    BY <1>0, <1>3, <2>2 DEF SaveSeq, ghosts
<1>4. CASE TrimBuffer
  <2>1. PICK out \in SUBSET rows : rows' = rows \ out /\ thinned' = thinned \cup {r.id : r \in out}
    BY <1>4 DEF TrimBuffer, Thinned, Oldest
  <2>2. rows' \subseteq rows /\ IsFiniteSet(rows')
    BY <1>0, <2>1, FS_Subset
  <2>3. thinned' \subseteq Fixes
    BY <1>0, <2>1 DEF Row
  <2>4. QED
    BY <1>0, <1>4, <2>2, <2>3, RestTypes DEF TrimBuffer
<1>5. CASE DeleteSent
  <2>1. rows' \subseteq rows /\ IsFiniteSet(rows')
    BY <1>0, <1>5, FS_Subset DEF DeleteSent, AfterDelete
  <2>2. QED
    BY <1>0, <1>5, <2>1 DEF DeleteSent, ghosts
<1>6. CASE Kill
  <2>1. /\ UNCHANGED <<rows, saved, seq, recorded, thinned, lost, troubles>>
        /\ running' \in BOOLEAN /\ restarts' = restarts + 1 /\ capture' = Resting
    BY <1>6 DEF Kill
  <2>2. QED
    BY <1>0, <2>1, RestTypes
<1>s. CASE Stop
  <2>1. /\ UNCHANGED <<rows, saved, seq, capture, recorded, thinned, lost, troubles>>
        /\ running' \in BOOLEAN /\ restarts' = restarts + 1
    BY <1>s DEF Stop
  <2>2. QED
    BY <1>0, <2>1
<1>t. CASE Start
  <2>1. /\ UNCHANGED <<rows, saved, capture, recorded, thinned, lost, restarts, troubles>>
        /\ running' = TRUE /\ seq' = saved
    BY <1>t DEF Start, ghosts
  <2>2. QED
    BY <1>0, <2>1
<1>7. ASSUME UNCHANGED <<rows, saved, seq, capture, running, recorded, thinned, restarts>>,
             lost' \subseteq Fixes, troubles' \in {troubles, troubles + 1}
      PROVE  PhoneOK'
  BY <1>0, <1>7
<1>8. CASE Throttle \/ PingFails \/ LinkDrops \/ ServerRestarts \/ \E w \in Who : InsertBatch(w)
  <2>1. UNCHANGED <<rows, saved, seq, capture, running, recorded, thinned, restarts>>
    BY <1>8 DEF Throttle, PingFails, LinkDrops, ServerRestarts, InsertBatch, phone, ghosts
  <2>2. troubles' \in {troubles, troubles + 1}
    BY <1>8 DEF Throttle, PingFails, LinkDrops, ServerRestarts, InsertBatch, Trouble
  <2>3. lost' \subseteq Fixes
    BY <1>0, <1>8 DEF Throttle, PingFails, LinkDrops, ServerRestarts, InsertBatch, ghosts
  <2>4. QED
    BY <1>7, <2>1, <2>2, <2>3
<1>9. CASE UNCHANGED <<rows, saved, seq, capture, running, recorded, thinned, restarts, lost, troubles>>
  BY <1>0, <1>9
<1> QED
  BY <1>1, <1>2, <1>3, <1>4, <1>5, <1>6, <1>s, <1>t, <1>8, <1>9
     DEF Next, Capture, Drain, Handle, Sweep, FlushTick, ReadBatch, SendFix, AckTimeout,
         Receive, UpsertPosition, WritePosition, EndGrace, Enqueue,
         FlushTimer, Ack, Connect, HandleDisconnect,
         GraceRunsOut, SweepLooks, SweepRemoves, SweepDeletes, vars, phone, ghosts

\* The drain's.
LEMMA DrainTypes == Typed /\ Numbered /\ Answered /\ [Next]_vars => DrainOK(flush)'
<1> SUFFICES ASSUME Typed, Numbered, Answered, [Next]_vars PROVE DrainOK(flush')
  BY DEF DrainOK
<1>0. DrainOK(flush)
  BY Parts
<1>1. CASE ReadBatch
  <2> DEFINE x == [at |-> "send", batch |-> Oldest(BatchSize), sent |-> {}]
  <2>1. Oldest(BatchSize) \subseteq Row /\ Cardinality(Oldest(BatchSize)) <= BatchSize
    BY BatchBounded, StreamBounds DEF Typed, TypeOK
  <2>2. DrainOK(x)
    <3>1. x \in Draining
      BY <2>1 DEF Draining
    <3>2. x.sent = {} /\ x.batch = Oldest(BatchSize)
      OBVIOUS
    <3> HIDE DEF x
    <3>3. QED
      BY <2>1, <3>1, <3>2 DEF DrainOK
  <2>3. QED
    BY <1>1, <2>2, RestTypes DEF ReadBatch
<1>2. CASE SendFix \/ AckTimeout
  <2>1. PICK p \in {"delete", "wait"} : flush' = [flush EXCEPT !.at = p]
    BY <1>2 DEF SendFix, AckTimeout
  <2>2. DrainOK([flush EXCEPT !.at = p])
    BY <1>0, DrainMoves, Zenon
  <2>3. QED
    BY <2>1, <2>2
<1>3. CASE Ack
  <2> DEFINE x == [seq |-> job.seq, id |-> job.id]
  <2>1. CASE flush.at = "wait" /\ linked
    <3>1. flush' = [flush EXCEPT !.at = "send", !.sent = @ \cup {x}] /\ x \in flush.batch
      BY <1>3, <2>1 DEF Ack, Answered
    <3>2. QED
      BY <1>0, <3>1 DEF DrainOK, Draining
  <2>2. CASE ~(flush.at = "wait" /\ linked)
    BY <1>0, <1>3, <2>2 DEF Ack
  <2>3. QED
    BY <2>1, <2>2
<1>4. CASE TrimBuffer \/ FlushTick \/ DeleteSent \/ Kill \/ Stop \/ Start
  <2>1. flush' \in {NoFlush, [NoFlush EXCEPT !.at = "read"], flush}
    BY <1>4 DEF TrimBuffer, FlushTick, DeleteSent, Kill, Stop, Start
  <2>2. QED
    BY <1>0, <2>1, RestTypes
<1>5. CASE UNCHANGED flush
  BY <1>0, <1>5
<1>6. QED
  BY <1>1, <1>2, <1>3, <1>4, <1>5
     DEF Next, Capture, Drain, Handle, Sweep, Position, InsertFix, SaveSeq,
         Throttle, Receive, UpsertPosition, WritePosition, EndGrace, PingFails, Enqueue,
         FlushTimer, InsertBatch, Connect, LinkDrops, HandleDisconnect, ServerRestarts,
         GraceRunsOut, SweepLooks, SweepRemoves, SweepDeletes, vars, phone

\* The gateway's.
LEMMA JobTypes == Typed /\ [Next]_vars => JobOK'
<1> SUFFICES ASSUME Typed, [Next]_vars PROVE JobOK'
  OBVIOUS
<1>0. JobOK
  BY Parts
<1>1. CASE SendFix
  <2> DEFINE left == flush.batch \ flush.sent
             next == CHOOSE r \in left : \A q \in left : r.id <= q.id
  <2>1. CASE left = {} \/ ~linked
    BY <1>0, <1>1, <2>1 DEF SendFix, JobOK
  <2>2. CASE ~(left = {} \/ ~linked)
    <3>1. left \subseteq Row
      BY Parts DEF DrainOK, Draining
    <3>2. next \in Row
      BY <2>2, <3>1, NextOfBatch
    <3>3. job' = [at |-> "arrive", seq |-> next.seq, id |-> next.id]
      BY <1>1, <2>2 DEF SendFix
    <3> HIDE DEF next
    <3>4. next.seq \in 1..MaxFixes /\ next.id \in Fixes
      BY <3>2 DEF Row
    <3>5. next.seq \in 0..MaxFixes
      BY <3>4
    <3>6. QED
      BY <3>3, <3>4, <3>5 DEF JobOK, Handling
  <2>3. QED
    BY <2>1, <2>2
<1>2. ASSUME NEW p \in {"queue", "pool", "hash", "grace", "insert", "ack"},
             job' = [job EXCEPT !.at = p], job.at # "idle"
      PROVE  JobOK'
  <2>1. job \in Handling /\ job.seq \in 1..MaxFixes /\ job.id \in Fixes
    BY <1>0, <1>2 DEF JobOK
  <2> p \in {"idle", "arrive", "pool", "hash", "grace", "queue", "insert", "ack"}
    OBVIOUS
  <2>2. LET j == [job EXCEPT !.at = p] IN j \in Handling /\ j.seq = job.seq /\ j.id = job.id
    BY <2>1, PingMoves, Zenon
  <2>3. job' \in Handling /\ job'.seq = job.seq /\ job'.id = job.id
    BY <1>2, <2>2
  <2>4. QED
    BY <2>1, <2>3 DEF JobOK
<1>3. CASE job' = NoJob
  BY <1>3, RestTypes DEF JobOK
<1>4. CASE UNCHANGED job
  BY <1>0, <1>4 DEF JobOK
<1>5. CASE Receive
  <2>1. PICK p \in {"queue", "pool"} : job' = [job EXCEPT !.at = p]
    BY <1>5 DEF Receive
  <2>2. QED
    BY <1>2, <1>5, <2>1 DEF Receive
<1>6. QED
  BY <1>1, <1>2, <1>3, <1>4, <1>5
     DEF Next, Capture, Drain, Handle, Sweep, Position, InsertFix, SaveSeq, TrimBuffer,
         FlushTick, ReadBatch, AckTimeout, DeleteSent,
         Throttle, UpsertPosition, WritePosition, EndGrace, PingFails, Enqueue, Ack,
         FlushTimer, InsertBatch, Connect, LinkDrops, HandleDisconnect, ServerRestarts, Kill,
         Stop, Start, GraceRunsOut, SweepLooks, SweepRemoves, SweepDeletes, vars

\* The breadcrumbs' and the rest.
LEMMA ServerTypes == Typed /\ [Next]_vars => ServerOK' /\ CrumbsOK'
<1> SUFFICES ASSUME Typed, [Next]_vars PROVE ServerOK' /\ CrumbsOK'
  OBVIOUS
<1>0. ServerOK /\ CrumbsOK /\ JobOK
  BY Parts
<1>e. Empty \in [Fixes -> Nat]
  BY DEF Empty
<1>1. CASE Enqueue
  <2> DEFINE now == [waiting EXCEPT ![job.id] = @ + 1]
  <2>0. job.id \in Fixes /\ waiting \in [Fixes -> Nat]
    BY <1>0, <1>1 DEF CrumbsOK, JobOK, Enqueue
  <2>1. now \in [Fixes -> Nat]
    BY <2>0
  <2>2. \/ inserting' = [inserting EXCEPT !["ping"] = now] /\ waiting' = Empty
        \/ waiting' = now /\ UNCHANGED inserting
    BY <1>1 DEF Enqueue
  <2>3. CrumbsOK'
    BY <1>0, <1>1, <1>e, <2>1, <2>2 DEF CrumbsOK, Enqueue
  <2>4. QED
    BY <1>0, <1>1, <2>3 DEF Enqueue, ServerOK, place
<1>2. CASE FlushTimer
  BY <1>0, <1>2, <1>e DEF FlushTimer, CrumbsOK, ServerOK, place
<1>3. ASSUME NEW w \in Who, InsertBatch(w) PROVE ServerOK' /\ CrumbsOK'
  <2>1. stored' \in [Fixes -> Nat]
    BY <1>0, <1>3 DEF InsertBatch, CrumbsOK
  <2>2. QED
    BY <1>0, <1>3, <1>e, <2>1 DEF InsertBatch, CrumbsOK, ServerOK, place
<1>4. CASE ServerRestarts
  <2>1. CrumbsOK'
    BY <1>0, <1>4, <1>e DEF ServerRestarts, CrumbsOK
  <2>2. QED
    BY <1>0, <1>4, <2>1 DEF ServerRestarts, ServerOK, place
<1>5. CASE Receive \/ UpsertPosition \/ WritePosition \/ EndGrace
  <2>1. job.at # "idle"
    BY <1>5 DEF Receive, UpsertPosition, WritePosition, EndGrace
  <2>2. QED
    BY <1>0, <1>5, <2>1 DEF Receive, UpsertPosition, WritePosition, EndGrace, JobOK, ServerOK, CrumbsOK,
                            place, crumbs
<1>6. CASE Connect \/ LinkDrops \/ HandleDisconnect \/ Kill \/ GraceRunsOut \/ Sweep
  <2>1. CrumbsOK'
    BY <1>0, <1>6
       DEF Connect, LinkDrops, HandleDisconnect, Kill, GraceRunsOut, Sweep, SweepLooks,
           SweepRemoves, SweepDeletes, CrumbsOK, crumbs
  <2>2. CASE Connect \/ HandleDisconnect \/ GraceRunsOut
    <3>1. linked' \in BOOLEAN /\ silent' \in BOOLEAN
      BY <1>0, <2>2 DEF Connect, HandleDisconnect, GraceRunsOut, ServerOK
    <3>2. lastSeq' \in {0, lastSeq} /\ grace' \in {"none", "set", "last"}
      BY <1>0, <2>2 DEF Connect, HandleDisconnect, GraceRunsOut, ServerOK
    <3>3. UNCHANGED <<stale, place, sweep>>
      BY <2>2 DEF Connect, HandleDisconnect, GraceRunsOut
    <3>4. QED
      BY <1>0, <2>1, <3>1, <3>2, <3>3, StreamBounds DEF ServerOK, place
  <2>3. CASE LinkDrops \/ Kill
    BY <1>0, <2>1, <2>3 DEF LinkDrops, Kill, ServerOK, place
  <2>4. CASE Sweep
    BY <1>0, <2>1, <2>4 DEF Sweep, SweepLooks, SweepRemoves, SweepDeletes, ServerOK, place
  <2>5. QED
    BY <1>6, <2>1, <2>2, <2>3, <2>4
<1>7. CASE UNCHANGED <<linked, stale, lastSeq, silent, crumbs, place, grace, sweep>>
  BY <1>0, <1>7 DEF ServerOK, CrumbsOK, place, crumbs
<1>8. QED
  BY <1>1, <1>2, <1>3, <1>4, <1>5, <1>6, <1>7
     DEF Next, Capture, Drain, Handle, Position, InsertFix, SaveSeq, TrimBuffer,
         FlushTick, ReadBatch, SendFix, AckTimeout, DeleteSent, Throttle, PingFails, Ack,
         Stop, Start, vars

\* Every step keeps everything where it belongs.
LEMMA TypedStep == Typed /\ Numbered /\ Answered /\ [Next]_vars => Typed'
<1> SUFFICES ASSUME Typed, Numbered, Answered, [Next]_vars PROVE Typed'
  OBVIOUS
<1>1. PhoneOK' /\ DrainOK(flush)' /\ JobOK' /\ ServerOK' /\ CrumbsOK'
  BY PhoneTypes, DrainTypes, JobTypes, ServerTypes
<1>2. QED
  BY <1>1 DEF Typed, TypeOK, PhoneOK, ServerOK, CrumbsOK, JobOK, DrainOK

-----------------------------------------------------------------------------
(* The numbers of the buffer *)

\* The steps that touch the buffer, the numbers or the capture.
LEMMA Footprint ==
    [Next]_vars =>
        \/ Position \/ InsertFix \/ SaveSeq \/ TrimBuffer \/ DeleteSent \/ Kill \/ Stop \/ Start
        \/ UNCHANGED <<rows, saved, seq, capture, running, recorded, thinned>>
BY DEF Next, Capture, Drain, Handle, Sweep, FlushTick, ReadBatch, SendFix, AckTimeout,
       Throttle, Receive, UpsertPosition, WritePosition, EndGrace, PingFails, Enqueue,
       FlushTimer, InsertBatch, Ack, Connect, LinkDrops, HandleDisconnect, ServerRestarts,
       GraceRunsOut, SweepLooks, SweepRemoves, SweepDeletes, vars, phone, ghosts

\* The types the arithmetic of the numbers needs.
NumbersOK ==
    /\ saved \in Nat /\ seq \in Nat /\ recorded \in Nat
    /\ capture.seq \in Nat /\ capture.at \in {"idle", "insert", "meta", "trim"}
    /\ \A r \in rows : r.seq \in Nat /\ r.id \in Nat /\ r.seq > 0 /\ r.id > 0

LEMMA NumbersTyped == Typed => NumbersOK
<1> SUFFICES ASSUME Typed PROVE NumbersOK
  OBVIOUS
<1>1. saved \in Nat /\ seq \in Nat /\ recorded \in Nat
  BY StreamBounds DEF Typed, TypeOK
<1>2. capture.seq \in Nat /\ capture.at \in {"idle", "insert", "meta", "trim"}
  BY StreamBounds DEF Typed, TypeOK, Capturing
<1>3. \A r \in rows : r.seq \in Nat /\ r.id \in Nat /\ r.seq > 0 /\ r.id > 0
  BY StreamBounds DEF Typed, TypeOK, Row, Fixes
<1>4. QED
  BY <1>1, <1>2, <1>3 DEF NumbersOK

\* A capture that moves on keeps its fix.
LEMMA NextPlace ==
    ASSUME Typed, NEW p \in {"meta", "trim"}, capture' = [capture EXCEPT !.at = p]
    PROVE  capture'.at = p /\ capture'.seq = capture.seq /\ capture'.id = capture.id
<1>1. capture \in Capturing /\ p \in {"idle", "insert", "meta", "trim"}
  BY DEF Typed, TypeOK
<1>2. LET c == [capture EXCEPT !.at = p] IN c.at = p /\ c.seq = capture.seq /\ c.id = capture.id
  BY <1>1, CaptureMoves, Zenon
<1>3. QED
  BY <1>2

\* The newest fix, the last number and the order of the buffer move together.
LEMMA NumberedStep == Typed /\ Numbered /\ [Next]_vars => Numbered'
<1> SUFFICES ASSUME Typed, Numbered, [Next]_vars PROVE Numbered'
  OBVIOUS
<1>0. NumbersOK
  BY NumbersTyped
<1>1. CASE Position
  <2>1. /\ rows' = rows /\ saved' = saved /\ seq' = seq + 1 /\ recorded' = recorded + 1
        /\ running' = running /\ running /\ capture.at = "idle"
    BY <1>1 DEF Position
  <2>2. capture'.at = "insert" /\ capture'.seq = seq + 1 /\ capture'.id = recorded + 1
    BY <1>1 DEF Position
  <2>3. seq + 1 \in 1..MaxFixes /\ recorded + 1 \in Fixes
    BY <1>0, <1>1, StreamBounds DEF Position, Numbered, NumbersOK, Fixes
  <2>4. QED
    BY <1>0, <2>1, <2>2, <2>3 DEF Numbered, NumbersOK, Top
<1>2. CASE InsertFix
  <2> DEFINE x == [seq |-> capture.seq, id |-> capture.id]
             kept == {r \in rows : r.seq # capture.seq}
  <2>1. /\ saved' = saved /\ seq' = seq /\ recorded' = recorded /\ running' = running
        /\ capture.at = "insert" /\ rows' = kept \cup {x}
    BY <1>2 DEF InsertFix, ghosts
  <2>2. capture'.at = "meta" /\ capture'.seq = capture.seq /\ capture'.id = capture.id
    BY <1>2, NextPlace DEF InsertFix
  <2>3. x.seq = capture.seq /\ x.id = recorded /\ capture.seq \in Nat /\ recorded \in Nat
    BY <1>0, <2>1 DEF Numbered, NumbersOK
  <2>4. \A r \in kept : r \in rows /\ r.seq < capture.seq /\ r.id < recorded
    BY <1>0, <2>1 DEF Numbered, NumbersOK, Top
  <2> HIDE DEF x, kept
  <2>5. \A q, r \in rows' : (q.id < r.id => q.seq < r.seq) /\ (q.id = r.id => q = r)
    BY <1>0, <2>1, <2>3, <2>4 DEF Numbered, NumbersOK
  <2>6. \A r \in rows' : r.seq <= capture.seq /\ r.id <= recorded /\ (r.id = recorded => r = x)
    BY <1>0, <2>1, <2>3, <2>4 DEF NumbersOK
  <2>7. QED
    BY <1>0, <2>1, <2>2, <2>3, <2>5, <2>6 DEF Numbered, NumbersOK, Top
<1>3. CASE SaveSeq
  <2>1. /\ rows' = rows /\ saved' = capture.seq /\ seq' = seq /\ recorded' = recorded
        /\ running' = running /\ capture.at = "meta"
    BY <1>3 DEF SaveSeq, ghosts
  <2>2. capture'.at = "trim" /\ capture'.seq = capture.seq /\ capture'.id = capture.id
    BY <1>3, NextPlace DEF SaveSeq
  <2>3. QED
    BY <1>0, <2>1, <2>2 DEF Numbered, NumbersOK, Top
<1>4. CASE TrimBuffer
  <2>1. /\ saved' = saved /\ seq' = seq /\ recorded' = recorded /\ running' = running
        /\ capture.at = "trim" /\ rows' \subseteq rows
    BY <1>4 DEF TrimBuffer
  <2>2. capture'.at = "idle" /\ capture'.id = None
    BY <1>4 DEF TrimBuffer, Resting
  <2>3. \A r \in rows' : r \in rows
    BY <2>1
  <2>4. QED
    BY <1>0, <2>1, <2>2, <2>3 DEF Numbered, NumbersOK, Top
<1>5. CASE DeleteSent
  <2>1. /\ saved' = saved /\ seq' = seq /\ recorded' = recorded /\ running' = running
        /\ capture' = capture
    BY <1>5 DEF DeleteSent, ghosts
  <2>2. \A r \in rows' : r \in rows
    BY <1>5 DEF DeleteSent, AfterDelete
  <2>3. QED
    BY <1>0, <2>1, <2>2 DEF Numbered, NumbersOK, Top
<1>6. CASE Kill
  <2>1. /\ rows' = rows /\ saved' = saved /\ seq' = seq /\ recorded' = recorded /\ ~running'
    BY <1>6 DEF Kill
  <2>2. capture'.at = "idle" /\ capture'.id = None
    BY <1>6 DEF Kill, Resting
  <2>3. QED
    BY <1>0, <2>1, <2>2 DEF Numbered, NumbersOK, Top
<1>7. CASE Stop
  <2>1. /\ rows' = rows /\ saved' = saved /\ seq' = seq /\ recorded' = recorded /\ ~running'
        /\ capture' = capture
    BY <1>7 DEF Stop
  <2>2. QED
    BY <1>0, <2>1 DEF Numbered, NumbersOK, Top
<1>8. CASE Start
  <2>1. /\ rows' = rows /\ saved' = saved /\ seq' = saved /\ recorded' = recorded /\ running'
        /\ capture' = capture /\ ~running
    BY <1>8 DEF Start, ghosts
  <2>2. QED
    BY <1>0, <2>1 DEF Numbered, NumbersOK, Top
<1>9. CASE UNCHANGED <<rows, saved, seq, capture, running, recorded, thinned>>
  BY <1>9 DEF Numbered, Top
<1> QED
  BY Footprint, <1>1, <1>2, <1>3, <1>4, <1>5, <1>6, <1>7, <1>8, <1>9

-----------------------------------------------------------------------------
(* The thinning *)

\* What a thinning drops has an even number and is not the newest fix.
LEMMA ThinnedRows ==
    ASSUME Typed, Numbered, NEW r \in Thinned
    PROVE  r \in rows /\ r.seq % 2 = 0 /\ r.id < recorded
<1>0. NumbersOK
  BY NumbersTyped
<1>1. r \in rows /\ r \in Oldest(Cardinality(rows) \div 2) /\ r.seq % 2 = 0
  BY DEF Thinned, Oldest
<1>2. CASE r.id = recorded
  <2>1. \A q \in rows : q.id <= r.id
    BY <1>2 DEF Numbered
  <2>2. QED
    BY <1>1, <2>1, NewestStays
<1>3. QED
  BY <1>0, <1>1, <1>2 DEF Numbered, NumbersOK

\* A step that leaves the thinned alone and adds no rows keeps neighbours apart.
LEMMA HalvedKept ==
    ASSUME Halved, RouteSurvives, NumbersOK, thinned \subseteq Nat,
           thinned' = thinned, rows' \subseteq rows, recorded' = recorded,
           capture'.at = "insert" => capture.at = "insert"
    PROVE  Halved' /\ RouteSurvives'
BY DEF Halved, RouteSurvives, NumbersOK

LEMMA HalvedStep ==
    Typed /\ Numbered /\ Halved /\ RouteSurvives /\ [Next]_vars => Halved' /\ RouteSurvives'
<1> SUFFICES ASSUME Typed, Numbered, Halved, RouteSurvives, [Next]_vars
             PROVE  Halved' /\ RouteSurvives'
  OBVIOUS
<1>0. NumbersOK /\ thinned \subseteq Nat
  BY NumbersTyped, StreamBounds DEF Typed, Fixes
<1>1. CASE Position
  <2>1. rows' = rows /\ thinned' = thinned /\ recorded' = recorded + 1 /\ capture.at = "idle"
    BY <1>1 DEF Position
  <2>2. \A f \in thinned : f < recorded /\ f \in Nat
    BY <1>0, <2>1 DEF Halved
  <2>3. QED
    BY <1>0, <2>1, <2>2 DEF Halved, RouteSurvives, NumbersOK
<1>2. CASE InsertFix
  <2> DEFINE x == [seq |-> capture.seq, id |-> capture.id]
             kept == {r \in rows : r.seq # capture.seq}
  <2>1. /\ recorded' = recorded /\ thinned' = thinned /\ capture.at = "insert"
        /\ rows' = kept \cup {x}
    BY <1>2 DEF InsertFix, ghosts
  <2>2. capture'.at = "meta"
    BY <1>2, NextPlace DEF InsertFix
  <2>3. x.seq = capture.seq /\ x.id = recorded /\ capture.seq \in Nat /\ recorded \in Nat
    BY <1>0, <2>1 DEF Numbered, NumbersOK
  <2>4. \A r \in kept : /\ r \in rows /\ r.seq < capture.seq /\ r.id < recorded
                        /\ r.seq \in Nat /\ r.id \in Nat
                        /\ r.id = recorded - 1 => capture.seq \in {r.seq, r.seq + 1}
    BY <1>0, <2>1 DEF Numbered, NumbersOK, Top
  <2> HIDE DEF x, kept
  <2>5. \A f \in thinned : f \in Nat /\ f < recorded - 1
    BY <1>0, <2>1 DEF Halved
  <2>6. \A q, r \in rows' : r.id = q.id + 1 => r.seq = q.seq + 1
    BY <2>1, <2>3, <2>4 DEF Halved
  <2>7. \A f \in thinned, r \in rows' : r.id = f + 1 \/ f = r.id + 1 => r.seq % 2 = 1
    <3> SUFFICES ASSUME NEW f \in thinned, NEW r \in rows', r.id = f + 1 \/ f = r.id + 1
                 PROVE  r.seq % 2 = 1
      OBVIOUS
    <3>1. r # x
      BY <2>3, <2>5
    <3>2. r \in rows
      BY <2>1, <2>4, <3>1
    <3>3. QED
      BY <3>2 DEF Halved
  <2>8. QED
    BY <2>1, <2>2, <2>3, <2>5, <2>6, <2>7 DEF Halved, RouteSurvives
<1>4. CASE TrimBuffer
  <2>1. PICK out \in SUBSET Thinned : rows' = rows \ out /\ thinned' = thinned \cup {r.id : r \in out}
    BY <1>4 DEF TrimBuffer
  <2>2. recorded' = recorded /\ capture.at = "trim" /\ capture'.at = "idle"
    BY <1>4 DEF TrimBuffer, Resting
  <2>3. \A r \in out : /\ r \in rows /\ r.seq % 2 = 0 /\ r.id < recorded
                       /\ r.seq \in Nat /\ r.id \in Nat
    BY <1>0, <2>1, ThinnedRows DEF NumbersOK
  <2>4. \A f \in thinned' : f < recorded
    BY <2>1, <2>2, <2>3 DEF Halved
  <2>5. \A q, r \in rows' : r.id = q.id + 1 => r.seq = q.seq + 1
    BY <2>1 DEF Halved
  <2>6. \A f \in thinned', r \in rows : r.id = f + 1 \/ f = r.id + 1 => r.seq % 2 = 1
    <3> SUFFICES ASSUME NEW f \in thinned', NEW r \in rows, r.id = f + 1 \/ f = r.id + 1
                 PROVE  r.seq % 2 = 1
      OBVIOUS
    <3>1. CASE f \in thinned
      BY <3>1 DEF Halved
    <3>2. CASE \E o \in out : f = o.id
      <4>1. PICK o \in out : f = o.id
        BY <3>2
      <4>2. o \in rows /\ o.seq \in Nat /\ o.seq % 2 = 0 /\ r.seq \in Nat
        BY <1>0, <2>3 DEF NumbersOK
      <4>3. r.seq = o.seq + 1 \/ o.seq = r.seq + 1
        BY <4>1, <4>2 DEF Halved
      <4>4. QED
        BY <4>2, <4>3
    <3>3. QED
      BY <2>1, <3>1, <3>2
  <2>7. \A f \in thinned' : f + 1 \notin thinned'
    <3> SUFFICES ASSUME NEW f \in thinned', f + 1 \in thinned' PROVE FALSE
      OBVIOUS
    <3>1. CASE \E o \in out : f + 1 = o.id
      <4>1. PICK o \in out : f + 1 = o.id
        BY <3>1
      <4>2. o.seq % 2 = 1
        BY <2>3, <2>6, <4>1
      <4>3. QED
        BY <2>3, <4>2
    <3>2. CASE \E o \in out : f = o.id
      <4>1. PICK o \in out : f = o.id
        BY <3>2
      <4>2. o.seq % 2 = 1
        BY <2>3, <2>6, <4>1
      <4>3. QED
        BY <2>3, <4>2
    <3>3. CASE f \in thinned /\ f + 1 \in thinned
      BY <3>3 DEF RouteSurvives
    <3>4. QED
      BY <2>1, <3>1, <3>2, <3>3
  <2>8. QED
    BY <2>1, <2>2, <2>4, <2>5, <2>6, <2>7 DEF Halved, RouteSurvives
<1>5. CASE DeleteSent
  <2>1. rows' \subseteq rows
    BY <1>5 DEF DeleteSent, AfterDelete
  <2>2. QED
    BY <1>0, <1>5, <2>1, HalvedKept DEF DeleteSent, ghosts
<1>6. CASE SaveSeq
  <2>1. capture'.at = "trim"
    BY <1>6, NextPlace DEF SaveSeq
  <2>2. QED
    BY <1>0, <1>6, <2>1, HalvedKept DEF SaveSeq, ghosts
<1>7. CASE Kill
  <2>1. capture'.at = "idle" /\ rows' = rows /\ recorded' = recorded /\ thinned' = thinned
    BY <1>7 DEF Kill, Resting
  <2>2. QED
    BY <1>0, <2>1, HalvedKept
<1>8. CASE Stop \/ Start
  <2>1. UNCHANGED <<rows, recorded, thinned, capture>>
    BY <1>8 DEF Stop, Start, ghosts
  <2>2. QED
    BY <2>1 DEF Halved, RouteSurvives
<1>9. CASE UNCHANGED <<rows, saved, seq, capture, running, recorded, thinned>>
  BY <1>9 DEF Halved, RouteSurvives
<1> QED
  BY Footprint, <1>1, <1>2, <1>4, <1>5, <1>6, <1>7, <1>8, <1>9

-----------------------------------------------------------------------------
(* Breadcrumbs, drains and pings, step by step *)

\* A queued ping makes a breadcrumb of its fix.
LEMMA EnqueueCounts ==
    ASSUME Typed, Answered, Enqueue, CrumbsOK', NEW f \in Fixes
    PROVE  /\ job.at = "queue" /\ job.id \in Fixes /\ lost' = lost
           /\ Copies(f) \in Nat
           /\ Copies(f)' = Copies(f) + (IF f = job.id THEN 1 ELSE 0)
<1>0. CrumbsOK /\ JobOK
  BY Parts
<1>1. job.at = "queue" /\ job.id \in Fixes /\ lost' = lost /\ stored' = stored
  BY <1>0 DEF Enqueue, JobOK, ghosts
<1>2. inserting["ping"] = Empty /\ Empty[f] = 0
  BY <1>1 DEF Answered, Empty
<1> DEFINE now == [waiting EXCEPT ![job.id] = @ + 1]
<1>3. now \in [Fixes -> Nat] /\ now[f] = waiting[f] + (IF f = job.id THEN 1 ELSE 0)
  BY <1>0, <1>1 DEF CrumbsOK
<1>4. \/ inserting' = [inserting EXCEPT !["ping"] = now] /\ waiting' = Empty
      \/ waiting' = now /\ UNCHANGED inserting
  BY DEF Enqueue
<1> HIDE DEF now
<1>5. /\ waiting[f] \in Nat /\ stored[f] \in Nat
      /\ inserting["timer"][f] \in Nat /\ inserting["ping"][f] \in Nat
  BY <1>0 DEF CrumbsOK, Who
<1>6. Copies(f)' = Copies(f) + (IF f = job.id THEN 1 ELSE 0)
  <2>1. CASE inserting' = [inserting EXCEPT !["ping"] = now] /\ waiting' = Empty
    <3>1. inserting'["ping"] = now /\ inserting'["timer"] = inserting["timer"]
      BY <1>0, <2>1 DEF CrumbsOK, Who
    <3>2. QED
      BY <1>1, <1>2, <1>3, <1>5, <2>1, <3>1 DEF Copies
  <2>2. CASE waiting' = now /\ UNCHANGED inserting
    BY <1>1, <1>3, <1>5, <2>2 DEF Copies
  <2>3. QED
    BY <1>4, <2>1, <2>2
<1>7. QED
  BY <1>1, <1>5, <1>6 DEF Copies

\* Nothing else makes one; none goes but to the table or, with a failed insert or a restart
\* of the server, to those that are lost.
LEMMA CopiesStep ==
    ASSUME Typed, Answered, [Next]_vars, NEW f \in Fixes
    PROVE  /\ Copies(f) \in Nat /\ Copies(f)' \in Nat
           /\ Enqueue \/ (Copies(f)' <= Copies(f) /\ (OnServer(f)' <=> OnServer(f)))
<1>0. CrumbsOK /\ CrumbsOK'
  BY Parts, ServerTypes
<1>1. Copies(f) \in Nat /\ Copies(f)' \in Nat
  BY <1>0 DEF CrumbsOK, Copies, Who
<1>2. /\ waiting[f] \in Nat /\ stored[f] \in Nat /\ Empty[f] = 0
      /\ inserting["timer"][f] \in Nat /\ inserting["ping"][f] \in Nat
  BY <1>0 DEF CrumbsOK, Who, Empty
<1> DEFINE Goal == Copies(f)' <= Copies(f) /\ (OnServer(f)' <=> OnServer(f))
<1> SUFFICES ASSUME ~Enqueue PROVE Goal
  BY <1>1
<1>3. ASSUME Copies(f)' = Copies(f), lost' = lost PROVE Goal
  BY <1>1, <1>3 DEF OnServer
<1>4. CASE FlushTimer
  <2>1. /\ inserting["timer"] = Empty /\ waiting' = Empty /\ stored' = stored /\ lost' = lost
        /\ inserting' = [inserting EXCEPT !["timer"] = waiting]
    BY <1>4 DEF FlushTimer, ghosts
  <2>2. inserting'["timer"] = waiting /\ inserting'["ping"] = inserting["ping"]
    BY <1>0, <2>1 DEF CrumbsOK, Who
  <2>3. Copies(f)' = Copies(f)
    BY <1>2, <2>1, <2>2 DEF Copies
  <2>4. QED
    BY <1>3, <2>1, <2>3
<1>5. ASSUME NEW w \in Who, InsertBatch(w) PROVE Goal
  <2>1. waiting' = waiting /\ inserting' = [inserting EXCEPT ![w] = Empty]
    BY <1>5 DEF InsertBatch
  <2>2. inserting'[w] = Empty /\ \A v \in Who \ {w} : inserting'[v] = inserting[v]
    BY <1>0, <2>1 DEF CrumbsOK
  <2>3. CASE stored' = [g \in Fixes |-> stored[g] + inserting[w][g]] /\ lost' = lost
    <3>1. stored'[f] = stored[f] + inserting[w][f]
      BY <2>3
    <3>2. Copies(f)' = Copies(f)
      BY <1>2, <2>1, <2>2, <3>1 DEF Copies, Who
    <3>3. QED
      BY <1>3, <2>3, <3>2
  <2>4. CASE lost' = lost \cup {g \in Fixes : inserting[w][g] > 0} /\ stored' = stored
    <3>1. Copies(f)' + inserting[w][f] = Copies(f)
      BY <1>2, <2>1, <2>2, <2>4 DEF Copies, Who
    <3>2. f \in lost' <=> f \in lost \/ inserting[w][f] > 0
      BY <2>4
    <3>3. inserting[w][f] \in Nat
      BY <1>2 DEF Who
    <3>4. QED
      BY <1>1, <3>1, <3>2, <3>3 DEF OnServer
  <2>5. QED
    BY <1>5, <2>3, <2>4 DEF InsertBatch
<1>6. CASE ServerRestarts
  <2>1. /\ lost' = lost \cup {g \in Fixes : waiting[g] + inserting["ping"][g] + inserting["timer"][g] > 0}
        /\ waiting' = Empty /\ inserting' = [w \in Who |-> Empty] /\ stored' = stored
    BY <1>6 DEF ServerRestarts
  <2>2. Copies(f)' = stored[f]
    BY <1>2, <2>1 DEF Copies, Who
  <2>3. f \in lost' <=> f \in lost \/ waiting[f] + inserting["ping"][f] + inserting["timer"][f] > 0
    BY <2>1
  <2>4. QED
    BY <1>2, <2>2, <2>3 DEF OnServer, Copies
<1>7. CASE UNCHANGED <<crumbs, lost>>
  BY <1>3, <1>7 DEF crumbs, Copies
<1> HIDE DEF Goal
<1> QED
  BY <1>4, <1>5, <1>6, <1>7
     DEF Next, Capture, Drain, Handle, Sweep, Position, InsertFix, SaveSeq, TrimBuffer,
         FlushTick, ReadBatch, SendFix, AckTimeout, DeleteSent, Throttle, Receive,
         UpsertPosition, WritePosition, EndGrace, PingFails, Ack, Connect, LinkDrops,
         HandleDisconnect, Kill, Stop, Start, GraceRunsOut, SweepLooks, SweepRemoves,
         SweepDeletes, vars, ghosts

\* How a drain moves on.
LEMMA DrainStep ==
    Typed /\ [Next]_vars =>
        \/ flush' = flush
        \/ flush'.at \in {"idle", "read"} /\ flush'.batch = {} /\ flush'.sent = {}
        \/ /\ ReadBatch /\ flush'.at = "send"
           /\ flush'.batch = Oldest(BatchSize) /\ flush'.sent = {}
        \/ /\ SendFix \/ AckTimeout
           /\ flush'.at \in {"wait", "delete"} /\ flush.at \in {"send", "wait"}
           /\ flush'.batch = flush.batch /\ flush'.sent = flush.sent
        \/ /\ Ack /\ flush.at = "wait" /\ linked
           /\ flush'.at = "send" /\ flush'.batch = flush.batch
           /\ flush'.sent = flush.sent \cup {[seq |-> job.seq, id |-> job.id]}
<1> SUFFICES ASSUME Typed, [Next]_vars,
                    ~(flush' = flush),
                    ~(flush'.at \in {"idle", "read"} /\ flush'.batch = {} /\ flush'.sent = {})
             PROVE
        \/ /\ ReadBatch /\ flush'.at = "send"
           /\ flush'.batch = Oldest(BatchSize) /\ flush'.sent = {}
        \/ /\ SendFix \/ AckTimeout
           /\ flush'.at \in {"wait", "delete"} /\ flush.at \in {"send", "wait"}
           /\ flush'.batch = flush.batch /\ flush'.sent = flush.sent
        \/ /\ Ack /\ flush.at = "wait" /\ linked
           /\ flush'.at = "send" /\ flush'.batch = flush.batch
           /\ flush'.sent = flush.sent \cup {[seq |-> job.seq, id |-> job.id]}
  OBVIOUS
<1>0. flush \in Draining
  BY DEF Typed, TypeOK
<1>1. flush' \notin {NoFlush, [NoFlush EXCEPT !.at = "read"]}
  BY DEF NoFlush
<1>2. CASE ReadBatch
  <2>1. flush' = [at |-> "send", batch |-> Oldest(BatchSize), sent |-> {}]
    BY <1>1, <1>2 DEF ReadBatch
  <2>2. QED
    BY <1>2, <2>1
<1>3. CASE SendFix
  <2>1. flush.at = "send" /\ \E p \in {"wait", "delete"} : flush' = [flush EXCEPT !.at = p]
    BY <1>3 DEF SendFix
  <2>2. flush'.at \in {"wait", "delete"} /\ flush'.batch = flush.batch /\ flush'.sent = flush.sent
    BY <1>0, <2>1 DEF Draining
  <2>3. QED
    BY <1>3, <2>1, <2>2
<1>4. CASE AckTimeout
  <2>1. flush.at = "wait" /\ flush' = [flush EXCEPT !.at = "delete"]
    BY <1>4 DEF AckTimeout
  <2>2. flush'.at \in {"wait", "delete"} /\ flush'.batch = flush.batch /\ flush'.sent = flush.sent
    BY <1>0, <2>1 DEF Draining
  <2>3. QED
    BY <1>4, <2>1, <2>2
<1>5. CASE Ack
  <2> DEFINE x == [seq |-> job.seq, id |-> job.id]
  <2>1. /\ flush.at = "wait" /\ linked
        /\ flush' = [flush EXCEPT !.at = "send", !.sent = @ \cup {x}]
    BY <1>5 DEF Ack
  <2>2. /\ flush'.at = "send" /\ flush'.batch = flush.batch /\ flush'.sent = flush.sent \cup {x}
    BY <1>0, <2>1 DEF Draining
  <2>3. QED
    BY <1>5, <2>1, <2>2
<1>6. CASE TrimBuffer \/ FlushTick \/ DeleteSent \/ Kill \/ Stop \/ Start
  <2>1. flush' \in {NoFlush, [NoFlush EXCEPT !.at = "read"], flush}
    BY <1>6 DEF TrimBuffer, FlushTick, DeleteSent, Kill, Stop, Start
  <2>2. QED
    BY <1>1, <2>1
<1>7. CASE UNCHANGED flush
  BY <1>7
<1> QED
  BY <1>2, <1>3, <1>4, <1>5, <1>6, <1>7
     DEF Next, Capture, Drain, Handle, Sweep, Position, InsertFix, SaveSeq,
         Throttle, Receive, UpsertPosition, WritePosition, EndGrace, PingFails, Enqueue,
         FlushTimer, InsertBatch, Connect, LinkDrops, HandleDisconnect, ServerRestarts,
         GraceRunsOut, SweepLooks, SweepRemoves, SweepDeletes, vars, phone

\* A ping the gateway works on goes on with its fix.
Served ==
    \/ Receive /\ job.at = "arrive" /\ job'.at \in {"queue", "pool"}
    \/ UpsertPosition /\ job.at = "pool" /\ job'.at = "hash"
    \/ WritePosition /\ job.at = "hash" /\ job'.at = "grace"
    \/ EndGrace /\ job.at = "grace" /\ job'.at = "queue"
    \/ Enqueue /\ job.at = "queue" /\ job'.at \in {"insert", "ack"}
    \/ InsertBatch("ping") /\ job.at = "insert" /\ job'.at = "ack"

\* The drain hands the gateway a fix of its batch.
Sent ==
    /\ SendFix /\ linked /\ job.at = "idle" /\ job'.at = "arrive" /\ flush'.at = "wait"
    /\ [seq |-> job'.seq, id |-> job'.id] \in flush.batch \ flush.sent

\* How a ping moves on.
LEMMA PingStep ==
    Typed /\ [Next]_vars =>
        \/ job' = job
        \/ job' = NoJob
        \/ Sent
        \/ Served /\ job'.seq = job.seq /\ job'.id = job.id
<1> SUFFICES ASSUME Typed, [Next]_vars, job' # job, job' # NoJob
             PROVE  Sent \/ (Served /\ job'.seq = job.seq /\ job'.id = job.id)
  OBVIOUS
<1>0. job \in Handling /\ flush \in Draining
  BY DEF Typed, TypeOK
<1>1. CASE SendFix
  <2> DEFINE left == flush.batch \ flush.sent
             next == CHOOSE r \in left : \A q \in left : r.id <= q.id
  <2>1. /\ left # {} /\ linked /\ job.at = "idle"
        /\ job' = [at |-> "arrive", seq |-> next.seq, id |-> next.id]
        /\ flush' = [flush EXCEPT !.at = "wait"]
    BY <1>1 DEF SendFix
  <2>2. left \subseteq Row
    BY <1>0 DEF Draining
  <2>3. next \in left
    BY <2>1, <2>2, NextOfBatch
  <2> HIDE DEF next
  <2>4. [seq |-> next.seq, id |-> next.id] = next
    BY <2>2, <2>3 DEF Row
  <2>5. job'.at = "arrive" /\ job'.seq = next.seq /\ job'.id = next.id
    BY <2>1
  <2>6. flush'.at = "wait"
    BY <1>0, <2>1 DEF Draining
  <2>7. QED
    BY <1>1, <2>1, <2>3, <2>4, <2>5, <2>6 DEF Sent
<1>2. ASSUME NEW p \in {"queue", "pool", "hash", "grace", "insert", "ack"},
             job' = [job EXCEPT !.at = p]
      PROVE  job'.at = p /\ job'.seq = job.seq /\ job'.id = job.id
  BY <1>0, <1>2 DEF Handling
<1>3. CASE Receive
  <2>1. job.at = "arrive" /\ \E p \in {"queue", "pool"} : job' = [job EXCEPT !.at = p]
    BY <1>3 DEF Receive
  <2>2. QED
    BY <1>2, <1>3, <2>1 DEF Served
<1>4. CASE UpsertPosition
  BY <1>2, <1>4 DEF Served, UpsertPosition
<1>5. CASE WritePosition
  BY <1>2, <1>5 DEF Served, WritePosition
<1>6. CASE EndGrace
  BY <1>2, <1>6 DEF Served, EndGrace
<1>7. CASE Enqueue
  <2>1. job.at = "queue" /\ \E p \in {"insert", "ack"} : job' = [job EXCEPT !.at = p]
    BY <1>7 DEF Enqueue
  <2>2. QED
    BY <1>2, <1>7, <2>1 DEF Served
<1>8. ASSUME NEW w \in Who, InsertBatch(w)
      PROVE  Served /\ job'.seq = job.seq /\ job'.id = job.id
  <2>1. w = "ping" /\ job.at = "insert" /\ job' = [job EXCEPT !.at = "ack"]
    BY <1>8 DEF InsertBatch
  <2>2. QED
    BY <1>2, <1>8, <2>1 DEF Served
<1>9. CASE LinkDrops \/ Kill
  BY <1>9 DEF LinkDrops, Kill
<1> QED
  BY <1>1, <1>3, <1>4, <1>5, <1>6, <1>7, <1>8, <1>9
     DEF Next, Capture, Drain, Handle, Sweep, Position, InsertFix, SaveSeq, TrimBuffer,
         FlushTick, ReadBatch, AckTimeout, DeleteSent, Throttle, PingFails, Ack,
         FlushTimer, Connect, HandleDisconnect, ServerRestarts, Stop, Start, GraceRunsOut,
         SweepLooks, SweepRemoves, SweepDeletes, vars

\* What ends a ping.
LEMMA PingEnds ==
    Typed /\ [Next]_vars /\ job' = NoJob =>
        \/ job' = job
        \/ ServerRestarts \/ Throttle \/ PingFails \/ Ack
        \/ (LinkDrops \/ Kill) /\ job.at = "arrive"
<1> SUFFICES ASSUME Typed, [Next]_vars, job' = NoJob, job' # job
             PROVE  \/ ServerRestarts \/ Throttle \/ PingFails \/ Ack
                    \/ (LinkDrops \/ Kill) /\ job.at = "arrive"
  OBVIOUS
<1>0. job \in Handling /\ job'.at = "idle"
  BY DEF Typed, TypeOK, NoJob
<1>1. ~SendFix
  BY <1>0 DEF SendFix
<1>2. ASSUME NEW p \in {"queue", "pool", "hash", "grace", "insert", "ack"}
      PROVE  job' # [job EXCEPT !.at = p]
  BY <1>0 DEF Handling
<1>3. ~Receive /\ ~UpsertPosition /\ ~WritePosition /\ ~EndGrace /\ ~Enqueue
  BY <1>2 DEF Receive, UpsertPosition, WritePosition, EndGrace, Enqueue
<1>4. \A w \in Who : ~InsertBatch(w)
  BY <1>2 DEF InsertBatch
<1>5. (LinkDrops \/ Kill) => job.at = "arrive"
  BY DEF LinkDrops, Kill
<1> QED
  BY <1>1, <1>3, <1>4, <1>5
     DEF Next, Capture, Drain, Handle, Sweep, Position, InsertFix, SaveSeq, TrimBuffer,
         FlushTick, ReadBatch, AckTimeout, DeleteSent, FlushTimer, Connect, HandleDisconnect,
         Stop, Start, GraceRunsOut, SweepLooks, SweepRemoves, SweepDeletes, vars

\* Only a handshake makes a connection.
LEMMA ConnectFirst == [Next]_vars /\ linked' => linked \/ Connect
BY DEF Next, Capture, Drain, Handle, Sweep, Position, InsertFix, SaveSeq, TrimBuffer,
       FlushTick, ReadBatch, SendFix, AckTimeout, DeleteSent, Throttle, Receive,
       UpsertPosition, WritePosition, EndGrace, PingFails, Enqueue, FlushTimer, InsertBatch,
       Ack, LinkDrops, HandleDisconnect, Kill, Stop, Start, ServerRestarts, GraceRunsOut,
       SweepLooks, SweepRemoves, SweepDeletes, vars

\* A row that has the highest number the buffer may have is not thinned.
LEMMA TopStays ==
    ASSUME Typed, Numbered, NEW r \in rows, r.seq = Top
    PROVE  r \notin Thinned
<1>0. NumbersOK
  BY NumbersTyped
<1>1. \A q \in rows : q.id <= r.id
  BY <1>0 DEF Numbered, NumbersOK
<1>2. QED
  BY <1>1, NewestStays DEF Thinned

\* The batch of a drain stays one of different fixes, known by the numbers of the buffer.
LEMMA BatchedStep == Typed /\ Numbered /\ Batched /\ [Next]_vars => Batched'
<1> SUFFICES ASSUME Typed, Numbered, Batched, [Next]_vars PROVE Batched'
  OBVIOUS
<1>0. NumbersOK /\ flush \in Draining
  BY NumbersTyped DEF Typed, TypeOK
<1>1. CASE ReadBatch
  <2>1. UNCHANGED <<rows, saved, seq, capture, running, recorded>>
    BY <1>1 DEF ReadBatch, ghosts
  <2>2. CASE rows = {}
    BY <1>1, <2>2 DEF ReadBatch, Batched, NoFlush
  <2>3. CASE rows # {}
    <3>1. flush'.at = "send" /\ flush'.batch = Oldest(BatchSize)
      BY <1>1, <2>3 DEF ReadBatch
    <3>2. flush'.batch \subseteq rows
      BY <3>1 DEF Oldest
    <3>3. \A s \in flush'.batch : s \in rows /\ s.seq \in Nat /\ s.id \in Nat
      BY <1>0, <3>2 DEF NumbersOK
    <3>4. \A s, t \in flush'.batch : s.id = t.id \/ s.seq = t.seq => s = t
      BY <3>3 DEF Numbered
    <3>5. \A s \in flush'.batch : s.seq <= Top /\ s.id <= recorded /\ (capture.at = "insert" => s.id < recorded)
      BY <3>3 DEF Numbered
    <3>6. Top' = Top
      BY <2>1 DEF Top
    <3>7. QED
      BY <2>1, <3>1, <3>3, <3>4, <3>5, <3>6 DEF Batched, Numbered
  <2>4. QED
    BY <2>2, <2>3
<1>2. flush'.batch \subseteq flush.batch \/ ReadBatch
  BY DrainStep
<1>3. flush'.at \in {"idle", "read"} => flush'.batch = {} \/ flush' = flush
  BY DrainStep
<1> SUFFICES ASSUME flush'.batch \subseteq flush.batch PROVE Batched'
  BY <1>1, <1>2
<1>4. /\ \A s, t \in flush'.batch : s.id = t.id \/ s.seq = t.seq => s = t
      /\ flush'.at \in {"idle", "read"} => flush'.batch = {}
  BY <1>3 DEF Batched
<1>5. \A s \in flush'.batch : s \in flush.batch /\ s.id \in Nat /\ s.seq \in Nat
  BY <1>0, StreamBounds DEF Draining, Row, Fixes
<1> DEFINE Known(s) ==
          /\ s.id <= recorded /\ (capture.at = "insert" => s.id < recorded)
          /\ \A r \in rows : r.id = s.id => r = s
          /\ capture.at # "idle" \/ running =>
                s.seq <= Top /\ (s.seq = Top => \E r \in rows : r.seq = s.seq)
<1>6. \A s \in flush'.batch : Known(s)
  BY <1>5 DEF Batched
<1>7. ASSUME \A s \in flush'.batch : Known(s)' PROVE Batched'
  BY <1>4, <1>7 DEF Batched
<1> SUFFICES ASSUME NEW s \in flush'.batch PROVE Known(s)'
  BY <1>7
<1> HIDE DEF Known
<1>8. Known(s) /\ s.id \in Nat /\ s.seq \in Nat
  BY <1>5, <1>6
<1>9. CASE Position
  <2>1. /\ rows' = rows /\ recorded' = recorded + 1 /\ running /\ capture.at = "idle"
    BY <1>9 DEF Position
  <2>2. capture'.at = "insert" /\ capture'.seq = seq + 1
    BY <1>9 DEF Position
  <2>3. QED
    BY <1>0, <1>8, <2>1, <2>2 DEF Known, Top, NumbersOK
<1>10. CASE InsertFix
  <2> DEFINE x == [seq |-> capture.seq, id |-> capture.id]
             kept == {r \in rows : r.seq # capture.seq}
  <2>1. /\ recorded' = recorded /\ capture.at = "insert" /\ rows' = kept \cup {x}
        /\ capture.id = recorded
    BY <1>10 DEF InsertFix, ghosts, Numbered
  <2>2. capture'.at = "meta" /\ capture'.seq = capture.seq
    BY <1>10, NextPlace DEF InsertFix
  <2>3. x \in rows' /\ x.seq = capture.seq /\ x.id = recorded
    BY <2>1
  <2>4. s.id <= recorded /\ s.id # recorded /\ s.seq <= capture.seq
    BY <1>0, <1>8, <2>1 DEF Known, Top, NumbersOK
  <2>5. \A r \in rows' : r \in rows \/ r = x
    BY <2>1
  <2> HIDE DEF x, kept
  <2>6. \A r \in rows' : r.id = s.id => r = s
    BY <1>8, <2>1, <2>3, <2>4, <2>5 DEF Known
  <2>7. QED
    BY <2>1, <2>2, <2>3, <2>4, <2>6 DEF Known, Top
<1>11. CASE SaveSeq
  <2>1. rows' = rows /\ recorded' = recorded /\ capture.at = "meta"
    BY <1>11 DEF SaveSeq, ghosts
  <2>2. capture'.at = "trim" /\ capture'.seq = capture.seq
    BY <1>11, NextPlace DEF SaveSeq
  <2>3. QED
    BY <1>8, <2>1, <2>2 DEF Known, Top
<1>12. CASE TrimBuffer
  <2>1. /\ seq' = seq /\ recorded' = recorded /\ running' = running
        /\ capture.at = "trim" /\ capture'.at = "idle"
    BY <1>12 DEF TrimBuffer, Resting
  <2>2. PICK out \in SUBSET Thinned : rows' = rows \ out
    BY <1>12 DEF TrimBuffer
  <2>3. s.seq <= capture.seq /\ (s.seq = capture.seq => \E r \in rows : r.seq = s.seq)
    BY <1>8, <2>1 DEF Known, Top
  <2>4. running => seq \in {capture.seq - 1, capture.seq}
    BY <2>1 DEF Numbered
  <2>5. s.seq = capture.seq => \E r \in rows' : r.seq = s.seq
    BY <2>1, <2>2, <2>3, TopStays DEF Top
  <2>6. QED
    BY <1>0, <1>8, <2>1, <2>2, <2>3, <2>4, <2>5 DEF Known, Top, NumbersOK
<1>13. CASE DeleteSent
  <2>1. flush'.batch = {}
    BY <1>13 DEF DeleteSent, NoFlush
  <2>2. QED
    BY <2>1
<1>14. CASE Kill
  <2>1. flush'.batch = {}
    BY <1>14 DEF Kill, NoFlush
  <2>2. QED
    BY <2>1
<1>15. CASE Stop
  <2>1. UNCHANGED <<rows, recorded, capture>> /\ ~running'
    BY <1>15 DEF Stop
  <2>2. QED
    BY <1>8, <2>1 DEF Known, Top
<1>16. CASE Start
  <2>1. flush'.batch = {}
    BY <1>16 DEF Start, NoFlush
  <2>2. QED
    BY <2>1
<1>17. CASE UNCHANGED <<rows, saved, seq, capture, running, recorded, thinned>>
  BY <1>8, <1>17 DEF Known, Top
<1> QED
  BY Footprint, <1>9, <1>10, <1>11, <1>12, <1>13, <1>14, <1>15, <1>16, <1>17

\* What is acknowledged has reached the server.
LEMMA AnsweredStep == Typed /\ Answered /\ Batched /\ [Next]_vars => Answered'
<1> SUFFICES ASSUME Typed, Answered, Batched, [Next]_vars PROVE Answered'
  OBVIOUS
<1>0. /\ JobOK /\ flush \in Draining /\ CrumbsOK /\ CrumbsOK' /\ recorded \in Nat
      /\ flush.sent \subseteq flush.batch /\ \A s \in flush.batch : s.id \in Fixes /\ s.id <= recorded
  BY Parts, ServerTypes, StreamBounds DEF Typed, TypeOK, Draining, Row, Batched
<1>1. recorded' \in {recorded, recorded + 1}
  <2>1. recorded' = recorded \/ Position
    BY Footprint DEF InsertFix, SaveSeq, TrimBuffer, DeleteSent, Kill, Stop, Start, ghosts
  <2>2. QED
    BY <2>1 DEF Position
<1>2. \A f \in Fixes : OnServer(f) => OnServer(f)'
  <2>1. ASSUME NEW f \in Fixes, OnServer(f), Enqueue PROVE OnServer(f)'
    <3>1. Copies(f) \in Nat /\ Copies(f)' = Copies(f) + (IF f = job.id THEN 1 ELSE 0) /\ lost' = lost
      BY <1>0, <2>1, EnqueueCounts
    <3>2. QED
      BY <2>1, <3>1 DEF OnServer
  <2>2. QED
    BY <2>1, CopiesStep
<1>3. flush'.at = "wait" /\ linked' /\ job'.at # "idle"
        => [seq |-> job'.seq, id |-> job'.id] \in flush'.batch
  <2> SUFFICES ASSUME flush'.at = "wait", linked', job'.at # "idle"
               PROVE  [seq |-> job'.seq, id |-> job'.id] \in flush'.batch
    OBVIOUS
  <2>1. \/ flush' = flush
        \/ (SendFix \/ AckTimeout) /\ flush'.batch = flush.batch
    BY DrainStep
  <2>2. CASE SendFix
    <3>1. job.at = "idle" /\ job'.at = "arrive"
      <4>1. flush' # [flush EXCEPT !.at = "delete"]
        BY <1>0 DEF Draining
      <4>2. QED
        BY <2>2, <4>1 DEF SendFix
    <3>2. Sent
      BY <3>1, PingStep DEF NoJob, Served
    <3>3. flush'.batch = flush.batch
      BY <2>1
    <3>4. QED
      BY <3>2, <3>3 DEF Sent
  <2>3. CASE ~SendFix
    <3>1. flush' = flush
      <4>1. AckTimeout => flush' = [flush EXCEPT !.at = "delete"]
        BY DEF AckTimeout
      <4>2. ~AckTimeout
        BY <1>0, <4>1 DEF Draining
      <4>3. QED
        BY <2>1, <2>3, <4>2
    <3>2. flush.at = "wait" /\ linked
      BY <3>1, ConnectFirst DEF Connect
    <3>3. job.at # "idle" /\ job'.seq = job.seq /\ job'.id = job.id
      BY <2>3, PingStep DEF NoJob, Served, Sent
    <3>4. QED
      BY <3>1, <3>2, <3>3 DEF Answered
  <2>4. QED
    BY <2>2, <2>3
<1>4. \A s \in flush'.sent : OnServer(s.id)'
  <2>1. \A s \in flush.sent : s.id \in Fixes /\ OnServer(s.id)
    BY <1>0 DEF Answered
  <2>2. CASE flush'.sent \subseteq flush.sent
    BY <1>2, <2>1, <2>2
  <2>3. CASE Ack /\ flush'.sent = flush.sent \cup {[seq |-> job.seq, id |-> job.id]}
    <3>1. OnServer(job.id) /\ job.id \in Fixes
      BY <1>0, <2>3 DEF Ack, Answered, JobOK
    <3>2. QED
      BY <1>2, <2>1, <2>3, <3>1
  <2>4. QED
    BY <2>2, <2>3, DrainStep
<1>5. job'.at # "idle" => job'.id <= recorded'
  <2>1. CASE Sent
    <3>1. PICK s \in flush.batch : s.id = job'.id
      BY <2>1 DEF Sent
    <3>2. s.id <= recorded /\ s.id \in Nat
      BY <1>0 DEF Fixes
    <3>3. QED
      BY <1>0, <1>1, <3>1, <3>2
  <2>2. CASE job' = job \/ (Served /\ job'.id = job.id)
    <3>1. job'.at # "idle" => job.at # "idle"
      BY <2>2 DEF Served
    <3>2. job'.at # "idle" => job.id <= recorded /\ job.id \in Nat
      BY <1>0, <3>1 DEF Answered, JobOK, Fixes
    <3>3. QED
      BY <1>0, <1>1, <2>2, <3>2
  <2>3. QED
    BY <2>1, <2>2, PingStep DEF NoJob
<1>6. (job.at \in {"insert", "ack"} => OnServer(job.id))'
  <2> SUFFICES ASSUME job'.at \in {"insert", "ack"}, NEW f, f = job'.id PROVE OnServer(f)'
    BY DEF OnServer, Copies
  <2>1. CASE job' = job
    <3>1. f \in Fixes /\ OnServer(f)
      BY <1>0, <2>1 DEF Answered, JobOK
    <3>2. QED
      BY <1>2, <3>1
  <2>2. CASE Served /\ job'.id = job.id
    <3>1. CASE Enqueue
      <4>1. f \in Fixes /\ f = job.id
        BY <1>0, <2>2, <3>1 DEF Enqueue, JobOK
      <4>2. Copies(f) \in Nat /\ Copies(f)' = Copies(f) + 1
        BY <1>0, <3>1, <4>1, EnqueueCounts
      <4>3. QED
        BY <4>2 DEF OnServer
    <3>2. CASE InsertBatch("ping") /\ job.at = "insert"
      <4>1. f \in Fixes /\ OnServer(f)
        BY <1>0, <2>2, <3>2 DEF Answered, JobOK
      <4>2. QED
        BY <1>2, <4>1
    <3>3. QED
      BY <2>2, <3>1, <3>2 DEF Served
  <2>3. QED
    BY <2>1, <2>2, PingStep DEF NoJob, Sent
<1>7. inserting'["ping"] # Empty => job'.at = "insert"
  <2> SUFFICES ASSUME inserting'["ping"] # Empty PROVE job'.at = "insert"
    OBVIOUS
  <2>1. CASE Enqueue
    <3>1. inserting["ping"] = Empty
      BY <2>1 DEF Enqueue, Answered
    <3>2. job' = [job EXCEPT !.at = "insert"]
      BY <2>1, <3>1 DEF Enqueue
    <3>3. QED
      BY <1>0, <3>2 DEF JobOK, Handling
  <2>2. CASE FlushTimer
    <3>1. inserting' = [inserting EXCEPT !["timer"] = waiting] /\ job' = job
      BY <2>2 DEF FlushTimer
    <3>2. inserting'["ping"] = inserting["ping"]
      BY <1>0, <3>1 DEF CrumbsOK, Who
    <3>3. QED
      BY <3>1, <3>2 DEF Answered
  <2>3. ASSUME NEW w \in Who, InsertBatch(w) PROVE job'.at = "insert"
    <3>1. inserting' = [inserting EXCEPT ![w] = Empty] /\ w \in {"ping", "timer"}
      BY <2>3 DEF InsertBatch, Who
    <3>2. w = "timer" /\ inserting'["ping"] = inserting["ping"]
      BY <1>0, <3>1 DEF CrumbsOK, Who
    <3>3. job' = job
      BY <2>3, <3>2 DEF InsertBatch
    <3>4. QED
      BY <3>2, <3>3 DEF Answered
  <2>4. CASE ServerRestarts
    BY <2>4 DEF ServerRestarts, Who
  <2>5. CASE UNCHANGED inserting /\ ~ServerRestarts
    <3>1. job.at = "insert"
      BY <2>5 DEF Answered
    <3>2. job' = job \/ (Served /\ InsertBatch("ping"))
      BY <2>5, <3>1, PingStep, PingEnds DEF Throttle, PingFails, Ack, Sent, Served
    <3>3. QED
      BY <2>3, <3>1, <3>2 DEF Who
  <2>6. QED
    BY <2>1, <2>2, <2>3, <2>4, <2>5
       DEF Next, Capture, Drain, Handle, Sweep, Position, InsertFix, SaveSeq, TrimBuffer,
           FlushTick, ReadBatch, SendFix, AckTimeout, DeleteSent, Throttle, Receive,
           UpsertPosition, WritePosition, EndGrace, PingFails, Ack, Connect, LinkDrops,
           HandleDisconnect, Kill, Stop, Start, GraceRunsOut, SweepLooks, SweepRemoves,
           SweepDeletes, vars, crumbs
<1>8. \A f \in Fixes : f > recorded' => Copies(f)' = 0
  <2> SUFFICES ASSUME NEW f \in Fixes, f > recorded' PROVE Copies(f)' = 0
    OBVIOUS
  <2>1. f > recorded /\ Copies(f) = 0
    BY <1>0, <1>1 DEF Answered, Fixes
  <2>2. CASE Enqueue
    <3>1. f # job.id
      BY <1>0, <2>1, <2>2 DEF Enqueue, Answered, JobOK, Fixes
    <3>2. QED
      BY <1>0, <2>1, <2>2, <3>1, EnqueueCounts
  <2>3. QED
    BY <2>1, <2>2, CopiesStep
<1> QED
  BY <1>3, <1>4, <1>5, <1>6, <1>7, <1>8 DEF Answered

-----------------------------------------------------------------------------
(* What a restart costs *)

\* One element more, and one element for another.
LEMMA OneMore ==
    ASSUME NEW S, IsFiniteSet(S), NEW x, NEW T, T \subseteq S \cup {x}
    PROVE  /\ IsFiniteSet(T) /\ Cardinality(T) \in Nat /\ Cardinality(S) \in Nat
           /\ Cardinality(T) <= Cardinality(S) + 1
<1>0. Cardinality(S) \in Nat
  BY FS_CardinalityType
<1>1. IsFiniteSet(S \cup {x}) /\ Cardinality(S \cup {x}) <= Cardinality(S) + 1
  BY <1>0, FS_AddElement
<1>2. IsFiniteSet(T) /\ Cardinality(T) <= Cardinality(S \cup {x})
  BY <1>1, FS_Subset
<1>3. Cardinality(T) \in Nat /\ Cardinality(S) \in Nat /\ Cardinality(S \cup {x}) \in Nat
  BY <1>1, <1>2, FS_CardinalityType
<1>4. QED
  BY <1>1, <1>2, <1>3

LEMMA OneForAnother ==
    ASSUME NEW S, IsFiniteSet(S), NEW x, NEW y \in S, NEW T, T \subseteq (S \ {y}) \cup {x}
    PROVE  Cardinality(T) <= Cardinality(S)
<1>1. IsFiniteSet(S \ {y}) /\ Cardinality(S \ {y}) = Cardinality(S) - 1
  BY FS_RemoveElement
<1>2. Cardinality(T) <= Cardinality(S \ {y}) + 1
  BY <1>1, OneMore
<1>3. Cardinality(T) \in Nat /\ Cardinality(S) \in Nat
  BY <1>1, OneMore, FS_CardinalityType
<1>4. QED
  BY <1>1, <1>2, <1>3

\* The doomed are recorded fixes, and can be counted.
LEMMA DoomedCount ==
    Typed => /\ IsFiniteSet(Doomed) /\ Cardinality(Doomed) \in Nat /\ Debt \in 0..2
             /\ Gone \subseteq Doomed /\ Doomed \subseteq 1..recorded /\ 1..recorded \subseteq Fixes
<1> SUFFICES ASSUME Typed
             PROVE  /\ IsFiniteSet(Doomed) /\ Cardinality(Doomed) \in Nat /\ Debt \in 0..2
                    /\ Gone \subseteq Doomed /\ Doomed \subseteq 1..recorded
                    /\ 1..recorded \subseteq Fixes
  OBVIOUS
<1>1. Gone \subseteq Doomed /\ Doomed \subseteq 1..recorded
  BY DEF Doomed, Gone
<1>2. recorded \in Nat /\ 1..recorded \subseteq Fixes
  BY StreamBounds DEF Typed, Fixes
<1>3. IsFiniteSet(1..recorded)
  BY <1>2, FS_Interval
<1>4. IsFiniteSet(Doomed) /\ Cardinality(Doomed) \in Nat
  BY <1>1, <1>3, FS_Subset, FS_CardinalityType
<1>5. Debt \in 0..2
  BY DEF Debt
<1>6. QED
  BY <1>1, <1>2, <1>4, <1>5

\* The account is kept by a step that dooms nothing and makes no debt.
LEMMA AccountKept ==
    ASSUME Typed, Accounted, Doomed' \subseteq Doomed, Debt' <= Debt,
           restarts' = restarts
    PROVE  Accounted'
<1>1. IsFiniteSet(Doomed) /\ Cardinality(Doomed) \in Nat /\ Debt \in 0..2 /\ restarts \in Nat
  BY DoomedCount DEF Typed
<1>2. Cardinality(Doomed') \in Nat /\ Cardinality(Doomed') <= Cardinality(Doomed)
  BY <1>1, FS_Subset, FS_CardinalityType
<1>d. Debt' \in 0..2
  BY DEF Debt
<1>3. QED
  BY <1>1, <1>2, <1>d DEF Accounted

\* Fewer rows and a smaller batch doom nothing more.
LEMMA FewerDoomed ==
    ASSUME Gone' = Gone, rows' \subseteq rows, flush'.batch \subseteq flush.batch,
           recorded' = recorded
    PROVE  Doomed' \subseteq Doomed
BY DEF Doomed

\* What the server has of a fix is left as it is.
LEMMA ServerSame ==
    ASSUME UNCHANGED <<crumbs, lost>> PROVE \A f : OnServer(f)' <=> OnServer(f)
BY DEF crumbs, OnServer, Copies

\* The buffer has a number once.
LEMMA NumberOnce ==
    ASSUME Typed, Numbered PROVE \A q, r \in rows : q.seq = r.seq => q = r
<1>1. NumbersOK
  BY NumbersTyped
<1>2. QED
  BY <1>1 DEF Numbered, NumbersOK

\* The next fix gets a number: a possible collision becomes one, or none.
LEMMA PositionAccount ==
    ASSUME Typed, Numbered, Batched, Accounted, Position PROVE Accounted'
<1>0. NumbersOK
  BY NumbersTyped
<1>1. /\ running /\ capture.at = "idle" /\ seq' = seq + 1 /\ recorded' = recorded + 1
      /\ rows' = rows /\ flush' = flush /\ thinned' = thinned /\ restarts' = restarts
      /\ running' = running
      /\ UNCHANGED <<crumbs, lost>>
  BY DEF Position
<1>2. capture'.at = "insert" /\ capture'.seq = seq + 1 /\ capture'.id = recorded + 1
  BY DEF Position
<1>3. recorded \in Nat
  BY <1>0 DEF NumbersOK
<1>4. \A f : OnServer(f)' <=> OnServer(f)
  BY <1>1, ServerSame
<1>5. Gone' = Gone
  BY <1>1, <1>2, <1>3, <1>4 DEF Gone, InHand
<1>6. \A r \in rows : r.id <= recorded /\ r.id \in Nat
  BY <1>0 DEF Numbered, NumbersOK
<1>7. Doomed' \subseteq Doomed
  BY <1>1, <1>3, <1>5, <1>6 DEF Doomed
<1>8. Collides' <=> MayCollide
  BY <1>1, <1>2 DEF Collides, MayCollide, Top
<1>9. ~Collides /\ ~MayCollide'
  BY <1>1, <1>2 DEF Collides, MayCollide
<1>10. Debt' = Debt
  BY <1>8, <1>9 DEF Debt
<1>11. QED
  BY <1>1, <1>7, <1>10, AccountKept, DoomedCount

\* The fix in hand replaces a row of its number: that fix is gone, or those a drain may
\* delete with it are.
LEMMA InsertAccount ==
    ASSUME Typed, Numbered, Batched, Accounted, InsertFix PROVE Accounted'
<1> DEFINE x == [seq |-> capture.seq, id |-> capture.id]
           kept == {r \in rows : r.seq # capture.seq}
<1>0. NumbersOK
  BY NumbersTyped
<1>1. /\ capture.at = "insert" /\ rows' = kept \cup {x} /\ recorded' = recorded
      /\ flush' = flush /\ thinned' = thinned /\ restarts' = restarts /\ seq' = seq
      /\ running' = running /\ UNCHANGED <<crumbs, lost>>
  BY DEF InsertFix, ghosts
<1>2. capture'.at = "meta" /\ capture'.seq = capture.seq /\ capture'.id = capture.id
  BY NextPlace DEF InsertFix
<1>3. /\ x.seq = capture.seq /\ x.id = recorded /\ capture.id = recorded
      /\ \A r \in rows : r.id < recorded /\ r.id # recorded
  BY <1>0, <1>1 DEF Numbered, NumbersOK
<1>4. \A f : OnServer(f)' <=> OnServer(f)
  BY <1>1, ServerSame
<1>5. recorded \notin Gone /\ recorded \notin Gone'
  BY <1>1, <1>3 DEF Gone, InHand
<1>6. ~Collides' /\ (MayCollide' <=> MayCollide)
  BY <1>1, <1>2 DEF Collides, MayCollide
<1> HIDE DEF x
<1>7. CASE ~Collides
  <2>1. kept = rows
    BY <1>1, <1>7 DEF Collides
  <2>2. Gone' = Gone
    BY <1>1, <1>2, <1>3, <1>4, <1>5, <2>1 DEF Gone, InHand
  <2>3. \A s \in flush.batch : s.seq # capture.seq
    BY <1>1, <1>7 DEF Batched, Top, Collides
  <2>4. Doomed' \subseteq Doomed
    BY <1>1, <1>3, <2>1, <2>2, <2>3 DEF Doomed
  <2>5. Debt' = Debt
    BY <1>6, <1>7 DEF Debt
  <2>6. QED
    BY <1>1, <2>4, <2>5, AccountKept, DoomedCount
<1>8. CASE Collides
  <2>1. PICK r \in rows : r.seq = capture.seq
    BY <1>8 DEF Collides
  <2>2. \A q \in rows : q = r \/ q \in kept
    BY <2>1, NumberOnce
  <2>3. Gone \subseteq Gone' /\ Gone' \subseteq Gone \cup {r.id}
    BY <1>1, <1>2, <1>3, <1>4, <1>5, <2>1, <2>2 DEF Gone, InHand
  <2>4. ASSUME NEW f \in Doomed', f \notin Doomed, f # r.id
        PROVE  /\ f = recorded
               /\ \E s \in flush.batch : s.seq = capture.seq /\ s.id \notin Gone'
    <3>1. f \notin Gone'
      BY <2>3, <2>4 DEF Doomed
    <3>2. PICK q \in rows', s \in flush.batch :
             f = q.id /\ s.seq = q.seq /\ s.id # q.id /\ s.id \notin Gone' /\ f \in 1..recorded
      BY <1>1, <3>1, <2>4 DEF Doomed
    <3>3. q \notin kept
      BY <2>3, <2>4, <3>2 DEF Doomed
    <3>4. QED
      BY <1>1, <1>3, <3>2, <3>3
  <2>5. \E y : Doomed' \subseteq Doomed \cup {y}
    <3>1. CASE \E s \in flush.batch : s.seq = capture.seq /\ s.id \notin Gone'
      <4>1. PICK s \in flush.batch : s.seq = capture.seq /\ s.id \notin Gone'
        BY <3>1
      <4>2. CASE s.id = r.id
        <5>1. r.id \notin Gone'
          BY <4>1, <4>2
        <5>2. ASSUME NEW f \in Doomed', f = r.id PROVE f \in Doomed
          <6>1. PICK q \in rows', t \in flush.batch : f = q.id /\ t.seq = q.seq
            BY <1>1, <5>1, <5>2 DEF Doomed
          <6>2. q \in kept
            BY <1>1, <1>3, <5>2, <6>1
          <6>3. q = r
            BY <5>2, <6>1, <6>2 DEF Numbered
          <6>4. QED
            BY <2>1, <6>2, <6>3
        <5>3. QED
          BY <2>4, <5>2
      <4>3. CASE s.id # r.id
        <5>1. r.id \in Doomed
          BY <1>0, <1>3, <2>1, <2>3, <4>1, <4>3 DEF Doomed, NumbersOK
        <5>2. QED
          BY <2>4, <5>1
      <4>4. QED
        BY <4>2, <4>3
    <3>2. CASE ~\E s \in flush.batch : s.seq = capture.seq /\ s.id \notin Gone'
      BY <2>4, <3>2
    <3>3. QED
      BY <3>1, <3>2
  <2>6. Cardinality(Doomed') \in Nat /\ Cardinality(Doomed') <= Cardinality(Doomed) + 1
    BY <2>5, DoomedCount, OneMore
  <2>7. Debt' = Debt - 1 /\ Debt \in 0..2
    BY <1>6, <1>8, DoomedCount DEF Debt
  <2>8. QED
    BY <1>1, <2>6, <2>7, DoomedCount DEF Accounted, Typed
<1>9. QED
  BY <1>7, <1>8

\* A thinned row is not a missing one.
LEMMA TrimAccount ==
    ASSUME Typed, Numbered, Batched, Accounted, [Next]_vars, TrimBuffer PROVE Accounted'
<1>0. NumbersOK
  BY NumbersTyped
<1>1. PICK out \in SUBSET rows : rows' = rows \ out /\ thinned' = thinned \cup {r.id : r \in out}
  BY DEF TrimBuffer, Thinned, Oldest
<1>2. /\ capture.at = "trim" /\ capture'.at = "idle" /\ recorded' = recorded
      /\ restarts' = restarts /\ seq' = seq /\ saved' = saved /\ running' = running
      /\ UNCHANGED <<crumbs, lost>>
  BY DEF TrimBuffer, Resting
<1>3. flush'.batch \subseteq flush.batch
  BY DEF TrimBuffer, NoFlush
<1>4. \A f : OnServer(f)' <=> OnServer(f)
  BY <1>2, ServerSame
<1>5. Gone' = Gone
  BY <1>1, <1>2, <1>4 DEF Gone, InHand
<1>6. Doomed' \subseteq Doomed
  BY <1>1, <1>2, <1>3, <1>5, FewerDoomed
<1>7. ~Collides /\ ~Collides'
  BY <1>2 DEF Collides
<1>8. MayCollide' => MayCollide
  <2> SUFFICES ASSUME running, seq = capture.seq, MayCollide' PROVE FALSE
    BY <1>2 DEF MayCollide
  <2>1. PICK r \in rows' : r.seq = seq + 1
    BY <1>2 DEF MayCollide, Top
  <2>2. r \in rows /\ r.seq <= capture.seq /\ r.seq \in Nat /\ capture.seq \in Nat
    BY <1>0, <1>1, <1>2 DEF Numbered, NumbersOK, Top
  <2>3. QED
    BY <2>1, <2>2
<1>9. Debt' <= Debt
  BY <1>7, <1>8 DEF Debt
<1>10. QED
  BY <1>2, <1>6, <1>9, AccountKept

\* What goes with the fixes that were acknowledged was doomed.
LEMMA DeleteAccount ==
    ASSUME Typed, Numbered, Batched, Answered, Accounted, DeleteSent PROVE Accounted'
<1>1. /\ rows' \subseteq rows /\ \A r \in rows : r \in rows' \/ \E s \in flush.sent : r.seq = s.seq
      /\ flush'.batch = {}
  BY DEF DeleteSent, AfterDelete, NoFlush
<1>2. /\ capture' = capture /\ recorded' = recorded /\ thinned' = thinned
      /\ restarts' = restarts /\ seq' = seq /\ saved' = saved /\ running' = running
      /\ UNCHANGED <<crumbs, lost>>
  BY DEF DeleteSent, ghosts
<1>3. \A f : OnServer(f)' <=> OnServer(f)
  BY <1>2, ServerSame
<1>4. flush.sent \subseteq flush.batch
  BY DEF Typed, TypeOK
<1>5. ASSUME NEW f \in Gone' PROVE f \in Doomed
  <2>1. f \in 1..recorded /\ ~InHand(f) /\ f \notin thinned /\ ~OnServer(f) /\ \A r \in rows' : r.id # f
    BY <1>2, <1>3, <1>5 DEF Gone, InHand
  <2>2. CASE f \notin Gone
    <3>1. PICK r \in rows : r.id = f /\ r \notin rows'
      BY <2>1, <2>2 DEF Gone
    <3>2. PICK s \in flush.sent : r.seq = s.seq
      BY <1>1, <3>1
    <3>3. s \in flush.batch /\ OnServer(s.id)
      BY <1>4, <3>2 DEF Answered
    <3>4. s.id # r.id /\ s.id \notin Gone
      BY <2>1, <3>1, <3>3 DEF Gone
    <3>5. QED
      BY <2>1, <3>1, <3>2, <3>3, <3>4 DEF Doomed
  <2>3. QED
    BY <2>2 DEF Doomed
<1>6. Doomed' \subseteq Doomed
  BY <1>1, <1>5 DEF Doomed
<1>7. Debt' <= Debt
  BY <1>1, <1>2 DEF Debt, Collides, MayCollide, Top
<1>8. QED
  BY <1>2, <1>6, <1>7, AccountKept

\* Killed, the app loses the fix in hand at most; its number may be used again.
LEMMA KillAccount ==
    ASSUME Typed, Numbered, Accounted, Kill PROVE Accounted'
<1>0. NumbersOK
  BY NumbersTyped
<1>1. /\ rows' = rows /\ saved' = saved /\ recorded' = recorded /\ thinned' = thinned
      /\ restarts' = restarts + 1 /\ UNCHANGED <<crumbs, lost>>
      /\ capture'.at = "idle" /\ flush'.batch = {} /\ ~running'
  BY DEF Kill, Resting, NoFlush
<1>2. \A f : OnServer(f)' <=> OnServer(f)
  BY <1>1, ServerSame
<1>3. Doomed' = Gone'
  BY <1>1 DEF Doomed
<1>4. ~Collides' /\ (MayCollide' <=> \E r \in rows : r.seq = saved + 1)
  BY <1>1 DEF Collides, MayCollide, Top
<1>5. IsFiniteSet(Doomed) /\ Cardinality(Doomed) \in Nat /\ Debt \in 0..2 /\ restarts \in Nat
      /\ Gone \subseteq Doomed
  BY DoomedCount DEF Typed
<1>6. CASE capture.at = "insert"
  <2>1. Gone' \subseteq Gone \cup {capture.id}
    BY <1>1, <1>2, <1>6 DEF Gone, InHand
  <2>2. Cardinality(Doomed') \in Nat /\ Cardinality(Doomed') <= Cardinality(Doomed) + 1
    BY <1>3, <1>5, <2>1, OneMore
  <2>3. MayCollide' => Collides
    BY <1>0, <1>4, <1>6 DEF Numbered, NumbersOK, Top, Collides
  <2>4. Debt' <= Debt /\ Debt' \in 0..2
    BY <1>4, <2>3 DEF Debt
  <2>5. QED
    BY <1>1, <1>5, <2>2, <2>4 DEF Accounted
<1>7. CASE capture.at # "insert"
  <2>1. Gone' \subseteq Gone
    BY <1>1, <1>2, <1>7 DEF Gone, InHand
  <2>2. Cardinality(Doomed') \in Nat /\ Cardinality(Doomed') <= Cardinality(Doomed)
    BY <1>3, <1>5, <2>1, FS_Subset, FS_CardinalityType
  <2>3. Debt' <= 1 /\ Debt' \in 0..2
    BY <1>4 DEF Debt
  <2>4. QED
    BY <1>1, <1>5, <2>2, <2>3 DEF Accounted
<1>8. QED
  BY <1>6, <1>7

\* A stop loses nothing, but the next start may use a number again.
LEMMA StopAccount ==
    ASSUME Typed, Accounted, [Next]_vars, Stop PROVE Accounted'
<1>1. /\ rows' = rows /\ recorded' = recorded /\ thinned' = thinned /\ capture' = capture
      /\ restarts' = restarts + 1 /\ UNCHANGED <<crumbs, lost>>
      /\ flush'.batch \subseteq flush.batch
  BY DEF Stop, NoFlush
<1>2. \A f : OnServer(f)' <=> OnServer(f)
  BY <1>1, ServerSame
<1>3. Gone' = Gone
  BY <1>1, <1>2 DEF Gone, InHand
<1>4. Doomed' \subseteq Doomed
  BY <1>1, <1>3, FewerDoomed
<1>5. IsFiniteSet(Doomed) /\ Cardinality(Doomed) \in Nat /\ Debt \in 0..2 /\ restarts \in Nat
  BY DoomedCount DEF Typed
<1>6. Cardinality(Doomed') \in Nat /\ Cardinality(Doomed') <= Cardinality(Doomed)
  BY <1>4, <1>5, FS_Subset, FS_CardinalityType
<1>7. (Collides' <=> Collides) /\ Debt' \in 0..2
  BY <1>1 DEF Debt, Collides
<1>8. Debt' <= Debt + 1
  BY <1>7 DEF Debt
<1>9. QED
  BY <1>1, <1>5, <1>6, <1>7, <1>8 DEF Accounted

\* A start takes up the saved number.
LEMMA StartAccount ==
    ASSUME Typed, Accounted, Start PROVE Accounted'
<1>1. /\ rows' = rows /\ recorded' = recorded /\ thinned' = thinned /\ capture' = capture
      /\ restarts' = restarts /\ UNCHANGED <<crumbs, lost>>
      /\ flush'.batch = {} /\ ~running /\ seq' = saved /\ saved' = saved
  BY DEF Start, NoFlush, ghosts
<1>2. \A f : OnServer(f)' <=> OnServer(f)
  BY <1>1, ServerSame
<1>3. Gone' = Gone
  BY <1>1, <1>2 DEF Gone, InHand
<1>4. Doomed' \subseteq Doomed
  BY <1>1, <1>3, FewerDoomed
<1>5. (Collides' <=> Collides) /\ (MayCollide' => MayCollide)
  BY <1>1 DEF Collides, MayCollide, Top
<1>6. Debt' <= Debt
  BY <1>5 DEF Debt
<1>7. QED
  BY <1>1, <1>4, <1>6, AccountKept

\* A drain reads rows, and no two of one number.
LEMMA ReadAccount ==
    ASSUME Typed, Numbered, Accounted, ReadBatch PROVE Accounted'
<1>1. /\ rows' = rows /\ recorded' = recorded /\ thinned' = thinned /\ capture' = capture
      /\ restarts' = restarts /\ UNCHANGED <<crumbs, lost>>
      /\ seq' = seq /\ saved' = saved /\ running' = running
      /\ flush'.batch \subseteq rows
  BY DEF ReadBatch, NoFlush, Oldest, ghosts
<1>2. \A f : OnServer(f)' <=> OnServer(f)
  BY <1>1, ServerSame
<1>3. Gone' = Gone
  BY <1>1, <1>2 DEF Gone, InHand
<1>4. Doomed' \subseteq Doomed
  BY <1>1, <1>3, NumberOnce DEF Doomed
<1>5. Debt' = Debt
  BY <1>1 DEF Debt, Collides, MayCollide, Top
<1>6. QED
  BY <1>1, <1>4, <1>5, AccountKept, DoomedCount

\* A missing fix that reaches the server is one that another of its number replaced in the
\* buffer: that one may now be deleted with it.
LEMMA EnqueueAccount ==
    ASSUME Typed, Numbered, Batched, Answered, Accounted, [Next]_vars, Enqueue
    PROVE  Accounted'
<1>0. recorded \in Nat /\ 1..recorded \subseteq Fixes /\ CrumbsOK'
  BY DoomedCount, ServerTypes, StreamBounds DEF Typed
<1>1. /\ rows' = rows /\ recorded' = recorded /\ thinned' = thinned /\ capture' = capture
      /\ restarts' = restarts /\ flush' = flush
      /\ seq' = seq /\ saved' = saved /\ running' = running
  BY DEF Enqueue, phone, ghosts
<1>2. \A f \in Fixes : OnServer(f)' <=> OnServer(f) \/ f = job.id
  <2> SUFFICES ASSUME NEW f \in Fixes PROVE OnServer(f)' <=> OnServer(f) \/ f = job.id
    OBVIOUS
  <2>1. Copies(f) \in Nat /\ Copies(f)' = Copies(f) + (IF f = job.id THEN 1 ELSE 0) /\ lost' = lost
    BY <1>0, EnqueueCounts
  <2>2. QED
    BY <2>1 DEF OnServer
<1>3. Gone' = Gone \ {job.id}
  BY <1>0, <1>1, <1>2 DEF Gone, InHand
<1>4. Debt' = Debt
  BY <1>1 DEF Debt, Collides, MayCollide, Top
<1>5. CASE job.id \notin Gone
  <2>1. Doomed' \subseteq Doomed
    BY <1>1, <1>3, <1>5, FewerDoomed
  <2>2. QED
    BY <1>1, <1>4, <2>1, AccountKept, DoomedCount
<1>6. CASE job.id \in Gone
  <2>1. \E y : Doomed' \subseteq (Doomed \ {job.id}) \cup {y}
    <3>1. job.id \notin Doomed'
      BY <1>1, <1>3, <1>6 DEF Doomed, Gone
    <3>2. ASSUME NEW f \in Doomed', f \notin Doomed
          PROVE  \E r \in rows, s \in flush.batch : r.id = f /\ s.seq = r.seq /\ s.id = job.id
      BY <1>1, <1>3, <3>2 DEF Doomed
    <3>3. \A f, g \in Doomed' : f \notin Doomed /\ g \notin Doomed => f = g
      <4> SUFFICES ASSUME NEW f \in Doomed', NEW g \in Doomed', f \notin Doomed, g \notin Doomed
                   PROVE  f = g
        OBVIOUS
      <4>1. PICK r \in rows, s \in flush.batch : r.id = f /\ s.seq = r.seq /\ s.id = job.id
        BY <3>2
      <4>2. PICK q \in rows, t \in flush.batch : q.id = g /\ t.seq = q.seq /\ t.id = job.id
        BY <3>2
      <4>3. s = t
        BY <4>1, <4>2 DEF Batched
      <4>4. r = q
        BY <4>1, <4>2, <4>3, NumberOnce
      <4>5. QED
        BY <4>1, <4>2, <4>4
    <3>4. CASE \E f \in Doomed' : f \notin Doomed
      <4>1. PICK f \in Doomed' : f \notin Doomed
        BY <3>4
      <4>2. Doomed' \subseteq (Doomed \ {job.id}) \cup {f}
        BY <3>1, <3>3, <4>1
      <4>3. QED
        BY <4>2
    <3>5. CASE ~\E f \in Doomed' : f \notin Doomed
      BY <3>1, <3>5
    <3>6. QED
      BY <3>4, <3>5
  <2>2. job.id \in Doomed
    BY <1>6 DEF Doomed
  <2>3. IsFiniteSet(Doomed) /\ Cardinality(Doomed) \in Nat /\ Debt \in 0..2 /\ restarts \in Nat
    BY DoomedCount DEF Typed
  <2>4. PICK y : Doomed' \subseteq (Doomed \ {job.id}) \cup {y}
    BY <2>1
  <2>5. Cardinality(Doomed') <= Cardinality(Doomed)
    BY <2>2, <2>3, <2>4, OneForAnother
  <2>6. Doomed' \subseteq Doomed \cup {y}
    BY <2>4
  <2>7. Cardinality(Doomed') \in Nat
    BY <2>3, <2>6, OneMore
  <2>8. QED
    BY <1>1, <1>4, <2>3, <2>5, <2>7 DEF Accounted
<1>7. QED
  BY <1>5, <1>6

\* A restart of the app is counted, and nothing else is one.
LEMMA RestartsStep == [Next]_vars => restarts' = restarts \/ Kill \/ Stop
BY DEF Next, Capture, Drain, Handle, Sweep, Position, InsertFix, SaveSeq, TrimBuffer,
       FlushTick, ReadBatch, SendFix, AckTimeout, DeleteSent, Throttle, Receive,
       UpsertPosition, WritePosition, EndGrace, PingFails, Enqueue, FlushTimer, InsertBatch,
       Ack, Connect, LinkDrops, HandleDisconnect, Start, ServerRestarts, GraceRunsOut,
       SweepLooks, SweepRemoves, SweepDeletes, vars, ghosts

\* Every restart costs one fix at most.
LEMMA AccountedStep ==
    Typed /\ Numbered /\ Batched /\ Answered /\ Accounted /\ [Next]_vars => Accounted'
<1> SUFFICES ASSUME Typed, Numbered, Batched, Answered, Accounted, [Next]_vars
             PROVE  Accounted'
  OBVIOUS
<1>1. CASE SaveSeq
  <2>1. /\ rows' = rows /\ recorded' = recorded /\ thinned' = thinned /\ flush' = flush
        /\ restarts' = restarts /\ seq' = seq /\ running' = running /\ capture.at = "meta"
        /\ UNCHANGED <<crumbs, lost>>
    BY <1>1 DEF SaveSeq, ghosts
  <2>2. capture'.at = "trim" /\ capture'.seq = capture.seq
    BY <1>1, NextPlace DEF SaveSeq
  <2>3. Gone' = Gone
    BY <2>1, <2>2, ServerSame DEF Gone, InHand
  <2>4. Doomed' \subseteq Doomed
    BY <2>1, <2>3, FewerDoomed
  <2>5. Debt' = Debt
    BY <2>1, <2>2 DEF Debt, Collides, MayCollide
  <2>6. QED
    BY <2>1, <2>4, <2>5, AccountKept, DoomedCount
<1>2. ASSUME UNCHANGED <<rows, saved, seq, capture, running, recorded, thinned>>,
             ~Enqueue, ~ReadBatch, restarts' = restarts
      PROVE  Accounted'
  <2>1. \A f \in Fixes : OnServer(f)' <=> OnServer(f)
    BY <1>2, CopiesStep
  <2>2. flush'.batch \subseteq flush.batch
    BY <1>2, DrainStep
  <2>3. Gone' = Gone
    BY <1>2, <2>1, DoomedCount DEF Gone, InHand
  <2>4. Doomed' \subseteq Doomed
    BY <1>2, <2>2, <2>3, FewerDoomed
  <2>5. Debt' = Debt
    BY <1>2 DEF Debt, Collides, MayCollide, Top
  <2>6. QED
    BY <1>2, <2>4, <2>5, AccountKept, DoomedCount
<1> QED
  BY <1>1, <1>2, Footprint, RestartsStep, PositionAccount, InsertAccount, TrimAccount,
     DeleteAccount, KillAccount, StopAccount, StartAccount, ReadAccount, EnqueueAccount

-----------------------------------------------------------------------------
(* How often a fix is sent *)

\* A sum that does not grow by more than its bound.
LEMMA Sums ==
    ASSUME NEW c \in Nat, NEW d \in Nat, d <= c, NEW a \in 0..1, NEW b \in 0..1, b <= a,
           NEW p \in 0..1, NEW q \in 0..1, NEW m \in Int, NEW n \in Int,
           c + a + p <= 1 + m, (q <= p /\ n >= m) \/ n >= m + 1
    PROVE  d + b + q <= 1 + n
OBVIOUS

\* No more copies, nothing new on its way, and nothing more to send unless something went
\* wrong: the load of a fix stays within its bound.
LEMMA RepeatedKept ==
    ASSUME NEW f, Load(f) <= 1 + (troubles + restarts), Typed,
           Copies(f) \in Nat, Copies(f)' \in Nat, Copies(f)' <= Copies(f),
           Coming(f)' => Coming(f),
           troubles' \in Nat, restarts' \in Nat,
           \/ (MaySend(f)' => MaySend(f)) /\ troubles' + restarts' >= troubles + restarts
           \/ troubles' + restarts' >= troubles + restarts + 1
    PROVE  Load(f)' <= 1 + (troubles' + restarts')
<1> DEFINE c == Copies(f)
           d == Copies(f)'
           a == One(Coming(f))
           b == One(Coming(f))'
           p == One(MaySend(f))
           q == One(MaySend(f))'
           m == troubles + restarts
           n == troubles' + restarts'
<1>0. troubles \in Nat /\ restarts \in Nat
  BY DEF Typed
<1>1. m \in Int /\ n \in Int
  BY <1>0
<1>2. a \in 0..1 /\ b \in 0..1 /\ b <= a
  BY DEF One
<1>3. p \in 0..1 /\ q \in 0..1 /\ ((q <= p /\ n >= m) \/ n >= m + 1)
  BY DEF One
<1>4. c \in Nat /\ d \in Nat /\ d <= c
  OBVIOUS
<1>5. c + a + p <= 1 + m
  BY DEF Load
<1>6. Load(f)' = d + b + q
  BY DEF Load
<1> HIDE DEF a, b, c, d, p, q, m, n
<1>7. d + b + q <= 1 + n
  BY <1>1, <1>2, <1>3, <1>4, <1>5, Sums
<1>8. QED
  BY <1>6, <1>7 DEF n

\* Of two numbers that do not fall the sum does not.
LEMMA SumsGrow ==
    ASSUME NEW a \in Nat, NEW b \in Nat, NEW c \in Nat, NEW d \in Nat, c >= a, d >= b
    PROVE  /\ c + d >= a + b
           /\ c + d = 0 => a = 0 /\ b = 0 /\ c = 0 /\ d = 0
           /\ c = a + 1 \/ d = b + 1 => c + d >= a + b + 1
OBVIOUS

\* What went wrong stays counted.
LEMMA WrongCounts ==
    Typed /\ Numbered /\ [Next]_vars =>
        /\ troubles' \in Nat /\ restarts' \in Nat
        /\ troubles' + restarts' >= troubles + restarts
        /\ troubles' + restarts' = 0 => troubles = 0 /\ restarts = 0 /\ troubles' = 0 /\ restarts' = 0
        /\ troubles' = troubles + 1 \/ restarts' = restarts + 1 =>
              troubles' + restarts' >= troubles + restarts + 1
<1> SUFFICES ASSUME Typed, Numbered, [Next]_vars
             PROVE  /\ troubles' \in Nat /\ restarts' \in Nat
                    /\ troubles \in Nat /\ restarts \in Nat
                    /\ troubles' >= troubles /\ restarts' >= restarts
  BY SumsGrow, Zenon
<1>1. troubles' \in Nat /\ restarts' \in Nat /\ troubles \in Nat /\ restarts \in Nat
  BY PhoneTypes DEF PhoneOK, Typed
<1>2. restarts' = restarts \/ restarts' = restarts + 1
  BY RestartsStep DEF Kill, Stop
<1>3. troubles' = troubles \/ troubles' = troubles + 1
  BY DEF Next, Capture, Drain, Handle, Sweep, Position, InsertFix, SaveSeq, TrimBuffer,
         FlushTick, ReadBatch, SendFix, AckTimeout, DeleteSent, Throttle, Receive,
         UpsertPosition, WritePosition, EndGrace, PingFails, Enqueue, FlushTimer, InsertBatch,
         Ack, Connect, LinkDrops, HandleDisconnect, Kill, Stop, Start, ServerRestarts,
         GraceRunsOut, SweepLooks, SweepRemoves, SweepDeletes, vars, Trouble
<1>4. QED
  BY <1>1, <1>2, <1>3

\* A position that is recorded is a new fix.
LEMMA PositionLoads ==
    ASSUME Typed, Numbered, Answered, Repeated, Position, NEW f \in Fixes,
           Copies(f) \in Nat, Copies(f)' \in Nat
    PROVE  Load(f)' <= 1 + (troubles' + restarts')
<1>1. /\ rows' = rows /\ flush' = flush /\ linked' = linked /\ job' = job
      /\ troubles' = troubles /\ restarts' = restarts /\ UNCHANGED crumbs
      /\ capture.at = "idle" /\ recorded \in Nat /\ troubles \in Nat /\ restarts \in Nat
  BY StreamBounds DEF Position, Typed
<1>2. capture'.at = "insert" /\ capture'.id = recorded + 1
  BY DEF Position
<1>3. Copies(f)' = Copies(f) /\ (Coming(f)' <=> Coming(f)) /\ (Awaited(f)' <=> Awaited(f))
  BY <1>1 DEF Copies, crumbs, Coming, Awaited
<1>4. CASE f # recorded + 1
  <2>1. MaySend(f)' => MaySend(f)
    BY <1>1, <1>2, <1>3, <1>4 DEF MaySend, Held, InHand
  <2>2. Load(f) <= 1 + (troubles + restarts)
    BY DEF Repeated
  <2>3. QED
    BY <1>1, <1>3, <2>1, <2>2, RepeatedKept
<1>5. CASE f = recorded + 1
  <2>1. Copies(f)' = 0 /\ ~Coming(f)'
    BY <1>1, <1>3, <1>5 DEF Answered, Coming
  <2>2. Load(f)' = 0 + 0 + One(MaySend(f)')
    BY <2>1 DEF Load, One
  <2>3. One(MaySend(f)') \in 0..1
    BY DEF One
  <2> HIDE DEF One
  <2>4. QED
    BY <1>1, <2>2, <2>3
<1>6. QED
  BY <1>4, <1>5

\* What is sent is awaited, and not sent again meanwhile.
LEMMA SentLoads ==
    ASSUME Typed, Numbered, Batched, Repeated, [Next]_vars, Sent, NEW f \in Fixes,
           Copies(f) \in Nat, Copies(f)' \in Nat
    PROVE  Load(f)' <= 1 + (troubles' + restarts')
<1>1. /\ rows' = rows /\ capture' = capture /\ linked' = linked /\ linked
      /\ troubles' = troubles /\ restarts' = restarts /\ UNCHANGED crumbs
      /\ flush.at = "send" /\ job.at = "idle" /\ job'.at = "arrive" /\ flush'.at = "wait"
      /\ [seq |-> job'.seq, id |-> job'.id] \in flush.batch \ flush.sent
      /\ troubles \in Nat /\ restarts \in Nat
  BY DEF Sent, SendFix, ghosts, Typed
<1>2. flush'.batch = flush.batch /\ flush'.sent = flush.sent
  BY <1>1, DrainStep DEF Sent, SendFix
<1>3. Copies(f)' = Copies(f)
  BY <1>1 DEF Copies, crumbs
<1>4. Load(f) <= 1 + (troubles + restarts)
  BY DEF Repeated
<1>5. ~Coming(f) /\ ~Awaited(f)
  BY <1>1 DEF Coming, Awaited
<1>6. CASE f # job'.id
  <2>1. ~Coming(f)' /\ (MaySend(f)' => MaySend(f))
    BY <1>1, <1>2, <1>5, <1>6 DEF Coming, MaySend, Held, InHand
  <2>2. QED
    BY <1>1, <1>3, <1>4, <2>1, RepeatedKept
<1>7. CASE f = job'.id
  <2>1. PICK s \in flush.batch : s \notin flush.sent /\ s.id = f /\ s = [seq |-> job'.seq, id |-> job'.id]
    BY <1>1, <1>7
  <2>2. ~MaySend(f)'
    BY <1>1, <1>7 DEF MaySend, Awaited
  <2>3. MaySend(f)
    <3>1. \A t \in flush.sent : t.id # f
      BY <2>1 DEF Typed, TypeOK, Batched
    <3>2. QED
      BY <1>5, <2>1, <3>1 DEF MaySend, Held
  <2>4. Load(f)' = Copies(f) + One(Coming(f)') + 0 /\ One(Coming(f)') \in 0..1
    BY <1>3, <2>2 DEF Load, One
  <2>5. Load(f) = Copies(f) + 0 + 1
    BY <1>5, <2>3 DEF Load, One
  <2> HIDE DEF One
  <2>6. QED
    BY <1>1, <1>4, <2>4, <2>5
<1>8. QED
  BY <1>6, <1>7

\* A ping that is queued becomes a copy.
LEMMA EnqueueLoads ==
    ASSUME Typed, Numbered, Answered, Repeated, [Next]_vars, Enqueue, NEW f \in Fixes,
           Copies(f) \in Nat, Copies(f)' \in Nat
    PROVE  Load(f)' <= 1 + (troubles' + restarts')
<1>1. /\ rows' = rows /\ capture' = capture /\ linked' = linked /\ flush' = flush
      /\ troubles' = troubles /\ restarts' = restarts /\ job.at = "queue"
      /\ troubles \in Nat /\ restarts \in Nat
  BY DEF Enqueue, ghosts, phone, Typed
<1>2. job'.at \in {"insert", "ack"} /\ job'.id = job.id
  <2>1. \E p \in {"insert", "ack"} : job' = [job EXCEPT !.at = p]
    BY DEF Enqueue
  <2>2. job \in Handling
    BY DEF Typed, TypeOK
  <2>3. QED
    BY <2>1, <2>2 DEF Handling
<1>3. Copies(f)' = Copies(f) + (IF f = job.id THEN 1 ELSE 0)
  BY EnqueueCounts, ServerTypes
<1>4. ~Coming(f)' /\ (Coming(f) <=> f = job.id)
  BY <1>1, <1>2 DEF Coming
<1>5. MaySend(f)' <=> MaySend(f)
  BY <1>1, <1>2 DEF MaySend, Awaited, Held, InHand
<1>6. Load(f) <= 1 + (troubles + restarts)
  BY DEF Repeated
<1>7. One(MaySend(f)') = One(MaySend(f)) /\ One(MaySend(f)) \in 0..1
  BY <1>5 DEF One
<1>8. One(Coming(f)') = 0 /\ One(Coming(f)) = (IF f = job.id THEN 1 ELSE 0)
  BY <1>4 DEF One
<1>9. Load(f)' = Copies(f)' + One(Coming(f)') + One(MaySend(f)')
  BY DEF Load, One
<1>10. Load(f) = Copies(f) + One(Coming(f)) + One(MaySend(f))
  BY DEF Load
<1> HIDE DEF One
<1>11. QED
  BY <1>1, <1>3, <1>6, <1>7, <1>8, <1>9, <1>10

\* Nothing but a drain puts a fix on its way, and nothing but trouble, a restart or a
\* position makes the phone send one that it would not have sent.
LEMMA MaySendStep ==
    ASSUME Typed, Numbered, Batched, [Next]_vars, ~Position, ~Sent, NEW f \in Fixes
    PROVE  /\ Coming(f)' => Coming(f)
           /\ \/ MaySend(f)' => MaySend(f)
              \/ Throttle \/ PingFails \/ LinkDrops \/ ServerRestarts \/ Kill
<1>1. Coming(f)' => Coming(f)
  BY PingStep DEF Coming, Served, NoJob
<1> SUFFICES ASSUME ~Throttle, ~PingFails, ~LinkDrops, ~ServerRestarts, ~Kill, MaySend(f)'
             PROVE  MaySend(f)
  BY <1>1
<1>2. flush \in Draining /\ flush.sent \subseteq flush.batch
  BY DEF Typed, TypeOK
<1>3. linked' = linked \/ (Connect /\ flush.at # "wait" /\ flush' = flush)
  BY DEF Next, Capture, Drain, Handle, Sweep, Position, InsertFix, SaveSeq, TrimBuffer,
         FlushTick, ReadBatch, SendFix, AckTimeout, DeleteSent, Receive,
         UpsertPosition, WritePosition, EndGrace, Enqueue, FlushTimer, InsertBatch,
         Ack, Connect, HandleDisconnect, Stop, Start, GraceRunsOut,
         SweepLooks, SweepRemoves, SweepDeletes, vars, phone
<1>4. \/ job' = job
      \/ job.at # "idle" /\ job'.at # "idle" /\ job'.id = job.id
      \/ Ack
  BY PingStep, PingEnds DEF Served
\* What the phone holds.
<1>5. Held(f)
  <2>1. \A r \in rows' : r \in rows \/ (InsertFix /\ r.id = capture.id)
    BY Footprint DEF InsertFix, Position, SaveSeq, TrimBuffer, DeleteSent, AfterDelete, Kill,
                     Stop, Start
  <2>2. \A r \in flush'.batch : r \in flush.batch \/ r \in rows
    BY DrainStep DEF Oldest
  <2>3. InHand(f)' => InHand(f)
    <3>1. capture' = capture \/ InsertFix \/ SaveSeq \/ TrimBuffer
      BY Footprint DEF DeleteSent, Stop, Start
    <3>2. InsertFix \/ SaveSeq \/ TrimBuffer => capture'.at # "insert"
      BY NextPlace DEF InsertFix, SaveSeq, TrimBuffer, Resting
    <3>3. QED
      BY <3>1, <3>2 DEF InHand
  <2>4. Held(f)'
    BY DEF MaySend
  <2>5. CASE InHand(f)'
    BY <2>3, <2>5 DEF Held
  <2>6. CASE \E r \in rows' : r.id = f
    <3>1. PICK r \in rows' : r.id = f
      BY <2>6
    <3>2. QED
      BY <2>1, <3>1 DEF Held, InHand, InsertFix
  <2>7. CASE \E r \in flush'.batch : r.id = f
    BY <2>2, <2>7 DEF Held
  <2>8. QED
    BY <2>4, <2>5, <2>6, <2>7 DEF Held
<1>6. ~Awaited(f)
  <2> SUFFICES ASSUME Awaited(f) PROVE FALSE
    OBVIOUS
  <2>1. flush.at = "wait" /\ linked /\ job.at # "idle" /\ job.id = f
    BY DEF Awaited
  <2>2. CASE Ack
    <3>1. flush'.sent = flush.sent \cup {[seq |-> job.seq, id |-> job.id]}
      <4>1. flush' = [flush EXCEPT !.at = "send", !.sent = @ \cup {[seq |-> job.seq, id |-> job.id]}]
        BY <2>1, <2>2 DEF Ack
      <4>2. QED
        BY <1>2, <4>1 DEF Draining
    <3> DEFINE x == [seq |-> job.seq, id |-> job.id]
    <3>x. x.id = f /\ x \in flush'.sent
      BY <2>1, <3>1
    <3> HIDE DEF x
    <3>2. \E s \in flush'.sent : s.id = f
      BY <3>x
    <3>3. QED
      BY <3>2 DEF MaySend
  <2>3. CASE ~Ack
    <3>1. ~SendFix /\ ~AckTimeout /\ ~ReadBatch
      BY <2>1 DEF SendFix, AckTimeout, ReadBatch
    <3>2. linked' = linked /\ job'.at # "idle" /\ job'.id = f
      BY <1>3, <1>4, <2>1, <2>3
    <3>3. flush' = flush
      BY <2>1, <2>3, <3>1
         DEF Next, Capture, Drain, Handle, Sweep, Position, InsertFix, SaveSeq, TrimBuffer,
             FlushTick, DeleteSent, Receive, MayFlush,
             UpsertPosition, WritePosition, EndGrace, Enqueue, FlushTimer, InsertBatch,
             Connect, HandleDisconnect, Stop, Start, GraceRunsOut,
             SweepLooks, SweepRemoves, SweepDeletes, vars, phone
    <3>4. QED
      BY <2>1, <3>2, <3>3 DEF MaySend, Awaited
  <2>4. QED
    BY <2>2, <2>3
<1>7. \A s \in flush.sent : s.id # f
  <2> SUFFICES ASSUME NEW s \in flush.sent, s.id = f PROVE FALSE
    OBVIOUS
  <2>1. s \in flush.batch /\ flush.at \notin {"idle", "read"}
    BY <1>2 DEF Batched
  <2>2. s \notin flush'.sent
    BY DEF MaySend
  <2>3. DeleteSent
    <3>1. SendFix \/ AckTimeout => flush'.sent = flush.sent
      <4>1. SendFix \/ AckTimeout => \E p \in {"wait", "delete"} : flush' = [flush EXCEPT !.at = p]
        BY DEF SendFix, AckTimeout
      <4>2. QED
        BY <1>2, <4>1 DEF Draining
    <3>2. Ack => flush.sent \subseteq flush'.sent
      <4>1. Ack => \/ flush' = flush
                   \/ flush' = [flush EXCEPT !.at = "send", !.sent = @ \cup {[seq |-> job.seq, id |-> job.id]}]
        BY DEF Ack
      <4>2. QED
        BY <1>2, <4>1 DEF Draining
    <3>3. flush' # flush /\ ~SendFix /\ ~AckTimeout /\ ~Ack /\ ~ReadBatch
      BY <2>1, <2>2, <3>1, <3>2 DEF ReadBatch
    <3>4. QED
      BY <2>1, <3>3
         DEF Next, Capture, Drain, Handle, Sweep, Position, InsertFix, SaveSeq, TrimBuffer,
             FlushTick, Receive, MayFlush,
             UpsertPosition, WritePosition, EndGrace, Enqueue, FlushTimer, InsertBatch,
             Connect, HandleDisconnect, Stop, Start, GraceRunsOut,
             SweepLooks, SweepRemoves, SweepDeletes, vars, phone
  <2>4. flush'.batch = {} /\ capture' = capture
    BY <2>3 DEF DeleteSent, NoFlush
  <2>5. \A r \in rows' : r \in rows /\ r.seq # s.seq
    BY <2>3 DEF DeleteSent, AfterDelete
  <2>6. ~InHand(f)
    <3>1. capture.at = "insert" => capture.id = recorded /\ s.id < recorded
      BY <2>1 DEF Numbered, Batched
    <3>2. s.id \in Nat /\ recorded \in Nat
      BY <1>2, <2>1, StreamBounds DEF Draining, Row, Fixes, Typed
    <3>3. QED
      BY <3>1, <3>2 DEF InHand
  <2>7. \A r \in rows' : r.id # f
    BY <2>1, <2>5 DEF Batched
  <2>8. QED
    BY <2>4, <2>6, <2>7 DEF MaySend, Held, InHand
<1>8. QED
  BY <1>5, <1>6, <1>7 DEF MaySend

\* Nothing is stored more often than what went wrong accounts for.
LEMMA RepeatedStep ==
    Typed /\ Numbered /\ Batched /\ Answered /\ Repeated /\ [Next]_vars => Repeated'
<1> SUFFICES ASSUME Typed, Numbered, Batched, Answered, Repeated, [Next]_vars, NEW f \in Fixes
             PROVE  Load(f)' <= 1 + (troubles' + restarts')
  BY DEF Repeated
<1>1. /\ Copies(f) \in Nat /\ Copies(f)' \in Nat
      /\ Enqueue \/ Copies(f)' <= Copies(f)
  BY CopiesStep
<1>2. /\ troubles' \in Nat /\ restarts' \in Nat
      /\ troubles' + restarts' >= troubles + restarts
  BY WrongCounts
<1>3. ASSUME ~Position, ~Sent, ~Enqueue PROVE Load(f)' <= 1 + (troubles' + restarts')
  <2>1. Load(f) <= 1 + (troubles + restarts)
    BY DEF Repeated
  <2>2. Coming(f)' => Coming(f)
    BY <1>3, MaySendStep
  <2>3. CASE MaySend(f)' => MaySend(f)
    BY <1>1, <1>2, <1>3, <2>1, <2>2, <2>3, RepeatedKept
  <2>4. CASE Throttle \/ PingFails \/ LinkDrops \/ ServerRestarts \/ Kill
    <3>1. troubles' = troubles + 1 \/ restarts' = restarts + 1
      BY <2>4 DEF Throttle, PingFails, LinkDrops, ServerRestarts, Kill, Trouble
    <3>2. troubles' + restarts' >= troubles + restarts + 1
      BY <3>1, WrongCounts
    <3>3. QED
      BY <1>1, <1>2, <1>3, <2>1, <2>2, <3>2, RepeatedKept
  <2>5. QED
    BY <1>3, <2>3, <2>4, MaySendStep
<1>4. QED
  BY <1>1, <1>3, PositionLoads, SentLoads, EnqueueLoads

-----------------------------------------------------------------------------
(* The live position while nothing goes wrong *)

\* The phone's part of Current, and the gateway's.
OwnNumbers ==
    /\ running /\ seq = recorded
    /\ capture.at # "idle" => capture.seq = capture.id
    /\ \A r \in rows \cup flush.batch : r.seq = r.id
Followed ==
    /\ job.at # "idle" => job.seq = job.id
    /\ job.at \in {"pool", "hash"} => lastSeq = job.seq
    /\ job.at \in {"grace", "queue", "insert", "ack"} => lastSeq >= job.seq
    /\ job.at \notin {"pool", "hash"} /\ lastSeq > 0 => live >= lastSeq
    /\ job.at # "pool" /\ lastSeq > 0 => pool # "out"

\* Without a restart the numbers are those of the fixes.
LEMMA OwnNumbersStep ==
    ASSUME Typed, [Next]_vars, OwnNumbers, ~Kill, ~Stop PROVE OwnNumbers'
<1>1. \A r \in rows' \cup flush'.batch : r \in rows \cup flush.batch
                                       \/ (InsertFix /\ r = [seq |-> capture.seq, id |-> capture.id])
  <2>1. \A r \in rows' : r \in rows \/ (InsertFix /\ r = [seq |-> capture.seq, id |-> capture.id])
    BY Footprint DEF InsertFix, Position, SaveSeq, TrimBuffer, DeleteSent, AfterDelete, Start
  <2>2. \A r \in flush'.batch : r \in flush.batch \/ r \in rows
    BY DrainStep DEF Oldest
  <2>3. QED
    BY <2>1, <2>2
<1>2. \A r \in rows' \cup flush'.batch : r.seq = r.id
  <2> DEFINE x == [seq |-> capture.seq, id |-> capture.id]
  <2>1. InsertFix => x.seq = x.id
    BY DEF OwnNumbers, InsertFix
  <2>2. \A r \in rows' \cup flush'.batch : r \in rows \cup flush.batch \/ (InsertFix /\ r = x)
    BY <1>1
  <2> HIDE DEF x
  <2>3. QED
    BY <2>1, <2>2 DEF OwnNumbers
<1>3. CASE Position
  <2>1. capture' = [at |-> "insert", seq |-> seq + 1, id |-> recorded + 1]
    BY <1>3 DEF Position
  <2>2. capture'.seq = capture'.id
    BY <2>1 DEF OwnNumbers
  <2>3. QED
    BY <1>2, <1>3, <2>2 DEF OwnNumbers, Position
<1>4. CASE InsertFix \/ SaveSeq
  <2>1. capture'.seq = capture.seq /\ capture'.id = capture.id /\ capture.at # "idle"
    BY <1>4, NextPlace DEF InsertFix, SaveSeq
  <2>2. UNCHANGED <<running, seq, recorded>>
    BY <1>4 DEF InsertFix, SaveSeq, ghosts
  <2>3. QED
    BY <1>2, <2>1, <2>2 DEF OwnNumbers
<1>5. CASE TrimBuffer
  BY <1>2, <1>5 DEF OwnNumbers, TrimBuffer, Resting
<1>6. CASE DeleteSent
  BY <1>2, <1>6 DEF OwnNumbers, DeleteSent, ghosts
<1>7. CASE UNCHANGED <<rows, saved, seq, capture, running, recorded, thinned>>
  BY <1>2, <1>7 DEF OwnNumbers
<1>8. ~Start
  BY DEF OwnNumbers, Start
<1> QED
  BY Footprint, <1>3, <1>4, <1>5, <1>6, <1>7, <1>8

\* Without trouble the position follows the pings.
LEMMA FollowedStep ==
    ASSUME Typed, [Next]_vars, OwnNumbers, Followed,
           ~Kill, ~Throttle, ~PingFails, ~LinkDrops, ~ServerRestarts
    PROVE  Followed'
<1>0. /\ JobOK /\ lastSeq \in Nat /\ live \in Nat /\ flush \in Draining
      /\ job.seq \in Nat
  BY Parts, StreamBounds DEF ServerOK, JobOK, Typed, TypeOK, None, Fixes, Handling
<1>1. job.at # "idle" => job.id = job.seq
  BY DEF Followed
<1>2. CASE Receive
  <2>1. /\ job.at = "arrive" /\ job'.seq = job.seq /\ job'.id = job.id
        /\ live' = live /\ pool' = pool
        /\ \/ job'.at = "queue" /\ lastSeq' = lastSeq /\ job.seq <= lastSeq
           \/ job'.at = "pool" /\ lastSeq' = job.seq
    <3>1. \/ job' = [job EXCEPT !.at = "queue"] /\ lastSeq' = lastSeq /\ job.seq <= lastSeq
          \/ job' = [job EXCEPT !.at = "pool"] /\ lastSeq' = job.seq
      BY <1>2 DEF Receive, IsStale
    <3>2. QED
      BY <1>0, <1>2, <3>1 DEF Receive, JobOK, Handling, place
  <2>2. QED
    BY <1>0, <2>1 DEF Followed
<1>3. CASE UpsertPosition
  <2>1. /\ job.at = "pool" /\ job'.at = "hash" /\ job'.seq = job.seq /\ job'.id = job.id
        /\ live' = live /\ pool' = "in" /\ lastSeq' = lastSeq
    BY <1>0, <1>3 DEF UpsertPosition, JobOK, Handling
  <2>2. QED
    BY <1>0, <2>1 DEF Followed
<1>4. CASE WritePosition
  <2>1. /\ job.at = "hash" /\ job'.at = "grace" /\ job'.seq = job.seq /\ job'.id = job.id
        /\ live' = job.id /\ pool' = pool /\ lastSeq' = lastSeq
    BY <1>0, <1>4 DEF WritePosition, JobOK, Handling
  <2>2. QED
    BY <1>0, <2>1 DEF Followed
<1>5. CASE Connect
  <2>1. job' = job /\ job.at = "idle" /\ lastSeq' = 0
    BY <1>5 DEF Connect
  <2>2. QED
    BY <2>1 DEF Followed
<1>6. CASE SweepRemoves
  BY <1>6 DEF SweepRemoves, Followed
<1>7. ASSUME UNCHANGED <<lastSeq, place>>, ~Receive, ~UpsertPosition, ~WritePosition
      PROVE  Followed'
  <2>1. CASE job' = job
    BY <1>7, <2>1 DEF Followed, place
  <2>2. CASE Served /\ job'.seq = job.seq /\ job'.id = job.id
    <3>1. job.at \in {"grace", "queue", "insert"} /\ job'.at \in {"grace", "queue", "insert", "ack"}
      BY <1>7, <2>2 DEF Served
    <3>2. QED
      BY <1>7, <2>2, <3>1 DEF Followed, place
  <2>3. CASE Sent
    <3>1. job.at = "idle" /\ job'.at = "arrive"
      BY <2>3 DEF Sent
    <3>2. job'.seq = job'.id
      BY <2>3 DEF Sent, OwnNumbers
    <3>3. QED
      BY <1>7, <3>1, <3>2 DEF Followed, place
  <2>4. CASE job' = NoJob /\ Ack
    <3>1. job.at = "ack" /\ job'.at = "idle"
      BY <2>4 DEF Ack, NoJob
    <3>2. QED
      BY <1>7, <3>1 DEF Followed, place
  <2>5. QED
    BY <2>1, <2>2, <2>3, <2>4, PingStep, PingEnds
<1> QED
  BY <1>2, <1>3, <1>4, <1>5, <1>6, <1>7
     DEF Next, Capture, Drain, Handle, Sweep, Position, InsertFix, SaveSeq, TrimBuffer,
         FlushTick, ReadBatch, SendFix, AckTimeout, DeleteSent, EndGrace, Enqueue,
         FlushTimer, InsertBatch, Ack, HandleDisconnect, Stop, Start, GraceRunsOut,
         SweepLooks, SweepDeletes, vars

\* The newest position is the last one taken.
LEMMA CurrentStep ==
    Typed /\ Numbered /\ Current /\ [Next]_vars => Current'
<1> SUFFICES ASSUME Typed, Numbered, Current, [Next]_vars, troubles' + restarts' = 0
             PROVE  OwnNumbers' /\ Followed'
  BY DEF Current, OwnNumbers, Followed
<1>1. troubles = 0 /\ restarts = 0 /\ troubles' = 0 /\ restarts' = 0
  BY WrongCounts
<1>2. OwnNumbers /\ Followed
  BY <1>1 DEF Current, OwnNumbers, Followed
<1>3. ~Kill /\ ~Stop /\ ~Throttle /\ ~PingFails /\ ~LinkDrops /\ ~ServerRestarts
  BY <1>1 DEF Kill, Stop, Throttle, PingFails, LinkDrops, ServerRestarts, Trouble
<1>4. QED
  BY <1>2, <1>3, OwnNumbersStep, FollowedStep

-----------------------------------------------------------------------------
(* The theorems *)

\* The invariant holds at first.
LEMMA InitInv == Init => IInv
<1> SUFFICES ASSUME Init PROVE IInv
  OBVIOUS
<1> USE DEF Init
<1>1. /\ rows = {} /\ flush.batch = {} /\ flush.sent = {} /\ flush.at = "idle" /\ thinned = {}
      /\ capture.at = "idle" /\ capture.id = None /\ job.at = "idle" /\ running
      /\ saved = 0 /\ seq = 0 /\ recorded = 0 /\ troubles = 0 /\ restarts = 0 /\ lastSeq = 0
  BY DEF NoFlush, Resting, NoJob
<1>2. Empty \in [Fixes -> Nat] /\ [w \in Who |-> Empty] \in [Who -> [Fixes -> Nat]]
  BY DEF Empty
<1>3. Typed
  <2>1. PhoneOK
    BY <1>1, RestTypes, StreamBounds, FS_EmptySet DEF PhoneOK
  <2>2. ServerOK
    <3>1. 0 \in 0..MaxFixes
      BY StreamBounds
    <3>2. QED
      BY <3>1 DEF ServerOK, None
  <2>3. CrumbsOK
    BY <1>2 DEF CrumbsOK
  <2>4. JobOK /\ DrainOK(flush)
    BY RestTypes DEF JobOK
  <2>5. QED
    BY <2>1, <2>2, <2>3, <2>4, Parts
<1>4. Numbered /\ Halved /\ RouteSurvives /\ Batched
  BY <1>1 DEF Numbered, Halved, RouteSurvives, Batched, Top
<1>5. \A f \in Fixes : Copies(f) = 0
  BY DEF Copies, Empty, Who
<1>6. Answered
  BY <1>1, <1>5 DEF Answered, Who
<1>7. Accounted
  <2>1. Doomed = {}
    BY <1>1 DEF Doomed, Gone
  <2>2. Debt = 0
    BY <1>1 DEF Debt, Collides, MayCollide
  <2>3. Cardinality({}) = 0
    BY FS_EmptySet
  <2>4. QED
    BY <1>1, <2>1, <2>2, <2>3 DEF Accounted
<1>8. Repeated
  BY <1>1, <1>5 DEF Repeated, Load, One, Coming, MaySend, Held, InHand
<1>9. Current
  BY <1>1 DEF Current
<1>10. QED
  BY <1>3, <1>4, <1>6, <1>7, <1>8, <1>9 DEF IInv

\* The invariant holds in every reachable state.
LEMMA Invariant == Spec => []IInv
<1>1. IInv /\ [Next]_vars => IInv'
  BY TypedStep, NumberedStep, HalvedStep, BatchedStep, AnsweredStep, AccountedStep,
     RepeatedStep, CurrentStep DEF IInv
<1>2. QED
  BY <1>1, InitInv, PTL DEF Spec

\* Every part of the phone, the gateway and the database holds what it is meant to; a batch
\* is no larger than _batchSize.
THEOREM TypeCorrect == Spec => []TypeOK
<1>1. IInv => TypeOK
  BY DEF IInv, Typed
<1>2. QED
  BY <1>1, Invariant, PTL

\* However often the buffer overflows, thinning never drops two fixes in a row: every second
\* row by its number is every second row by its time, whatever restarts did to the numbers.
THEOREM RouteNotLost == Spec => []RouteSurvives
<1>1. IInv => RouteSurvives
  BY DEF IInv
<1>2. QED
  BY <1>1, Invariant, PTL

\* A fix that is nowhere was thinned, or lost by the server; each time the app is killed or
\* goes off line costs one more at most.
THEOREM FixesAccountedFor == Spec => []FixAccountedFor
<1>1. IInv => FixAccountedFor
  <2> SUFFICES ASSUME IInv PROVE FixAccountedFor
    OBVIOUS
  <2>1. Typed /\ Accounted
    BY DEF IInv
  <2>2. Vanished \subseteq Doomed
    <3>1. ASSUME NEW f \in Vanished PROVE f \in Gone
      <4>1. f \in Fixes /\ Copies(f) \in Nat
        BY <2>1, DoomedCount, Parts DEF Vanished, CrumbsOK, Copies, Who
      <4>2. QED
        BY <4>1 DEF Vanished, Gone, OnPhone, InHand, OnServer
    <3>2. QED
      BY <2>1, <3>1, DoomedCount
  <2>3. /\ IsFiniteSet(Doomed) /\ Cardinality(Doomed) \in Nat /\ Debt \in 0..2
        /\ Cardinality(Doomed) + Debt <= restarts /\ restarts \in Nat
    BY <2>1, DoomedCount DEF Accounted, Typed
  <2>4. Cardinality(Vanished) <= Cardinality(Doomed) /\ Cardinality(Vanished) \in Nat
    BY <2>2, <2>3, FS_Subset, FS_CardinalityType
  <2>5. QED
    BY <2>3, <2>4 DEF FixAccountedFor
<1>2. QED
  BY <1>1, Invariant, PTL

\* A fix is stored once, and once more at most for everything that went wrong.
THEOREM EveryCopyExplained == Spec => []CopiesExplained
<1>1. IInv => CopiesExplained
  <2> SUFFICES ASSUME IInv, NEW f \in Fixes PROVE Copies(f) <= 1 + troubles + restarts
    BY DEF CopiesExplained
  <2>1. Copies(f) \in Nat /\ troubles \in Nat /\ restarts \in Nat
    BY Parts DEF IInv, CrumbsOK, PhoneOK, Copies, Who
  <2>2. Copies(f) + One(Coming(f)) + One(MaySend(f)) <= 1 + (troubles + restarts)
    BY DEF IInv, Repeated, Load
  <2>3. One(Coming(f)) \in 0..1 /\ One(MaySend(f)) \in 0..1
    BY DEF One
  <2> HIDE DEF One
  <2>4. QED
    BY <2>1, <2>2, <2>3
<1>2. QED
  BY <1>1, Invariant, PTL

\* While nothing went wrong, a fix that is acknowledged is the position the others see, or
\* an older one, and the driver has been put into the pool.
THEOREM AckedPingIsLive == Spec => AckedIsLive
<1>1. IInv /\ [Next]_vars =>
        [(job.at = "ack" /\ flush'.sent # flush.sent /\ troubles + restarts = 0)
            => (live >= job.id /\ pool # "out")]_vars
  <2> SUFFICES ASSUME IInv, job.at = "ack", troubles + restarts = 0
               PROVE  live >= job.id /\ pool # "out"
    OBVIOUS
  <2>1. /\ job.seq = job.id /\ lastSeq >= job.seq
        /\ lastSeq > 0 => live >= lastSeq /\ pool # "out"
    BY DEF IInv, Current
  <2>2. job.id \in Nat /\ job.id > 0 /\ lastSeq \in Nat /\ live \in Nat
    BY Parts, StreamBounds DEF IInv, JobOK, ServerOK, None, Fixes
  <2>3. QED
    BY <2>1, <2>2
<1>2. QED
  BY <1>1, Invariant, PTL DEF Spec, AckedIsLive
===============================================================================
