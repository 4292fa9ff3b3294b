------------------------------ MODULE WalletProofs ------------------------------
(***************************************************************************)
(* Proofs about Wallet, for any workers, amounts and bounds.               *)
(*                                                                         *)
(* The invariant is about the lock on the driver's row.  Whoever is in the *)
(* middle of a payout or of a confirmation holds it (RowHeld), everybody   *)
(* else writes only when it is free, and so what a payout read under the   *)
(* lock is still the balance when it writes (PayoutSound).                 *)
(***************************************************************************)
EXTENDS Wallet, TLAPS, SequenceTheorems

Paid == {"update", "publish", "commit"}

\* Whoever is in the middle of a payout or a confirmation holds the row; a payout still
\* finds the balance it read, and takes no more than that.
Sound(w) ==
    /\ worker[w].at \in Paid \cup {"confirm"} => row = w
    /\ worker[w].at \in Paid =>
         /\ worker[w].amount \in Payouts
         /\ 0 < worker[w].amount /\ worker[w].amount <= balance
         /\ worker[w].before = balance
         /\ worker[w].after = balance - worker[w].amount
    /\ worker[w].at = "confirm" => worker[w].amount \in Moves

IInv == TypeOK /\ \A w \in Workers : Sound(w)

\* The ceiling is a number from 0 to its cap.
LEMMA CeilingType ==
    ASSUME NEW n \in Nat
    PROVE  DebtCeiling(n) \in 0..MaxCeiling
<1>1. n * Headroom \in Nat
  BY WalletConstants
<1>2. QED
  BY <1>1, WalletConstants DEF DebtCeiling

LEMMA IdleType == Idle \in WorkerType
  BY WalletConstants DEF Idle, Task, WorkerType, Places

\* An entry keeps the book a book of entries.
LEMMA AppendType ==
    ASSUME book \in Seq(EntryType),
           NEW kind \in {"move", "payout"}, NEW amount \in Int,
           NEW before \in Int, NEW after \in Int
    PROVE  Append(book, Entry(kind, amount, before, after)) \in Seq(EntryType)
<1>1. Entry(kind, amount, before, after) \in EntryType
  BY DEF Entry, EntryType
<1>2. QED
  BY <1>1, AppendProperties

\* Every step keeps the type invariant.
LEMMA TypeStep == TypeOK /\ [Next]_vars => TypeOK'
<1> SUFFICES ASSUME TypeOK, [Next]_vars PROVE TypeOK'
  OBVIOUS
<1> USE IdleType
<1>1. worker \in [Workers -> WorkerType] /\ book \in Seq(EntryType)
  BY DEF TypeOK
<1>3. CASE UNCHANGED vars
  BY <1>3 DEF vars, TypeOK
<1>4. ASSUME NEW w \in Workers, Rollback(w) PROVE TypeOK'
  <2>1. worker' \in [Workers -> WorkerType] /\ book' \in Seq(EntryType)
    BY <1>1, <1>4 DEF Rollback
  <2>2. QED
    BY <2>1, <1>4, WalletConstants DEF TypeOK, Rollback
<1>5. ASSUME NEW w \in Workers, Paying(w) PROVE TypeOK'
  <2>1. ASSUME NEW x \in Payouts, BeginPayout(w, x) PROVE TypeOK'
    <3>0. x \in Int /\ balance \in Int /\ balance - x \in Int
      BY WalletConstants DEF TypeOK
    <3>a. Task("update", "payout", x, balance, balance - x) \in WorkerType
      BY <3>0, WalletConstants DEF Task, WorkerType, Places
    <3>1. worker' \in [Workers -> WorkerType] /\ book' \in Seq(EntryType)
      BY <1>1, <2>1, <3>a DEF BeginPayout
    <3>2. QED
      BY <3>1, <2>1, WalletConstants DEF TypeOK, BeginPayout, Start, Locks
  <2>2. CASE WritePayout(w)
    <3>1. worker' \in [Workers -> WorkerType] /\ book' \in Seq(EntryType)
      BY <1>1, <2>2 DEF WritePayout, WorkerType, Places
    <3>2. QED
      BY <3>1, <2>2 DEF TypeOK, WritePayout
  <2>3. CASE PublishPayout(w)
    <3>1. worker' \in [Workers -> WorkerType] /\ book' \in Seq(EntryType)
      BY <1>1, <2>3 DEF PublishPayout, WorkerType, Places
    <3>2. cached' \in [balance : Int, ceiling : Nat]
      BY <1>1, <2>3 DEF TypeOK, PublishPayout, WorkerType
    <3>3. QED
      BY <3>1, <3>2, <2>3 DEF TypeOK, PublishPayout
  <2>4. CASE CommitPayout(w)
    <3>1. worker' \in [Workers -> WorkerType] /\ balance' \in Int
      BY <1>1, <2>4 DEF CommitPayout, WorkerType
    <3>2. book' \in Seq(EntryType)
      BY <1>1, <2>4, AppendType DEF CommitPayout, WorkerType
    <3>3. QED
      BY <3>1, <3>2, <2>4 DEF TypeOK, CommitPayout
  <2>5. QED
    BY <1>5, <2>1, <2>2, <2>3, <2>4 DEF Paying
<1>6. ASSUME NEW w \in Workers, Booking(w) PROVE TypeOK'
  <2>1. ASSUME NEW x \in Moves, CompleteCash(w, x) \/ CreditPayment(w, x) PROVE TypeOK'
    <3>a. x \in Int /\ balance \in Int /\ balance + x \in Int
      BY WalletConstants DEF TypeOK
    <3>b. balance' = balance + x /\ book' = Append(book, Entry("move", x, balance, balance + x))
      BY <2>1 DEF CompleteCash, CreditPayment
    <3>1. balance' \in Int /\ book' \in Seq(EntryType)
      BY <1>1, <3>a, <3>b, AppendType
    <3>2. worker' \in [Workers -> WorkerType]
      BY <1>1, <2>1 DEF CompleteCash, CreditPayment
    <3>3. QED
      <4>1. CASE CompleteCash(w, x)
        BY <3>1, <3>2, <4>1, WalletConstants DEF TypeOK, CompleteCash, Start
      <4>2. CASE CreditPayment(w, x)
        BY <3>1, <3>2, <4>2, WalletConstants DEF TypeOK, CreditPayment, Start
      <4>3. QED
        BY <2>1, <4>1, <4>2
  <2>2. ASSUME NEW x \in Moves, BookCommission(w, x) PROVE TypeOK'
    <3>1. worker' \in [Workers -> WorkerType] /\ book' \in Seq(EntryType)
      BY <1>1, <2>2, WalletConstants DEF BookCommission, Task, WorkerType, Places
    <3>2. QED
      BY <3>1, <2>2, WalletConstants DEF TypeOK, BookCommission, Start
  <2>3. CASE CompleteDigital(w)
    BY <2>3, WalletConstants DEF TypeOK, CompleteDigital, Start
  <2>4. CASE CommitCommission(w)
    <3>a. worker[w].amount \in Int
      BY <1>1 DEF WorkerType
    <3>b. balance' \in Int
      BY <2>4, <3>a DEF CommitCommission, TypeOK
    <3>c. [worker[w] EXCEPT !.at = "status"] \in WorkerType
      BY <1>1 DEF WorkerType, Places
    <3>1. worker' \in [Workers -> WorkerType] /\ balance' \in Int
      BY <1>1, <2>4, <3>b, <3>c DEF CommitCommission
    <3>2. book' \in Seq(EntryType)
      BY SMTT(30), <1>1, <2>4, AppendType DEF CommitCommission, WorkerType, TypeOK
    <3>3. QED
      BY <3>1, <3>2, <2>4 DEF TypeOK, CommitCommission
  <2>5. QED
    BY <1>6, <2>1, <2>2, <2>3, <2>4 DEF Booking
<1>7. ASSUME NEW w \in Workers, Telling(w) PROVE TypeOK'
  <2>1. CASE AskStatus(w)
    <3>1. worker' \in [Workers -> WorkerType] /\ book' \in Seq(EntryType)
      BY <1>1, <2>1, WalletConstants DEF AskStatus, Task, WorkerType, Places
    <3>2. QED
      BY <3>1, <2>1, WalletConstants DEF TypeOK, AskStatus, Start
  <2>2. CASE ReadStatus(w)
    <3>1. DebtCeiling(trips) \in 0..MaxCeiling
      BY CeilingType DEF TypeOK
    <3>2. worker' \in [Workers -> WorkerType] /\ book' \in Seq(EntryType)
      BY ZenonT(40), <1>1, <2>2, <3>1 DEF ReadStatus, WorkerType, Places, TypeOK
    <3>3. QED
      BY <3>2, <2>2 DEF TypeOK, ReadStatus
  <2>3. CASE CacheStatus(w)
    <3>1. worker' \in [Workers -> WorkerType] /\ book' \in Seq(EntryType)
      BY <1>1, <2>3 DEF CacheStatus, WorkerType, Places
    <3>a. worker[w].before \in Int /\ worker[w].ceiling \in 0..MaxCeiling
      BY <1>1 DEF WorkerType
    <3>2. cached' \in [balance : Int, ceiling : Nat]
      BY <2>3, <3>a, WalletConstants DEF CacheStatus
    <3>3. QED
      BY <3>1, <3>2, <2>3 DEF TypeOK, CacheStatus
  <2>4. CASE BlockDriver(w)
    <3>1. worker' \in [Workers -> WorkerType] /\ book' \in Seq(EntryType)
      BY <1>1, <2>4 DEF BlockDriver
    <3>2. QED
      BY <3>1, <2>4 DEF TypeOK, BlockDriver
  <2>5. QED
    BY <1>7, <2>1, <2>2, <2>3, <2>4 DEF Telling
<1>8. QED
  BY <1>3, <1>4, <1>5, <1>6, <1>7 DEF Next

\* The wallet starts with the invariant.
LEMMA InvInit == Init => IInv
<1> SUFFICES ASSUME Init PROVE IInv
  OBVIOUS
<1>1. TypeOK
  BY IdleType, WalletConstants, EmptySeq DEF Init, TypeOK
<1>2. ASSUME NEW v \in Workers PROVE Sound(v)
  BY DEF Init, Sound, Paid, Idle, Task
<1>3. QED
  BY <1>1, <1>2 DEF IInv

\* Every step keeps what holds of each worker.
LEMMA SoundStep ==
    ASSUME IInv, [Next]_vars, NEW v \in Workers
    PROVE  Sound(v)'
<1>1. /\ TypeOK /\ Sound(v) /\ None \notin Workers
      /\ worker \in [Workers -> WorkerType] /\ balance \in Int
  BY WalletConstants DEF IInv, TypeOK
<1> USE DEF Sound, Paid
<1>2. CASE UNCHANGED vars
  BY <1>1, <1>2 DEF vars
<1>3. ASSUME NEW w \in Workers, Rollback(w) PROVE Sound(v)'
  BY <1>1, <1>3 DEF Rollback, Idle, Task
<1>4. ASSUME NEW w \in Workers, Paying(w) PROVE Sound(v)'
  <2>1. ASSUME NEW x \in Payouts, BeginPayout(w, x) PROVE Sound(v)'
    <3>1. CASE x > balance
      BY <1>1, <2>1, <3>1 DEF BeginPayout
    <3>2. CASE ~(x > balance)
      <4>1. x \in Nat /\ x <= balance
        BY <1>1, <3>2, WalletConstants
      <4>2. row = None /\ row' = w /\ balance' = balance /\ x > 0
            /\ worker' = [worker EXCEPT ![w] =
                             Task("update", "payout", x, balance, balance - x)]
        BY <2>1, <3>2 DEF BeginPayout, Locks
      <4>3. QED
        BY <1>1, <4>1, <4>2 DEF Task
    <3>3. QED
      BY <3>1, <3>2
  <2>2. CASE WritePayout(w)
    BY <1>1, <2>2 DEF WritePayout, WorkerType
  <2>3. CASE PublishPayout(w)
    BY <1>1, <2>3 DEF PublishPayout, WorkerType
  <2>4. CASE CommitPayout(w)
    <3>1. row = w
      BY <2>4 DEF CommitPayout, IInv
    <3>2. QED
      BY <1>1, <2>4, <3>1 DEF CommitPayout, Idle, Task
  <2>5. QED
    BY <1>4, <2>1, <2>2, <2>3, <2>4 DEF Paying
<1>5. ASSUME NEW w \in Workers, Booking(w) PROVE Sound(v)'
  <2>1. ASSUME NEW x \in Moves, CompleteCash(w, x) PROVE Sound(v)'
    BY <1>1, <2>1 DEF CompleteCash
  <2>2. ASSUME NEW x \in Moves, CreditPayment(w, x) PROVE Sound(v)'
    BY <1>1, <2>2 DEF CreditPayment
  <2>3. ASSUME NEW x \in Moves, BookCommission(w, x) PROVE Sound(v)'
    BY <1>1, <2>3 DEF BookCommission, Task
  <2>4. CASE CompleteDigital(w)
    BY <1>1, <2>4 DEF CompleteDigital
  <2>5. CASE CommitCommission(w)
    <3>1. row = w
      BY <2>5 DEF CommitCommission, IInv
    <3>2. QED
      BY <1>1, <2>5, <3>1 DEF CommitCommission, WorkerType
  <2>6. QED
    BY <1>5, <2>1, <2>2, <2>3, <2>4, <2>5 DEF Booking
<1>6. ASSUME NEW w \in Workers, Telling(w) PROVE Sound(v)'
  <2>1. CASE AskStatus(w)
    BY <1>1, <2>1 DEF AskStatus, Task
  <2>2. CASE ReadStatus(w)
    BY <1>1, <2>2 DEF ReadStatus, WorkerType
  <2>3. CASE CacheStatus(w)
    BY <1>1, <2>3 DEF CacheStatus, Idle, Task, WorkerType
  <2>4. CASE BlockDriver(w)
    BY <1>1, <2>4 DEF BlockDriver, Idle, Task
  <2>5. QED
    BY <1>6, <2>1, <2>2, <2>3, <2>4 DEF Telling
<1>7. QED
  BY <1>2, <1>3, <1>4, <1>5, <1>6 DEF Next

\* IInv is inductive.
THEOREM InvCorrect == Spec => []IInv
<1>1. IInv /\ [Next]_vars => IInv'
  BY TypeStep, SoundStep DEF IInv
<1>2. QED
  BY InvInit, <1>1, PTL DEF Spec

\* Every variable keeps its type, the cached copy and the book of entries included.
THEOREM TypeCorrect == Spec => []TypeOK
<1>1. IInv => TypeOK
  BY DEF IInv
<1>2. QED
  BY InvCorrect, <1>1, PTL
----------------------------------------------------------------
-----------------------------------------------------------------------------
\* Every step of the wallet is an entry of the ledger or none.
LEMMA LedgerStep ==
    ASSUME IInv, [Next]_vars
    PROVE  [WalletLedger!Move \/ WalletLedger!Pay]_<<balance, book>>
<1> USE DEF WalletLedger!Move, WalletLedger!Pay, WalletLedger!Post, WalletLedger!Entry, Entry
<1>1. CASE UNCHANGED vars
  BY <1>1 DEF vars
<1>2. ASSUME NEW w \in Workers, Paying(w)
      PROVE  WalletLedger!Pay \/ UNCHANGED <<balance, book>>
  <2>1. CASE CommitPayout(w)
    <3>1. /\ worker[w].amount \in Payouts
          /\ 0 < worker[w].amount /\ worker[w].amount <= balance
          /\ worker[w].before = balance
          /\ worker[w].after = balance - worker[w].amount
      BY <2>1 DEF CommitPayout, IInv, Sound, Paid
    <3>2. balance + (-worker[w].amount) = balance - worker[w].amount
      BY <3>1, WalletConstants DEF IInv, TypeOK
    <3>3. QED
      BY <2>1, <3>1, <3>2 DEF CommitPayout
  <2>2. CASE ~CommitPayout(w)
    BY <1>2, <2>2 DEF Paying, BeginPayout, WritePayout, PublishPayout
  <2>3. QED
    BY <2>1, <2>2
<1>3. ASSUME NEW w \in Workers, Booking(w)
      PROVE  WalletLedger!Move \/ UNCHANGED <<balance, book>>
  <2>1. CASE CommitCommission(w)
    <3>1. worker[w].amount \in Moves
      BY <2>1 DEF CommitCommission, IInv, Sound
    <3>2. QED
      BY <2>1, <3>1 DEF CommitCommission
  <2>2. CASE ~CommitCommission(w)
    BY <1>3, <2>2 DEF Booking, CompleteCash, CreditPayment, BookCommission, CompleteDigital
  <2>3. QED
    BY <2>1, <2>2
<1>4. ASSUME NEW w \in Workers, Telling(w) \/ Rollback(w) PROVE UNCHANGED <<balance, book>>
  BY <1>4 DEF Telling, AskStatus, ReadStatus, CacheStatus, BlockDriver, Rollback
<1>5. QED
  BY <1>1, <1>2, <1>3, <1>4 DEF Next

\* The wallet implements the ledger: no entry is lost under another, whatever the number
\* of requests, the amounts and the failures (recordPayout and the other writers of
\* wallet_balance_cents).
THEOREM LedgerImplemented == Spec => ImplementsLedger
<1>1. Init => WalletLedger!Init
  BY DEF Init, WalletLedger!Init
<1>2. IInv /\ [Next]_vars => [WalletLedger!Move \/ WalletLedger!Pay]_<<balance, book>>
  BY LedgerStep
<1>3. QED
  BY InvCorrect, <1>1, <1>2, PTL DEF Spec, ImplementsLedger, WalletLedger!Spec

-----------------------------------------------------------------------------
(* The copy in Redis *)

Known(b) == b = 0 \/ \E i \in DOMAIN book : book[i].after = b

\* While nothing fails: the balance is what the last entry left, and so is what
\* debtStatus read and has not cached yet.
RealInv ==
    faults = 0 =>
        /\ Known(balance)
        /\ \A w \in Workers : worker[w].at = "cache" => Known(worker[w].before)
        /\ CachedWasReal

\* Once known, a balance stays known; what an entry leaves is known.
LEMMA KnownGrows ==
    ASSUME TypeOK, NEW kind \in {"move", "payout"}, NEW x \in Int, NEW b \in Int, NEW a \in Int,
           book' = Append(book, Entry(kind, x, b, a))
    PROVE  Known(a)' /\ \A c : Known(c) => Known(c)'
<1>1. Entry(kind, x, b, a) \in EntryType /\ Entry(kind, x, b, a).after = a
  BY DEF Entry, EntryType
<1>2. /\ Len(book') = Len(book) + 1 /\ Len(book) \in Nat
      /\ DOMAIN book = 1..Len(book) /\ DOMAIN book' = 1..Len(book')
      /\ \A i \in 1..Len(book) : book'[i] = book[i]
      /\ book'[Len(book) + 1] = Entry(kind, x, b, a)
  <2>1. book \in Seq(EntryType)
    BY DEF TypeOK
  <2>2. book' \in Seq(EntryType)
    BY <1>1, <2>1, AppendProperties
  <2>3. QED
    BY <1>1, <2>1, <2>2, AppendProperties, LenProperties
<1>3. Known(a)'
  BY <1>1, <1>2 DEF Known
<1>4. ASSUME NEW c, Known(c) PROVE Known(c)'
  BY <1>2, <1>4 DEF Known
<1>5. QED
  BY <1>3, <1>4
----------------------------------------------------------------
\* An entry is posted with a result x in the balance, by a worker that was not going to
\* cache anything, and the copy is left alone.
LEMMA PostKeepsReal ==
    ASSUME TypeOK, RealInv, faults' = faults, cached' = cached,
           NEW kind \in {"move", "payout"}, NEW x \in Int, NEW b \in Int, NEW a \in Int,
           book' = Append(book, Entry(kind, x, b, a)), balance' = a,
           NEW w \in Workers,
           \A v \in Workers : v # w => worker'[v] = worker[v],
           worker'[w] = worker[w] \/ worker'[w].at \in {"idle", "status"},
           worker[w].at = "commit" => worker[w].after = a
    PROVE  RealInv'
<1>1. Known(a)' /\ \A c : Known(c) => Known(c)'
  BY KnownGrows
<1>2. SUFFICES ASSUME faults = 0
               PROVE  /\ Known(a)'
                      /\ \A v \in Workers : (worker[v].at = "cache" => Known(worker[v].before))'
                      /\ CachedWasReal'
  BY DEF RealInv, Known
<1>3. ASSUME NEW v \in Workers, worker'[v].at = "cache" PROVE Known(worker[v].before)'
  <2>1. worker'[v] = worker[v]
    BY <1>3
  <2>2. Known(worker[v].before)
    BY <1>2, <1>3, <2>1 DEF RealInv
  <2>3. QED
    BY <2>1, <2>2, <1>1 DEF Known
<1>4. CachedWasReal'
  <2>1. CASE cached.balance = 0
    BY <2>1 DEF CachedWasReal
  <2>2. CASE \E i \in DOMAIN book : book[i].after = cached.balance
    BY <2>2, <1>1 DEF CachedWasReal, Known
  <2>3. CASE \E v \in Workers : worker[v].at = "commit" /\ worker[v].after = cached.balance
    <3>1. PICK v \in Workers : worker[v].at = "commit" /\ worker[v].after = cached.balance
      BY <2>3
    <3>2. CASE v = w
      BY <3>1, <3>2, <1>1 DEF CachedWasReal, Known
    <3>3. CASE v # w
      BY <3>1, <3>3 DEF CachedWasReal
    <3>4. QED
      BY <3>2, <3>3
  <2>4. QED
    BY <1>2, <2>1, <2>2, <2>3 DEF RealInv, CachedWasReal
<1>5. QED
  BY <1>1, <1>3, <1>4
----------------------------------------------------------------
LEMMA RealInit == Init => RealInv
  BY DEF Init, RealInv, Known, CachedWasReal, Idle, Task

\* Every step keeps the copy real.
LEMMA RealStep ==
    ASSUME IInv, RealInv, [Next]_vars
    PROVE  RealInv'
<1>1. /\ TypeOK /\ worker \in [Workers -> WorkerType] /\ balance \in Int
      /\ faults \in Nat
  BY DEF IInv, TypeOK
<1>2. CASE UNCHANGED vars
  BY <1>2 DEF vars, RealInv, Known, CachedWasReal
<1>3. ASSUME NEW w \in Workers, Rollback(w) PROVE RealInv'
  BY <1>1, <1>3 DEF Rollback, RealInv
<1>4. ASSUME NEW w \in Workers, Paying(w) PROVE RealInv'
  <2>1. ASSUME NEW x \in Payouts, BeginPayout(w, x) PROVE RealInv'
    BY <1>1, <2>1 DEF BeginPayout, Start, Locks, RealInv, Known, CachedWasReal, Task
  <2>2. CASE WritePayout(w)
    BY <1>1, <2>2 DEF WritePayout, RealInv, Known, CachedWasReal, WorkerType
  <2>3. CASE PublishPayout(w)
    <3>1. worker'[w].at = "commit" /\ worker'[w].after = worker[w].after
      BY <1>1, <2>3 DEF PublishPayout, WorkerType
    <3>2. cached'.balance = worker[w].after
      BY <1>1, <2>3 DEF PublishPayout, TypeOK
    <3>3. CachedWasReal'
      BY <3>1, <3>2 DEF CachedWasReal
    <3>4. QED
      BY <1>1, <2>3, <3>3 DEF PublishPayout, RealInv, Known, WorkerType
  <2>4. CASE CommitPayout(w)
    <3>1. /\ worker[w].amount \in Int /\ worker[w].before \in Int /\ worker[w].after \in Int
          /\ -worker[w].amount \in Int
      BY <1>1 DEF WorkerType
    <3>2. /\ \A v \in Workers : v # w => worker'[v] = worker[v]
          /\ worker'[w].at \in {"idle", "status"}
      BY <1>1, <2>4 DEF CommitPayout, Idle, Task
    <3>3. QED
      BY <1>1, <2>4, <3>1, <3>2, PostKeepsReal DEF CommitPayout
  <2>5. QED
    BY <1>4, <2>1, <2>2, <2>3, <2>4 DEF Paying
<1>5. ASSUME NEW w \in Workers, Booking(w) PROVE RealInv'
  <2>1. ASSUME NEW x \in Moves, CompleteCash(w, x) \/ CreditPayment(w, x) PROVE RealInv'
    <3>1. x \in Int /\ balance + x \in Int
      BY <1>1, WalletConstants
    <3>2. /\ book' = Append(book, Entry("move", x, balance, balance + x))
          /\ balance' = balance + x /\ faults' = faults /\ cached' = cached
          /\ worker' = worker /\ row = None
      BY <2>1 DEF CompleteCash, CreditPayment
    <3>3. worker[w].at # "commit"
      BY <3>2, WalletConstants DEF IInv, Sound, Paid
    <3>4. QED
      BY <1>1, <3>1, <3>2, <3>3, PostKeepsReal
  <2>2. ASSUME NEW x \in Moves, BookCommission(w, x) PROVE RealInv'
    BY <1>1, <2>2 DEF BookCommission, Start, RealInv, Known, CachedWasReal, Task
  <2>3. CASE CompleteDigital(w)
    BY <2>3 DEF CompleteDigital, RealInv, Known, CachedWasReal
  <2>4. CASE CommitCommission(w)
    <3>1. worker[w].amount \in Int /\ balance + worker[w].amount \in Int
      BY <1>1 DEF WorkerType
    <3>2. /\ \A v \in Workers : v # w => worker'[v] = worker[v]
          /\ worker'[w].at \in {"idle", "status"}
          /\ worker[w].at # "commit"
      BY <1>1, <2>4 DEF CommitCommission, WorkerType
    <3>3. QED
      BY <1>1, <2>4, <3>1, <3>2, PostKeepsReal DEF CommitCommission
  <2>5. QED
    BY <1>5, <2>1, <2>2, <2>3, <2>4 DEF Booking
<1>6. ASSUME NEW w \in Workers, Telling(w) PROVE RealInv'
  <2>1. CASE AskStatus(w)
    BY <1>1, <2>1 DEF AskStatus, Start, RealInv, Known, CachedWasReal, Task
  <2>2. CASE ReadStatus(w)
    BY <1>1, <2>2 DEF ReadStatus, RealInv, Known, CachedWasReal, WorkerType
  <2>3. CASE CacheStatus(w)
    <3>1. cached'.balance = worker[w].before /\ book' = book /\ balance' = balance
          /\ faults' = faults
      BY <2>3 DEF CacheStatus
    <3>2. faults = 0 => Known(worker[w].before)
      BY <2>3 DEF CacheStatus, RealInv
    <3>3. faults = 0 => CachedWasReal'
      BY <3>1, <3>2 DEF CachedWasReal, Known
    <3>4. \A v \in Workers : worker'[v].at = "cache" => worker'[v] = worker[v]
      BY <1>1, <2>3 DEF CacheStatus, Idle, Task, WorkerType
    <3>5. QED
      BY <3>1, <3>3, <3>4 DEF RealInv, Known
  <2>4. CASE BlockDriver(w)
    BY <1>1, <2>4 DEF BlockDriver, RealInv, Known, CachedWasReal, Idle, Task
  <2>5. QED
    BY <1>6, <2>1, <2>2, <2>3, <2>4 DEF Telling
<1>7. QED
  BY <1>2, <1>3, <1>4, <1>5, <1>6 DEF Next

\* While nothing fails, the balance that dispatch reads from Redis is one the driver had,
\* or is about to have when the payout that wrote it commits.
THEOREM CachedCorrect == Spec => []CachedWasReal
<1>1. IInv /\ RealInv /\ [Next]_vars => RealInv'
  BY RealStep
<1>2. RealInv => CachedWasReal
  BY DEF RealInv, CachedWasReal
<1>3. QED
  BY InvCorrect, RealInit, <1>1, <1>2, PTL DEF Spec
=============================================================================
