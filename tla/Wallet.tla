--------------------------------- MODULE Wallet ---------------------------------
(***************************************************************************)
(* A driver's wallet: cash trips take the commission out of it, digital    *)
(* payments put the driver's share in, finance pays it out, and dispatch   *)
(* reads a copy of it in Redis.                                            *)
(*                                                                         *)
(* PostgreSQL runs at READ COMMITTED: an UPDATE or a SELECT FOR UPDATE     *)
(* waits for the transaction that holds the row and then works on what it  *)
(* left.  Redis takes part in no transaction.  One driver; amounts are     *)
(* small whole numbers.                                                    *)
(***************************************************************************)
EXTENDS Integers, Sequences, FiniteSets

CONSTANTS
    Workers,        \* requests in progress at once
    Moves,          \* what trips and payments add, commission as negative
    Payouts,        \* amounts finance may ask to pay out
    BaseCeiling, Headroom, MaxCeiling,      \* of the debt, see DebtCeiling
    MaxJobs,        \* bound: requests in a behaviour
    MaxFaults       \* bound: transactions that fail

None == "none"

ASSUME WalletConstants ==
    /\ None \notin Workers
    /\ Moves \subseteq Int /\ Payouts \subseteq Nat
    /\ BaseCeiling > 0
    /\ BaseCeiling \in Nat /\ Headroom \in Nat /\ MaxCeiling \in Nat
    /\ MaxJobs \in Nat /\ MaxFaults \in Nat

VARIABLES
    balance, trips, online,     \* the driver's row: wallet_balance_cents, completed_trips, state
    row,                        \* the worker that holds the row
    worker,
    cached,                     \* walletBalanceCents and debtCeilingCents of driver:{id}
    book,                       \* the entries that took effect
    jobs, faults

vars == <<balance, trips, online, row, worker, cached, book, jobs, faults>>

Task(at, why, amount, before, after) ==
    [at |-> at, why |-> why, amount |-> amount, before |-> before, after |-> after, ceiling |-> 0]
Idle == Task("idle", "payout", 0, 0, 0)

DebtCeiling(n) == IF BaseCeiling + n * Headroom <= MaxCeiling THEN BaseCeiling + n * Headroom
                                                              ELSE MaxCeiling

Entry(kind, amount, before, after) ==
    [kind |-> kind, amount |-> amount, before |-> before, after |-> after]

Init ==
    /\ balance = 0 /\ trips = 0 /\ online = TRUE
    /\ row = None
    /\ worker = [w \in Workers |-> Idle]
    /\ cached = [balance |-> 0, ceiling |-> BaseCeiling]
    /\ book = <<>>
    /\ jobs = 0 /\ faults = 0

Start(w) == worker[w].at = "idle" /\ jobs < MaxJobs /\ jobs' = jobs + 1

-----------------------------------------------------------------------------
(* EarningsService.recordPayout *)

\* Mutant: SELECT without FOR UPDATE.
ReadsAtOnce(w) == UNCHANGED row
\* SELECT ... FOR UPDATE.
Locks(w) == row = None /\ row' = w

\* A payout above the balance is refused, and the lock goes with the transaction.
BeginPayout(w, amount) ==
    /\ Start(w) /\ amount > 0
    /\ IF amount > balance
       THEN row = None /\ UNCHANGED <<row, worker>>
       ELSE /\ Locks(w)
            /\ worker' = [worker EXCEPT ![w] =
                             Task("update", "payout", amount, balance, balance - amount)]
    /\ UNCHANGED <<balance, trips, online, cached, book, faults>>

\* The balance is written as a number, and the settlement row beside it.
WritePayout(w) ==
    /\ worker[w].at = "update" /\ row \in {None, w}
    /\ row' = w
    /\ worker' = [worker EXCEPT ![w].at = "publish"]
    /\ UNCHANGED <<balance, trips, online, cached, book, jobs, faults>>

\* The copy in Redis changes before the transaction commits.
PublishPayout(w) ==
    /\ worker[w].at = "publish"
    /\ cached' = [cached EXCEPT !.balance = worker[w].after]
    /\ worker' = [worker EXCEPT ![w].at = "commit"]
    /\ UNCHANGED <<balance, trips, online, row, book, jobs, faults>>

CommitPayout(w) ==
    /\ worker[w].at = "commit"
    /\ balance' = worker[w].after
    /\ book' = Append(book, Entry("payout", -worker[w].amount, worker[w].before, worker[w].after))
    /\ row' = None
    /\ worker' = [worker EXCEPT ![w] = Idle]
    /\ UNCHANGED <<trips, online, cached, jobs, faults>>

-----------------------------------------------------------------------------
(* The other writers: each adds to what it finds *)

\* RidesService.complete of a cash trip, one statement of its own.
CompleteCash(w, amount) ==
    /\ Start(w) /\ amount <= 0 /\ row = None
    /\ balance' = balance + amount /\ trips' = trips + 1 /\ online' = TRUE
    /\ book' = Append(book, Entry("move", amount, balance, balance + amount))
    /\ UNCHANGED <<row, worker, cached, faults>>

CompleteDigital(w) ==
    /\ Start(w) /\ row = None
    /\ trips' = trips + 1 /\ online' = TRUE
    /\ UNCHANGED <<balance, row, worker, cached, book, faults>>

\* PaymentsService.handleWebhook and verifyCardPayment credit the driver's share.
CreditPayment(w, amount) ==
    /\ Start(w) /\ amount >= 0 /\ row = None
    /\ balance' = balance + amount
    /\ book' = Append(book, Entry("move", amount, balance, balance + amount))
    /\ UNCHANGED <<trips, online, row, worker, cached, faults>>

\* CashService.confirmCollection: the UPDATE of the driver, in a transaction.
BookCommission(w, amount) ==
    /\ Start(w) /\ amount <= 0 /\ row = None
    /\ row' = w
    /\ worker' = [worker EXCEPT ![w] = Task("confirm", "confirm", amount, 0, 0)]
    /\ UNCHANGED <<balance, trips, online, cached, book, faults>>

CommitCommission(w) ==
    /\ worker[w].at = "confirm"
    /\ balance' = balance + worker[w].amount
    /\ book' = Append(book, Entry("move", worker[w].amount, balance, balance + worker[w].amount))
    /\ row' = None
    /\ worker' = [worker EXCEPT ![w].at = "status"]
    /\ UNCHANGED <<trips, online, cached, jobs, faults>>

\* A statement, Redis or the commit fails: the row is as it was, Redis is not.
Rollback(w) ==
    /\ worker[w].at \in {"update", "publish", "commit", "confirm"} /\ faults < MaxFaults
    /\ faults' = faults + 1
    /\ row' = IF row = w THEN None ELSE row
    /\ worker' = [worker EXCEPT ![w] = Idle]
    /\ UNCHANGED <<balance, trips, online, cached, book, jobs>>

-----------------------------------------------------------------------------
(* CashService.debtStatus: asked for by the app, and after a confirmation *)

AskStatus(w) ==
    /\ Start(w)
    /\ worker' = [worker EXCEPT ![w] = Task("status", "status", 0, 0, 0)]
    /\ UNCHANGED <<balance, trips, online, row, cached, book, faults>>

ReadStatus(w) ==
    /\ worker[w].at = "status"
    /\ worker' = [worker EXCEPT ![w].at = "cache", ![w].before = balance,
                                ![w].ceiling = DebtCeiling(trips)]
    /\ UNCHANGED <<balance, trips, online, row, cached, book, jobs, faults>>

\* Mutant: the copy is adjusted by what was booked.
CacheDelta(w) ==
    /\ worker[w].at = "cache"
    /\ cached' = [balance |-> cached.balance + worker[w].amount, ceiling |-> worker[w].ceiling]
    /\ worker' = [worker EXCEPT ![w] = Idle]
    /\ UNCHANGED <<balance, trips, online, row, book, jobs, faults>>

\* What was read is what Redis gets; a confirmation that ends in too deep a debt
\* also takes the driver off line.
CacheStatus(w) ==
    /\ worker[w].at = "cache"
    /\ cached' = [balance |-> worker[w].before, ceiling |-> worker[w].ceiling]
    /\ worker' = [worker EXCEPT ![w] =
          IF worker[w].why = "confirm" /\ -worker[w].before >= worker[w].ceiling
          THEN [@ EXCEPT !.at = "block"] ELSE Idle]
    /\ UNCHANGED <<balance, trips, online, row, book, jobs, faults>>

BlockDriver(w) ==
    /\ worker[w].at = "block" /\ row = None
    /\ online' = FALSE
    /\ worker' = [worker EXCEPT ![w] = Idle]
    /\ UNCHANGED <<balance, trips, row, cached, book, jobs, faults>>

Paying(w) ==
    \/ \E x \in Payouts : BeginPayout(w, x)
    \/ WritePayout(w) \/ PublishPayout(w) \/ CommitPayout(w)

Booking(w) ==
    \/ \E x \in Moves : CompleteCash(w, x) \/ CreditPayment(w, x) \/ BookCommission(w, x)
    \/ CompleteDigital(w) \/ CommitCommission(w)

Telling(w) == AskStatus(w) \/ ReadStatus(w) \/ CacheStatus(w) \/ BlockDriver(w)

Next == \E w \in Workers : Paying(w) \/ Booking(w) \/ Telling(w) \/ Rollback(w)

Spec == Init /\ [][Next]_vars

-----------------------------------------------------------------------------
(* What the wallet promises *)

Places     == {"idle", "update", "publish", "commit", "confirm", "status", "cache", "block"}
WorkerType == [at : Places, why : {"payout", "confirm", "status"}, amount : Int,
               before : Int, after : Int, ceiling : 0..MaxCeiling]
EntryType  == [kind : {"move", "payout"}, amount : Int, before : Int, after : Int]

TypeOK ==
    /\ balance \in Int /\ trips \in Nat /\ online \in BOOLEAN
    /\ row \in Workers \cup {None}
    /\ worker \in [Workers -> WorkerType]
    /\ cached \in [balance : Int, ceiling : Nat]
    /\ book \in Seq(EntryType)
    /\ jobs \in 0..MaxJobs /\ faults \in 0..MaxFaults

\* No entry is lost under another, whoever writes at once and whatever fails: the balance
\* moves by exactly the entries, the settlement rows say what each payout found and left,
\* and none overdraws (EarningsService.recordPayout, src/src/earnings/earnings.service.ts:235).
WalletLedger == INSTANCE Ledger WITH balance <- balance, book <- book,
                                     Moves <- Moves, Payouts <- Payouts
ImplementsLedger == WalletLedger!Spec

\* While nothing fails, the copy that dispatch reads is a balance the driver had, or is
\* about to have when the payout that wrote it commits (recordPayout, CashService.debtStatus).
CachedWasReal ==
    faults = 0 =>
        \/ cached.balance = 0
        \/ \E i \in DOMAIN book : book[i].after = cached.balance
        \/ \E w \in Workers : worker[w].at = "commit" /\ worker[w].after = cached.balance
=============================================================================
