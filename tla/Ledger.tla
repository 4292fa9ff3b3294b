--------------------------------- MODULE Ledger ---------------------------------
(***************************************************************************)
(* What a driver's wallet promises: a balance that moves by entries, each  *)
(* of which records what it found and what it left, and payouts that never *)
(* exceed the balance they found.                                          *)
(***************************************************************************)
EXTENDS Integers, Sequences

CONSTANTS
    Moves,      \* what a trip or a payment may add, commission as negative
    Payouts     \* what may be paid out at once

VARIABLES
    balance,    \* drivers.wallet_balance_cents
    book        \* the entries, in the order in which they took effect

Entry(kind, amount, before, after) ==
    [kind |-> kind, amount |-> amount, before |-> before, after |-> after]

Post(kind, amount) ==
    /\ balance' = balance + amount
    /\ book' = Append(book, Entry(kind, amount, balance, balance + amount))

Init == balance = 0 /\ book = <<>>

Move == \E x \in Moves : Post("move", x)
Pay  == \E x \in Payouts : 0 < x /\ x <= balance /\ Post("payout", -x)

Spec == Init /\ [][Move \/ Pay]_<<balance, book>>
=============================================================================
