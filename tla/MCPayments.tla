----------------------------- MODULE MCPayments -----------------------------
(* Instances of Payments for TLC. *)
EXTENDS Payments, TLC

\* Rows, requests and callbacks are interchangeable.
Symmetry == Permutations(Txns) \cup Permutations(Requests) \cup Permutations(Webhooks)
=============================================================================
