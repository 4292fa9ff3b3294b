----------------------------- MODULE MCSessions -----------------------------
(* Sessions for TLC. *)
EXTENDS Sessions, TLC

CONSTANTS h1, h2, h3, c1, c2

Symmetry == Permutations(Handlers) \cup Permutations(Calls)
=============================================================================
