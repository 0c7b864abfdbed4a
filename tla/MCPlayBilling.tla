---------------------------- MODULE MCPlayBilling ----------------------------
(* Instances of PlayBilling for TLC. *)
EXTENDS PlayBilling, TLC

CONSTANTS p1, p2, a1, a2, r1, r2

OneBuyer == (p1 :> a1) @@ (p2 :> a1)

Interchangeable == Permutations(Requests) \cup Permutations(Purchases)
==============================================================================
