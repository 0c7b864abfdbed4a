--------------------------- MODULE MCMainnetSend ---------------------------
(* Instances of MainnetSend for TLC. *)
EXTENDS MainnetSend, TLC

\* Each handler runs in a process of its own, named after it.
OwnProcess == [w \in Workers |-> w]

Everybody == Vaults \X Wallets

\* Handlers, draft ids and signatures are only compared.
Interchangeable == Permutations(Workers) \cup Permutations(Drafts) \cup Permutations(Sigs)
=============================================================================
