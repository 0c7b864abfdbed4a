------------------------ MODULE MCInheritanceRelease ------------------------
(* Instances of InheritanceRelease for TLC. *)
EXTENDS InheritanceRelease, TLC

\* Accounts, links, tokens and devices are only compared.
Interchangeable == Permutations(Vaults) \cup Permutations(Links) \cup Permutations(Tokens)
                     \cup Permutations(Devices)
=============================================================================
