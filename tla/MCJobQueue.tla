------------------------------ MODULE MCJobQueue ------------------------------
(* Instances of JobQueue for TLC. *)
EXTENDS JobQueue, TLC

CONSTANTS f1, w1, w2, j1, j2, j3

TextFile == f1 :> "text"

Interchangeable == Permutations({w1, w2}) \cup Permutations(Jobs)
=============================================================================
