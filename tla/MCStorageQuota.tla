---------------------------- MODULE MCStorageQuota ----------------------------
(* Instances of StorageQuota for TLC. *)
EXTENDS StorageQuota, TLC

CONSTANTS v1, v2, a1, a2, u1, u2, f1, h1, h2, i1, i2, c1, c2

\* v1 has the account of its sign-up, v2 may get one; a file is as large as a chunk
\* or two.
FirstHasAccount == v1 :> a1 @@ v2 :> None
Sizes == u1 :> 2 @@ u2 :> 2 @@ f1 :> 1

\* Handlers, contents, chunk positions and the two uploads, which weigh the same,
\* are only compared.
Interchangeable == Permutations({h1, h2}) \cup Permutations({c1, c2})
                     \cup Permutations({i1, i2}) \cup Permutations({u1, u2})
=============================================================================
