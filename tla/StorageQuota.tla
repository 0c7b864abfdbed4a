----------------------------- MODULE StorageQuota -----------------------------
(***************************************************************************)
(* Bytes and quota: chunked uploads (routes/chunked_upload_routes.py),     *)
(* uploads in one request and deletions (main.py), the counter of a vault  *)
(* (vaults.total_bytes), the total of its account                          *)
(* (account_storage_totals) that the limit is checked against, and its     *)
(* recomputation (billing.py).                                             *)
(*                                                                         *)
(* A step is one SQL transaction.  The transaction that starts a chunked   *)
(* upload is two: it holds the row of the vault while the entitlement is   *)
(* read on another connection.  Row locks are guards.                      *)
(***************************************************************************)
EXTENDS Integers, FiniteSets, Functions

CONSTANTS
    Vaults,     \* vaults
    Accounts,   \* ids of the accounts that may be created
    Joined,     \* [Vaults -> Accounts \cup {None}]: accounts at the start
    Counted,    \* which of these have a row in account_storage_totals
    Mixed,      \* vaults whose clients also upload in one request
    Uploads,    \* ids of chunked uploads
    Files,      \* ids of files sent in one request
    Size,       \* their sizes
    Chunks,     \* chunk indices of an upload
    Contents,   \* ciphertexts of a chunk
    Handlers,   \* request handlers
    VaultLimit, \* MAX_VAULT_BYTES, for a vault without an account
    Included,   \* what an account may store
    MaxFails,   \* bound: crashes
    None        \* SQL NULL, or no such row

ASSUME SizeAssumption == Size \in [Uploads \cup Files -> Nat \ {0}]
ASSUME LimitAssumption == VaultLimit \in Nat /\ Included \in Nat /\ MaxFails \in Nat
ASSUME IdAssumption == Uploads \cap Files = {}
ASSUME FiniteAssumption == /\ IsFiniteSet(Uploads \cup Files)
                           /\ IsFiniteSet(Vaults) /\ IsFiniteSet(Handlers)
ASSUME JoinedAssumption ==
    /\ Joined \in [Vaults -> Accounts \cup {None}] /\ Mixed \subseteq Vaults
    /\ Counted \subseteq {Joined[v] : v \in Vaults} \ {None}
    /\ None \notin Accounts \cup Contents \cup Vaults \cup Uploads \cup Files

VARIABLES
    account,    \* vaults.account_id
    total,      \* vaults.total_bytes
    used,       \* account_storage_totals.encrypted_bytes, None before the row
    file,       \* uploaded_files: "none" before, "gone" after the row's life
    owner,      \*   vault_id
    stale,      \*   created_at is older than the limit for uploads
    chunk,      \* uploaded_file_chunks
    pc,         \* where a handler stands
    job,        \* what it works on
    fails       \* crashes

rows == <<file, owner, stale, chunk>>
sums == <<account, total, used>>
vars == <<sums, rows, pc, job, fails>>

Ids == Uploads \cup Files
Owned(v)  == {f \in Ids : file[f] \in {"uploading", "complete"} /\ owner[f] = v}
Weight(S) == SumFunctionOnSet(Size, S)
Stale(v)  == {f \in Owned(v) : file[f] = "uploading" /\ stale[f]}

Steps == {"idle", "reserve", "insert", "bump", "credit", "again", "join", "recount"}

\* What a handler works on: delta is what it adds to the counters; swept are the
\* rows its open transaction has deleted; base and limit are what the check read.
Idle == [vault |-> None, id |-> None, delta |-> 0, swept |-> {}, base |-> 0,
         limit |-> 0, account |-> None]

Goto(h, step) == pc' = [pc EXCEPT ![h] = step]
Finish(h) == Goto(h, "idle") /\ job' = [job EXCEPT ![h] = Idle]

\* An upload that starts holds the row of its vault, and the rows it sweeps.
VaultFree(v) == \A h \in Handlers : pc[h] = "reserve" => job[h].vault # v
RowFree(f)   == \A h \in Handlers : pc[h] = "reserve" => f \notin job[h].swept

NoClamp(n)     == n
AtLeastZero(n) == IF n < 0 THEN 0 ELSE n

\* get_entitlement, without subscriptions: the account's total and limit.
UsedOf(a) == IF used[a] = None THEN 0 ELSE used[a]

\* get_account_id_for_vault: its query may raise, which reads as no account.
Found(v) == {account[v], None}

-----------------------------------------------------------------------------
\* The account of a ZK sign-up has no row in account_storage_totals.
Init == /\ account = Joined
        /\ total = [v \in Vaults |-> 0]
        /\ used = [a \in Accounts |-> IF a \in Counted THEN 0 ELSE None]
        /\ file = [f \in Ids |-> "none"]
        /\ owner = [f \in Ids |-> None]
        /\ stale = [f \in Ids |-> FALSE]
        /\ chunk = [u \in Uploads |-> [i \in Chunks |-> None]]
        /\ pc = [h \in Handlers |-> "idle"]
        /\ job = [h \in Handlers |-> Idle]
        /\ fails = 0

-----------------------------------------------------------------------------
(* Chunked uploads. *)

\* Mutant: the counter is read without FOR UPDATE.
UnlockedRead(v) == TRUE

\* SELECT total_bytes FROM vaults ... FOR UPDATE
LockedRead(v) == VaultFree(v)

\* /upload-file/init: sweep the stale uploads of the vault, lock its row, read
\* what is used and allowed.  The entitlement comes from another connection and
\* sees committed rows; without an account the swept counter is used.
InitUpload(h, v, u) ==
    /\ pc[h] = "idle" /\ file[u] = "none"
    /\ \A x \in Handlers : job[x].id # u
    /\ LockedRead(v) /\ \A f \in Stale(v) : RowFree(f)
    /\ \E a \in Found(v) :
         job' = [job EXCEPT ![h] = [
            vault |-> v, id |-> u, delta |-> Size[u], swept |-> Stale(v),
            base  |-> IF a = None THEN AtLeastZero(total[v] - Weight(Stale(v)))
                      ELSE UsedOf(a),
            limit |-> IF a = None THEN VaultLimit ELSE Included,
            account |-> None]]
    /\ Goto(h, "reserve")
    /\ UNCHANGED <<sums, rows, fails>>

\* The rows that are left when those of F are deleted, their chunks with them.
Without(F) == [
    file  |-> [f \in Ids |-> IF f \in F THEN "gone" ELSE file[f]],
    owner |-> [f \in Ids |-> IF f \in F THEN None ELSE owner[f]],
    stale |-> [f \in Ids |-> f \notin F /\ stale[f]],
    chunk |-> [u \in Uploads |-> IF u \in F THEN [i \in Chunks |-> None] ELSE chunk[u]]]

Remove(F) == LET left == Without(F)
             IN /\ file' = left.file /\ owner' = left.owner
                /\ stale' = left.stale /\ chunk' = left.chunk

\* The row is inserted, the counter of the vault is raised, all is committed.
Reserve(h) ==
    LET v == job[h].vault  u == job[h].id
    IN /\ pc[h] = "reserve" /\ job[h].base + Size[u] <= job[h].limit
       /\ total' = [total EXCEPT ![v] = AtLeastZero(@ - Weight(job[h].swept)) + Size[u]]
       /\ LET left == Without(job[h].swept)
          IN /\ file' = [left.file EXCEPT ![u] = "uploading"]
             /\ owner' = [left.owner EXCEPT ![u] = v]
             /\ stale' = left.stale /\ chunk' = left.chunk
       /\ Finish(h)
       /\ UNCHANGED <<account, used, fails>>

\* Over the limit: 413, and the sweep is rolled back with the rest.
RefuseUpload(h) ==
    /\ pc[h] = "reserve" /\ job[h].base + Size[job[h].id] > job[h].limit
    /\ Finish(h)
    /\ UNCHANGED <<sums, rows, fails>>

\* Mutant: the handler does not look at upload_status.
AnyChunked(u) == file[u] \in {"uploading", "complete"}

Uploading(u) == file[u] = "uploading"

\* /upload-file/chunk, sent again after a lost answer too.
PutChunk(u, i, c) ==
    /\ Uploading(u) /\ RowFree(u)
    /\ chunk' = [chunk EXCEPT ![u][i] = c]
    /\ UNCHANGED <<sums, file, owner, stale, pc, job, fails>>

AllChunks(u) == \A i \in Chunks : chunk[u][i] # None

\* /upload-file/finalize; "already finalized" and missing chunks change nothing.
Finalize(u) ==
    /\ file[u] = "uploading" /\ RowFree(u) /\ AllChunks(u)
    /\ file' = [file EXCEPT ![u] = "complete"]
    /\ UNCHANGED <<sums, owner, stale, chunk, pc, job, fails>>

\* /upload-file/abort; an upload that is gone or complete is left alone.
Abort(u) ==
    LET v == owner[u]
    IN /\ file[u] = "uploading" /\ RowFree(u) /\ VaultFree(v)
       /\ Remove({u})
       /\ total' = [total EXCEPT ![v] = AtLeastZero(@ - Size[u])]
       /\ UNCHANGED <<account, used, pc, job, fails>>

\* Mutant: the stale rows are summed once more after the deletion found them.
FreedTwice(v) == 2 * Weight(Stale(v))

Freed(v) == Weight(Stale(v))

\* sweep_all_stale_uploads, when a process starts
SweepAll ==
    LET gone == UNION {Stale(v) : v \in Vaults}
    IN /\ gone # {} /\ \A f \in gone : RowFree(f) /\ VaultFree(owner[f])
       /\ Remove(gone)
       /\ total' = [v \in Vaults |-> AtLeastZero(total[v] - Freed(v))]
       /\ UNCHANGED <<account, used, pc, job, fails>>

-----------------------------------------------------------------------------
(* Uploads in one request, and deletions. *)

\* save_uploaded_file: the limit is checked before anything is locked ...
CheckUpload(h, v, f) ==
    /\ pc[h] = "idle" /\ v \in Mixed /\ file[f] = "none"
    /\ \A x \in Handlers : job[x].id # f
    /\ \E a \in Found(v) :
         /\ (IF a = None THEN total[v] + Size[f] <= VaultLimit
             ELSE UsedOf(a) + Size[f] <= Included)
         /\ job' = [job EXCEPT ![h] = [Idle EXCEPT !.vault = v, !.id = f,
                                                   !.delta = Size[f], !.account = a]]
    /\ Goto(h, "insert")
    /\ UNCHANGED <<sums, rows, fails>>

\* ... the row is inserted and committed; the counters follow.
Insert(h) ==
    /\ pc[h] = "insert"
    /\ file' = [file EXCEPT ![job[h].id] = "complete"]
    /\ owner' = [owner EXCEPT ![job[h].id] = job[h].vault]
    /\ Goto(h, "bump")
    /\ UNCHANGED <<sums, stale, chunk, job, fails>>

\* /delete-file, for a file in any state
Delete(h, f) ==
    /\ pc[h] = "idle" /\ file[f] \in {"uploading", "complete"} /\ RowFree(f)
    /\ Remove({f})
    /\ job' = [job EXCEPT ![h] = [Idle EXCEPT !.vault = owner[f], !.delta = - Size[f]]]
    /\ Goto(h, "bump")
    /\ UNCHANGED <<sums, fails>>

\* bump_vault_total_bytes: the counter of the vault ...
Bump(h) ==
    LET v == job[h].vault
    IN /\ pc[h] = "bump" /\ VaultFree(v)
       /\ total' = [total EXCEPT ![v] = AtLeastZero(@ + job[h].delta)]
       /\ Goto(h, "credit")
       /\ UNCHANGED <<account, used, rows, job, fails>>

\* bump_account_total_bytes: the proposed row, which the conflict clause adds,
\* holds GREATEST(delta, 0).
Credited(a, delta) ==
    [used EXCEPT ![a] = AtLeastZero(UsedOf(a) + AtLeastZero(delta))]

\* ... and the total of its account, which an upload then adds once more.
Credit(h) ==
    /\ pc[h] = "credit"
    /\ \E a \in Found(job[h].vault) :
         used' = IF a = None THEN used ELSE Credited(a, job[h].delta)
    /\ IF job[h].id # None /\ job[h].account # None
       THEN Goto(h, "again") /\ UNCHANGED job ELSE Finish(h)
    /\ UNCHANGED <<account, total, rows, fails>>

CreditAgain(h) ==
    /\ pc[h] = "again"
    /\ used' = Credited(job[h].account, job[h].delta)
    /\ Finish(h)
    /\ UNCHANGED <<account, total, rows, fails>>

-----------------------------------------------------------------------------
(* Accounts. *)

\* An id nobody has drawn yet.
Fresh(a) == /\ used[a] = None /\ \A v \in Vaults : account[v] # a
            /\ \A x \in Handlers : job[x].account # a

\* ensure_account_for_vault: a vault for which none is found gets one, in a
\* transaction of its own; two requests may both have found none, and the later
\* account stays (a query that raises instead comes to the same).
Ensure(h, v, a) ==
    /\ pc[h] = "idle"
    /\ \/ a = account[v] /\ Goto(h, "recount")
       \/ account[v] = None /\ Fresh(a) /\ Goto(h, "join")
    /\ job' = [job EXCEPT ![h] = [Idle EXCEPT !.vault = v, !.account = a]]
    /\ UNCHANGED <<sums, rows, fails>>

Join(h) ==
    /\ pc[h] = "join" /\ VaultFree(job[h].vault)
    /\ account' = [account EXCEPT ![job[h].vault] = job[h].account]
    /\ used' = [used EXCEPT ![job[h].account] = 0]
    /\ Goto(h, "recount")
    /\ UNCHANGED <<total, rows, job, fails>>

SumOf(a) == SumFunctionOnSet(total, {v \in Vaults : account[v] = a})

\* reconcile_account_storage_from_vaults; the UPDATE makes no row.
Recount(h) ==
    /\ pc[h] = "recount"
    /\ used' = IF used[job[h].account] = None THEN used
               ELSE [used EXCEPT ![job[h].account] = SumOf(job[h].account)]
    /\ Finish(h)
    /\ UNCHANGED <<account, total, rows, fails>>

-----------------------------------------------------------------------------
GrowStale(u) == /\ file[u] = "uploading" /\ ~stale[u]
                /\ stale' = [stale EXCEPT ![u] = TRUE]
                /\ UNCHANGED <<sums, file, owner, chunk, pc, job, fails>>

\* A handler dies between two transactions, or in one that is rolled back.
Crash(h) == /\ pc[h] # "idle" /\ fails < MaxFails
            /\ fails' = fails + 1
            /\ Finish(h)
            /\ UNCHANGED <<sums, rows>>

Next ==
    \/ \E h \in Handlers :
         \/ \E v \in Vaults :
              \/ \E u \in Uploads : InitUpload(h, v, u)
              \/ \E f \in Files : CheckUpload(h, v, f)
              \/ \E a \in Accounts : Ensure(h, v, a)
         \/ \E f \in Ids : Delete(h, f)
         \/ Reserve(h) \/ RefuseUpload(h) \/ Insert(h) \/ Bump(h) \/ Credit(h)
         \/ CreditAgain(h) \/ Join(h) \/ Recount(h) \/ Crash(h)
    \/ \E u \in Uploads :
         \/ \E i \in Chunks, c \in Contents : PutChunk(u, i, c)
         \/ Finalize(u) \/ Abort(u) \/ GrowStale(u)
    \/ SweepAll

Spec == Init /\ [][Next]_vars

-----------------------------------------------------------------------------
(* Properties. *)

Deltas == {0} \cup {Size[f] : f \in Ids} \cup {- Size[f] : f \in Ids}
Jobs == [vault : Vaults \cup {None}, id : Ids \cup {None}, delta : Deltas,
         swept : SUBSET Uploads, base : Nat, limit : {0, VaultLimit, Included},
         account : Accounts \cup {None}]

\* Every variable has its type, and what a handler at a step works on is there:
\* the row of its vault, of its file and of the account it found.
TypeOK ==
    /\ account \in [Vaults -> Accounts \cup {None}]
    /\ total \in [Vaults -> Nat] /\ used \in [Accounts -> Nat \cup {None}]
    /\ file \in [Ids -> {"none", "uploading", "complete", "gone"}]
    /\ owner \in [Ids -> Vaults \cup {None}]
    /\ \A f \in Ids : owner[f] # None <=> file[f] \in {"uploading", "complete"}
    /\ stale \in [Ids -> BOOLEAN]
    /\ chunk \in [Uploads -> [Chunks -> Contents \cup {None}]]
    /\ pc \in [Handlers -> Steps] /\ job \in [Handlers -> Jobs] /\ fails \in Nat
    /\ \A h \in Handlers :
         /\ pc[h] # "idle" => job[h].vault # None
         /\ pc[h] = "reserve" => job[h].id \in Uploads
         /\ pc[h] = "insert"  => job[h].id \in Files
         /\ pc[h] \in {"again", "join", "recount"} => job[h].account # None

At(step, v) == {h \in Handlers : pc[h] = step /\ job[h].vault = v}

\* Bytes committed to uploaded_files, or removed from it, that the counter of the
\* vault does not show yet.
Adding    == [h \in Handlers |-> AtLeastZero(job[h].delta)]
Releasing == [h \in Handlers |-> AtLeastZero(- job[h].delta)]
Coming(v)  == SumFunctionOnSet(Adding, At("bump", v))
Leaving(v) == SumFunctionOnSet(Releasing, At("bump", v))

\* While no process dies, the counter of a vault never shows less than what its rows
\* weigh, with what handlers under way have still to add and to take off: clamping at
\* 0 only loses releases.  With chunked uploads only it shows exactly that: no order
\* of init, abort, sweep and deletion counts a byte twice or releases it twice.
CounterFollows ==
    fails = 0 => \A v \in Vaults :
                    LET due == Weight(Owned(v)) + Leaving(v)
                    IN /\ total[v] + Coming(v) >= due
                       /\ v \notin Mixed => total[v] = due

\* A vault without an account stays within its limit whichever uploads start at
\* once, since the counter is read and raised under one lock.
UnbilledStaysUnder ==
    \A v \in Vaults \ Mixed : account[v] = None => total[v] <= VaultLimit

\* In a state: the first half of FinalIsFinal.
CompleteIsWhole ==
    \A u \in Uploads : file[u] = "complete" => \A i \in Chunks : chunk[u][i] # None

\* From finalization on, an upload has every chunk, and never another one: not through
\* a chunk that is sent again, nor an abort or a sweep at the same time.
FinalIsFinal ==
    [][\A u \in Uploads : file'[u] = "complete" =>
          /\ \A i \in Chunks : chunk'[u][i] # None
          /\ file[u] = "complete" => chunk'[u] = chunk[u]]_vars
-----------------------------------------------------------------------------
(* Why the types and the counters are right: an inductive strengthening.       *)

\* A handler that has still to insert a row is the only one with its id, and nobody
\* has inserted it.
IdsFresh ==
    /\ \A h \in Handlers : pc[h] \in {"reserve", "insert"} => file[job[h].id] = "none"
    /\ \A g, h \in Handlers : job[g].id # None /\ job[g].id = job[h].id => g = h

\* An upload that starts still owns the vault and the rows it has swept.
ReservationsHold ==
    /\ \A h \in Handlers : pc[h] = "reserve" =>
          \A f \in job[h].swept : file[f] = "uploading" /\ owner[f] = job[h].vault
    /\ \A g, h \in Handlers : /\ pc[g] = "reserve" /\ pc[h] = "reserve"
                               /\ job[g].vault = job[h].vault => g = h

\* A file sent at once is in a vault whose clients do so, and is never uploading.
FilesFit ==
    /\ \A f \in Ids : file[f] = "uploading" => f \in Uploads
    /\ \A h \in Handlers :
         /\ pc[h] = "insert" => job[h].delta = Size[job[h].id] /\ job[h].vault \in Mixed
         /\ pc[h] = "bump" => job[h].delta <= 0 \/ job[h].vault \in Mixed

QuotaInv == TypeOK /\ IdsFresh /\ ReservationsHold /\ FilesFit /\ CounterFollows

=============================================================================
