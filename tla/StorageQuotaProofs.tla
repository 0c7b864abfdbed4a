-------------------------- MODULE StorageQuotaProofs --------------------------
(***************************************************************************)
(* Theorems about StorageQuota, for any vaults, accounts, files, sizes and *)
(* limits, and any number of handlers and crashes: the types, what the     *)
(* counter of a vault shows, what a finalized upload holds, and the limit  *)
(* of a vault without an account.  What the counters are compared with is  *)
(* a sum over a finite set; SumTheorems says how it moves.                 *)
(***************************************************************************)
EXTENDS StorageQuota, SumTheorems

\* The handlers' records, as far as the rows depend on them: a file that is inserted
\* complete is never a chunked upload.
HandlersFit ==
    /\ DOMAIN pc = Handlers /\ DOMAIN job = Handlers
    /\ \A h \in Handlers : pc[h] = "insert" => job[h].id \in Files

RowsFit == /\ file \in [Ids -> {"none", "uploading", "complete", "gone"}]
           /\ chunk \in [Uploads -> [Chunks -> Contents \cup {None}]]

RowInv == HandlersFit /\ RowsFit /\ CompleteIsWhole

USE IdAssumption, JoinedAssumption

-----------------------------------------------------------------------------
LEMMA RowInit == Init => RowInv
  BY DEF Init, RowInv, HandlersFit, RowsFit, CompleteIsWhole, Ids

\* What a handler does changes its own step and record, and hardly ever inserts.
LEMMA HandlerSet ==
  ASSUME HandlersFit, NEW h \in Handlers, NEW step, Goto(h, step),
         UNCHANGED job \/ \E r : job' = [job EXCEPT ![h] = r], step # "insert"
  PROVE  HandlersFit'
  BY DEF HandlersFit, Goto

LEMMA Finished ==
  ASSUME HandlersFit, NEW h \in Handlers, Finish(h)
  PROVE  HandlersFit'
  BY HandlerSet DEF Finish

LEMMA HandlersNext ==
  ASSUME RowInv, [Next]_vars
  PROVE  HandlersFit'
<1>0. HandlersFit
  BY DEF RowInv
<1>1. CASE UNCHANGED <<pc, job>>
  BY <1>0, <1>1 DEF HandlersFit
<1>2. ASSUME NEW h \in Handlers, NEW v \in Vaults, NEW u \in Uploads, InitUpload(h, v, u)
      PROVE  HandlersFit'
  BY <1>0, <1>2, HandlerSet DEF InitUpload
<1>3. ASSUME NEW h \in Handlers, NEW v \in Vaults, NEW f \in Files, CheckUpload(h, v, f)
      PROVE  HandlersFit'
  <2>1. job'[h].id = f
    BY <1>0, <1>3 DEF CheckUpload, HandlersFit, Idle
  <2>2. /\ DOMAIN pc' = Handlers /\ DOMAIN job' = Handlers
        /\ \A x \in Handlers \ {h} : pc'[x] = pc[x] /\ job'[x] = job[x]
    BY <1>0, <1>3 DEF CheckUpload, HandlersFit, Goto
  <2> QED
    BY <1>0, <2>1, <2>2 DEF HandlersFit
<1>4. ASSUME NEW h \in Handlers, NEW v \in Vaults, NEW a \in Accounts, Ensure(h, v, a)
      PROVE  HandlersFit'
  <2>1. PICK step \in {"join", "recount"} : Goto(h, step)
    BY <1>4 DEF Ensure
  <2> QED
    BY <1>0, <1>4, <2>1, HandlerSet DEF Ensure
<1>5. ASSUME NEW h \in Handlers, NEW f \in Ids, Delete(h, f)
      PROVE  HandlersFit'
  BY <1>0, <1>5, HandlerSet DEF Delete
<1>6. ASSUME NEW h \in Handlers, Insert(h) \/ Bump(h) \/ Join(h)
      PROVE  HandlersFit'
  BY <1>0, <1>6, HandlerSet DEF Insert, Bump, Join
<1>7. ASSUME NEW h \in Handlers, Credit(h)
      PROVE  HandlersFit'
  <2>1. CASE Goto(h, "again") /\ UNCHANGED job
    BY <1>0, <2>1, HandlerSet
  <2> QED
    BY <1>0, <1>7, <2>1, Finished DEF Credit
<1>8. ASSUME NEW h \in Handlers,
             \/ Reserve(h) \/ RefuseUpload(h) \/ CreditAgain(h) \/ Recount(h) \/ Crash(h)
      PROVE  HandlersFit'
  BY <1>0, <1>8, Finished DEF Reserve, RefuseUpload, CreditAgain, Recount, Crash
<1>9. ASSUME NEW u \in Uploads, Finalize(u) \/ Abort(u) \/ GrowStale(u)
      PROVE  UNCHANGED <<pc, job>>
  BY <1>9 DEF Finalize, Abort, GrowStale
<1>10. ASSUME NEW u \in Uploads, NEW i \in Chunks, NEW c \in Contents, PutChunk(u, i, c)
       PROVE  UNCHANGED <<pc, job>>
  BY <1>10 DEF PutChunk
<1>11. CASE SweepAll \/ UNCHANGED vars
  BY <1>1, <1>11 DEF SweepAll, vars
<1> QED
  BY <1>1, <1>2, <1>3, <1>4, <1>5, <1>6, <1>7, <1>8, <1>9, <1>10, <1>11 DEF Next

-----------------------------------------------------------------------------
(* What a step may do to an upload. *)

Same(u)     == file'[u] = file[u] /\ chunk'[u] = chunk[u]
Removed(u)  == file'[u] = "gone" /\ chunk'[u] = [i \in Chunks |-> None]
Begun(u)    == file'[u] = "uploading" /\ chunk'[u] \in {chunk[u], [i \in Chunks |-> None]}
Filled(u)   == /\ file[u] = "uploading" /\ file'[u] = "uploading"
               /\ \E i \in Chunks, c \in Contents : chunk'[u] = [chunk[u] EXCEPT ![i] = c]
Closed(u)   == /\ file[u] = "uploading" /\ file'[u] = "complete"
               /\ AllChunks(u) /\ chunk'[u] = chunk[u]

UploadMove(u) == Same(u) \/ Removed(u) \/ Begun(u) \/ Filled(u) \/ Closed(u)

LEMMA Removing ==
  ASSUME RowInv, NEW F, Remove(F)
  PROVE  RowsFit' /\ \A u \in Uploads : UploadMove(u)
<1>1. /\ file' = [f \in Ids |-> IF f \in F THEN "gone" ELSE file[f]]
      /\ chunk' = [x \in Uploads |-> IF x \in F THEN [i \in Chunks |-> None] ELSE chunk[x]]
  BY DEF Remove, Without
<1>2. \A u \in Uploads : UploadMove(u)
  BY <1>1 DEF UploadMove, Same, Removed, Ids
<1>3. RowsFit'
  BY <1>1 DEF RowInv, RowsFit
<1> QED
  BY <1>2, <1>3

LEMMA UploadMoves ==
  ASSUME RowInv, [Next]_vars
  PROVE  RowsFit' /\ \A u \in Uploads : UploadMove(u)
<1> USE DEF rows
<1>0. RowsFit
  BY DEF RowInv
<1>1. CASE UNCHANGED <<file, chunk>>
  BY <1>0, <1>1 DEF UploadMove, Same, RowsFit
<1>2. ASSUME NEW h \in Handlers, Reserve(h)
      PROVE  RowsFit' /\ \A u \in Uploads : UploadMove(u)
  <2> DEFINE x == job[h].id
             S == job[h].swept
             base == [f \in Ids |-> IF f \in S THEN "gone" ELSE file[f]]
  <2>1. file' = [base EXCEPT ![x] = "uploading"]
    BY <1>2 DEF Reserve, Without
  <2>2. chunk' = [y \in Uploads |-> IF y \in S THEN [i \in Chunks |-> None] ELSE chunk[y]]
    BY <1>2 DEF Reserve, Without
  <2> HIDE DEF x, S
  <2>3. base \in [Ids -> {"none", "uploading", "complete", "gone"}]
    BY <1>0 DEF RowsFit
  <2>4. \A u \in Uploads : file'[u] = IF u = x THEN "uploading" ELSE base[u]
    BY <2>1, <2>3 DEF Ids
  <2>5. \A u \in Uploads : UploadMove(u)
    BY <2>2, <2>4 DEF UploadMove, Same, Removed, Begun, Ids
  <2>6. RowsFit'
    <3> HIDE DEF base
    <3> QED
      BY <1>0, <2>1, <2>2, <2>3 DEF RowsFit
  <2> QED
    BY <2>5, <2>6
<1>3. ASSUME NEW h \in Handlers, Insert(h)
      PROVE  RowsFit' /\ \A u \in Uploads : UploadMove(u)
  <2>1. job[h].id \notin Uploads
    BY <1>3 DEF Insert, RowInv, HandlersFit
  <2>2. RowsFit'
    BY <1>0, <1>3 DEF Insert, RowsFit
  <2>3. \A u \in Uploads : UploadMove(u)
    BY <1>0, <1>3, <2>1 DEF Insert, RowsFit, UploadMove, Same
  <2> QED
    BY <2>2, <2>3
<1>4. ASSUME NEW h \in Handlers, NEW f \in Ids, Delete(h, f)
      PROVE  RowsFit' /\ \A u \in Uploads : UploadMove(u)
  BY <1>4, Removing DEF Delete
<1>5. ASSUME NEW x \in Uploads, NEW i \in Chunks, NEW c \in Contents, PutChunk(x, i, c)
      PROVE  RowsFit' /\ \A u \in Uploads : UploadMove(u)
  <2>1. file[x] = "uploading" /\ chunk' = [chunk EXCEPT ![x] = [chunk[x] EXCEPT ![i] = c]]
    BY <1>0, <1>5 DEF PutChunk, Uploading, RowsFit
  <2>2. RowsFit'
    BY <1>0, <1>5, <2>1 DEF PutChunk, RowsFit
  <2>3. \A u \in Uploads : UploadMove(u)
    <3>1. UNCHANGED file
      BY <1>5 DEF PutChunk
    <3>2. Filled(x)
      BY <1>0, <2>1, <3>1 DEF RowsFit, Filled
    <3>3. \A u \in Uploads \ {x} : Same(u)
      BY <1>0, <2>1, <3>1 DEF RowsFit, Same
    <3> QED
      BY <3>2, <3>3 DEF UploadMove
  <2> QED
    BY <2>2, <2>3
<1>6. ASSUME NEW x \in Uploads, Finalize(x)
      PROVE  RowsFit' /\ \A u \in Uploads : UploadMove(u)
  BY <1>0, <1>6 DEF Finalize, RowsFit, UploadMove, Same, Closed, Ids
<1>7. ASSUME NEW x \in Uploads, Abort(x)
      PROVE  RowsFit' /\ \A u \in Uploads : UploadMove(u)
  BY <1>7, Removing DEF Abort
<1>8. CASE SweepAll
  BY <1>8, Removing DEF SweepAll
<1>9. ASSUME NEW x \in Uploads, GrowStale(x)
      PROVE  RowsFit' /\ \A u \in Uploads : UploadMove(u)
  BY <1>1, <1>9 DEF GrowStale
<1>10. ASSUME NEW h \in Handlers, NEW v \in Vaults,
              \/ \E x \in Uploads : InitUpload(h, v, x)
              \/ \E f \in Files : CheckUpload(h, v, f)
              \/ \E a \in Accounts : Ensure(h, v, a)
       PROVE  RowsFit' /\ \A u \in Uploads : UploadMove(u)
  BY <1>1, <1>10 DEF InitUpload, CheckUpload, Ensure
<1>11. ASSUME NEW h \in Handlers,
              \/ RefuseUpload(h) \/ Bump(h) \/ Credit(h) \/ CreditAgain(h) \/ Join(h)
              \/ Recount(h) \/ Crash(h)
       PROVE  RowsFit' /\ \A u \in Uploads : UploadMove(u)
  BY <1>1, <1>11 DEF RefuseUpload, Bump, Credit, CreditAgain, Join, Recount, Crash
<1>12. CASE UNCHANGED vars
  BY <1>1, <1>12 DEF vars
<1> QED
  BY <1>2, <1>3, <1>4, <1>5, <1>6, <1>7, <1>8, <1>9, <1>10, <1>11, <1>12 DEF Next

LEMMA RowNext == RowInv /\ [Next]_vars => RowInv'
<1> SUFFICES ASSUME RowInv, [Next]_vars PROVE RowInv'
  OBVIOUS
<1>1. HandlersFit'
  BY HandlersNext
<1>2. RowsFit'
  BY UploadMoves
<1>3. ASSUME NEW u \in Uploads, file'[u] = "complete", NEW i \in Chunks
      PROVE  chunk'[u][i] # None
  BY <1>3, UploadMoves
     DEF UploadMove, Same, Removed, Begun, Filled, Closed, AllChunks, RowInv, CompleteIsWhole
<1>4. CompleteIsWhole'
  BY <1>3 DEF CompleteIsWhole
<1> QED
  BY <1>1, <1>2, <1>4 DEF RowInv

-----------------------------------------------------------------------------
(* Types.  The counters, the rows and the handlers apart.                      *)

SumTypes == /\ account \in [Vaults -> Accounts \cup {None}]
            /\ total \in [Vaults -> Nat] /\ used \in [Accounts -> Nat \cup {None}]
            /\ fails \in Nat

RowTypes ==
    /\ file \in [Ids -> {"none", "uploading", "complete", "gone"}]
    /\ owner \in [Ids -> Vaults \cup {None}]
    /\ \A f \in Ids : owner[f] # None <=> file[f] \in {"uploading", "complete"}
    /\ stale \in [Ids -> BOOLEAN]
    /\ chunk \in [Uploads -> [Chunks -> Contents \cup {None}]]

\* What a handler works on at a step is there.
Equipped(step, q) ==
    /\ step # "idle" => q.vault # None
    /\ step = "reserve" => q.id \in Uploads
    /\ step = "insert"  => q.id \in Files
    /\ step \in {"again", "join", "recount"} => q.account # None

HandlerTypes == /\ pc \in [Handlers -> Steps] /\ job \in [Handlers -> Jobs]
                /\ \A h \in Handlers : Equipped(pc[h], job[h])

LEMMA TypeParts == TypeOK <=> SumTypes /\ RowTypes /\ HandlerTypes
  BY DEF TypeOK, SumTypes, RowTypes, HandlerTypes, Equipped

LEMMA TypesBack == SumTypes' /\ RowTypes' /\ HandlerTypes' => TypeOK'
  BY DEF TypeOK, SumTypes, RowTypes, HandlerTypes, Equipped

LEMMA TypesApart == TypeOK' => SumTypes' /\ RowTypes' /\ HandlerTypes'
  BY DEF TypeOK, SumTypes, RowTypes, HandlerTypes, Equipped

LEMMA WeightNat ==
  ASSUME NEW S \in SUBSET Ids
  PROVE  IsFiniteSet(S) /\ Weight(S) \in Nat
<1>1. IsFiniteSet(S) /\ \A f \in S : Size[f] \in Nat
  BY FiniteAssumption, SizeAssumption, FS_Subset DEF Ids
<1> QED
  BY <1>1, SumNat DEF Weight

\* What a set of files weighs without some of them, and with one more.
LEMMA WeightSplit ==
  ASSUME NEW S \in SUBSET Ids, NEW T \in SUBSET S
  PROVE  Weight(S) = Weight(T) + Weight(S \ T)
<1>1. IsFiniteSet(S) /\ \A f \in S : Size[f] \in Nat
  BY FiniteAssumption, SizeAssumption, FS_Subset DEF Ids
<1> QED
  BY <1>1, SumSplit DEF Weight

LEMMA WeightAdd ==
  ASSUME NEW S \in SUBSET Ids, NEW f \in Ids \ S
  PROVE  Weight(S \cup {f}) = Size[f] + Weight(S)
<1>1. IsFiniteSet(S) /\ \A g \in S \cup {f} : Size[g] \in Nat
  BY FiniteAssumption, SizeAssumption, FS_Subset DEF Ids
<1> QED
  BY <1>1, SumAdd DEF Weight

LEMMA SumOfNat ==
  ASSUME SumTypes, NEW a
  PROVE  SumOf(a) \in Nat
<1> DEFINE S == {v \in Vaults : account[v] = a}
<1>1. IsFiniteSet(S) /\ \A v \in S : total[v] \in Nat
  BY FiniteAssumption, FS_Subset DEF SumTypes
<1> QED
  BY <1>1, SumNat DEF SumOf

LEMMA Clamped ==
  ASSUME NEW n \in Int
  PROVE  AtLeastZero(n) \in Nat /\ AtLeastZero(n) >= n /\ (n >= 0 => AtLeastZero(n) = n)
  BY DEF AtLeastZero

LEMMA IdleJob == Idle \in Jobs /\ Equipped("idle", Idle)
<1>1. 0 \in Deltas
  BY DEF Deltas
<1> QED
  BY <1>1 DEF Idle, Jobs, Equipped

LEMMA SizeDeltas ==
  ASSUME NEW f \in Ids
  PROVE  Size[f] \in Deltas /\ - Size[f] \in Deltas /\ Size[f] \in Nat \ {0}
  BY SizeAssumption DEF Deltas, Ids

LEMMA DeltasInt == Deltas \subseteq Int
  BY SizeAssumption DEF Deltas, Ids

LEMMA JobSet ==
  ASSUME HandlerTypes, NEW h \in Handlers, NEW step \in Steps, Goto(h, step), NEW q \in Jobs,
         (UNCHANGED job /\ q = job[h]) \/ job' = [job EXCEPT ![h] = q], Equipped(step, q)
  PROVE  HandlerTypes'
<1>1. /\ pc' \in [Handlers -> Steps] /\ job' \in [Handlers -> Jobs]
      /\ pc'[h] = step /\ job'[h] = q
      /\ \A g \in Handlers \ {h} : pc'[g] = pc[g] /\ job'[g] = job[g]
  BY DEF HandlerTypes, Goto
<1> QED
  BY <1>1 DEF HandlerTypes

LEMMA JobDone ==
  ASSUME HandlerTypes, NEW h \in Handlers, Finish(h)
  PROVE  HandlerTypes'
<1>1. "idle" \in Steps
  BY DEF Steps
<1> QED
  BY <1>1, IdleJob, JobSet DEF Finish

LEMMA QuotaInit == Init => QuotaInv
<1> SUFFICES ASSUME Init PROVE QuotaInv
  OBVIOUS
<1>1. SumTypes /\ RowTypes
  BY JoinedAssumption DEF Init, SumTypes, RowTypes
<1>2. HandlerTypes
  BY IdleJob DEF Init, HandlerTypes, Steps
<1>3. IdsFresh /\ ReservationsHold /\ FilesFit
  BY DEF Init, IdsFresh, ReservationsHold, FilesFit, Idle
<1>4. ASSUME NEW v \in Vaults
      PROVE  total[v] = 0 /\ Weight(Owned(v)) = 0 /\ Coming(v) = 0 /\ Leaving(v) = 0
  <2>1. Owned(v) = {} /\ At("bump", v) = {}
    BY DEF Init, Owned, At
  <2> QED
    BY <2>1, SumEmpty DEF Init, Weight, Coming, Leaving
<1>5. CounterFollows
  BY <1>4 DEF CounterFollows
<1> QED
  BY <1>1, <1>2, <1>3, <1>5, TypeParts DEF QuotaInv

LEMMA RowsGone ==
  ASSUME RowTypes, NEW F, Remove(F)
  PROVE  RowTypes'
<1>1. /\ file' = [f \in Ids |-> IF f \in F THEN "gone" ELSE file[f]]
      /\ owner' = [f \in Ids |-> IF f \in F THEN None ELSE owner[f]]
      /\ stale' = [f \in Ids |-> f \notin F /\ stale[f]]
      /\ chunk' = [u \in Uploads |-> IF u \in F THEN [i \in Chunks |-> None] ELSE chunk[u]]
  BY DEF Remove, Without
<1>2. stale' \in [Ids -> BOOLEAN]
  BY <1>1
<1>3. chunk' \in [Uploads -> [Chunks -> Contents \cup {None}]]
  BY <1>1 DEF RowTypes
<1>4. file' \in [Ids -> {"none", "uploading", "complete", "gone"}]
  BY <1>1 DEF RowTypes
<1>5. owner' \in [Ids -> Vaults \cup {None}]
  BY <1>1 DEF RowTypes
<1>6. \A f \in Ids : owner'[f] # None <=> file'[f] \in {"uploading", "complete"}
  BY <1>1 DEF RowTypes
<1> QED
  BY <1>2, <1>3, <1>4, <1>5, <1>6 DEF RowTypes

LEMMA UsedNat ==
  ASSUME SumTypes, NEW a \in Accounts
  PROVE  UsedOf(a) \in Nat
  BY DEF SumTypes, UsedOf

LEMMA Crediting ==
  ASSUME SumTypes, NEW a \in Accounts, NEW d \in Int, used' = Credited(a, d),
         UNCHANGED <<account, total, fails>>
  PROVE  SumTypes'
<1>1. AtLeastZero(UsedOf(a) + AtLeastZero(d)) \in Nat
  BY UsedNat, Clamped
<1> QED
  BY <1>1 DEF SumTypes, Credited

\* The vault, the file and the account a handler works on.
LEMMA JobFits ==
  ASSUME HandlerTypes, NEW h \in Handlers
  PROVE  /\ job[h] \in Jobs /\ job[h].delta \in Int /\ job[h].swept \in SUBSET Ids
         /\ pc[h] # "idle" => job[h].vault \in Vaults
         /\ pc[h] \in {"again", "join", "recount"} => job[h].account \in Accounts
         /\ pc[h] \in {"reserve", "insert"} => job[h].id \in Ids /\ Size[job[h].id] \in Nat
  BY SizeAssumption, DeltasInt DEF HandlerTypes, Equipped, Jobs, Ids

LEMMA InitUploadTypes ==
  ASSUME QuotaInv, NEW h \in Handlers, NEW v \in Vaults, NEW u \in Uploads, InitUpload(h, v, u)
  PROVE  TypeOK'
<1> DEFINE base(a)  == IF a = None THEN AtLeastZero(total[v] - Weight(Stale(v)))
                       ELSE UsedOf(a)
           limit(a) == IF a = None THEN VaultLimit ELSE Included
           job1(a)  == [vault |-> v, id |-> u, delta |-> Size[u], swept |-> Stale(v),
                        base |-> base(a), limit |-> limit(a), account |-> None]
<1>0. PICK a \in Found(v) : job' = [job EXCEPT ![h] = job1(a)]
  BY DEF InitUpload
<1> DEFINE q == job1(a)
<1>1. SumTypes /\ RowTypes /\ HandlerTypes /\ FilesFit
  BY TypeParts DEF QuotaInv
<1>2. Stale(v) \in SUBSET Uploads /\ Stale(v) \in SUBSET Ids
  BY <1>1 DEF Stale, Owned, FilesFit
<1>3. total[v] \in Nat /\ Weight(Stale(v)) \in Nat /\ a \in Accounts \cup {None}
  BY <1>1, <1>2, WeightNat DEF SumTypes, Found
<1>4. base(a) \in Nat
  BY <1>1, <1>3, Clamped, UsedNat
<1>5. Size[u] \in Deltas
  BY SizeDeltas DEF Ids
<1>6. /\ job' = [job EXCEPT ![h] = q] /\ Goto(h, "reserve") /\ "reserve" \in Steps
      /\ UNCHANGED <<account, total, used, file, owner, stale, chunk, fails>>
  BY <1>0 DEF InitUpload, Steps, sums, rows
<1>7. limit(a) \in {0, VaultLimit, Included}
  OBVIOUS
<1> HIDE DEF base, limit
<1>8. q \in Jobs
  BY <1>2, <1>3, <1>4, <1>5, <1>7 DEF Jobs, Ids
<1>9. Equipped("reserve", q)
  BY JoinedAssumption DEF Equipped
<1> HIDE DEF q
<1>10. HandlerTypes'
  BY <1>1, <1>6, <1>8, <1>9, JobSet
<1> QED
  BY <1>1, <1>6, <1>10, TypesBack DEF SumTypes, RowTypes

LEMMA CheckUploadTypes ==
  ASSUME QuotaInv, NEW h \in Handlers, NEW v \in Vaults, NEW f \in Files, CheckUpload(h, v, f)
  PROVE  TypeOK'
<1>0. PICK a \in Found(v) : job' = [job EXCEPT ![h] =
         [Idle EXCEPT !.vault = v, !.id = f, !.delta = Size[f], !.account = a]]
  BY DEF CheckUpload
<1> DEFINE q == [Idle EXCEPT !.vault = v, !.id = f, !.delta = Size[f], !.account = a]
<1>1. SumTypes /\ RowTypes /\ HandlerTypes
  BY TypeParts DEF QuotaInv
<1>2. Size[f] \in Deltas /\ a \in Accounts \cup {None} /\ Idle \in Jobs
  BY <1>1, SizeDeltas, IdleJob DEF SumTypes, Ids, Found
<1>3. /\ job' = [job EXCEPT ![h] = q] /\ Goto(h, "insert") /\ "insert" \in Steps
      /\ UNCHANGED <<account, total, used, file, owner, stale, chunk, fails>>
  BY <1>0 DEF CheckUpload, Steps, sums, rows
<1>4. q \in Jobs /\ Equipped("insert", q)
  BY <1>2, JoinedAssumption DEF Jobs, Idle, Equipped, Ids
<1> HIDE DEF q
<1>5. HandlerTypes'
  BY <1>1, <1>3, <1>4, JobSet
<1> QED
  BY <1>1, <1>3, <1>5, TypesBack DEF SumTypes, RowTypes

LEMMA EnsureTypes ==
  ASSUME QuotaInv, NEW h \in Handlers, NEW v \in Vaults, NEW a \in Accounts, Ensure(h, v, a)
  PROVE  TypeOK'
<1> DEFINE q == [Idle EXCEPT !.vault = v, !.account = a]
<1>1. SumTypes /\ RowTypes /\ HandlerTypes
  BY TypeParts DEF QuotaInv
<1>2. PICK step \in {"join", "recount"} : Goto(h, step)
  BY DEF Ensure
<1>3. /\ job' = [job EXCEPT ![h] = q] /\ step \in Steps
      /\ UNCHANGED <<account, total, used, file, owner, stale, chunk, fails>>
  BY DEF Ensure, Steps, sums, rows
<1>4. q \in Jobs /\ Equipped(step, q)
  BY IdleJob, JoinedAssumption DEF Jobs, Idle, Equipped
<1> HIDE DEF q
<1>5. HandlerTypes'
  BY <1>1, <1>2, <1>3, <1>4, JobSet
<1> QED
  BY <1>1, <1>3, <1>5, TypesBack DEF SumTypes, RowTypes

LEMMA DeleteTypes ==
  ASSUME QuotaInv, NEW h \in Handlers, NEW f \in Ids, Delete(h, f)
  PROVE  TypeOK'
<1> DEFINE q == [Idle EXCEPT !.vault = owner[f], !.delta = - Size[f]]
<1>1. SumTypes /\ RowTypes /\ HandlerTypes
  BY TypeParts DEF QuotaInv
<1>2. owner[f] \in Vaults /\ - Size[f] \in Deltas
  BY <1>1, SizeDeltas DEF Delete, RowTypes
<1>3. /\ job' = [job EXCEPT ![h] = q] /\ Goto(h, "bump") /\ "bump" \in Steps /\ Remove({f})
      /\ UNCHANGED <<account, total, used, fails>>
  BY DEF Delete, Steps, sums
<1>4. q \in Jobs /\ Equipped("bump", q)
  BY <1>2, IdleJob, JoinedAssumption DEF Jobs, Idle, Equipped
<1> HIDE DEF q
<1>5. HandlerTypes'
  BY <1>1, <1>3, <1>4, JobSet
<1>6. RowTypes'
  BY <1>1, <1>3, RowsGone
<1> QED
  BY <1>1, <1>3, <1>5, <1>6, TypesBack DEF SumTypes

LEMMA ReserveTypes ==
  ASSUME QuotaInv, NEW h \in Handlers, Reserve(h)
  PROVE  TypeOK'
<1> DEFINE v == job[h].vault
           u == job[h].id
           S == job[h].swept
           n == AtLeastZero(total[v] - Weight(S)) + Size[u]
           files == [f \in Ids |-> IF f \in S THEN "gone" ELSE file[f]]
           owners == [f \in Ids |-> IF f \in S THEN None ELSE owner[f]]
<1>1. SumTypes /\ RowTypes /\ HandlerTypes
  BY TypeParts DEF QuotaInv
<1>2. v \in Vaults /\ u \in Uploads /\ u \in Ids /\ S \in SUBSET Ids /\ Size[u] \in Nat
  BY <1>1, JobFits DEF Reserve, HandlerTypes, Equipped, Ids
<1>3. n \in Nat
  BY <1>1, <1>2, WeightNat, Clamped DEF SumTypes
<1>4. /\ total' = [total EXCEPT ![v] = n] /\ Finish(h) /\ UNCHANGED <<account, used, fails>>
      /\ file' = [files EXCEPT ![u] = "uploading"]
      /\ owner' = [owners EXCEPT ![u] = v]
      /\ stale' = [f \in Ids |-> f \notin S /\ stale[f]]
      /\ chunk' = [x \in Uploads |-> IF x \in S THEN [i \in Chunks |-> None] ELSE chunk[x]]
  BY DEF Reserve, Without
<1>5. files \in [Ids -> {"none", "uploading", "complete", "gone"}]
  BY <1>1 DEF RowTypes
<1>6. owners \in [Ids -> Vaults \cup {None}]
  BY <1>1 DEF RowTypes
<1>7. \A f \in Ids : owners[f] # None <=> files[f] \in {"uploading", "complete"}
  BY <1>1 DEF RowTypes
<1> HIDE DEF n, v, u, S, files, owners
<1>8. SumTypes'
  BY <1>1, <1>3, <1>4 DEF SumTypes
<1>9. /\ file' \in [Ids -> {"none", "uploading", "complete", "gone"}]
      /\ owner' \in [Ids -> Vaults \cup {None}]
      /\ stale' \in [Ids -> BOOLEAN]
  BY <1>2, <1>4, <1>5, <1>6
<1>10. chunk' \in [Uploads -> [Chunks -> Contents \cup {None}]]
  BY <1>1, <1>4 DEF RowTypes
<1>11. \A f \in Ids : owner'[f] # None <=> file'[f] \in {"uploading", "complete"}
  BY <1>2, <1>4, <1>5, <1>6, <1>7, JoinedAssumption
<1>12. RowTypes'
  BY <1>9, <1>10, <1>11 DEF RowTypes
<1>13. HandlerTypes'
  BY <1>1, <1>4, JobDone
<1> QED
  BY <1>8, <1>12, <1>13, TypesBack

LEMMA InsertTypes ==
  ASSUME QuotaInv, NEW h \in Handlers, Insert(h)
  PROVE  TypeOK'
<1>1. SumTypes /\ RowTypes /\ HandlerTypes
  BY TypeParts DEF QuotaInv
<1>2. job[h].vault \in Vaults /\ job[h].id \in Files /\ job[h].id \in Ids /\ job[h] \in Jobs
  BY <1>1, JobFits DEF Insert, HandlerTypes, Equipped, Ids
<1>3. RowTypes'
  BY <1>1, <1>2, JoinedAssumption DEF Insert, RowTypes
<1>4. Equipped("bump", job[h]) /\ "bump" \in Steps
  BY <1>2, JoinedAssumption DEF Equipped, Steps
<1>5. HandlerTypes'
  BY <1>1, <1>2, <1>4, JobSet DEF Insert
<1> QED
  BY <1>1, <1>3, <1>5, TypesBack DEF Insert, SumTypes, sums

LEMMA BumpTypes ==
  ASSUME QuotaInv, NEW h \in Handlers, Bump(h)
  PROVE  TypeOK'
<1> DEFINE v == job[h].vault
           n == AtLeastZero(total[v] + job[h].delta)
<1>1. SumTypes /\ RowTypes /\ HandlerTypes
  BY TypeParts DEF QuotaInv
<1>2. v \in Vaults /\ job[h].delta \in Int /\ job[h] \in Jobs
  BY <1>1, JobFits DEF Bump
<1>3. n \in Nat
  BY <1>1, <1>2, Clamped DEF SumTypes
<1>4. total' = [total EXCEPT ![v] = n] /\ UNCHANGED <<account, used, rows, job, fails>>
      /\ Goto(h, "credit")
  BY DEF Bump
<1> HIDE DEF n
<1>5. SumTypes'
  BY <1>1, <1>3, <1>4 DEF SumTypes
<1>6. Equipped("credit", job[h]) /\ "credit" \in Steps
  BY <1>2, JoinedAssumption DEF Equipped, Steps
<1>7. HandlerTypes'
  BY <1>1, <1>2, <1>4, <1>6, JobSet
<1> QED
  BY <1>1, <1>4, <1>5, <1>7, TypesBack DEF RowTypes, rows

LEMMA CreditTypes ==
  ASSUME QuotaInv, NEW h \in Handlers, Credit(h) \/ CreditAgain(h)
  PROVE  TypeOK'
<1>1. SumTypes /\ RowTypes /\ HandlerTypes
  BY TypeParts DEF QuotaInv
<1>2. job[h].vault \in Vaults /\ job[h].delta \in Int /\ job[h] \in Jobs
  BY <1>1, JobFits DEF Credit, CreditAgain
<1>3. SumTypes'
  <2>1. CASE Credit(h)
    <3>0. PICK a \in Found(job[h].vault) :
            used' = IF a = None THEN used ELSE Credited(a, job[h].delta)
      BY <2>1 DEF Credit
    <3>1. a \in Accounts \cup {None}
      BY <1>1, <1>2 DEF SumTypes, Found
    <3>2. CASE a = None
      BY <1>1, <2>1, <3>0, <3>2 DEF Credit, SumTypes
    <3>3. CASE a # None
      BY <1>1, <1>2, <2>1, <3>0, <3>1, <3>3, Crediting DEF Credit
    <3> QED
      BY <3>2, <3>3
  <2>2. CASE CreditAgain(h)
    BY <1>1, <1>2, <2>2, JobFits, Crediting DEF CreditAgain
  <2> QED
    BY <2>1, <2>2
<1>4. HandlerTypes'
  <2>1. CASE Goto(h, "again") /\ UNCHANGED job /\ job[h].account # None
    <3>1. Equipped("again", job[h]) /\ "again" \in Steps
      BY <1>2, <2>1, JoinedAssumption DEF Equipped, Steps
    <3> QED
      BY <1>1, <1>2, <2>1, <3>1, JobSet
  <2> QED
    BY <1>1, <2>1, JobDone DEF Credit, CreditAgain
<1> QED
  BY <1>1, <1>3, <1>4, TypesBack DEF Credit, CreditAgain, RowTypes, rows

LEMMA JoinTypes ==
  ASSUME QuotaInv, NEW h \in Handlers, Join(h)
  PROVE  TypeOK'
<1>1. SumTypes /\ RowTypes /\ HandlerTypes
  BY TypeParts DEF QuotaInv
<1>2. job[h].vault \in Vaults /\ job[h].account \in Accounts /\ job[h] \in Jobs
  BY <1>1, JobFits DEF Join
<1>3. SumTypes'
  BY <1>1, <1>2 DEF Join, SumTypes
<1>4. Equipped("recount", job[h]) /\ "recount" \in Steps
  BY <1>2, JoinedAssumption DEF Equipped, Steps
<1>5. HandlerTypes'
  BY <1>1, <1>2, <1>4, JobSet DEF Join
<1> QED
  BY <1>1, <1>3, <1>5, TypesBack DEF Join, RowTypes, rows

LEMMA RecountTypes ==
  ASSUME QuotaInv, NEW h \in Handlers, Recount(h)
  PROVE  TypeOK'
<1>1. SumTypes /\ RowTypes /\ HandlerTypes
  BY TypeParts DEF QuotaInv
<1>2. SumOf(job[h].account) \in Nat /\ job[h].account \in Accounts
  BY <1>1, SumOfNat, JobFits DEF Recount
<1>3. SumTypes'
  BY <1>1, <1>2 DEF Recount, SumTypes
<1>4. HandlerTypes'
  BY <1>1, JobDone DEF Recount
<1> QED
  BY <1>1, <1>3, <1>4, TypesBack DEF Recount, RowTypes, rows

\* The steps of no handler.
LEMMA OutsideTypes ==
  ASSUME QuotaInv,
         \/ UNCHANGED vars
         \/ SweepAll
         \/ \E u \in Uploads : \/ \E i \in Chunks, c \in Contents : PutChunk(u, i, c)
                               \/ Finalize(u) \/ Abort(u) \/ GrowStale(u)
  PROVE  TypeOK'
<1>1. SumTypes /\ RowTypes /\ HandlerTypes
  BY TypeParts DEF QuotaInv
<1>2. HandlerTypes'
  BY <1>1 DEF vars, SweepAll, PutChunk, Finalize, Abort, GrowStale, HandlerTypes
<1>3. CASE UNCHANGED vars
  BY <1>1, <1>2, <1>3, TypesBack DEF vars, sums, rows, SumTypes, RowTypes
<1>4. CASE SweepAll
  <2>1. \A v \in Vaults : AtLeastZero(total[v] - Weight(Stale(v))) \in Nat
    <3> SUFFICES ASSUME NEW v \in Vaults
                 PROVE  AtLeastZero(total[v] - Weight(Stale(v))) \in Nat
      OBVIOUS
    <3>1. Stale(v) \in SUBSET Ids /\ total[v] \in Nat
      BY <1>1 DEF Stale, Owned, SumTypes
    <3> QED
      BY <3>1, WeightNat, Clamped
  <2>2. SumTypes'
    BY <1>1, <1>4, <2>1 DEF SweepAll, Freed, SumTypes
  <2>3. RowTypes'
    BY <1>1, <1>4, RowsGone DEF SweepAll
  <2> QED
    BY <1>2, <2>2, <2>3, TypesBack
<1>5. ASSUME NEW u \in Uploads, Abort(u)
      PROVE  TypeOK'
  <2>1. owner[u] \in Vaults /\ Size[u] \in Nat
    BY <1>1, <1>5, SizeAssumption DEF Abort, RowTypes, Ids
  <2>2. AtLeastZero(total[owner[u]] - Size[u]) \in Nat
    BY <1>1, <2>1, Clamped DEF SumTypes
  <2>3. SumTypes'
    BY <1>1, <1>5, <2>2 DEF Abort, SumTypes
  <2>4. RowTypes'
    BY <1>1, <1>5, RowsGone DEF Abort
  <2> QED
    BY <1>2, <2>3, <2>4, TypesBack
<1>6. ASSUME NEW u \in Uploads, NEW i \in Chunks, NEW c \in Contents, PutChunk(u, i, c)
      PROVE  TypeOK'
  BY <1>1, <1>2, <1>6, TypesBack DEF PutChunk, sums, SumTypes, RowTypes
<1>7. ASSUME NEW u \in Uploads, Finalize(u) \/ GrowStale(u)
      PROVE  TypeOK'
  <2>1. UNCHANGED <<account, total, used, fails, owner, chunk>>
    BY <1>7 DEF Finalize, GrowStale, sums
  <2>2. SumTypes'
    BY <1>1, <2>1 DEF SumTypes
  <2>3. CASE Finalize(u)
    <3>1. file' = [file EXCEPT ![u] = "complete"] /\ UNCHANGED stale /\ u \in Ids
          /\ file[u] = "uploading"
      BY <2>3 DEF Finalize, Ids
    <3>2. RowTypes'
      BY <1>1, <2>1, <3>1 DEF RowTypes
    <3> QED
      BY <1>2, <2>2, <3>2, TypesBack
  <2>4. CASE GrowStale(u)
    <3>1. stale' = [stale EXCEPT ![u] = TRUE] /\ UNCHANGED file
      BY <2>4 DEF GrowStale
    <3>2. RowTypes'
      BY <1>1, <2>1, <3>1 DEF RowTypes
    <3> QED
      BY <1>2, <2>2, <3>2, TypesBack
  <2> QED
    BY <1>7, <2>3, <2>4
<1> QED
  BY <1>3, <1>4, <1>5, <1>6, <1>7

LEMMA TypesNext == QuotaInv /\ [Next]_vars => TypeOK'
<1> SUFFICES ASSUME QuotaInv, [Next]_vars PROVE TypeOK'
  OBVIOUS
<1>1. ASSUME NEW h \in Handlers, RefuseUpload(h) \/ Crash(h)
      PROVE  TypeOK'
  <2>1. SumTypes /\ RowTypes /\ HandlerTypes
    BY TypeParts DEF QuotaInv
  <2>2. HandlerTypes'
    BY <1>1, <2>1, JobDone DEF RefuseUpload, Crash
  <2>3. SumTypes' /\ RowTypes'
    BY <1>1, <2>1 DEF RefuseUpload, Crash, sums, rows, SumTypes, RowTypes
  <2> QED
    BY <2>2, <2>3, TypesBack
<1> QED
  BY <1>1, InitUploadTypes, CheckUploadTypes, EnsureTypes, DeleteTypes, ReserveTypes,
     InsertTypes, BumpTypes, CreditTypes, JoinTypes, RecountTypes, OutsideTypes DEF Next

-----------------------------------------------------------------------------
(* Who may touch what: the ids of handlers under way, the rows a reservation has  *)
(* swept, and where files that are sent at once end up.                            *)

Guards == IdsFresh /\ ReservationsHold /\ FilesFit

Sets(h, step, q) == /\ pc'[h] = step /\ job'[h] = q
                    /\ \A g \in Handlers \ {h} : pc'[g] = pc[g] /\ job'[g] = job[g]

LEMMA SetsOnly ==
  ASSUME HandlerTypes, NEW h \in Handlers, NEW step, Goto(h, step), NEW q,
         (UNCHANGED job /\ q = job[h]) \/ job' = [job EXCEPT ![h] = q]
  PROVE  Sets(h, step, q)
  BY DEF HandlerTypes, Goto, Sets

LEMMA IdleOnly ==
  ASSUME HandlerTypes, NEW h \in Handlers, Finish(h)
  PROVE  Sets(h, "idle", Idle)
  BY SetsOnly DEF Finish

\* A step of a handler keeps the guards if it takes nothing that others hold.
LEMMA GuardSet ==
  ASSUME QuotaInv, NEW h \in Handlers, NEW step, NEW q, Sets(h, step, q), step # "reserve",
         step = "insert" => /\ q.delta = Size[q.id] /\ q.vault \in Mixed
                            /\ file'[q.id] = "none",
         step = "bump" => q.delta <= 0 \/ q.vault \in Mixed,
         q.id \in {None, job[h].id} \/ \A g \in Handlers : job[g].id # q.id,
         \A g \in Handlers \ {h} : pc[g] \in {"reserve", "insert"} => file'[job[g].id] = "none",
         \A g \in Handlers \ {h} : pc[g] = "reserve" =>
            \A f \in job[g].swept : file'[f] = file[f] /\ owner'[f] = owner[f],
         \A f \in Ids : file'[f] = "uploading" => f \in Uploads
  PROVE  Guards'
<1>1. IdsFresh /\ ReservationsHold /\ FilesFit
  BY DEF QuotaInv
<1>2. IdsFresh'
  <2>1. \A g \in Handlers : pc'[g] \in {"reserve", "insert"} => file'[job'[g].id] = "none"
    BY <1>1 DEF Sets, IdsFresh
  <2>2. \A f, g \in Handlers : job'[f].id # None /\ job'[f].id = job'[g].id => f = g
    BY <1>1 DEF Sets, IdsFresh
  <2> QED
    BY <2>1, <2>2 DEF IdsFresh
<1>3. ReservationsHold'
  <2>1. \A g \in Handlers : pc'[g] = "reserve" =>
          g # h /\ pc[g] = "reserve" /\ job'[g] = job[g]
    BY DEF Sets
  <2> QED
    BY <1>1, <2>1 DEF ReservationsHold
<1>4. FilesFit'
  <2>1. \A g \in Handlers :
          /\ pc'[g] = "insert" => job'[g].delta = Size[job'[g].id] /\ job'[g].vault \in Mixed
          /\ pc'[g] = "bump" => job'[g].delta <= 0 \/ job'[g].vault \in Mixed
    BY <1>1 DEF Sets, FilesFit
  <2> QED
    BY <2>1 DEF FilesFit
<1> QED
  BY <1>2, <1>3, <1>4 DEF Guards

\* With no row changed, only what the handler goes on with matters.
LEMMA GuardQuiet ==
  ASSUME QuotaInv, NEW h \in Handlers, NEW step, NEW q, Sets(h, step, q), step # "reserve",
         step = "insert" => /\ q.delta = Size[q.id] /\ q.vault \in Mixed
                            /\ file[q.id] = "none",
         step = "bump" => q.delta <= 0 \/ q.vault \in Mixed,
         q.id \in {None, job[h].id} \/ \A g \in Handlers : job[g].id # q.id,
         UNCHANGED <<file, owner>>
  PROVE  Guards'
<1>1. IdsFresh /\ FilesFit
  BY DEF QuotaInv
<1>2. \A g \in Handlers \ {h} : pc[g] \in {"reserve", "insert"} => file'[job[g].id] = "none"
  BY <1>1 DEF IdsFresh
<1>3. \A f \in Ids : file'[f] = "uploading" => f \in Uploads
  BY <1>1 DEF FilesFit
<1> QED
  BY <1>2, <1>3, GuardSet

\* A step of no handler leaves alone the rows that a reservation holds.
LEMMA GuardOutside ==
  ASSUME QuotaInv, UNCHANGED <<pc, job>>,
         \A f \in Ids : /\ file[f] = "none" => file'[f] = "none"
                        /\ file'[f] = "uploading" => file[f] = "uploading"
                        /\ ~RowFree(f) => file'[f] = file[f] /\ owner'[f] = owner[f]
  PROVE  Guards'
<1>1. HandlerTypes /\ IdsFresh /\ ReservationsHold /\ FilesFit
  BY TypeParts DEF QuotaInv
<1>2. IdsFresh'
  BY <1>1, JobFits DEF IdsFresh
<1>3. ReservationsHold'
  <2>1. ASSUME NEW h \in Handlers, pc[h] = "reserve", NEW f \in job[h].swept
        PROVE  file'[f] = file[f] /\ owner'[f] = owner[f]
    BY <1>1, <2>1, JobFits DEF RowFree
  <2> QED
    BY <1>1, <2>1 DEF ReservationsHold
<1>4. FilesFit'
  BY <1>1 DEF FilesFit
<1> QED
  BY <1>2, <1>3, <1>4 DEF Guards

LEMMA InitUploadGuards ==
  ASSUME QuotaInv, NEW h \in Handlers, NEW v \in Vaults, NEW u \in Uploads, InitUpload(h, v, u)
  PROVE  Guards'
<1>1. HandlerTypes /\ IdsFresh /\ ReservationsHold /\ FilesFit
  BY TypeParts DEF QuotaInv
<1> DEFINE job1(a) == [vault |-> v, id |-> u, delta |-> Size[u], swept |-> Stale(v),
                       base |-> IF a = None THEN AtLeastZero(total[v] - Weight(Stale(v)))
                                ELSE UsedOf(a),
                       limit |-> IF a = None THEN VaultLimit ELSE Included,
                       account |-> None]
<1>a. PICK a \in Found(v) : job' = [job EXCEPT ![h] = job1(a)]
  BY DEF InitUpload
<1> DEFINE q == job1(a)
<1>0. /\ job' = [job EXCEPT ![h] = q] /\ Goto(h, "reserve")
      /\ q.vault = v /\ q.id = u /\ q.swept = Stale(v) /\ UNCHANGED <<file, owner>>
  BY <1>a DEF InitUpload, rows
<1> HIDE DEF q
<1>2. /\ Sets(h, "reserve", q) /\ q.vault = v /\ q.id = u /\ q.swept = Stale(v)
      /\ UNCHANGED <<file, owner>>
  BY <1>0, <1>1, SetsOnly
<1>3. /\ pc[h] = "idle" /\ file[u] = "none" /\ \A g \in Handlers : job[g].id # u
      /\ \A g \in Handlers : pc[g] = "reserve" => job[g].vault # v
  BY DEF InitUpload, LockedRead, VaultFree
<1>4. IdsFresh'
  <2>1. \A g \in Handlers : pc'[g] \in {"reserve", "insert"} => file'[job'[g].id] = "none"
    BY <1>1, <1>2, <1>3 DEF Sets, IdsFresh
  <2>2. \A f, g \in Handlers : job'[f].id # None /\ job'[f].id = job'[g].id => f = g
    BY <1>1, <1>2, <1>3 DEF Sets, IdsFresh
  <2> QED
    BY <2>1, <2>2 DEF IdsFresh
<1>5. ReservationsHold'
  <2>1. \A f \in q.swept : file'[f] = "uploading" /\ owner'[f] = v
    BY <1>2 DEF Stale, Owned
  <2>2. \A g \in Handlers : pc'[g] = "reserve" =>
          \A f \in job'[g].swept : file'[f] = "uploading" /\ owner'[f] = job'[g].vault
    BY <1>1, <1>2, <2>1 DEF Sets, ReservationsHold
  <2>3. \A f, g \in Handlers : pc'[f] = "reserve" /\ pc'[g] = "reserve"
                                /\ job'[f].vault = job'[g].vault => f = g
    BY <1>1, <1>2, <1>3 DEF Sets, ReservationsHold
  <2> QED
    BY <2>2, <2>3 DEF ReservationsHold
<1>6. FilesFit'
  BY <1>1, <1>2 DEF Sets, FilesFit
<1> QED
  BY <1>4, <1>5, <1>6 DEF Guards

LEMMA ReserveGuards ==
  ASSUME QuotaInv, NEW h \in Handlers, Reserve(h)
  PROVE  Guards'
<1> DEFINE u == job[h].id
           S == job[h].swept
<1>1. HandlerTypes /\ RowTypes /\ IdsFresh /\ ReservationsHold /\ FilesFit
  BY TypeParts DEF QuotaInv
<1>2. pc[h] = "reserve" /\ Sets(h, "idle", Idle)
  BY <1>1, IdleOnly DEF Reserve
<1>3. S \in SUBSET Ids /\ file[u] = "none"
  BY <1>1, <1>2, JobFits DEF IdsFresh
<1>4. u \in Uploads /\ u # None
  BY <1>1, <1>2, JoinedAssumption DEF HandlerTypes, Equipped
<1>5. \A f \in Ids : /\ file'[f] = IF f = u THEN "uploading" ELSE IF f \in S THEN "gone" ELSE file[f]
                     /\ f # u => owner'[f] = IF f \in S THEN None ELSE owner[f]
  BY <1>1, <1>3, <1>4 DEF Reserve, Without, RowTypes, Ids
<1>6. ASSUME NEW g \in Handlers \ {h}, pc[g] \in {"reserve", "insert"}
      PROVE  file'[job[g].id] = "none"
  <2>1. job[g].id \in Ids /\ file[job[g].id] = "none"
    BY <1>1, <1>6, JobFits DEF IdsFresh
  <2>2. job[g].id # u
    BY <1>1, <1>4 DEF IdsFresh
  <2>3. job[g].id \notin S
    BY <1>1, <1>2, <2>1 DEF ReservationsHold
  <2> QED
    BY <1>5, <2>1, <2>2, <2>3
<1>7. ASSUME NEW g \in Handlers \ {h}, pc[g] = "reserve", NEW f \in job[g].swept
      PROVE  file'[f] = file[f] /\ owner'[f] = owner[f]
  <2>1. f \in Ids /\ file[f] = "uploading" /\ owner[f] = job[g].vault
    BY <1>1, <1>7, JobFits DEF ReservationsHold
  <2>2. f # u /\ f \notin S
    BY <1>1, <1>2, <1>3, <1>7, <2>1 DEF ReservationsHold
  <2> QED
    BY <1>5, <2>1, <2>2
<1>8. \A f \in Ids : file'[f] = "uploading" => f \in Uploads
  BY <1>1, <1>4, <1>5 DEF FilesFit
<1>9. Idle.id = None
  BY DEF Idle
<1> QED
  BY <1>2, <1>6, <1>7, <1>8, <1>9, GuardSet

LEMMA InsertGuards ==
  ASSUME QuotaInv, NEW h \in Handlers, Insert(h)
  PROVE  Guards'
<1> DEFINE u == job[h].id
<1>1. HandlerTypes /\ RowTypes /\ IdsFresh /\ ReservationsHold /\ FilesFit
  BY TypeParts DEF QuotaInv
<1>2. pc[h] = "insert" /\ Sets(h, "bump", job[h])
  BY <1>1, SetsOnly DEF Insert
<1>3. u \in Ids /\ u \in Files /\ u # None
  BY <1>1, <1>2, JobFits, JoinedAssumption DEF HandlerTypes, Equipped
<1>4. /\ \A f \in Ids \ {u} : file'[f] = file[f] /\ owner'[f] = owner[f]
      /\ file'[u] = "complete" /\ file[u] = "none"
  BY <1>1, <1>2, <1>3 DEF Insert, RowTypes, IdsFresh
<1>5. ASSUME NEW g \in Handlers \ {h}, pc[g] \in {"reserve", "insert"}
      PROVE  file'[job[g].id] = "none"
  <2>1. job[g].id \in Ids /\ file[job[g].id] = "none"
    BY <1>1, <1>5, JobFits DEF IdsFresh
  <2>2. job[g].id # u
    BY <1>1, <1>3 DEF IdsFresh
  <2> QED
    BY <1>4, <2>1, <2>2
<1>6. ASSUME NEW g \in Handlers \ {h}, pc[g] = "reserve", NEW f \in job[g].swept
      PROVE  file'[f] = file[f] /\ owner'[f] = owner[f]
  <2>1. f \in Ids /\ file[f] = "uploading"
    BY <1>1, <1>6, JobFits DEF ReservationsHold
  <2> QED
    BY <1>4, <2>1
<1>7. \A f \in Ids : file'[f] = "uploading" => f \in Uploads
  BY <1>1, <1>4 DEF FilesFit
<1>8. job[h].delta <= 0 \/ job[h].vault \in Mixed
  BY <1>1, <1>2 DEF FilesFit
<1> QED
  BY <1>2, <1>5, <1>6, <1>7, <1>8, GuardSet

\* What a removal does to the rows.
LEMMA Gone ==
  ASSUME RowTypes, NEW F, Remove(F), NEW f \in Ids
  PROVE  /\ file'[f] = IF f \in F THEN "gone" ELSE file[f]
         /\ owner'[f] = IF f \in F THEN None ELSE owner[f]
  BY DEF Remove, Without

LEMMA DeleteGuards ==
  ASSUME QuotaInv, NEW h \in Handlers, NEW x \in Ids, Delete(h, x)
  PROVE  Guards'
<1> DEFINE q == [Idle EXCEPT !.vault = owner[x], !.delta = - Size[x]]
<1>1. HandlerTypes /\ RowTypes /\ IdsFresh /\ ReservationsHold /\ FilesFit
  BY TypeParts DEF QuotaInv
<1>2. job' = [job EXCEPT ![h] = q] /\ Goto(h, "bump") /\ Remove({x})
      /\ file[x] # "none" /\ RowFree(x)
  BY DEF Delete
<1>3. q.id = None /\ q.delta = - Size[x] /\ Size[x] \in Nat
  BY SizeDeltas DEF Idle
<1> HIDE DEF q
<1>4. Sets(h, "bump", q)
  BY <1>1, <1>2, SetsOnly
<1>5. ASSUME NEW g \in Handlers \ {h}, pc[g] \in {"reserve", "insert"}
      PROVE  file'[job[g].id] = "none"
  BY <1>1, <1>2, <1>5, JobFits, Gone DEF IdsFresh
<1>6. ASSUME NEW g \in Handlers \ {h}, pc[g] = "reserve", NEW f \in job[g].swept
      PROVE  file'[f] = file[f] /\ owner'[f] = owner[f]
  <2>1. f \in Ids /\ f # x
    BY <1>1, <1>2, <1>6, JobFits DEF RowFree
  <2> QED
    BY <1>1, <1>2, <2>1, Gone
<1>7. \A f \in Ids : file'[f] = "uploading" => f \in Uploads
  BY <1>1, <1>2, Gone DEF FilesFit
<1>8. q.delta <= 0
  BY <1>3
<1> QED
  BY <1>3, <1>4, <1>5, <1>6, <1>7, <1>8, GuardSet

LEMMA OutsideGuards ==
  ASSUME QuotaInv,
         \/ UNCHANGED vars
         \/ SweepAll
         \/ \E u \in Uploads : \/ \E i \in Chunks, c \in Contents : PutChunk(u, i, c)
                               \/ Finalize(u) \/ Abort(u) \/ GrowStale(u)
  PROVE  Guards'
<1>1. RowTypes
  BY TypeParts DEF QuotaInv
<1>2. UNCHANGED <<pc, job>>
  BY DEF vars, SweepAll, PutChunk, Finalize, Abort, GrowStale
<1>3. CASE UNCHANGED <<file, owner>>
  BY <1>2, <1>3, GuardOutside
<1>4. ASSUME NEW F \in SUBSET Ids, Remove(F),
             \A f \in F : file[f] = "uploading" /\ RowFree(f)
      PROVE  Guards'
  <2>1. ASSUME NEW f \in Ids
        PROVE  /\ file[f] = "none" => file'[f] = "none"
               /\ file'[f] = "uploading" => file[f] = "uploading"
               /\ ~RowFree(f) => file'[f] = file[f] /\ owner'[f] = owner[f]
    BY <1>1, <1>4, Gone
  <2> QED
    BY <1>2, <2>1, GuardOutside
<1>5. CASE SweepAll
  <2>1. \A f \in UNION {Stale(v) : v \in Vaults} : f \in Ids /\ file[f] = "uploading" /\ RowFree(f)
    BY <1>5 DEF SweepAll, Stale, Owned
  <2>2. Remove(UNION {Stale(v) : v \in Vaults})
    BY <1>5 DEF SweepAll
  <2>3. UNION {Stale(v) : v \in Vaults} \in SUBSET Ids
    BY <2>1
  <2> QED
    BY <1>4, <2>1, <2>2, <2>3
<1>6. ASSUME NEW u \in Uploads, Abort(u)
      PROVE  Guards'
  BY <1>4, <1>6 DEF Abort, Ids
<1>7. ASSUME NEW u \in Uploads, Finalize(u)
      PROVE  Guards'
  <2>1. /\ file[u] = "uploading" /\ RowFree(u) /\ file'[u] = "complete" /\ UNCHANGED owner
        /\ \A f \in Ids \ {u} : file'[f] = file[f]
    BY <1>1, <1>7 DEF Finalize, RowTypes, Ids
  <2>2. \A f \in Ids : /\ file[f] = "none" => file'[f] = "none"
                       /\ file'[f] = "uploading" => file[f] = "uploading"
                       /\ ~RowFree(f) => file'[f] = file[f] /\ owner'[f] = owner[f]
    BY <2>1
  <2> QED
    BY <1>2, <2>2, GuardOutside
<1>8. ASSUME NEW u \in Uploads, NEW i \in Chunks, NEW c \in Contents, PutChunk(u, i, c)
      PROVE  Guards'
  BY <1>3, <1>8 DEF PutChunk
<1>9. ASSUME NEW u \in Uploads, GrowStale(u)
      PROVE  Guards'
  BY <1>3, <1>9 DEF GrowStale
<1> QED
  BY <1>3, <1>5, <1>6, <1>7, <1>8, <1>9 DEF vars, rows

\* The steps of handlers that touch no row.
LEMMA QuietGuards ==
  ASSUME QuotaInv, NEW h \in Handlers,
         \/ \E v \in Vaults : \/ \E f \in Files : CheckUpload(h, v, f)
                              \/ \E a \in Accounts : Ensure(h, v, a)
         \/ RefuseUpload(h) \/ Bump(h) \/ Credit(h) \/ CreditAgain(h) \/ Join(h)
         \/ Recount(h) \/ Crash(h)
  PROVE  Guards'
<1>1. HandlerTypes /\ Idle.id = None
  BY TypeParts DEF QuotaInv, Idle
<1>2. UNCHANGED <<file, owner>>
  BY DEF CheckUpload, Ensure, RefuseUpload, Bump, Credit, CreditAgain, Join, Recount, Crash, rows
<1>3. CASE Finish(h)
  BY <1>1, <1>2, <1>3, IdleOnly, GuardQuiet
<1>4. ASSUME NEW step \in {"credit", "again", "recount"}, Goto(h, step), UNCHANGED job
      PROVE  Guards'
  <2>1. Sets(h, step, job[h])
    BY <1>1, <1>4, SetsOnly
  <2> QED
    BY <1>2, <2>1, GuardQuiet
<1>5. ASSUME NEW v \in Vaults, NEW f \in Files, CheckUpload(h, v, f)
      PROVE  Guards'
  <2>0. PICK a \in Found(v) : job' = [job EXCEPT ![h] =
           [Idle EXCEPT !.vault = v, !.id = f, !.delta = Size[f], !.account = a]]
    BY <1>5 DEF CheckUpload
  <2> DEFINE q == [Idle EXCEPT !.vault = v, !.id = f, !.delta = Size[f], !.account = a]
  <2>1. job' = [job EXCEPT ![h] = q] /\ Goto(h, "insert")
    BY <1>5, <2>0 DEF CheckUpload
  <2>2. q.id = f /\ q.delta = Size[f] /\ q.vault \in Mixed /\ file[q.id] = "none"
        /\ \A g \in Handlers : job[g].id # q.id
    BY <1>5 DEF CheckUpload, Idle
  <2> HIDE DEF q
  <2>3. Sets(h, "insert", q)
    BY <1>1, <2>1, SetsOnly
  <2> QED
    BY <1>2, <2>2, <2>3, GuardQuiet
<1>6. ASSUME NEW v \in Vaults, NEW a \in Accounts, Ensure(h, v, a)
      PROVE  Guards'
  <2> DEFINE q == [Idle EXCEPT !.vault = v, !.account = a]
  <2>1. PICK step \in {"join", "recount"} : Goto(h, step)
    BY <1>6 DEF Ensure
  <2>2. job' = [job EXCEPT ![h] = q] /\ q.id = None
    BY <1>6 DEF Ensure, Idle
  <2> HIDE DEF q
  <2>3. Sets(h, step, q)
    BY <1>1, <2>1, <2>2, SetsOnly
  <2> QED
    BY <1>2, <2>2, <2>3, GuardQuiet
<1> QED
  BY <1>3, <1>4, <1>5, <1>6 DEF RefuseUpload, Bump, Credit, CreditAgain, Join, Recount, Crash

LEMMA GuardsNext == QuotaInv /\ [Next]_vars => Guards'
  BY InitUploadGuards, ReserveGuards, InsertGuards, DeleteGuards, QuietGuards, OutsideGuards
     DEF Next

-----------------------------------------------------------------------------
(* The counters.  A step changes the files of a vault, its counter and what is     *)
(* pending for it; the sums move by the size of what came or went.                 *)

\* What CounterFollows says of a vault, of the numbers it compares.
Follows(v, shown, coming, weight, leaving) ==
    /\ shown + coming >= weight + leaving
    /\ v \notin Mixed => shown = weight + leaving

LEMMA FollowsNow ==
  ASSUME CounterFollows, fails = 0, NEW v \in Vaults
  PROVE  Follows(v, total[v], Coming(v), Weight(Owned(v)), Leaving(v))
  BY DEF CounterFollows, Follows

LEMMA FollowsNext ==
  ASSUME fails' = 0 =>
           \A v \in Vaults : Follows(v, total'[v], Coming(v)', Weight(Owned(v)'), Leaving(v)')
  PROVE  CounterFollows'
  BY DEF CounterFollows, Follows

\* Clamping never lets a counter fall behind, and without uploads under way it does
\* not clamp.
LEMMA FollowsLower ==
  ASSUME NEW v, NEW n \in Nat, NEW c \in Nat, NEW w \in Nat, NEW l \in Nat, NEW s \in Nat,
         Follows(v, n, c, w + s, l)
  PROVE  Follows(v, AtLeastZero(n - s), c, w, l)
  BY DEF Follows, AtLeastZero

LEMMA FollowsRaise ==
  ASSUME NEW v, NEW n \in Nat, NEW c \in Nat, NEW w \in Nat, NEW l \in Nat, NEW s \in Nat,
         Follows(v, n, c, w, l)
  PROVE  Follows(v, n + s, c, w + s, l)
  BY DEF Follows

\* What is added to a counter was coming to it, or leaving it.
LEMMA FollowsBump ==
  ASSUME NEW v, NEW n \in Nat, NEW c \in Nat, NEW w \in Nat, NEW l \in Nat, NEW d \in Int,
         d <= 0 \/ v \in Mixed,
         Follows(v, n, AtLeastZero(d) + c, w, AtLeastZero(- d) + l)
  PROVE  Follows(v, AtLeastZero(n + d), c, w, l)
  BY DEF Follows, AtLeastZero

\* The handlers that have still to add to a counter, and what they add.
LEMMA PendingNat ==
  ASSUME HandlerTypes, NEW v
  PROVE  /\ IsFiniteSet(At("bump", v)) /\ At("bump", v) \in SUBSET Handlers
         /\ \A h \in Handlers : Adding[h] \in Nat /\ Releasing[h] \in Nat
         /\ Coming(v) \in Nat /\ Leaving(v) \in Nat
<1>1. IsFiniteSet(At("bump", v)) /\ At("bump", v) \in SUBSET Handlers
  BY FiniteAssumption, FS_Subset DEF At
<1>2. ASSUME NEW h \in Handlers
      PROVE  Adding[h] \in Nat /\ Releasing[h] \in Nat
  <2>1. job[h].delta \in Int /\ - job[h].delta \in Int
    BY JobFits
  <2> QED
    BY <2>1, Clamped DEF Adding, Releasing
<1>3. Coming(v) \in Nat /\ Leaving(v) \in Nat
  BY <1>1, <1>2, SumNat DEF Coming, Leaving
<1> QED
  BY <1>1, <1>2, <1>3

LEMMA PendingSame ==
  ASSUME HandlerTypes, NEW v, At("bump", v)' = At("bump", v),
         \A h \in At("bump", v) : job'[h].delta = job[h].delta
  PROVE  Coming(v)' = Coming(v) /\ Leaving(v)' = Leaving(v)
<1>1. IsFiniteSet(At("bump", v)) /\ At("bump", v) \in SUBSET Handlers
  BY PendingNat
<1>2. \A h \in At("bump", v) : Adding'[h] = Adding[h] /\ Releasing'[h] = Releasing[h]
  BY <1>1 DEF Adding, Releasing
<1>3. /\ SumFunctionOnSet(Adding', At("bump", v)) = SumFunctionOnSet(Adding, At("bump", v))
      /\ SumFunctionOnSet(Releasing', At("bump", v)) = SumFunctionOnSet(Releasing, At("bump", v))
  BY <1>1, <1>2, SumSame
<1> QED
  BY <1>3 DEF Coming, Leaving

\* A handler that neither enters nor leaves the step changes nothing that is pending.
LEMMA PendingQuiet ==
  ASSUME HandlerTypes, NEW h \in Handlers, NEW step, NEW q, Sets(h, step, q), NEW v,
         pc[h] = "bump" => job[h].vault # v, step = "bump" => q.vault # v
  PROVE  Coming(v)' = Coming(v) /\ Leaving(v)' = Leaving(v)
<1>1. At("bump", v)' = At("bump", v)
  BY DEF Sets, At
<1>2. \A g \in At("bump", v) : job'[g].delta = job[g].delta
  BY DEF Sets, At
<1> QED
  BY <1>1, <1>2, PendingSame

LEMMA PendingJoins ==
  ASSUME HandlerTypes, HandlerTypes', NEW h \in Handlers, NEW q, Sets(h, "bump", q),
         pc[h] # "bump", NEW v, q.vault = v
  PROVE  /\ Coming(v)' = AtLeastZero(q.delta) + Coming(v)
         /\ Leaving(v)' = AtLeastZero(- q.delta) + Leaving(v)
<1> DEFINE S == At("bump", v)
<1>1. IsFiniteSet(S) /\ S \in SUBSET Handlers /\ h \notin S
  BY PendingNat DEF At
<1>2. At("bump", v)' = S \cup {h}
  BY DEF Sets, At
<1>3. /\ Adding'[h] = AtLeastZero(q.delta) /\ Releasing'[h] = AtLeastZero(- q.delta)
      /\ \A g \in S : Adding'[g] = Adding[g] /\ Releasing'[g] = Releasing[g]
  BY <1>1 DEF Sets, Adding, Releasing
<1>4. ASSUME NEW g \in S \cup {h}
      PROVE  Adding'[g] \in Nat /\ Releasing'[g] \in Nat
  <2>1. g \in Handlers /\ job'[g].delta \in Int
    BY <1>1, DeltasInt DEF HandlerTypes, Jobs
  <2>2. - job'[g].delta \in Int
    BY <2>1
  <2> QED
    BY <2>1, <2>2, Clamped DEF Adding, Releasing
<1>5. /\ SumFunctionOnSet(Adding', S) = SumFunctionOnSet(Adding, S)
      /\ SumFunctionOnSet(Releasing', S) = SumFunctionOnSet(Releasing, S)
  BY <1>1, <1>3, SumSame
<1>6. /\ SumFunctionOnSet(Adding', S \cup {h}) = Adding'[h] + SumFunctionOnSet(Adding', S)
      /\ SumFunctionOnSet(Releasing', S \cup {h}) = Releasing'[h] + SumFunctionOnSet(Releasing', S)
  BY <1>1, <1>4, SumAdd
<1> QED
  BY <1>2, <1>3, <1>5, <1>6 DEF Coming, Leaving

LEMMA PendingLeaves ==
  ASSUME HandlerTypes, NEW h \in Handlers, NEW step, NEW q, Sets(h, step, q),
         pc[h] = "bump", step # "bump", NEW v, job[h].vault = v
  PROVE  /\ Coming(v) = AtLeastZero(job[h].delta) + Coming(v)'
         /\ Leaving(v) = AtLeastZero(- job[h].delta) + Leaving(v)'
         /\ Coming(v)' \in Nat /\ Leaving(v)' \in Nat
<1> DEFINE S == At("bump", v)
           R == S \ {h}
<1>1. /\ IsFiniteSet(S) /\ S \in SUBSET Handlers /\ h \in S
      /\ \A g \in Handlers : Adding[g] \in Nat /\ Releasing[g] \in Nat
  BY PendingNat DEF At
<1>2. At("bump", v)' = R /\ IsFiniteSet(R)
  BY <1>1, FS_Subset DEF Sets, At
<1>3. /\ Adding[h] = AtLeastZero(job[h].delta) /\ Releasing[h] = AtLeastZero(- job[h].delta)
      /\ \A g \in R : Adding'[g] = Adding[g] /\ Releasing'[g] = Releasing[g]
  BY <1>1 DEF Sets, Adding, Releasing
<1>4. /\ SumFunctionOnSet(Adding', R) = SumFunctionOnSet(Adding, R)
      /\ SumFunctionOnSet(Releasing', R) = SumFunctionOnSet(Releasing, R)
  BY <1>2, <1>3, SumSame
<1>5. /\ SumFunctionOnSet(Adding, S) = Adding[h] + SumFunctionOnSet(Adding, R)
      /\ SumFunctionOnSet(Releasing, S) = Releasing[h] + SumFunctionOnSet(Releasing, R)
  BY <1>1, SumRemove
<1>6. SumFunctionOnSet(Adding, R) \in Nat /\ SumFunctionOnSet(Releasing, R) \in Nat
  BY <1>1, <1>2, SumNat
<1> QED
  BY <1>2, <1>3, <1>4, <1>5, <1>6 DEF Coming, Leaving

LEMMA OwnedNat ==
  ASSUME NEW v
  PROVE  Owned(v) \in SUBSET Ids /\ Weight(Owned(v)) \in Nat
  BY WeightNat DEF Owned

\* What is owned does not change with files that keep their row.
LEMMA OwnedSame ==
  ASSUME NEW v, \A f \in Ids : /\ file'[f] \in {"uploading", "complete"}
                                   <=> file[f] \in {"uploading", "complete"}
                               /\ owner'[f] = owner[f]
  PROVE  Owned(v)' = Owned(v)
  BY DEF Owned

LEMMA OwnedGone ==
  ASSUME RowTypes, NEW F, Remove(F), NEW v
  PROVE  Owned(v)' = Owned(v) \ F
<1>1. \A f \in Ids : /\ file'[f] = IF f \in F THEN "gone" ELSE file[f]
                     /\ owner'[f] = IF f \in F THEN None ELSE owner[f]
  BY Gone
<1> QED
  BY <1>1 DEF Owned

-----------------------------------------------------------------------------
(* Step by step. *)

\* A step that touches neither rows nor counters, nor what is pending.
LEMMA CounterKept ==
  ASSUME QuotaInv, fails' = 0 => fails = 0, UNCHANGED total,
         \A f \in Ids : /\ file'[f] \in {"uploading", "complete"}
                             <=> file[f] \in {"uploading", "complete"}
                        /\ owner'[f] = owner[f],
         \/ UNCHANGED <<pc, job>>
         \/ \E h \in Handlers : pc[h] # "bump" /\ \E step, q : step # "bump" /\ Sets(h, step, q)
  PROVE  CounterFollows'
<1> SUFFICES ASSUME fails' = 0, NEW v \in Vaults
             PROVE  Follows(v, total'[v], Coming(v)', Weight(Owned(v)'), Leaving(v)')
  BY FollowsNext
<1>1. HandlerTypes /\ Follows(v, total[v], Coming(v), Weight(Owned(v)), Leaving(v))
  BY TypeParts, FollowsNow DEF QuotaInv
<1>2. Owned(v)' = Owned(v)
  BY OwnedSame
<1>3. Coming(v)' = Coming(v) /\ Leaving(v)' = Leaving(v)
  <2>1. CASE UNCHANGED <<pc, job>>
    BY <1>1, <2>1, PendingSame DEF At
  <2>2. ASSUME NEW h \in Handlers, pc[h] # "bump", NEW step, NEW q, step # "bump",
               Sets(h, step, q)
        PROVE  Coming(v)' = Coming(v) /\ Leaving(v)' = Leaving(v)
    BY <1>1, <2>2, PendingQuiet
  <2> QED
    BY <2>1, <2>2
<1> QED
  BY <1>1, <1>2, <1>3

LEMMA ReserveCounter ==
  ASSUME QuotaInv, NEW h \in Handlers, Reserve(h)
  PROVE  CounterFollows'
<1> DEFINE u == job[h].id
           S == job[h].swept
<1>0. /\ SumTypes /\ RowTypes /\ HandlerTypes /\ CounterFollows
      /\ IdsFresh /\ ReservationsHold
  BY TypeParts DEF QuotaInv
<1> SUFFICES ASSUME fails' = 0, NEW v \in Vaults
             PROVE  Follows(v, total'[v], Coming(v)', Weight(Owned(v)'), Leaving(v)')
  BY FollowsNext
<1>1. pc[h] = "reserve" /\ Sets(h, "idle", Idle) /\ fails = 0
  BY <1>0, IdleOnly DEF Reserve
<1>2. Coming(v)' = Coming(v) /\ Leaving(v)' = Leaving(v) /\ Coming(v) \in Nat /\ Leaving(v) \in Nat
  BY <1>0, <1>1, PendingQuiet, PendingNat
<1>3. Follows(v, total[v], Coming(v), Weight(Owned(v)), Leaving(v)) /\ total[v] \in Nat
  BY <1>0, <1>1, FollowsNow DEF SumTypes
<1>4. /\ S \in SUBSET Ids /\ u \in Ids /\ Size[u] \in Nat /\ job[h].vault \in Vaults
      /\ file[u] = "none"
  BY <1>0, <1>1, JobFits DEF IdsFresh
<1>5. \A f \in Ids : /\ file'[f] = IF f = u THEN "uploading" ELSE IF f \in S THEN "gone" ELSE file[f]
                     /\ owner'[f] = IF f = u THEN job[h].vault
                                    ELSE IF f \in S THEN None ELSE owner[f]
  BY <1>0, <1>4 DEF Reserve, Without, RowTypes
<1>6. \A f \in S : f \in Ids /\ file[f] = "uploading" /\ owner[f] = job[h].vault /\ f # u
  BY <1>0, <1>1, <1>4 DEF ReservationsHold
<1>7. CASE v # job[h].vault
  <2>1. Owned(v)' = Owned(v)
    BY <1>4, <1>5, <1>6, <1>7 DEF Owned
  <2>2. total'[v] = total[v]
    BY <1>0, <1>7 DEF Reserve, SumTypes
  <2> QED
    BY <1>2, <1>3, <2>1, <2>2
<1>8. CASE v = job[h].vault
  <2> DEFINE rest == Owned(v) \ S
  <2>1. S \in SUBSET Owned(v) /\ u \notin rest /\ rest \in SUBSET Ids
    BY <1>4, <1>6, <1>8 DEF Owned
  <2>2. Owned(v)' = rest \cup {u}
    BY <1>4, <1>5, <1>6, <1>8 DEF Owned
  <2> HIDE DEF rest
  <2>3. /\ Weight(Owned(v)) = Weight(S) + Weight(rest)
        /\ Weight(rest \cup {u}) = Size[u] + Weight(rest)
    BY <1>4, <2>1, OwnedNat, WeightSplit, WeightAdd DEF rest
  <2>4. Weight(S) \in Nat /\ Weight(rest) \in Nat
    BY <1>4, <2>1, WeightNat
  <2>5. total'[v] = AtLeastZero(total[v] - Weight(S)) + Size[u]
    BY <1>0, <1>8 DEF Reserve, SumTypes
  <2>6. Weight(Owned(v)) = Weight(rest) + Weight(S)
    BY <2>3, <2>4
  <2>7. Follows(v, AtLeastZero(total[v] - Weight(S)), Coming(v), Weight(rest), Leaving(v))
    BY <1>2, <1>3, <2>4, <2>6, FollowsLower
  <2>8. AtLeastZero(total[v] - Weight(S)) \in Nat
    BY <1>3, <2>4, Clamped
  <2>9. Follows(v, AtLeastZero(total[v] - Weight(S)) + Size[u], Coming(v),
                Weight(rest) + Size[u], Leaving(v))
    BY <1>2, <1>4, <2>4, <2>7, <2>8, FollowsRaise
  <2>10. Weight(Owned(v)') = Weight(rest) + Size[u]
    BY <1>4, <2>2, <2>3, <2>4
  <2> QED
    BY <1>2, <2>5, <2>9, <2>10
<1> QED
  BY <1>7, <1>8

\* A row that goes takes its size off the weight of its vault.
LEMMA Lighter ==
  ASSUME RowTypes, NEW f \in Ids, Remove({f}), NEW v,
         file[f] \in {"uploading", "complete"}, owner[f] = v
  PROVE  Weight(Owned(v)') \in Nat /\ Weight(Owned(v)) = Weight(Owned(v)') + Size[f]
<1>1. Owned(v)' = Owned(v) \ {f} /\ f \in Owned(v) /\ Owned(v) \in SUBSET Ids
  BY OwnedGone DEF Owned
<1>2. (Owned(v) \ {f}) \cup {f} = Owned(v) /\ Owned(v) \ {f} \in SUBSET Ids
  BY <1>1
<1>3. Weight(Owned(v)) = Size[f] + Weight(Owned(v) \ {f})
  <2> DEFINE S == Owned(v) \ {f}
  <2>1. S \in SUBSET Ids /\ f \in Ids \ S
    BY <1>2
  <2>2. Weight(S \cup {f}) = Size[f] + Weight(S)
    BY <2>1, WeightAdd
  <2> QED
    BY <1>2, <2>2
<1>4. Weight(Owned(v) \ {f}) \in Nat /\ Size[f] \in Nat
  BY <1>2, WeightNat, SizeDeltas
<1> QED
  BY <1>1, <1>3, <1>4

LEMMA AbortCounter ==
  ASSUME QuotaInv, NEW u \in Uploads, Abort(u)
  PROVE  CounterFollows'
<1>0. SumTypes /\ RowTypes /\ HandlerTypes /\ CounterFollows
  BY TypeParts DEF QuotaInv
<1> SUFFICES ASSUME fails' = 0, NEW v \in Vaults
             PROVE  Follows(v, total'[v], Coming(v)', Weight(Owned(v)'), Leaving(v)')
  BY FollowsNext
<1>1. /\ file[u] = "uploading" /\ Remove({u}) /\ UNCHANGED <<pc, job>> /\ fails = 0
      /\ total' = [total EXCEPT ![owner[u]] = AtLeastZero(@ - Size[u])]
  BY DEF Abort
<1>2. u \in Ids /\ Size[u] \in Nat /\ total[v] \in Nat
  BY <1>0, SizeDeltas DEF SumTypes, Ids
<1>3. Coming(v)' = Coming(v) /\ Leaving(v)' = Leaving(v) /\ Coming(v) \in Nat /\ Leaving(v) \in Nat
  BY <1>0, <1>1, PendingSame, PendingNat DEF At
<1>4. Follows(v, total[v], Coming(v), Weight(Owned(v)), Leaving(v))
  BY <1>0, <1>1, FollowsNow
<1>5. CASE v = owner[u]
  <2>1. Weight(Owned(v)') \in Nat /\ Weight(Owned(v)) = Weight(Owned(v)') + Size[u]
    BY <1>0, <1>1, <1>2, <1>5, Lighter
  <2>2. total'[v] = AtLeastZero(total[v] - Size[u])
    BY <1>0, <1>1, <1>5 DEF SumTypes
  <2> QED
    BY <1>2, <1>3, <1>4, <2>1, <2>2, FollowsLower
<1>6. CASE v # owner[u]
  <2>1. total'[v] = total[v]
    BY <1>0, <1>1, <1>6 DEF SumTypes
  <2>2. Owned(v)' = Owned(v)
    BY <1>0, <1>1, <1>6, OwnedGone DEF Owned
  <2> QED
    BY <1>3, <1>4, <2>1, <2>2
<1> QED
  BY <1>5, <1>6

LEMMA SweepCounter ==
  ASSUME QuotaInv, SweepAll
  PROVE  CounterFollows'
<1> DEFINE gone == UNION {Stale(v) : v \in Vaults}
<1>0. SumTypes /\ RowTypes /\ HandlerTypes /\ CounterFollows
  BY TypeParts DEF QuotaInv
<1> SUFFICES ASSUME fails' = 0, NEW v \in Vaults
             PROVE  Follows(v, total'[v], Coming(v)', Weight(Owned(v)'), Leaving(v)')
  BY FollowsNext
<1>1. Remove(gone) /\ UNCHANGED <<pc, job>> /\ fails = 0
  BY DEF SweepAll
<1>2. total'[v] = AtLeastZero(total[v] - Weight(Stale(v))) /\ total[v] \in Nat
  BY <1>0 DEF SweepAll, Freed, SumTypes
<1>3. Coming(v)' = Coming(v) /\ Leaving(v)' = Leaving(v) /\ Coming(v) \in Nat /\ Leaving(v) \in Nat
  BY <1>0, <1>1, PendingSame, PendingNat DEF At
<1>4. Follows(v, total[v], Coming(v), Weight(Owned(v)), Leaving(v))
  BY <1>0, <1>1, FollowsNow
<1>5. Owned(v)' = Owned(v) \ Stale(v)
  <2>1. Owned(v)' = Owned(v) \ gone
    BY <1>0, <1>1, OwnedGone
  <2>2. Owned(v) \ gone = Owned(v) \ Stale(v)
    BY DEF Stale, Owned
  <2> QED
    BY <2>1, <2>2
<1>6. /\ Stale(v) \in SUBSET Owned(v) /\ Owned(v) \in SUBSET Ids
      /\ Stale(v) \in SUBSET Ids /\ Owned(v) \ Stale(v) \in SUBSET Ids
  BY DEF Stale, Owned
<1>7. /\ Weight(Stale(v)) \in Nat /\ Weight(Owned(v) \ Stale(v)) \in Nat
      /\ Weight(Owned(v)) = Weight(Stale(v)) + Weight(Owned(v) \ Stale(v))
  BY <1>6, WeightNat, WeightSplit
<1>8. Weight(Owned(v)) = Weight(Owned(v) \ Stale(v)) + Weight(Stale(v))
  BY <1>7
<1>9. Follows(v, AtLeastZero(total[v] - Weight(Stale(v))), Coming(v),
              Weight(Owned(v) \ Stale(v)), Leaving(v))
  BY <1>2, <1>3, <1>4, <1>7, <1>8, FollowsLower
<1> QED
  BY <1>2, <1>3, <1>5, <1>9

LEMMA DeleteCounter ==
  ASSUME QuotaInv, NEW h \in Handlers, NEW f \in Ids, Delete(h, f)
  PROVE  CounterFollows'
<1> DEFINE q == [Idle EXCEPT !.vault = owner[f], !.delta = - Size[f]]
<1>0. SumTypes /\ RowTypes /\ HandlerTypes /\ CounterFollows /\ HandlerTypes'
  BY TypeParts, DeleteTypes, TypesApart DEF QuotaInv
<1> SUFFICES ASSUME fails' = 0, NEW v \in Vaults
             PROVE  Follows(v, total'[v], Coming(v)', Weight(Owned(v)'), Leaving(v)')
  BY FollowsNext
<1>1. /\ file[f] \in {"uploading", "complete"} /\ Remove({f}) /\ fails = 0
      /\ UNCHANGED total /\ pc[h] = "idle" /\ job' = [job EXCEPT ![h] = q] /\ Goto(h, "bump")
  BY DEF Delete, sums
<1>2. Size[f] \in Nat /\ q.vault = owner[f] /\ q.delta = - Size[f]
  BY SizeDeltas DEF Idle
<1> HIDE DEF q
<1>3. Sets(h, "bump", q)
  BY <1>0, <1>1, SetsOnly
<1>4. /\ Follows(v, total[v], Coming(v), Weight(Owned(v)), Leaving(v))
      /\ Coming(v) \in Nat /\ Leaving(v) \in Nat /\ total[v] \in Nat
  BY <1>0, <1>1, FollowsNow, PendingNat DEF SumTypes
<1>5. CASE v = owner[f]
  <2>1. Weight(Owned(v)') \in Nat /\ Weight(Owned(v)) = Weight(Owned(v)') + Size[f]
    BY <1>0, <1>1, <1>5, Lighter
  <2>2. /\ Coming(v)' = AtLeastZero(- Size[f]) + Coming(v)
        /\ Leaving(v)' = AtLeastZero(- (- Size[f])) + Leaving(v)
    BY <1>0, <1>1, <1>2, <1>3, <1>5, PendingJoins
  <2>3. AtLeastZero(- Size[f]) = 0 /\ AtLeastZero(- (- Size[f])) = Size[f]
    BY <1>2 DEF AtLeastZero
  <2>4. Coming(v)' = Coming(v) /\ Leaving(v)' = Size[f] + Leaving(v)
    BY <1>4, <2>2, <2>3
  <2> QED
    BY <1>1, <1>2, <1>4, <2>1, <2>4 DEF Follows
<1>6. CASE v # owner[f]
  <2>1. Owned(v)' = Owned(v)
    BY <1>0, <1>1, <1>6, OwnedGone DEF Owned
  <2>2. Coming(v)' = Coming(v) /\ Leaving(v)' = Leaving(v)
    BY <1>0, <1>1, <1>2, <1>3, <1>6, PendingQuiet
  <2> QED
    BY <1>1, <1>4, <2>1, <2>2
<1> QED
  BY <1>5, <1>6

LEMMA InsertCounter ==
  ASSUME QuotaInv, NEW h \in Handlers, Insert(h)
  PROVE  CounterFollows'
<1> DEFINE u == job[h].id
           q == job[h]
<1>0. /\ SumTypes /\ RowTypes /\ HandlerTypes /\ CounterFollows /\ HandlerTypes'
      /\ IdsFresh /\ FilesFit
  BY TypeParts, InsertTypes, TypesApart DEF QuotaInv
<1> SUFFICES ASSUME fails' = 0, NEW v \in Vaults
             PROVE  Follows(v, total'[v], Coming(v)', Weight(Owned(v)'), Leaving(v)')
  BY FollowsNext
<1>1. /\ pc[h] = "insert" /\ UNCHANGED total /\ fails = 0 /\ Sets(h, "bump", q)
  BY <1>0, SetsOnly DEF Insert, sums
<1>2. /\ u \in Ids /\ Size[u] \in Nat /\ q.delta = Size[u] /\ q.vault \in Mixed
      /\ file[u] = "none" /\ q.vault \in Vaults
  BY <1>0, <1>1, JobFits DEF IdsFresh, FilesFit
<1>3. \A f \in Ids : /\ file'[f] = IF f = u THEN "complete" ELSE file[f]
                     /\ owner'[f] = IF f = u THEN q.vault ELSE owner[f]
  BY <1>0, <1>2 DEF Insert, RowTypes
<1>4. /\ Follows(v, total[v], Coming(v), Weight(Owned(v)), Leaving(v))
      /\ Coming(v) \in Nat /\ Leaving(v) \in Nat /\ total[v] \in Nat
      /\ Weight(Owned(v)) \in Nat
  BY <1>0, <1>1, FollowsNow, PendingNat, OwnedNat DEF SumTypes
<1>5. CASE v = q.vault
  <2>1. Owned(v)' = Owned(v) \cup {u} /\ u \notin Owned(v)
    BY <1>2, <1>3, <1>5 DEF Owned
  <2>2. Weight(Owned(v)') = Size[u] + Weight(Owned(v))
    BY <1>2, <2>1, OwnedNat, WeightAdd
  <2>3. /\ Coming(v)' = AtLeastZero(Size[u]) + Coming(v)
        /\ Leaving(v)' = AtLeastZero(- Size[u]) + Leaving(v)
    BY <1>0, <1>1, <1>2, <1>5, PendingJoins
  <2>4. AtLeastZero(Size[u]) = Size[u] /\ AtLeastZero(- Size[u]) = 0
    BY <1>2, SizeDeltas DEF AtLeastZero
  <2>5. Coming(v)' = Size[u] + Coming(v) /\ Leaving(v)' = Leaving(v)
    BY <1>4, <2>3, <2>4
  <2> QED
    BY <1>1, <1>2, <1>4, <1>5, <2>2, <2>5 DEF Follows
<1>6. CASE v # q.vault
  <2>1. Owned(v)' = Owned(v)
    BY <1>2, <1>3, <1>6 DEF Owned
  <2>2. Coming(v)' = Coming(v) /\ Leaving(v)' = Leaving(v)
    BY <1>0, <1>1, <1>6, PendingQuiet
  <2> QED
    BY <1>1, <1>4, <2>1, <2>2
<1> QED
  BY <1>5, <1>6

LEMMA BumpCounter ==
  ASSUME QuotaInv, NEW h \in Handlers, Bump(h)
  PROVE  CounterFollows'
<1> DEFINE d == job[h].delta
<1>0. SumTypes /\ RowTypes /\ HandlerTypes /\ CounterFollows /\ FilesFit
  BY TypeParts DEF QuotaInv
<1> SUFFICES ASSUME fails' = 0, NEW v \in Vaults
             PROVE  Follows(v, total'[v], Coming(v)', Weight(Owned(v)'), Leaving(v)')
  BY FollowsNext
<1>1. /\ pc[h] = "bump" /\ fails = 0 /\ Sets(h, "credit", job[h])
      /\ total' = [total EXCEPT ![job[h].vault] = AtLeastZero(@ + d)]
      /\ UNCHANGED <<file, owner>>
  BY <1>0, SetsOnly DEF Bump, rows
<1>2. d \in Int /\ (d <= 0 \/ job[h].vault \in Mixed)
  BY <1>0, <1>1, JobFits DEF FilesFit
<1>3. /\ Follows(v, total[v], Coming(v), Weight(Owned(v)), Leaving(v))
      /\ total[v] \in Nat /\ Weight(Owned(v)) \in Nat
  BY <1>0, <1>1, FollowsNow, OwnedNat DEF SumTypes
<1>4. Owned(v)' = Owned(v)
  BY <1>1, OwnedSame
<1>5. CASE v = job[h].vault
  <2>1. /\ Coming(v) = AtLeastZero(d) + Coming(v)' /\ Leaving(v) = AtLeastZero(- d) + Leaving(v)'
        /\ Coming(v)' \in Nat /\ Leaving(v)' \in Nat
    BY <1>0, <1>1, <1>5, PendingLeaves
  <2>2. total'[v] = AtLeastZero(total[v] + d)
    BY <1>0, <1>1, <1>5 DEF SumTypes
  <2> HIDE DEF d
  <2>3. Follows(v, total[v], AtLeastZero(d) + Coming(v)', Weight(Owned(v)),
                AtLeastZero(- d) + Leaving(v)')
    BY <1>3, <2>1
  <2>4. Follows(v, AtLeastZero(total[v] + d), Coming(v)', Weight(Owned(v)), Leaving(v)')
    BY <1>2, <1>3, <1>5, <2>1, <2>3, FollowsBump
  <2> QED
    BY <1>4, <2>2, <2>4
<1>6. CASE v # job[h].vault
  <2>1. total'[v] = total[v]
    BY <1>0, <1>1, <1>6 DEF SumTypes
  <2>2. Coming(v)' = Coming(v) /\ Leaving(v)' = Leaving(v)
    BY <1>0, <1>1, <1>6, PendingQuiet
  <2> QED
    BY <1>3, <1>4, <2>1, <2>2
<1> QED
  BY <1>5, <1>6

\* The steps that leave files and counters alone, and crashes.
LEMMA OtherCounter ==
  ASSUME QuotaInv,
         \/ UNCHANGED vars
         \/ \E h \in Handlers :
              \/ \E v \in Vaults : \/ \E u \in Uploads : InitUpload(h, v, u)
                                   \/ \E f \in Files : CheckUpload(h, v, f)
                                   \/ \E a \in Accounts : Ensure(h, v, a)
              \/ RefuseUpload(h) \/ Credit(h) \/ CreditAgain(h) \/ Join(h)
              \/ Recount(h) \/ Crash(h)
         \/ \E u \in Uploads : \/ \E i \in Chunks, c \in Contents : PutChunk(u, i, c)
                               \/ Finalize(u) \/ GrowStale(u)
  PROVE  CounterFollows'
<1>1. HandlerTypes /\ RowTypes /\ fails \in Nat
  BY TypeParts DEF QuotaInv, SumTypes
<1>2. UNCHANGED total
  <2>1. CASE UNCHANGED vars
    BY <2>1 DEF vars, sums
  <2>2. ASSUME NEW h \in Handlers, NEW v \in Vaults,
               \/ \E u \in Uploads : InitUpload(h, v, u)
               \/ \E f \in Files : CheckUpload(h, v, f)
               \/ \E a \in Accounts : Ensure(h, v, a)
        PROVE  UNCHANGED total
    BY <2>2 DEF sums, InitUpload, CheckUpload, Ensure
  <2>3. ASSUME NEW h \in Handlers,
               \/ RefuseUpload(h) \/ Credit(h) \/ CreditAgain(h) \/ Join(h)
               \/ Recount(h) \/ Crash(h)
        PROVE  UNCHANGED total
    BY <2>3 DEF sums, RefuseUpload, Credit, CreditAgain, Join, Recount, Crash
  <2>4. ASSUME NEW u \in Uploads,
               \/ \E i \in Chunks, c \in Contents : PutChunk(u, i, c)
               \/ Finalize(u) \/ GrowStale(u)
        PROVE  UNCHANGED total
    BY <2>4 DEF sums, PutChunk, Finalize, GrowStale
  <2> QED
    BY <2>1, <2>2, <2>3, <2>4
<1>3. ASSUME NEW h \in Handlers, Crash(h)
      PROVE  CounterFollows'
  <2>1. fails' # 0
    BY <1>1, <1>3 DEF Crash
  <2> QED
    BY <2>1 DEF CounterFollows
<1>4. ASSUME UNCHANGED <<file, owner, pc, job, fails>>
      PROVE  CounterFollows'
  BY <1>2, <1>4, CounterKept
<1>5. ASSUME NEW u \in Uploads,
             \/ \E i \in Chunks, c \in Contents : PutChunk(u, i, c)
             \/ GrowStale(u)
      PROVE  CounterFollows'
  BY <1>4, <1>5 DEF PutChunk, GrowStale
<1>6. ASSUME NEW u \in Uploads, Finalize(u)
      PROVE  CounterFollows'
  <2>1. \A f \in Ids : /\ file'[f] \in {"uploading", "complete"}
                            <=> file[f] \in {"uploading", "complete"}
                       /\ owner'[f] = owner[f]
    BY <1>1, <1>6 DEF Finalize, RowTypes, Ids
  <2>2. UNCHANGED <<pc, job, fails>>
    BY <1>6 DEF Finalize
  <2> QED
    BY <1>2, <2>1, <2>2, CounterKept
<1>7. ASSUME NEW h \in Handlers, NEW step, NEW q, step # "bump", pc[h] # "bump",
             Sets(h, step, q), UNCHANGED <<file, owner, fails>>
      PROVE  CounterFollows'
  BY <1>2, <1>7, CounterKept
<1>8. ASSUME NEW h \in Handlers, pc[h] # "bump", Finish(h), UNCHANGED <<file, owner, fails>>
      PROVE  CounterFollows'
  BY <1>1, <1>7, <1>8, IdleOnly
<1>9. ASSUME NEW h \in Handlers, NEW step, Goto(h, step), step # "bump", pc[h] # "bump",
             UNCHANGED job \/ \E q : job' = [job EXCEPT ![h] = q],
             UNCHANGED <<file, owner, fails>>
      PROVE  CounterFollows'
  BY <1>1, <1>7, <1>9, SetsOnly
<1>10. ASSUME NEW h \in Handlers, RefuseUpload(h) \/ CreditAgain(h) \/ Recount(h)
       PROVE  CounterFollows'
  BY <1>8, <1>10 DEF RefuseUpload, CreditAgain, Recount, rows
<1>11. ASSUME NEW h \in Handlers, Credit(h)
       PROVE  CounterFollows'
  BY <1>8, <1>9, <1>11 DEF Credit, rows
<1>12. ASSUME NEW h \in Handlers, Join(h)
       PROVE  CounterFollows'
  BY <1>9, <1>12 DEF Join, rows
<1>13. ASSUME NEW h \in Handlers, NEW v \in Vaults, NEW u \in Uploads, InitUpload(h, v, u)
       PROVE  CounterFollows'
  BY <1>9, <1>13 DEF InitUpload, rows
<1>14. ASSUME NEW h \in Handlers, NEW v \in Vaults, NEW f \in Files, CheckUpload(h, v, f)
       PROVE  CounterFollows'
  BY <1>9, <1>14 DEF CheckUpload, rows
<1>15. ASSUME NEW h \in Handlers, NEW v \in Vaults, NEW a \in Accounts, Ensure(h, v, a)
       PROVE  CounterFollows'
  <2>1. PICK step \in {"join", "recount"} : Goto(h, step)
    BY <1>15 DEF Ensure
  <2> QED
    BY <1>9, <1>15, <2>1 DEF Ensure, rows
<1> QED
  BY <1>3, <1>4, <1>5, <1>6, <1>10, <1>11, <1>12, <1>13, <1>14, <1>15 DEF vars, rows

LEMMA CounterNext == QuotaInv /\ [Next]_vars => CounterFollows'
  BY ReserveCounter, AbortCounter, SweepCounter, DeleteCounter, InsertCounter, BumpCounter,
     OtherCounter DEF Next

LEMMA QuotaNext == QuotaInv /\ [Next]_vars => QuotaInv'
  BY TypesNext, GuardsNext, CounterNext DEF QuotaInv, Guards

-----------------------------------------------------------------------------
(* The properties. *)

\* The strengthening: ids are fresh, reservations hold what they swept, and the
\* counters follow the files.
THEOREM QuotaInvariant == Spec => []QuotaInv
  BY QuotaInit, QuotaNext, PTL DEF Spec

\* What a handler works on at a step is there, and every counter is a number: TypeOK.
THEOREM QuotaTypes == Spec => []TypeOK
<1>1. QuotaInv => TypeOK
  BY DEF QuotaInv
<1> QED
  BY <1>1, QuotaInvariant, PTL

\* While no process dies, the counter of a vault never falls behind what its files
\* weigh, and with chunked uploads only it shows exactly that, whichever uploads,
\* aborts, sweeps and deletions overlap: CounterFollows.
THEOREM CountersFollow == Spec => []CounterFollows
<1>1. QuotaInv => CounterFollows
  BY DEF QuotaInv
<1> QED
  BY <1>1, QuotaInvariant, PTL

\* A finalized upload has every chunk, whatever else was aborted, swept, deleted or
\* sent again meanwhile (CompleteIsWhole).
THEOREM UploadsAreWhole == Spec => []CompleteIsWhole
<1>1. RowInv => CompleteIsWhole
  BY DEF RowInv
<1> QED
  BY <1>1, RowInit, RowNext, PTL DEF Spec

\* From finalization on, the chunks of an upload are all there and stay what they
\* were: FinalIsFinal.
THEOREM ContentStays == Spec => FinalIsFinal
<1>1. RowInv /\ RowInv' /\ [Next]_vars =>
        [\A u \in Uploads : file'[u] = "complete" =>
            /\ \A i \in Chunks : chunk'[u][i] # None
            /\ file[u] = "complete" => chunk'[u] = chunk[u]]_vars
  <2> SUFFICES ASSUME RowInv, RowInv', [Next]_vars,
                      NEW u \in Uploads, file'[u] = "complete"
               PROVE  /\ \A i \in Chunks : chunk'[u][i] # None
                      /\ file[u] = "complete" => chunk'[u] = chunk[u]
    OBVIOUS
  <2>1. \A i \in Chunks : chunk'[u][i] # None
    BY DEF RowInv, CompleteIsWhole
  <2>2. file[u] = "complete" => chunk'[u] = chunk[u]
    BY UploadMoves DEF UploadMove, Same, Removed, Begun, Filled, Closed
  <2> QED
    BY <2>1, <2>2
<1> QED
  BY <1>1, RowInit, RowNext, PTL DEF Spec, FinalIsFinal

-----------------------------------------------------------------------------
(* The limit of a vault without an account. *)

LEMMA SumsAreNumbers == Weight({}) = 0 /\ \A S \in SUBSET Ids : Weight(S) \in Nat
  BY SumEmpty, WeightNat DEF Weight

CountersFit == /\ account \in [Vaults -> Accounts \cup {None}] /\ total \in [Vaults -> Nat]
               /\ \A v \in Vaults \ Mixed : account[v] = None => total[v] <= VaultLimit

\* What a reservation has read is still so, since it holds the row of its vault.
Read(q) == /\ q.vault \in Vaults /\ q.id \in Uploads /\ q.swept \in SUBSET Ids
           /\ account[q.vault] = None =>
                /\ q.base = AtLeastZero(total[q.vault] - Weight(q.swept))
                /\ q.limit = VaultLimit

\* Only clients that also upload in one request raise a counter unlocked.
Raises(step, q) ==
    /\ step \in {"insert", "bump"} => q.delta \in Int /\ (q.delta <= 0 \/ q.vault \in Mixed)
    /\ step = "join" => q.account \in Accounts

LocksFit ==
    /\ pc \in [Handlers -> Steps] /\ job = [h \in Handlers |-> job[h]]
    /\ \A h \in Handlers : Raises(pc[h], job[h])
    /\ \A h \in Handlers : pc[h] = "reserve" => Read(job[h])
    /\ \A g, h \in Handlers : pc[g] = "reserve" /\ pc[h] = "reserve"
                                /\ job[g].vault = job[h].vault => g = h

LimitInv == CountersFit /\ LocksFit

LEMMA LimitInit == Init => LimitInv
  BY JoinedAssumption, LimitAssumption
     DEF Init, LimitInv, CountersFit, LocksFit, Raises, Steps

\* A step of a handler that does not start a reservation, and leaves alone the
\* vaults that are reserved by others.
LEMMA LockSet ==
  ASSUME LimitInv, NEW h \in Handlers, NEW step \in Steps, NEW q, Goto(h, step),
         (UNCHANGED job /\ q = job[h]) \/ job' = [job EXCEPT ![h] = q],
         step # "reserve", Raises(step, q),
         \A g \in Handlers \ {h} : pc[g] = "reserve" =>
            /\ total'[job[g].vault] = total[job[g].vault]
            /\ account'[job[g].vault] = account[job[g].vault]
  PROVE  LocksFit'
<1>1. /\ pc' \in [Handlers -> Steps] /\ job' = [g \in Handlers |-> job'[g]]
      /\ pc'[h] = step /\ job'[h] = q
      /\ \A g \in Handlers \ {h} : pc'[g] = pc[g] /\ job'[g] = job[g]
  BY DEF LimitInv, LocksFit, Goto
<1>2. \A g \in Handlers : Raises(pc'[g], job'[g])
  BY <1>1 DEF LimitInv, LocksFit
<1>3. ASSUME NEW g \in Handlers, pc'[g] = "reserve"
      PROVE  Read(job[g])'
  <2>1. g # h /\ pc[g] = "reserve" /\ job'[g] = job[g]
    BY <1>1, <1>3
  <2>2. Read(job[g])
    BY <2>1 DEF LimitInv, LocksFit
  <2> QED
    BY <2>1, <2>2 DEF Read
<1>4. \A f, g \in Handlers : pc'[f] = "reserve" /\ pc'[g] = "reserve"
                               /\ job'[f].vault = job'[g].vault => f = g
  BY <1>1 DEF LimitInv, LocksFit
<1> QED
  BY <1>1, <1>2, <1>3, <1>4 DEF LocksFit

LEMMA Freeing ==
  ASSUME LimitInv, NEW h \in Handlers, Finish(h),
         \A g \in Handlers \ {h} : pc[g] = "reserve" =>
            /\ total'[job[g].vault] = total[job[g].vault]
            /\ account'[job[g].vault] = account[job[g].vault]
  PROVE  LocksFit'
<1>1. Raises("idle", Idle) /\ "idle" \in Steps
  BY DEF Raises, Steps
<1> QED
  BY <1>1, LockSet DEF Finish

\* A step that is none of a handler's
LEMMA Outside ==
  ASSUME LimitInv, UNCHANGED <<pc, job, account>>,
         \A g \in Handlers : pc[g] = "reserve" => total'[job[g].vault] = total[job[g].vault]
  PROVE  LocksFit'
<1>1. ASSUME NEW g \in Handlers, pc[g] = "reserve"
      PROVE  Read(job[g])'
  <2>1. Read(job[g])
    BY <1>1 DEF LimitInv, LocksFit
  <2> QED
    BY <1>1, <2>1 DEF Read
<1> QED
  BY <1>1 DEF LimitInv, LocksFit

\* A counter that is lowered stays in its limit.
LEMMA Lowered ==
  ASSUME NEW n \in Nat, NEW d \in Int, d <= 0, NEW m \in Nat, n <= m
  PROVE  AtLeastZero(n + d) \in Nat /\ AtLeastZero(n + d) <= m
  BY DEF AtLeastZero

LEMMA InitUploadLimit ==
  ASSUME LimitInv, NEW h \in Handlers, NEW v \in Vaults, NEW u \in Uploads, InitUpload(h, v, u)
  PROVE  LimitInv'
<1> DEFINE swept == Stale(v)
           base(a)  == IF a = None THEN AtLeastZero(total[v] - Weight(swept))
                       ELSE UsedOf(a)
           limit(a) == IF a = None THEN VaultLimit ELSE Included
           job1(a)  == [vault |-> v, id |-> u, delta |-> Size[u], swept |-> swept,
                        base |-> base(a), limit |-> limit(a), account |-> None]
<1>0. PICK a \in Found(v) : job' = [job EXCEPT ![h] = job1(a)]
  BY DEF InitUpload
<1> DEFINE q == job1(a)
<1>1. job' = [job EXCEPT ![h] = q] /\ Goto(h, "reserve") /\ UNCHANGED sums
  BY <1>0 DEF InitUpload
<1>2. CountersFit'
  BY <1>1 DEF LimitInv, CountersFit, sums
<1>3. /\ pc' \in [Handlers -> Steps] /\ job' = [g \in Handlers |-> job'[g]]
      /\ pc'[h] = "reserve" /\ job'[h] = q
      /\ \A g \in Handlers \ {h} : pc'[g] = pc[g] /\ job'[g] = job[g]
  BY <1>1 DEF LimitInv, LocksFit, Goto, Steps
<1>4. q.vault = v /\ q.id = u /\ q.swept = swept /\ q.base = base(a) /\ q.limit = limit(a)
  OBVIOUS
<1>5. swept \in SUBSET Ids
  BY DEF Stale, Owned
<1>6. account[v] = None =>
         base(a) = AtLeastZero(total[v] - Weight(swept)) /\ limit(a) = VaultLimit
  BY DEF Found
<1> HIDE DEF q, base, limit, swept
<1>7. Read(job[h])'
  BY <1>1, <1>3, <1>4, <1>5, <1>6 DEF Read, sums
<1>8. \A g \in Handlers : pc'[g] = "reserve" => Read(job[g])'
  BY <1>1, <1>3, <1>7 DEF LimitInv, LocksFit, Read, sums
<1>9. \A g \in Handlers : Raises(pc'[g], job'[g])
  BY <1>3 DEF LimitInv, LocksFit, Raises
<1>10. \A g \in Handlers \ {h} : pc'[g] = "reserve" => job'[g].vault # v
  BY <1>3 DEF InitUpload, LockedRead, VaultFree
<1>11. \A f, g \in Handlers : pc'[f] = "reserve" /\ pc'[g] = "reserve"
                                /\ job'[f].vault = job'[g].vault => f = g
  BY <1>3, <1>4, <1>10 DEF LimitInv, LocksFit
<1>12. LocksFit'
  BY <1>3, <1>8, <1>9, <1>11 DEF LocksFit
<1> QED
  BY <1>2, <1>12 DEF LimitInv

LEMMA ReserveLimit ==
  ASSUME LimitInv, NEW h \in Handlers, Reserve(h)
  PROVE  LimitInv'
<1> DEFINE v == job[h].vault
           n == AtLeastZero(total[v] - Weight(job[h].swept))
           s == Size[job[h].id]
<1>1. Read(job[h]) /\ v \in Vaults
  BY DEF Reserve, LimitInv, LocksFit, Read
<1>2. total[v] \in Nat /\ Weight(job[h].swept) \in Nat /\ s \in Nat
  BY <1>1, SizeAssumption, SumsAreNumbers DEF LimitInv, CountersFit, Read
<1>3. n \in Nat
  BY <1>2 DEF AtLeastZero
<1>4. total' = [total EXCEPT ![v] = n + s] /\ UNCHANGED account /\ Finish(h)
  BY DEF Reserve
<1>5. account[v] = None => n + s <= VaultLimit
  BY <1>1 DEF Reserve, Read
<1> HIDE DEF n, s
<1>6. CountersFit'
  BY <1>1, <1>2, <1>3, <1>4, <1>5 DEF LimitInv, CountersFit
<1>7. \A g \in Handlers \ {h} : pc[g] = "reserve" => job[g].vault # v
  BY DEF Reserve, LimitInv, LocksFit
<1>8. \A g \in Handlers \ {h} : pc[g] = "reserve" => total'[job[g].vault] = total[job[g].vault]
  BY <1>4, <1>7 DEF LimitInv, CountersFit
<1>9. LocksFit'
  BY <1>4, <1>8, Freeing
<1> QED
  BY <1>6, <1>9 DEF LimitInv

LEMMA BumpLimit ==
  ASSUME LimitInv, NEW h \in Handlers, Bump(h)
  PROVE  LimitInv'
<1> DEFINE v == job[h].vault
           d == job[h].delta
           n == AtLeastZero(total[v] + d)
<1>1. d \in Int /\ (d <= 0 \/ v \in Mixed)
  BY DEF Bump, LimitInv, LocksFit, Raises
<1>2. total' = [total EXCEPT ![v] = n] /\ UNCHANGED account
  BY DEF Bump
<1>3. v \in Vaults => n \in Nat /\ (d <= 0 /\ total[v] <= VaultLimit => n <= VaultLimit)
  BY <1>1, LimitAssumption, Lowered DEF LimitInv, CountersFit, AtLeastZero
<1> HIDE DEF n
<1>4. CountersFit'
  BY <1>1, <1>2, <1>3 DEF LimitInv, CountersFit
<1>5. \A g \in Handlers \ {h} : pc[g] = "reserve" => total'[job[g].vault] = total[job[g].vault]
  BY <1>2 DEF Bump, VaultFree, LimitInv, CountersFit
<1>6. Raises("credit", job[h]) /\ "credit" \in Steps
  BY DEF Raises, Steps
<1>7. LocksFit'
  BY <1>2, <1>5, <1>6, LockSet DEF Bump
<1> QED
  BY <1>4, <1>7 DEF LimitInv

LEMMA AbortLimit ==
  ASSUME LimitInv, NEW u \in Uploads, Abort(u)
  PROVE  LimitInv'
<1> DEFINE v == owner[u]
           n == AtLeastZero(total[v] - Size[u])
<1>1. total' = [total EXCEPT ![v] = n] /\ UNCHANGED <<account, pc, job>> /\ VaultFree(v)
  BY DEF Abort
<1>2. Size[u] \in Nat
  BY SizeAssumption
<1>3. v \in Vaults => n \in Nat /\ (total[v] <= VaultLimit => n <= VaultLimit)
  BY <1>2, LimitAssumption DEF LimitInv, CountersFit, AtLeastZero
<1> HIDE DEF n
<1>4. CountersFit'
  BY <1>1, <1>3 DEF LimitInv, CountersFit
<1>5. \A g \in Handlers : pc[g] = "reserve" => total'[job[g].vault] = total[job[g].vault]
  BY <1>1 DEF VaultFree, LimitInv, CountersFit
<1> QED
  BY <1>1, <1>4, <1>5, Outside DEF LimitInv

LEMMA SweepLimit ==
  ASSUME LimitInv, SweepAll
  PROVE  LimitInv'
<1>1. /\ total' = [v \in Vaults |-> AtLeastZero(total[v] - Weight(Stale(v)))]
      /\ UNCHANGED <<account, pc, job>>
  BY DEF SweepAll, Freed
<1>2. ASSUME NEW v \in Vaults
      PROVE  /\ total'[v] \in Nat
             /\ total[v] <= VaultLimit => total'[v] <= VaultLimit
             /\ Stale(v) = {} => total'[v] = total[v]
  <2>1. Stale(v) \in SUBSET Ids /\ Weight(Stale(v)) \in Nat /\ total[v] \in Nat
    BY SumsAreNumbers DEF Stale, Owned, LimitInv, CountersFit
  <2>2. Stale(v) = {} => Weight(Stale(v)) = 0
    BY SumsAreNumbers
  <2>3. total'[v] = AtLeastZero(total[v] - Weight(Stale(v)))
    BY <1>1
  <2> QED
    BY <2>1, <2>2, <2>3, LimitAssumption DEF AtLeastZero
<1>3. CountersFit'
  BY <1>1, <1>2 DEF LimitInv, CountersFit
<1>4. ASSUME NEW g \in Handlers, pc[g] = "reserve"
      PROVE  total'[job[g].vault] = total[job[g].vault]
  <2> DEFINE v == job[g].vault
  <2>1. v \in Vaults
    BY <1>4 DEF LimitInv, LocksFit, Read
  <2>2. ASSUME NEW f \in Stale(v)
        PROVE  FALSE
    <3>1. VaultFree(owner[f]) /\ owner[f] = v
      BY <2>1, <2>2 DEF SweepAll, Stale, Owned
    <3> QED
      BY <1>4, <3>1 DEF VaultFree
  <2> QED
    BY <1>2, <2>1, <2>2
<1> QED
  BY <1>1, <1>3, <1>4, Outside DEF LimitInv

LEMMA JoinLimit ==
  ASSUME LimitInv, NEW h \in Handlers, Join(h)
  PROVE  LimitInv'
<1> DEFINE v == job[h].vault
           a == job[h].account
<1>1. a \in Accounts /\ a # None
  BY JoinedAssumption DEF Join, LimitInv, LocksFit, Raises
<1>2. account' = [account EXCEPT ![v] = a] /\ UNCHANGED <<total, job>> /\ Goto(h, "recount")
  BY DEF Join
<1>3. CountersFit'
  BY <1>1, <1>2 DEF LimitInv, CountersFit
<1>4. \A g \in Handlers \ {h} : pc[g] = "reserve" =>
         account'[job[g].vault] = account[job[g].vault]
  BY <1>2 DEF Join, VaultFree, LimitInv, CountersFit
<1>5. Raises("recount", job[h]) /\ "recount" \in Steps
  BY DEF Raises, Steps
<1> QED
  BY <1>2, <1>3, <1>4, <1>5, LockSet DEF LimitInv

\* The steps of handlers that change no counter.
LEMMA QuietLimit ==
  ASSUME LimitInv, NEW h \in Handlers, UNCHANGED <<account, total>>,
         \/ Finish(h)
         \/ \E v \in Vaults : \/ \E f \in Files : CheckUpload(h, v, f)
                              \/ \E a \in Accounts : Ensure(h, v, a)
         \/ \E f \in Ids : Delete(h, f)
         \/ Insert(h) \/ Credit(h)
  PROVE  LimitInv'
<1>0. CountersFit'
  BY DEF LimitInv, CountersFit
<1>1. CASE Finish(h)
  BY <1>0, <1>1, Freeing DEF LimitInv
<1>2. ASSUME NEW step \in Steps, NEW q, Goto(h, step),
             (UNCHANGED job /\ q = job[h]) \/ job' = [job EXCEPT ![h] = q],
             step # "reserve", Raises(step, q)
      PROVE  LimitInv'
  BY <1>0, <1>2, LockSet DEF LimitInv
<1>3. ASSUME NEW v \in Vaults, NEW f \in Files, CheckUpload(h, v, f)
      PROVE  LimitInv'
  <2>0. PICK a \in Found(v) : job' = [job EXCEPT ![h] =
           [Idle EXCEPT !.vault = v, !.id = f, !.delta = Size[f], !.account = a]]
    BY <1>3 DEF CheckUpload
  <2> DEFINE q == [Idle EXCEPT !.vault = v, !.id = f, !.delta = Size[f], !.account = a]
  <2>1. q.vault = v /\ q.delta = Size[f] /\ v \in Mixed /\ Size[f] \in Nat
    BY <1>3, SizeAssumption DEF CheckUpload, Idle
  <2>2. job' = [job EXCEPT ![h] = q] /\ Goto(h, "insert")
    BY <1>3, <2>0 DEF CheckUpload
  <2>3. Raises("insert", q)
    BY <2>1 DEF Raises
  <2>4. "insert" \in Steps
    BY DEF Steps
  <2> HIDE DEF q
  <2> QED
    BY <1>2, <2>2, <2>3, <2>4
<1>4. ASSUME NEW v \in Vaults, NEW a \in Accounts, Ensure(h, v, a)
      PROVE  LimitInv'
  <2> DEFINE q == [Idle EXCEPT !.vault = v, !.account = a]
  <2>1. q.account = a
    BY DEF Idle
  <2>2. PICK step \in {"join", "recount"} : Goto(h, step)
    BY <1>4 DEF Ensure
  <2>3. job' = [job EXCEPT ![h] = q]
    BY <1>4 DEF Ensure
  <2> HIDE DEF q
  <2> QED
    BY <1>2, <2>1, <2>2, <2>3 DEF Raises, Steps
<1>5. ASSUME NEW f \in Ids, Delete(h, f)
      PROVE  LimitInv'
  <2> DEFINE q == [Idle EXCEPT !.vault = owner[f], !.delta = - Size[f]]
  <2>1. q.delta = - Size[f] /\ Size[f] \in Nat
    BY SizeAssumption DEF Idle, Ids
  <2>2. job' = [job EXCEPT ![h] = q] /\ Goto(h, "bump")
    BY <1>5 DEF Delete
  <2>3. Raises("bump", q)
    BY <2>1 DEF Raises
  <2>4. "bump" \in Steps
    BY DEF Steps
  <2> HIDE DEF q
  <2> QED
    BY <1>2, <2>2, <2>3, <2>4
<1>6. CASE Insert(h)
  <2>1. Raises("insert", job[h])
    BY <1>6 DEF Insert, LimitInv, LocksFit
  <2> QED
    BY <1>2, <1>6, <2>1 DEF Insert, Raises, Steps
<1>7. CASE Credit(h)
  BY <1>1, <1>2, <1>7 DEF Credit, Raises, Steps
<1> QED
  BY <1>1, <1>3, <1>4, <1>5, <1>6, <1>7

LEMMA LimitNext ==
  ASSUME LimitInv, [Next]_vars
  PROVE  LimitInv'
<1> USE DEF sums
<1>1. ASSUME NEW h \in Handlers, NEW v \in Vaults,
             \/ \E u \in Uploads : InitUpload(h, v, u)
             \/ \E f \in Files : CheckUpload(h, v, f)
             \/ \E a \in Accounts : Ensure(h, v, a)
      PROVE  LimitInv'
  BY <1>1, InitUploadLimit, QuietLimit DEF CheckUpload, Ensure
<1>2. ASSUME NEW h \in Handlers, NEW f \in Ids, Delete(h, f)
      PROVE  LimitInv'
  BY <1>2, QuietLimit DEF Delete
<1>3. ASSUME NEW h \in Handlers, Insert(h) \/ Credit(h)
      PROVE  LimitInv'
  BY <1>3, QuietLimit DEF Insert, Credit
<1>4. ASSUME NEW h \in Handlers, RefuseUpload(h) \/ CreditAgain(h) \/ Recount(h) \/ Crash(h)
      PROVE  LimitInv'
  BY <1>4, QuietLimit DEF RefuseUpload, CreditAgain, Recount, Crash
<1>5. ASSUME NEW u \in Uploads,
             \/ \E i \in Chunks, c \in Contents : PutChunk(u, i, c)
             \/ Finalize(u) \/ GrowStale(u)
      PROVE  UNCHANGED <<account, total, pc, job>>
  BY <1>5 DEF PutChunk, Finalize, GrowStale
<1>6. ASSUME UNCHANGED <<account, total, pc, job>>
      PROVE  LimitInv'
  BY <1>6, Outside DEF LimitInv, CountersFit
<1>7. CASE UNCHANGED vars
  BY <1>6, <1>7 DEF vars
<1> QED
  BY <1>1, <1>2, <1>3, <1>4, <1>5, <1>6, <1>7,
     ReserveLimit, BumpLimit, JoinLimit, AbortLimit, SweepLimit DEF Next

\* A vault without an account stays within its limit, whichever uploads start, end and
\* are swept at once: UnbilledStaysUnder.
THEOREM UnbilledUnder == Spec => []UnbilledStaysUnder
<1>1. LimitInv => UnbilledStaysUnder
  BY DEF LimitInv, CountersFit, UnbilledStaysUnder
<1>2. LimitInv /\ [Next]_vars => LimitInv'
  BY LimitNext
<1> QED
  BY <1>1, <1>2, LimitInit, PTL DEF Spec

=============================================================================
