------------------------- MODULE DeviceSessionsProofs -------------------------
(***************************************************************************)
(* Theorems about DeviceSessions, for any number of devices, sessions,     *)
(* handlers and processes, any statuses left by earlier releases and any   *)
(* number of failures.                                                     *)
(*                                                                         *)
(* One session survives because the lock on the vault row makes what a     *)
(* login sees when it revokes remain what there is to revoke until it      *)
(* inserts: SessionInv says so, and that a token id is not in the table    *)
(* before its login commits.                                               *)
(***************************************************************************)
EXTENDS DeviceSessions, TLAPS

\* Steps of a login whose session is not in the table yet.
Drawing == {"pin", "issue", "issuing"}

\* One login at a time holds the vault row.
OneIssuer == \A h, x \in Handlers : pc[h] = "issuing" /\ pc[x] = "issuing" => h = x

\* What it has revoked is all there is.
IssuerSeesAll == \A h \in Handlers : pc[h] = "issuing" =>
                    \A s \in Sessions : s \in seen[h] <=> Live(s)

\* Its token id is new, and its own.
TokensFresh ==
    \A h \in Handlers : pc[h] \in Drawing =>
       /\ ~Exists(job[h].token)
       /\ \A x \in Handlers \ {h} : job[x] # None => job[x].token # job[h].token

LoginInv == OneIssuer /\ IssuerSeesAll /\ TokensFresh /\ OneLiveSession

SessionInv == TypeOK /\ LoginInv

-----------------------------------------------------------------------------
(* Which actions there are. *)

HandlerStep(h) ==
    \/ \E s \in Sessions : \/ \E k \in Logins, d \in Devices : StartLogin(h, k, d, s)
                           \/ Load(h, s)
    \/ Issue(h) \/ Trust(h) \/ Serve(h) \/ Raise(h)

ClockStep == \/ \E s \in Sessions : Expire(s)
             \/ \E d \in Devices : DelayOver(d) \/ \E p \in Procs : CacheExpire(p, d)

LEMMA StepSplit ==
  ASSUME Next
  PROVE  (\E h \in Handlers : HandlerStep(h)) \/ ClockStep \/ \E p \in Procs : Crash(p)
  BY Zenon DEF Next, HandlerStep, ClockStep

LEMMA SnapshotKinds ==
  /\ Snapshots("issuing") = SUBSET Sessions
  /\ Snapshots("sweeping") = SUBSET Devices
  /\ \A step \in Steps \ {"issuing", "sweeping"} : Snapshots(step) = {{}}
  BY DEF Snapshots, Steps

-----------------------------------------------------------------------------
(* Type correctness. *)

\* What is typed of the handlers.
ControlOK ==
    /\ pc \in [Handlers -> Steps]
    /\ job \in [Handlers -> Jobs \cup {None}]
    /\ \A h \in Handlers : /\ pc[h] = "idle" <=> job[h] = None
                          /\ seen[h] \in Snapshots(pc[h])
    /\ seen \in [Handlers -> SUBSET (Sessions \cup Devices)]

\* One handler moves on, with a job and a snapshot that suit its step.
LEMMA MoveTyped ==
  ASSUME ControlOK, NEW h \in Handlers, NEW step \in Steps, NEW j \in Jobs \cup {None},
         NEW rows \in SUBSET (Sessions \cup Devices),
         step = "idle" <=> j = None,
         rows \in Snapshots(step),
         pc' = [pc EXCEPT ![h] = step],
         job' = [job EXCEPT ![h] = j],
         seen' = [seen EXCEPT ![h] = rows]
  PROVE  ControlOK'
  BY DEF ControlOK

LEMMA FinishTyped ==
  ASSUME ControlOK, NEW h \in Handlers, Finish(h)
  PROVE  ControlOK'
<1>1. "idle" \in Steps /\ {} \in Snapshots("idle")
  BY SnapshotKinds DEF Steps
<1> QED
  BY <1>1, MoveTyped DEF Finish, Goto

\* A handler that keeps its job and its snapshot, where there is none to keep.
LEMMA GotoTyped ==
  ASSUME ControlOK, NEW h \in Handlers, NEW step \in Steps \ {"idle", "issuing", "sweeping"},
         pc[h] # "idle", Goto(h, step), UNCHANGED job,
         seen' = [seen EXCEPT ![h] = {}]
  PROVE  ControlOK'
<1>1. {} \in Snapshots(step)
  BY SnapshotKinds
<1>2. job[h] \in Jobs \cup {None} /\ job[h] # None /\ job' = [job EXCEPT ![h] = job[h]]
  BY DEF ControlOK
<1> QED
  BY <1>1, <1>2, MoveTyped DEF Goto

\* Outside the two transactions a snapshot is empty.
LEMMA NoRows ==
  ASSUME ControlOK, NEW h \in Handlers, pc[h] \notin {"issuing", "sweeping"}
  PROVE  seen[h] = {} /\ seen = [seen EXCEPT ![h] = {}]
<1>1. pc[h] \in Steps /\ seen[h] \in Snapshots(pc[h])
  BY DEF ControlOK
<1>2. seen[h] = {}
  BY <1>1, SnapshotKinds
<1> QED
  BY <1>2 DEF ControlOK

LEMMA ProceedTyped ==
  ASSUME ControlOK, NEW h \in Handlers, pc[h] # "idle", Proceed(h)
  PROVE  ControlOK'
<1>1. CASE job[h].then = "idle"
  BY <1>1, FinishTyped DEF Proceed
<1>2. CASE job[h].then # "idle"
  BY <1>2, GotoTyped DEF Proceed, Steps
<1> QED
  BY <1>1, <1>2

LEMMA StartTyped ==
  ASSUME ControlOK, NEW h \in Handlers, NEW k \in Logins, NEW d \in Devices,
         NEW s \in Sessions, StartLogin(h, k, d, s)
  PROVE  ControlOK'
<1> DEFINE j == [kind |-> k, device |-> d, token |-> s, then |-> "idle"]
           step == IF k = "pin" THEN "pin" ELSE "issue"
<1>1. j \in Jobs /\ j # None
  BY NoneAssumption DEF Jobs, Kinds
<1>2. step \in Steps /\ step \notin {"idle", "issuing", "sweeping"}
  BY DEF Steps
<1>3. {} \in Snapshots(step)
  BY <1>2, SnapshotKinds
<1>4. seen' = [seen EXCEPT ![h] = {}]
  BY NoRows DEF StartLogin
<1>5. pc' = [pc EXCEPT ![h] = step] /\ job' = [job EXCEPT ![h] = j]
  BY DEF StartLogin, Goto
<1> HIDE DEF j, step
<1> QED
  BY <1>1, <1>2, <1>3, <1>4, <1>5, MoveTyped

LEMMA IssueTyped ==
  ASSUME ControlOK, NEW h \in Handlers, Issue(h)
  PROVE  ControlOK'
<1>1. CASE PinTrust(h)
  <2>1. seen' = [seen EXCEPT ![h] = {}]
    BY <1>1, NoRows DEF PinTrust
  <2> QED
    BY <1>1, <2>1, GotoTyped DEF PinTrust, Steps
<1>2. CASE IssueLock(h)
  <2> DEFINE rows == {s \in Sessions : Live(s)}
  <2>1. rows \in SUBSET (Sessions \cup Devices) /\ rows \in Snapshots("issuing")
    BY SnapshotKinds
  <2>2. job[h] \in Jobs \cup {None} /\ job[h] # None /\ job' = [job EXCEPT ![h] = job[h]]
    BY <1>2 DEF ControlOK, IssueLock
  <2>3. "issuing" \in Steps \ {"idle"}
    BY DEF Steps
  <2>4. seen' = [seen EXCEPT ![h] = rows] /\ pc' = [pc EXCEPT ![h] = "issuing"]
    BY <1>2 DEF IssueLock, Goto
  <2> HIDE DEF rows
  <2> QED
    BY <2>1, <2>2, <2>3, <2>4, MoveTyped
<1>3. CASE IssueCommit(h)
  <2>1. CASE job[h].kind = "login"
    BY <1>3, <2>1, GotoTyped DEF IssueCommit, Steps
  <2>2. CASE job[h].kind # "login"
    BY <1>3, <2>2, FinishTyped DEF IssueCommit
  <2> QED
    BY <2>1, <2>2
<1> QED
  BY <1>1, <1>2, <1>3 DEF Issue

LEMMA TrustTyped ==
  ASSUME ControlOK, NEW h \in Handlers, Trust(h)
  PROVE  ControlOK'
<1>1. CASE TrustUpsert(h)
  <2>1. seen' = [seen EXCEPT ![h] = {}]
    BY <1>1, NoRows DEF TrustUpsert
  <2> QED
    BY <1>1, <2>1, GotoTyped DEF TrustUpsert, Steps
<1>2. CASE TrustSweep(h)
  <2> DEFINE rows == {e \in Devices \ {Own(h)} : device[e] \in {"pending", "trusted"}}
  <2>1. rows \in SUBSET (Sessions \cup Devices) /\ rows \in Snapshots("sweeping")
    BY SnapshotKinds
  <2>2. job[h] \in Jobs \cup {None} /\ job[h] # None /\ job' = [job EXCEPT ![h] = job[h]]
    BY <1>2 DEF ControlOK, TrustSweep
  <2>3. "sweeping" \in Steps \ {"idle"}
    BY DEF Steps
  <2>4. seen' = [seen EXCEPT ![h] = rows] /\ pc' = [pc EXCEPT ![h] = "sweeping"]
    BY <1>2 DEF TrustSweep, Goto
  <2> HIDE DEF rows
  <2> QED
    BY <2>1, <2>2, <2>3, <2>4, MoveTyped
<1>3. CASE TrustCommit(h)
  BY <1>3, ProceedTyped DEF TrustCommit
<1>4. CASE TrustVictim(h)
  <2>1. pc[h] = "sweeping"
    BY <1>4 DEF TrustVictim, WaitsFor
  <2> QED
    BY <1>4, <2>1, ProceedTyped DEF TrustVictim
<1> QED
  BY <1>1, <1>2, <1>3, <1>4 DEF Trust

LEMMA LoadTyped ==
  ASSUME TypeOK, NEW h \in Handlers, NEW s \in Sessions, Load(h, s)
  PROVE  ControlOK' /\ cache' \subseteq Procs \X Devices
<1> DEFINE d == session[s].device
           j == [kind |-> "request", device |-> d, token |-> s, then |-> "checked"]
           step == IF <<ProcOf[h], d>> \in cache THEN "checked" ELSE "trust"
<1>0. ControlOK
  BY DEF TypeOK, ControlOK
<1>1. d \in Devices
  BY DEF TypeOK, Load, Valid, Live, Exists, SessionRows
<1>2. j \in Jobs /\ j # None
  BY <1>1, NoneAssumption DEF Jobs, Kinds
<1>3. step \in Steps /\ step \notin {"idle", "issuing", "sweeping"}
  BY DEF Steps
<1>4. {} \in Snapshots(step)
  BY <1>3, SnapshotKinds
<1>5. seen' = [seen EXCEPT ![h] = {}]
  BY <1>0, NoRows DEF Load
<1>6. /\ pc' = [pc EXCEPT ![h] = step] /\ job' = [job EXCEPT ![h] = j]
      /\ cache' = cache \cup {<<ProcOf[h], d>>}
  BY DEF Load, Goto
<1>7. ProcOf[h] \in Procs
  BY ProcAssumption
<1>8. cache' \subseteq Procs \X Devices
  BY <1>1, <1>6, <1>7 DEF TypeOK
<1> HIDE DEF j, step, d
<1> QED
  BY <1>0, <1>2, <1>3, <1>4, <1>5, <1>6, <1>8, MoveTyped

LEMMA ServeTyped ==
  ASSUME ControlOK, NEW h \in Handlers, Serve(h)
  PROVE  ControlOK'
<1>1. CASE GatePass(h)
  <2>1. seen' = [seen EXCEPT ![h] = {}]
    BY <1>1, NoRows DEF GatePass
  <2> QED
    BY <1>1, <2>1, GotoTyped DEF GatePass, Steps
<1>2. CASE Register(h)
  <2> DEFINE j == [job[h] EXCEPT !.then = "idle"]
  <2>1. job[h] \in Jobs
    BY <1>2 DEF ControlOK, Register
  <2>2. j \in Jobs /\ j # None
    BY <2>1, NoneAssumption DEF Jobs
  <2>3. seen' = [seen EXCEPT ![h] = {}] /\ {} \in Snapshots("trust")
    BY <1>2, NoRows, SnapshotKinds DEF Register, Steps
  <2>4. job' = [job EXCEPT ![h] = j] /\ pc' = [pc EXCEPT ![h] = "trust"]
    BY <1>2 DEF Register, Goto
  <2>5. "trust" \in Steps \ {"idle"}
    BY DEF Steps
  <2> HIDE DEF j
  <2> QED
    BY <2>2, <2>3, <2>4, <2>5, MoveTyped
<1>3. CASE Use(h) \/ Logout(h) \/ Ask(h) \/ SelfApprove(h) \/ Refuse(h)
  BY <1>3, FinishTyped DEF Use, Logout, Ask, SelfApprove, Refuse, Update
<1>4. ASSUME NEW d \in Devices, Approve(h, d) \/ Revoke(h, d) \/ Cancel(h, d)
      PROVE  ControlOK'
  BY <1>4, FinishTyped DEF Approve, Revoke, Cancel, Update
<1> QED
  BY <1>1, <1>2, <1>3, <1>4 DEF Serve

LEMMA RaiseTyped ==
  ASSUME ControlOK, NEW h \in Handlers, Raise(h)
  PROVE  ControlOK'
<1>1. CASE pc[h] \in {"trust", "upserted", "sweeping"}
  BY <1>1, ProceedTyped DEF Raise
<1>2. CASE pc[h] = "pin"
  <2>1. seen' = [seen EXCEPT ![h] = {}]
    BY <1>2, NoRows DEF Raise
  <2> QED
    BY <1>2, <2>1, GotoTyped DEF Raise, Steps
<1>3. CASE pc[h] \notin {"trust", "upserted", "sweeping", "pin"}
  BY <1>3, FinishTyped DEF Raise
<1> QED
  BY <1>1, <1>2, <1>3

LEMMA CrashTyped ==
  ASSUME ControlOK, NEW p \in Procs, Crash(p)
  PROVE  ControlOK'
<1>1. "idle" \in Steps /\ {} \in Snapshots("idle")
  BY SnapshotKinds DEF Steps
<1>2. ASSUME NEW h \in Handlers
      PROVE  /\ pc'[h] \in Steps /\ job'[h] \in Jobs \cup {None}
             /\ pc'[h] = "idle" <=> job'[h] = None
             /\ seen'[h] \in Snapshots(pc'[h]) /\ seen'[h] \in SUBSET (Sessions \cup Devices)
  <2>1. CASE ProcOf[h] = p
    <3>1. pc'[h] = "idle" /\ job'[h] = None /\ seen'[h] = {}
      BY <2>1 DEF Crash
    <3> QED
      BY <1>1, <3>1
  <2>2. CASE ProcOf[h] # p
    <3>1. pc'[h] = pc[h] /\ job'[h] = job[h] /\ seen'[h] = seen[h]
      BY <2>2 DEF Crash
    <3> QED
      BY <3>1 DEF ControlOK
  <2> QED
    BY <2>1, <2>2
<1>3. /\ pc' \in [Handlers -> Steps] /\ job' \in [Handlers -> Jobs \cup {None}]
      /\ seen' \in [Handlers -> SUBSET (Sessions \cup Devices)]
  BY <1>2 DEF Crash
<1> QED
  BY <1>2, <1>3 DEF ControlOK

\* What is typed of the tables, the cache and the count of failures.
TablesOK ==
    /\ session \in [Sessions -> SessionRows \cup {None}]
    /\ device \in [Devices -> Status]
    /\ delay \in [Devices -> Delays]
    /\ cache \subseteq Procs \X Devices
    /\ fails \in 0 .. MaxFails

LEMMA RowTyped ==
  ASSUME NEW row \in SessionRows, NEW st \in {"live", "superseded", "revoked"}
  PROVE  /\ [row EXCEPT !.status = st] \in SessionRows
         /\ [row EXCEPT !.expired = TRUE] \in SessionRows
  BY DEF SessionRows

LEMMA CommitTyped ==
  ASSUME TypeOK, IssuerSeesAll, NEW h \in Handlers, IssueCommit(h)
  PROVE  session' \in [Sessions -> SessionRows \cup {None}]
<1>1. job[h] \in Jobs /\ Own(h) \in Devices
  BY DEF TypeOK, IssueCommit, Own, Jobs
<1>2. ASSUME NEW s \in Sessions
      PROVE  session'[s] \in SessionRows \cup {None}
  <2>1. CASE s = job[h].token
    BY <1>1, <2>1 DEF IssueCommit, SessionRows
  <2>2. CASE s # job[h].token /\ s \in seen[h]
    <3>1. session[s] \in SessionRows
      BY <2>2 DEF IssueCommit, IssuerSeesAll, Live, Exists, TypeOK
    <3>2. session'[s] = [session[s] EXCEPT !.status = "superseded"]
      BY <2>2 DEF IssueCommit
    <3> QED
      BY <3>1, <3>2, RowTyped
  <2>3. CASE s # job[h].token /\ s \notin seen[h]
    BY <2>3 DEF IssueCommit, TypeOK
  <2> QED
    BY <2>1, <2>2, <2>3
<1> QED
  BY <1>2 DEF IssueCommit

LEMMA LogoutTyped ==
  ASSUME TypeOK, NEW h \in Handlers, Logout(h)
  PROVE  session' \in [Sessions -> SessionRows \cup {None}]
<1> DEFINE s == job[h].token
           row == [session[s] EXCEPT !.status = "revoked"]
<1>1. CASE Revocable(s)
  <2>1. s \in Sessions
    BY DEF TypeOK, Logout, Jobs
  <2>2. session[s] \in SessionRows
    BY <1>1, <2>1 DEF Revocable, Live, Exists, TypeOK
  <2>3. row \in SessionRows
    BY <2>2, RowTyped
  <2>4. session' = [session EXCEPT ![s] = row]
    BY <1>1 DEF Logout
  <2> HIDE DEF s, row
  <2> QED
    BY <2>1, <2>3, <2>4 DEF TypeOK
<1>2. CASE ~Revocable(s)
  BY <1>2 DEF Logout, TypeOK
<1> QED
  BY <1>1, <1>2

LEMMA UpdateTyped ==
  ASSUME TablesOK, NEW h \in Handlers, NEW d \in Devices, NEW from,
         NEW status \in Status, NEW wait \in Delays, Update(h, d, from, status, wait)
  PROVE  TablesOK'
  BY DEF Update, TablesOK

LEMMA ServeTables ==
  ASSUME TypeOK, NEW h \in Handlers, Serve(h)
  PROVE  TablesOK'
<1>0. TablesOK
  BY DEF TypeOK, TablesOK
<1>1. CASE GatePass(h) \/ Use(h) \/ Register(h) \/ Refuse(h)
  BY <1>0, <1>1 DEF GatePass, Use, Register, Refuse, tables, TablesOK
<1>2. CASE Logout(h)
  BY <1>0, <1>2, LogoutTyped DEF Logout, TablesOK
<1>3. CASE Ask(h) \/ SelfApprove(h)
  <2>1. Own(h) \in Devices
    BY <1>3 DEF TypeOK, Ask, SelfApprove, Own, Jobs
  <2> QED
    BY <1>0, <1>3, <2>1, UpdateTyped DEF Ask, SelfApprove, Status, Delays
<1>4. ASSUME NEW d \in Devices, Approve(h, d) \/ Revoke(h, d) \/ Cancel(h, d)
      PROVE  TablesOK'
  <2>1. device[d] \in Status
    BY DEF TypeOK
  <2> QED
    BY <1>0, <1>4, <2>1, UpdateTyped DEF Approve, Revoke, Cancel, Status, Delays
<1> QED
  BY <1>1, <1>2, <1>3, <1>4 DEF Serve

LEMMA TrustTables ==
  ASSUME TypeOK, NEW h \in Handlers, Trust(h)
  PROVE  TablesOK'
<1>1. CASE TrustCommit(h)
  BY <1>1 DEF TrustCommit, Upserted, TypeOK, TablesOK, Status, Delays
<1>2. CASE TrustUpsert(h) \/ TrustSweep(h) \/ TrustVictim(h)
  BY <1>2 DEF TrustUpsert, TrustSweep, TrustVictim, tables, TypeOK, TablesOK
<1> QED
  BY <1>1, <1>2 DEF Trust

LEMMA TypeStep ==
  ASSUME TypeOK, IssuerSeesAll, [Next]_vars
  PROVE  TypeOK'
<1>0. TablesOK /\ ControlOK
  BY DEF TypeOK, TablesOK, ControlOK
<1> SUFFICES TablesOK' /\ ControlOK'
  BY DEF TypeOK, TablesOK, ControlOK
<1>1. CASE UNCHANGED vars
  BY <1>0, <1>1 DEF vars, tables, control, TablesOK, ControlOK
<1>2. ASSUME NEW h \in Handlers, NEW s \in Sessions, NEW k \in Logins, NEW d \in Devices,
             StartLogin(h, k, d, s)
      PROVE  TablesOK' /\ ControlOK'
  BY <1>0, <1>2, StartTyped DEF StartLogin, tables, TablesOK
<1>3. ASSUME NEW h \in Handlers, NEW s \in Sessions, Load(h, s)
      PROVE  TablesOK' /\ ControlOK'
  BY <1>0, <1>3, LoadTyped DEF Load, tables, TablesOK
<1>4. ASSUME NEW h \in Handlers, Issue(h)
      PROVE  TablesOK' /\ ControlOK'
  <2>1. ASSUME PinTrust(h)
        PROVE  TablesOK'
    BY <1>0, <2>1 DEF PinTrust, TablesOK, Status
  <2>2. ASSUME IssueLock(h)
        PROVE  TablesOK'
    BY <1>0, <2>2 DEF IssueLock, tables, TablesOK
  <2>3. ASSUME IssueCommit(h)
        PROVE  TablesOK'
    BY <1>0, <2>3, CommitTyped DEF IssueCommit, TablesOK
  <2> QED
    BY <1>0, <1>4, <2>1, <2>2, <2>3, IssueTyped DEF Issue
<1>5. ASSUME NEW h \in Handlers, Trust(h)
      PROVE  TablesOK' /\ ControlOK'
  BY <1>0, <1>5, TrustTyped, TrustTables
<1>6. ASSUME NEW h \in Handlers, Serve(h)
      PROVE  TablesOK' /\ ControlOK'
  BY <1>0, <1>6, ServeTyped, ServeTables
<1>7. ASSUME fails < MaxFails, fails' = fails + 1
      PROVE  fails' \in 0 .. MaxFails
  BY <1>0, <1>7, FailAssumption DEF TablesOK
<1>8. ASSUME NEW h \in Handlers, Raise(h)
      PROVE  TablesOK' /\ ControlOK'
  BY <1>0, <1>7, <1>8, RaiseTyped DEF Raise, tables, TablesOK
<1>9. ASSUME NEW p \in Procs, Crash(p)
      PROVE  TablesOK' /\ ControlOK'
  <2>1. cache' \subseteq cache /\ UNCHANGED tables /\ fails' \in 0 .. MaxFails
    BY <1>7, <1>9 DEF Crash
  <2> QED
    BY <1>0, <1>9, <2>1, CrashTyped DEF tables, TablesOK
<1>10. CASE ClockStep
  <2>1. ASSUME NEW s \in Sessions, Expire(s)
        PROVE  TablesOK' /\ ControlOK'
    <3> DEFINE row == [session[s] EXCEPT !.expired = TRUE]
    <3>1. session[s] \in SessionRows
      BY <1>0, <2>1 DEF Expire, Valid, Live, Exists, TablesOK
    <3>2. row \in SessionRows
      BY <3>1, RowTyped
    <3>3. session' = [session EXCEPT ![s] = row]
      BY <2>1 DEF Expire
    <3> HIDE DEF row
    <3>4. session' \in [Sessions -> SessionRows \cup {None}]
      BY <1>0, <3>2, <3>3 DEF TablesOK
    <3> QED
      BY <1>0, <2>1, <3>4 DEF Expire, control, TablesOK, ControlOK
  <2>2. ASSUME NEW d \in Devices, DelayOver(d)
        PROVE  TablesOK' /\ ControlOK'
    BY <1>0, <2>2 DEF DelayOver, control, TablesOK, ControlOK, Delays
  <2>3. ASSUME NEW d \in Devices, NEW p \in Procs, CacheExpire(p, d)
        PROVE  TablesOK' /\ ControlOK'
    BY <1>0, <2>3 DEF CacheExpire, tables, control, TablesOK, ControlOK
  <2> QED
    BY <1>10, <2>1, <2>2, <2>3 DEF ClockStep
<1> QED
  BY <1>1, <1>2, <1>3, <1>4, <1>5, <1>6, <1>8, <1>9, <1>10, StepSplit DEF HandlerStep

-----------------------------------------------------------------------------
(* Logins that do not disturb each other. *)

\* No handler starts to draw a session, or to revoke the others, and none is
\* given another token or device.
Quiet ==
  \A x \in Handlers :
     /\ pc'[x] \in Drawing => pc[x] \in Drawing
     /\ pc'[x] = "issuing" => pc[x] = "issuing" /\ seen'[x] = seen[x]
     /\ job'[x] # None => /\ job[x] # None
                          /\ job'[x].token = job[x].token
                          /\ job'[x].device = job[x].device

\* Sessions may end meanwhile, where no login has looked at them.
LEMMA EndKeeps ==
  ASSUME TypeOK', LoginInv, Quiet,
         \A s \in Sessions : (Live(s)' => Live(s)) /\ (Exists(s)' => Exists(s)),
         \A s \in Sessions, x \in Handlers : pc[x] = "issuing" => (Live(s)' <=> Live(s))
  PROVE  LoginInv'
<1> USE DEF LoginInv
<1>1. OneIssuer'
  BY DEF OneIssuer, Quiet
<1>2. IssuerSeesAll'
  BY DEF IssuerSeesAll, Quiet
<1>3. OneLiveSession'
  BY DEF OneLiveSession
<1>4. ASSUME NEW h \in Handlers, pc'[h] \in Drawing
      PROVE  /\ ~Exists(job[h].token)'
             /\ \A x \in Handlers \ {h} : job'[x] # None => job'[x].token # job'[h].token
  <2>1. job'[h] # None /\ job'[h].token \in Sessions
    BY <1>4 DEF TypeOK, Drawing, Jobs
  <2>2. pc[h] \in Drawing /\ job'[h].token = job[h].token
    BY <1>4, <2>1 DEF Quiet
  <2>3. ~Exists(job[h].token) /\ job[h].token \in Sessions
    BY <2>1, <2>2 DEF TokensFresh
  <2>4. ~Exists(job[h].token)'
    BY <2>2, <2>3 DEF Exists
  <2> QED
    BY <1>4, <2>1, <2>2, <2>4 DEF Quiet, TokensFresh
<1>5. TokensFresh'
  BY <1>4 DEF TokensFresh
<1> QED
  BY <1>1, <1>2, <1>3, <1>5

LEMMA QuietKeeps ==
  ASSUME TypeOK', LoginInv, Quiet, UNCHANGED session
  PROVE  LoginInv'
<1>1. \A s \in Sessions : (Live(s)' <=> Live(s)) /\ (Exists(s)' <=> Exists(s))
  BY DEF Live, Exists
<1> QED
  BY <1>1, EndKeeps

\* One handler moves on and the others stay.
LEMMA MoveQuiet ==
  ASSUME ControlOK, NEW h \in Handlers, NEW step, NEW j, NEW rows,
         step \in Drawing => pc[h] \in Drawing,
         step # "issuing",
         j # None => job[h] # None /\ j.token = job[h].token /\ j.device = job[h].device,
         pc' = [pc EXCEPT ![h] = step],
         job' = [job EXCEPT ![h] = j],
         seen' = [seen EXCEPT ![h] = rows]
  PROVE  Quiet
<1> SUFFICES ASSUME NEW x \in Handlers
             PROVE  /\ pc'[x] \in Drawing => pc[x] \in Drawing
                    /\ pc'[x] = "issuing" => pc[x] = "issuing" /\ seen'[x] = seen[x]
                    /\ job'[x] # None => /\ job[x] # None
                                         /\ job'[x].token = job[x].token
                                         /\ job'[x].device = job[x].device
  BY DEF Quiet
<1>1. CASE x = h
  BY <1>1 DEF ControlOK
<1>2. CASE x # h
  BY <1>2 DEF ControlOK
<1> QED
  BY <1>1, <1>2

LEMMA FinishQuiet ==
  ASSUME ControlOK, NEW h \in Handlers, Finish(h)
  PROVE  Quiet
  BY MoveQuiet DEF Finish, Goto, Drawing

LEMMA GotoQuiet ==
  ASSUME ControlOK, NEW h \in Handlers, NEW step, NEW rows,
         pc[h] # "idle", step \in Drawing => pc[h] \in Drawing, step # "issuing",
         Goto(h, step), UNCHANGED job, seen' = [seen EXCEPT ![h] = rows]
  PROVE  Quiet
<1>1. job' = [job EXCEPT ![h] = job[h]] /\ job[h] # None
  BY DEF ControlOK
<1> QED
  BY <1>1, MoveQuiet DEF Goto

LEMMA ProceedQuiet ==
  ASSUME ControlOK, NEW h \in Handlers, pc[h] # "idle", Proceed(h)
  PROVE  Quiet
<1>1. CASE job[h].then = "idle"
  BY <1>1, FinishQuiet DEF Proceed
<1>2. CASE job[h].then # "idle"
  BY <1>2, GotoQuiet DEF Proceed, Drawing
<1> QED
  BY <1>1, <1>2

LEMMA TrustQuiet ==
  ASSUME ControlOK, NEW h \in Handlers, Trust(h)
  PROVE  Quiet /\ UNCHANGED session
<1>1. CASE TrustUpsert(h)
  <2>1. seen' = [seen EXCEPT ![h] = {}]
    BY <1>1, NoRows DEF TrustUpsert
  <2> QED
    BY <1>1, <2>1, GotoQuiet DEF TrustUpsert, Drawing, tables
<1>2. CASE TrustSweep(h)
  BY <1>2, GotoQuiet DEF TrustSweep, Drawing, tables
<1>3. CASE TrustCommit(h)
  BY <1>3, ProceedQuiet DEF TrustCommit
<1>4. CASE TrustVictim(h)
  <2>1. pc[h] = "sweeping"
    BY <1>4 DEF TrustVictim, WaitsFor
  <2> QED
    BY <1>4, <2>1, ProceedQuiet DEF TrustVictim, tables
<1> QED
  BY <1>1, <1>2, <1>3, <1>4 DEF Trust

LEMMA ServeQuiet ==
  ASSUME ControlOK, NEW h \in Handlers, Serve(h)
  PROVE  Quiet /\ (UNCHANGED session \/ Logout(h))
<1>1. CASE GatePass(h)
  <2>1. seen' = [seen EXCEPT ![h] = {}]
    BY <1>1, NoRows DEF GatePass
  <2> QED
    BY <1>1, <2>1, GotoQuiet DEF GatePass, Drawing, tables
<1>2. CASE Register(h)
  <2> DEFINE j == [job[h] EXCEPT !.then = "idle"]
  <2>1. job[h] \in Jobs /\ job[h] # None
    BY <1>2 DEF ControlOK, Register
  <2>2. j.token = job[h].token /\ j.device = job[h].device
    BY <2>1 DEF Jobs
  <2>3. seen' = [seen EXCEPT ![h] = {}]
    BY <1>2, NoRows DEF Register
  <2>4. job' = [job EXCEPT ![h] = j] /\ pc' = [pc EXCEPT ![h] = "trust"]
    BY <1>2 DEF Register, Goto
  <2>5. "trust" \notin Drawing
    BY DEF Drawing
  <2> HIDE DEF j
  <2>6. Quiet
    BY <2>1, <2>2, <2>3, <2>4, <2>5, MoveQuiet
  <2> QED
    BY <1>2, <2>6 DEF Register, tables
<1>3. CASE Use(h) \/ Logout(h) \/ Ask(h) \/ SelfApprove(h) \/ Refuse(h)
  BY <1>3, FinishQuiet DEF Use, Logout, Ask, SelfApprove, Refuse, Update, tables
<1>4. ASSUME NEW d \in Devices, Approve(h, d) \/ Revoke(h, d) \/ Cancel(h, d)
      PROVE  Quiet /\ UNCHANGED session
  BY <1>4, FinishQuiet DEF Approve, Revoke, Cancel, Update
<1> QED
  BY <1>1, <1>2, <1>3, <1>4 DEF Serve

LEMMA RaiseQuiet ==
  ASSUME ControlOK, NEW h \in Handlers, Raise(h)
  PROVE  Quiet /\ UNCHANGED session
<1>1. CASE pc[h] \in {"trust", "upserted", "sweeping"}
  BY <1>1, ProceedQuiet DEF Raise, tables
<1>2. CASE pc[h] = "pin"
  <2>1. seen' = [seen EXCEPT ![h] = {}]
    BY <1>2, NoRows DEF Raise
  <2> QED
    BY <1>2, <2>1, GotoQuiet DEF Raise, Drawing, tables
<1>3. CASE pc[h] \notin {"trust", "upserted", "sweeping", "pin"}
  BY <1>3, FinishQuiet DEF Raise, tables
<1> QED
  BY <1>1, <1>2, <1>3

LEMMA CrashQuiet ==
  ASSUME NEW p \in Procs, Crash(p)
  PROVE  Quiet /\ UNCHANGED session
<1>1. ASSUME NEW x \in Handlers
      PROVE  \/ pc'[x] = "idle" /\ job'[x] = None
             \/ pc'[x] = pc[x] /\ job'[x] = job[x] /\ seen'[x] = seen[x]
  BY DEF Crash
<1> QED
  BY <1>1 DEF Crash, tables, Quiet, Drawing

LEMMA StartKeeps ==
  ASSUME TypeOK, LoginInv, NEW h \in Handlers, NEW k \in Logins, NEW d \in Devices,
         NEW s \in Sessions, StartLogin(h, k, d, s)
  PROVE  LoginInv'
<1> USE DEF LoginInv
<1>1. UNCHANGED session
  BY DEF StartLogin, tables
<1>2. \A x \in Handlers \ {h} : pc'[x] = pc[x] /\ job'[x] = job[x] /\ seen'[x] = seen[x]
  BY DEF StartLogin, Goto, TypeOK
<1>3. pc'[h] # "issuing" /\ job'[h].token = s /\ job'[h] # None /\ job[h] = None
  BY NoneAssumption DEF StartLogin, Goto, TypeOK, Jobs, Kinds
<1>4. OneIssuer'
  BY <1>2, <1>3 DEF OneIssuer
<1>5. IssuerSeesAll' /\ OneLiveSession'
  BY <1>1, <1>2, <1>3 DEF IssuerSeesAll, OneLiveSession, Live, Exists
<1>6. ~Exists(s)' /\ \A x \in Handlers \ {h} : job'[x] # None => job'[x].token # s
  BY <1>1, <1>2 DEF StartLogin, Exists
<1>7. ASSUME NEW x \in Handlers, pc'[x] \in Drawing
      PROVE  /\ ~Exists(job[x].token)'
             /\ \A y \in Handlers \ {x} : job'[y] # None => job'[y].token # job'[x].token
  <2>1. CASE x = h
    BY <1>3, <1>6, <2>1 DEF Exists
  <2>2. CASE x # h
    <3>1. job'[x] # None
      BY <1>2, <1>7, <2>2 DEF TypeOK, Drawing
    <3>2. job'[x].token # s
      BY <1>6, <2>2, <3>1
    <3> QED
      BY <1>1, <1>2, <1>3, <1>7, <2>2, <3>2 DEF TokensFresh, Exists
  <2> QED
    BY <2>1, <2>2
<1> QED
  BY <1>4, <1>5, <1>7 DEF TokensFresh

LEMMA LockKeeps ==
  ASSUME TypeOK, LoginInv, NEW h \in Handlers, IssueLock(h)
  PROVE  LoginInv'
<1> USE DEF LoginInv
<1>1. UNCHANGED <<session, job>>
  BY DEF IssueLock, tables
<1>2. \A x \in Handlers \ {h} : pc'[x] = pc[x] /\ seen'[x] = seen[x] /\ pc[x] # "issuing"
  BY DEF IssueLock, VaultFree, Goto, TypeOK
<1>3. pc'[h] = "issuing" /\ seen'[h] = {s \in Sessions : Live(s)} /\ pc[h] \in Drawing
  BY DEF IssueLock, Goto, TypeOK, Drawing
<1>4. OneIssuer'
  BY <1>2 DEF OneIssuer
<1>5. IssuerSeesAll' /\ OneLiveSession'
  BY <1>1, <1>2, <1>3 DEF IssuerSeesAll, OneLiveSession, Live, Exists
<1>6. TokensFresh'
  BY <1>1, <1>2, <1>3 DEF TokensFresh, Exists
<1> QED
  BY <1>4, <1>5, <1>6

LEMMA CommitQuiet ==
  ASSUME ControlOK, NEW h \in Handlers, IssueCommit(h)
  PROVE  Quiet
<1>1. CASE job[h].kind = "login"
  BY <1>1, GotoQuiet DEF IssueCommit, Drawing
<1>2. CASE job[h].kind # "login"
  BY <1>2, FinishQuiet DEF IssueCommit
<1> QED
  BY <1>1, <1>2

LEMMA CommitKeeps ==
  ASSUME TypeOK, TypeOK', LoginInv, NEW h \in Handlers, IssueCommit(h)
  PROVE  LoginInv'
<1> USE DEF LoginInv
<1> DEFINE t == job[h].token
<1>0. ControlOK
  BY DEF TypeOK, ControlOK
<1>1. Quiet
  BY <1>0, CommitQuiet
<1>2. OneIssuer'
  BY <1>1 DEF OneIssuer, Quiet
<1>3. pc[h] = "issuing" /\ pc'[h] # "issuing" /\ pc'[h] \notin Drawing /\ h \in Handlers
  BY DEF IssueCommit, Finish, Goto, TypeOK, Drawing
<1>4. \A x \in Handlers : pc'[x] # "issuing"
  BY <1>1, <1>3 DEF OneIssuer, Quiet
<1>5. t \in Sessions /\ \A s \in Sessions : s \in seen[h] <=> Live(s)
  BY <1>3 DEF IssuerSeesAll, TypeOK, Jobs
<1>6. ASSUME NEW s \in Sessions, s # t
      PROVE  ~Live(s)' /\ (Exists(s)' => Exists(s))
  <2>1. CASE s \in seen[h]
    <3>1. session[s] \in SessionRows /\ Exists(s)
      BY <1>5, <2>1 DEF Live, Exists, TypeOK
    <3>2. session'[s] = [session[s] EXCEPT !.status = "superseded"]
      BY <1>6, <2>1 DEF IssueCommit
    <3>3. session'[s].status = "superseded"
      BY <3>1, <3>2 DEF SessionRows
    <3> QED
      BY <3>1, <3>3 DEF Live
  <2>2. CASE s \notin seen[h]
    <3>1. session'[s] = session[s] /\ ~Live(s)
      BY <1>5, <1>6, <2>2 DEF IssueCommit
    <3> QED
      BY <3>1 DEF Live, Exists
  <2> QED
    BY <2>1, <2>2
<1>7. OneLiveSession'
  BY <1>6 DEF OneLiveSession
<1>8. ASSUME NEW x \in Handlers, pc'[x] \in Drawing
      PROVE  /\ ~Exists(job[x].token)'
             /\ \A y \in Handlers \ {x} : job'[y] # None => job'[y].token # job'[x].token
  <2>1. job'[x] # None /\ x # h
    BY <1>3, <1>8 DEF TypeOK, Drawing
  <2>2. pc[x] \in Drawing /\ job'[x].token = job[x].token /\ job[x] # None
    BY <1>1, <1>8, <2>1 DEF Quiet
  <2>3. job[h] # None
    BY <1>3 DEF TypeOK
  <2>4. job[x].token \in Sessions /\ job[x].token # t /\ ~Exists(job[x].token)
    BY <2>1, <2>2, <2>3 DEF TypeOK, Jobs, TokensFresh
  <2>5. ~Exists(job[x].token)'
    BY <1>6, <2>2, <2>4 DEF Exists
  <2> QED
    BY <1>1, <2>2, <2>5 DEF Quiet, TokensFresh
<1> QED
  BY <1>2, <1>4, <1>7, <1>8 DEF IssuerSeesAll, TokensFresh

LEMMA LoadKeeps ==
  ASSUME TypeOK, TypeOK', LoginInv, NEW h \in Handlers, NEW s \in Sessions, Load(h, s)
  PROVE  LoginInv'
<1> USE DEF LoginInv
<1>1. UNCHANGED <<session, seen>>
  BY DEF Load, tables
<1>2. \A x \in Handlers \ {h} : pc'[x] = pc[x] /\ job'[x] = job[x]
  BY DEF Load, Goto, TypeOK
<1>3. pc'[h] \in {"checked", "trust"} /\ job'[h].token = s
  BY DEF Load, Goto, TypeOK
<1>4. OneIssuer' /\ OneLiveSession'
  BY <1>1, <1>2, <1>3 DEF OneIssuer, OneLiveSession, Live, Exists
<1>5. IssuerSeesAll'
  BY <1>1, <1>2, <1>3 DEF IssuerSeesAll, Live, Exists
<1>6. ASSUME NEW x \in Handlers, pc'[x] \in Drawing
      PROVE  /\ ~Exists(job[x].token)'
             /\ \A y \in Handlers \ {x} : job'[y] # None => job'[y].token # job'[x].token
  <2>1. x # h /\ pc[x] \in Drawing /\ job'[x] = job[x]
    BY <1>2, <1>3, <1>6 DEF Drawing
  <2>2. ~Exists(job[x].token) /\ Exists(s)
    BY <2>1 DEF TokensFresh, Load, Valid, Live
  <2>3. s # job[x].token
    BY <2>2
  <2> QED
    BY <1>1, <1>2, <1>3, <2>1, <2>2, <2>3 DEF TokensFresh, Exists
<1> QED
  BY <1>4, <1>5, <1>6 DEF TokensFresh

\* A logout ends a session that no login is about to supersede.
LEMMA LogoutEnds ==
  ASSUME TypeOK, LoginInv, NEW h \in Handlers, Logout(h), NEW s \in Sessions
  PROVE  /\ Live(s)' => Live(s)
         /\ Exists(s)' <=> Exists(s)
         /\ Exists(s) /\ ~Live(s) => session'[s].status = session[s].status
         /\ \A x \in Handlers : pc[x] = "issuing" => (Live(s)' <=> Live(s))
<1> USE DEF LoginInv
<1> DEFINE t == job[h].token
           row == [session[t] EXCEPT !.status = "revoked"]
<1>1. CASE ~Revocable(t) \/ s # t
  <2>1. session'[s] = session[s]
    BY <1>1 DEF Logout, TypeOK
  <2> QED
    BY <2>1 DEF Live, Exists
<1>2. CASE Revocable(t) /\ s = t
  <2>1. session[s] \in SessionRows /\ Live(s)
    BY <1>2 DEF Revocable, Live, Exists, TypeOK
  <2>2. session'[s] = row
    BY <1>2 DEF Logout, TypeOK
  <2>3. row.status = "revoked" /\ row # None
    BY <1>2, <2>1, RowTyped, NoneAssumption DEF SessionRows
  <2>4. \A x \in Handlers : pc[x] # "issuing"
    BY <1>2, <2>1 DEF IssuerSeesAll, Logout, SessionLocked
  <2> QED
    BY <2>1, <2>2, <2>3, <2>4 DEF Live, Exists
<1> QED
  BY <1>1, <1>2

LEMMA ExpireEnds ==
  ASSUME TypeOK, NEW t \in Sessions, Expire(t), NEW s \in Sessions
  PROVE  /\ Live(s)' <=> Live(s)
         /\ Exists(s)' <=> Exists(s)
         /\ Exists(s) => session'[s].status = session[s].status
<1>1. CASE s # t
  <2>1. session'[s] = session[s]
    BY <1>1 DEF Expire, TypeOK
  <2> QED
    BY <2>1 DEF Live, Exists
<1>2. CASE s = t
  <2> DEFINE row == [session[s] EXCEPT !.expired = TRUE]
  <2>1. session[s] \in SessionRows /\ Live(s)
    BY <1>2 DEF Expire, Valid, Live, Exists, TypeOK
  <2>2. session'[s] = row
    BY <1>2 DEF Expire, TypeOK
  <2>3. row # None
    BY <2>1, RowTyped, NoneAssumption
  <2>4. row.status = session[s].status
    BY <2>1 DEF SessionRows
  <2> QED
    BY <2>1, <2>2, <2>3, <2>4 DEF Live, Exists
<1> QED
  BY <1>1, <1>2

LEMMA LoginStep ==
  ASSUME TypeOK, TypeOK', LoginInv, [Next]_vars
  PROVE  LoginInv'
<1>0. ControlOK
  BY DEF TypeOK, ControlOK
<1>1. CASE UNCHANGED vars
  BY <1>1, QuietKeeps DEF vars, tables, control, Quiet
<1>2. ASSUME NEW h \in Handlers, HandlerStep(h)
      PROVE  LoginInv'
  <2>1. ASSUME NEW s \in Sessions, NEW k \in Logins, NEW d \in Devices, StartLogin(h, k, d, s)
        PROVE  LoginInv'
    BY <2>1, StartKeeps
  <2>2. ASSUME NEW s \in Sessions, Load(h, s)
        PROVE  LoginInv'
    BY <2>2, LoadKeeps
  <2>3. CASE PinTrust(h)
    <3>1. seen' = [seen EXCEPT ![h] = {}]
      BY <1>0, <2>3, NoRows DEF PinTrust
    <3>2. Quiet
      BY <1>0, <2>3, <3>1, GotoQuiet DEF PinTrust, Drawing
    <3> QED
      BY <2>3, <3>2, QuietKeeps DEF PinTrust
  <2>4. CASE IssueLock(h)
    BY <2>4, LockKeeps
  <2>5. CASE IssueCommit(h)
    BY <2>5, CommitKeeps
  <2>6. CASE Trust(h)
    BY <1>0, <2>6, TrustQuiet, QuietKeeps
  <2>7. CASE Serve(h)
    <3>1. CASE Logout(h)
      BY <1>0, <2>7, <3>1, ServeQuiet, LogoutEnds, EndKeeps
    <3>2. CASE ~Logout(h)
      BY <1>0, <2>7, <3>2, ServeQuiet, QuietKeeps
    <3> QED
      BY <3>1, <3>2
  <2>8. CASE Raise(h)
    BY <1>0, <2>8, RaiseQuiet, QuietKeeps
  <2> QED
    BY <1>2, <2>1, <2>2, <2>3, <2>4, <2>5, <2>6, <2>7, <2>8 DEF HandlerStep, Issue
<1>3. CASE ClockStep
  <2>1. UNCHANGED control
    BY <1>3 DEF ClockStep, Expire, DelayOver, CacheExpire
  <2>2. Quiet
    BY <2>1 DEF control, Quiet
  <2>3. ASSUME NEW s \in Sessions, Expire(s)
        PROVE  LoginInv'
    BY <2>2, <2>3, ExpireEnds, EndKeeps
  <2>4. CASE UNCHANGED session
    BY <2>2, <2>4, QuietKeeps
  <2> QED
    BY <1>3, <2>3, <2>4 DEF ClockStep, DelayOver, CacheExpire, tables
<1>4. ASSUME NEW p \in Procs, Crash(p)
      PROVE  LoginInv'
  BY <1>4, CrashQuiet, QuietKeeps
<1> QED
  BY <1>1, <1>2, <1>3, <1>4, StepSplit

-----------------------------------------------------------------------------
(* The theorems. *)

LEMMA InitInv == Init => SessionInv
<1> SUFFICES ASSUME Init PROVE SessionInv
  OBVIOUS
<1>1. "idle" \in Steps /\ {} \in Snapshots("idle")
  BY SnapshotKinds DEF Steps
<1>2. \A h \in Handlers : pc[h] = "idle" /\ job[h] = None /\ seen[h] = {}
  BY DEF Init
<1>3. TypeOK
  <2>1. session \in [Sessions -> SessionRows \cup {None}] /\ delay \in [Devices -> Delays]
    BY DEF Init, Delays
  <2>2. device \in [Devices -> Status]
    BY LegacyAssumption DEF Init, Status
  <2>3. /\ pc \in [Handlers -> Steps] /\ job \in [Handlers -> Jobs \cup {None}]
        /\ seen \in [Handlers -> SUBSET (Sessions \cup Devices)]
    BY <1>1 DEF Init
  <2>4. cache \subseteq Procs \X Devices /\ fails \in 0 .. MaxFails
    BY FailAssumption DEF Init
  <2> QED
    BY <1>1, <1>2, <2>1, <2>2, <2>3, <2>4 DEF TypeOK
<1>4. \A s \in Sessions : ~Live(s)
  BY DEF Init, Live, Exists
<1>5. LoginInv
  BY <1>2, <1>4 DEF LoginInv, OneIssuer, IssuerSeesAll, TokensFresh, OneLiveSession, Drawing
<1> QED
  BY <1>3, <1>5 DEF SessionInv

\* The inductive invariant holds in every reachable state: rows, handlers and
\* transactions have their types, one login at a time revokes what there is to
\* revoke, and its token is new.
THEOREM SessionInvariant == Spec => []SessionInv
<1>1. SessionInv /\ [Next]_vars => SessionInv'
  BY TypeStep, LoginStep DEF SessionInv, LoginInv
<1> QED
  BY <1>1, InitInv, PTL DEF Spec

\* Rows and running handlers keep their types, and no transaction stays open.
THEOREM SessionsTyped == Spec => []TypeOK
<1>1. SessionInv => TypeOK
  BY DEF SessionInv
<1> QED
  BY <1>1, SessionInvariant, PTL

\* A vault never has two sessions that are not revoked, whatever logins, logouts,
\* failures and crashes run at once (issue_session_token).
THEOREM OneSessionTheorem == Spec => []OneLiveSession
<1>1. SessionInv => OneLiveSession
  BY DEF SessionInv, LoginInv
<1> QED
  BY <1>1, SessionInvariant, PTL

\* A handler changes sessions by a login that commits, or by a logout.
LEMMA SessionMoves ==
  ASSUME ControlOK, NEW h \in Handlers, HandlerStep(h)
  PROVE  UNCHANGED session \/ IssueCommit(h) \/ Logout(h)
<1>1. ASSUME NEW t \in Sessions, NEW k \in Logins, NEW d \in Devices,
             StartLogin(h, k, d, t)
      PROVE  UNCHANGED session
  BY <1>1 DEF StartLogin, tables
<1>2. ASSUME NEW t \in Sessions, Load(h, t)
      PROVE  UNCHANGED session
  BY <1>2 DEF Load, tables
<1>3. CASE Issue(h)
  BY <1>3 DEF Issue, PinTrust, IssueLock, tables
<1>4. CASE Trust(h) \/ Serve(h) \/ Raise(h)
  BY <1>4, TrustQuiet, ServeQuiet, RaiseQuiet
<1> QED
  BY <1>1, <1>2, <1>3, <1>4 DEF HandlerStep

\* A session that has ended keeps the reason it ended for.
LEMMA EndedStep ==
  ASSUME SessionInv, [Next]_vars, NEW s \in Sessions, Exists(s), ~Live(s)
  PROVE  Exists(s)' /\ session'[s].status = session[s].status
<1> USE DEF SessionInv, LoginInv
<1>0. ControlOK
  BY DEF TypeOK, ControlOK
<1>1. CASE UNCHANGED session
  BY <1>1 DEF Exists
<1>2. ASSUME NEW h \in Handlers, IssueCommit(h)
      PROVE  session'[s] = session[s]
  <2>1. s # job[h].token
    BY <1>2 DEF IssueCommit, TokensFresh, Drawing
  <2>2. s \notin seen[h]
    BY <1>2 DEF IssueCommit, IssuerSeesAll
  <2> QED
    BY <1>2, <2>1, <2>2 DEF IssueCommit
<1>4. ASSUME NEW t \in Sessions, Expire(t)
      PROVE  Exists(s)' /\ session'[s].status = session[s].status
  BY <1>4, ExpireEnds
<1>5. CASE ClockStep
  <2>1. (\E t \in Sessions : Expire(t)) \/ UNCHANGED session
    BY <1>5 DEF ClockStep, DelayOver, CacheExpire, tables
  <2> QED
    BY <1>1, <1>4, <2>1
<1>6. ASSUME NEW h \in Handlers, HandlerStep(h)
      PROVE  Exists(s)' /\ session'[s].status = session[s].status
  <2>1. CASE Logout(h)
    BY <2>1, LogoutEnds
  <2>2. CASE IssueCommit(h)
    BY <1>2, <2>2 DEF Exists
  <2> QED
    BY <1>0, <1>1, <1>6, <2>1, <2>2, SessionMoves
<1>7. ASSUME NEW p \in Procs, Crash(p)
      PROVE  UNCHANGED session
  BY <1>7, CrashQuiet
<1>8. CASE UNCHANGED vars
  BY <1>1, <1>8 DEF vars, tables
<1> QED
  BY <1>1, <1>5, <1>6, <1>7, <1>8, StepSplit

\* A late logout, or a second login, never rewrites why a session ended.
THEOREM EndedTheorem == Spec => EndedOnce
<1>1. SessionInv /\ [Next]_vars =>
        [\A s \in Sessions : Exists(s) /\ ~Live(s) =>
           Exists(s)' /\ session'[s].status = session[s].status]_vars
  BY EndedStep
<1> QED
  BY <1>1, SessionInvariant, PTL DEF Spec, EndedOnce

-----------------------------------------------------------------------------
(* Who displaces whom: past its issue, a handler has a token of its device. *)

JobsFit == \A h \in Handlers : pc[h] \notin Drawing \cup {"idle"} =>
              Exists(job[h].token) /\ session[job[h].token].device = Own(h)

\* A session row stays, and keeps its device.
RowStays(s) == Exists(s) => Exists(s)' /\ session'[s].device = session[s].device

LEMMA RowsStay ==
  ASSUME SessionInv, [Next]_vars, NEW s \in Sessions
  PROVE  RowStays(s)
<1> SUFFICES ASSUME Exists(s)
             PROVE  Exists(s)' /\ session'[s].device = session[s].device
  BY DEF RowStays
<1> USE DEF SessionInv, LoginInv
<1>0. ControlOK /\ session[s] \in SessionRows
  BY DEF TypeOK, ControlOK, Exists
<1>1. CASE UNCHANGED session
  BY <1>1 DEF Exists
<1>2. ASSUME NEW row \in SessionRows, session'[s] = row, row.device = session[s].device
      PROVE  Exists(s)' /\ session'[s].device = session[s].device
  BY <1>2, NoneAssumption DEF Exists
<1>3. ASSUME NEW h \in Handlers, HandlerStep(h)
      PROVE  Exists(s)' /\ session'[s].device = session[s].device
  <2>1. CASE IssueCommit(h)
    <3>1. s # job[h].token
      BY <2>1 DEF IssueCommit, TokensFresh, Drawing
    <3>2. session'[s] \in {session[s], [session[s] EXCEPT !.status = "superseded"]}
      BY <2>1, <3>1 DEF IssueCommit
    <3> QED
      BY <1>0, <1>2, <3>2, RowTyped DEF SessionRows
  <2>2. CASE Logout(h)
    <3>1. session'[s] \in {session[s], [session[s] EXCEPT !.status = "revoked"]}
      BY <2>2 DEF Logout, TypeOK
    <3> QED
      BY <1>0, <1>2, <3>1, RowTyped DEF SessionRows
  <2> QED
    BY <1>0, <1>1, <1>3, <2>1, <2>2, SessionMoves
<1>4. ASSUME NEW t \in Sessions, Expire(t)
      PROVE  Exists(s)' /\ session'[s].device = session[s].device
  <2> DEFINE over == [session[s] EXCEPT !.expired = TRUE]
  <2>1. session'[s] = session[s] \/ session'[s] = over
    BY <1>4 DEF Expire, TypeOK
  <2>2. over \in SessionRows
    BY <1>0, RowTyped
  <2>3. over.device = session[s].device
    BY <1>0 DEF SessionRows
  <2> QED
    BY <1>0, <1>2, <2>1, <2>2, <2>3
<1>5. CASE ClockStep
  <2>1. (\E t \in Sessions : Expire(t)) \/ UNCHANGED session
    BY <1>5 DEF ClockStep, DelayOver, CacheExpire, tables
  <2> QED
    BY <1>1, <1>4, <2>1
<1>6. ASSUME NEW p \in Procs, Crash(p)
      PROVE  UNCHANGED session
  BY <1>6, CrashQuiet
<1>7. CASE UNCHANGED vars
  BY <1>1, <1>7 DEF vars, tables
<1> QED
  BY <1>1, <1>3, <1>5, <1>6, <1>7, StepSplit

\* A login leaves its first steps by committing its session, or by ending.
LEMMA DrawingEnds ==
  ASSUME ControlOK, NEW h \in Handlers, HandlerStep(h), ~IssueCommit(h),
         NEW x \in Handlers, pc[x] \in Drawing
  PROVE  pc'[x] \in Drawing \cup {"idle"}
<1> USE DEF Drawing, Goto, Finish
<1>1. ASSUME NEW s \in Sessions, NEW k \in Logins, NEW d \in Devices, StartLogin(h, k, d, s)
      PROVE  pc'[x] = pc[x]
  BY <1>1 DEF StartLogin, ControlOK
<1>2. ASSUME NEW s \in Sessions, Load(h, s)
      PROVE  pc'[x] = pc[x]
  BY <1>2 DEF Load, ControlOK
<1>3. CASE PinTrust(h) \/ IssueLock(h)
  BY <1>3 DEF PinTrust, IssueLock, ControlOK
<1>4. CASE Trust(h)
  <2>1. pc[h] \notin Drawing /\ \A y \in Handlers \ {h} : pc'[y] = pc[y]
    BY <1>4 DEF Trust, TrustUpsert, TrustSweep, TrustCommit, TrustVictim, WaitsFor,
                Proceed, ControlOK
  <2> QED
    BY <2>1
<1>5. CASE Serve(h)
  <2>1. pc[h] \notin Drawing /\ \A y \in Handlers \ {h} : pc'[y] = pc[y]
    BY <1>5 DEF Serve, GatePass, Use, Register, Logout, Ask, SelfApprove, Refuse,
                Approve, Revoke, Cancel, Update, ControlOK
  <2> QED
    BY <2>1
<1>6. CASE Raise(h)
  <2>1. CASE x = h
    BY <1>6, <2>1 DEF Raise, ControlOK
  <2>2. CASE x # h
    BY <1>6, <2>2 DEF Raise, Proceed, ControlOK
  <2> QED
    BY <2>1, <2>2
<1> QED
  BY <1>1, <1>2, <1>3, <1>4, <1>5, <1>6 DEF HandlerStep, Issue

\* Handlers that only go on keep their token, and what it says.
LEMMA GoOnFits ==
  ASSUME SessionInv, JobsFit, TypeOK', [Next]_vars, Quiet, NEW x \in Handlers,
         pc'[x] \notin Drawing \cup {"idle"}, pc[x] \notin Drawing
  PROVE  Exists(job[x].token)' /\ session'[job'[x].token].device = job'[x].device
<1>1. job'[x] # None
  BY DEF TypeOK
<1>2. /\ job[x] # None /\ job'[x].token = job[x].token
      /\ job'[x].device = job[x].device
  BY <1>1 DEF Quiet
<1>3. pc[x] # "idle" /\ job[x].token \in Sessions
  BY <1>2 DEF SessionInv, TypeOK, Jobs
<1>4. Exists(job[x].token) /\ session[job[x].token].device = job[x].device
  BY <1>3 DEF JobsFit, Own
<1>5. RowStays(job[x].token)
  BY <1>3, RowsStay
<1> QED
  BY <1>2, <1>4, <1>5 DEF RowStays, Exists

LEMMA FitStep ==
  ASSUME SessionInv, TypeOK', JobsFit, [Next]_vars
  PROVE  JobsFit'
<1> SUFFICES ASSUME NEW x \in Handlers, pc'[x] \notin Drawing \cup {"idle"}
             PROVE  Exists(job[x].token)' /\ session'[job'[x].token].device = job'[x].device
  BY DEF JobsFit, Own
<1> USE DEF SessionInv
<1>0. ControlOK
  BY DEF TypeOK, ControlOK
<1>1. CASE UNCHANGED <<pc, job, session>>
  BY <1>1 DEF JobsFit, Own, Exists
<1>2. ASSUME NEW h \in Handlers, HandlerStep(h)
      PROVE  Exists(job[x].token)' /\ session'[job'[x].token].device = job'[x].device
  <2>1. ASSUME NEW s \in Sessions, NEW k \in Logins, NEW d \in Devices,
               StartLogin(h, k, d, s)
        PROVE  UNCHANGED session /\ pc'[x] = pc[x] /\ job'[x] = job[x]
    BY <2>1 DEF StartLogin, Goto, TypeOK, tables, Drawing
  <2>2. ASSUME NEW s \in Sessions, Load(h, s)
        PROVE  Exists(job[x].token)' /\ session'[job'[x].token].device = job'[x].device
    <3>1. UNCHANGED session /\ Exists(s)
      BY <2>2 DEF Load, tables, Valid, Live
    <3>2. CASE x = h
      <4>1. job'[x] = [kind |-> "request", device |-> session[s].device,
                       token |-> s, then |-> "checked"]
        BY <2>2, <3>2 DEF Load, TypeOK
      <4> QED
        BY <3>1, <4>1 DEF Exists
    <3>3. CASE x # h
      <4>1. pc'[x] = pc[x] /\ job'[x] = job[x]
        BY <2>2, <3>3 DEF Load, Goto, TypeOK
      <4> QED
        BY <3>1, <4>1 DEF JobsFit, Own, Exists
    <3> QED
      BY <3>2, <3>3
  <2>3. CASE IssueCommit(h)
    <3>1. Quiet
      BY <1>0, <2>3, CommitQuiet
    <3>2. CASE x = h
      <4>1. job'[x] = job[x] /\ job[x].token \in Sessions /\ pc[x] = "issuing"
        BY <2>3, <3>2 DEF IssueCommit, Finish, Goto, TypeOK, Jobs
      <4>2. session'[job[x].token] = [device |-> job[x].device, status |-> "live",
                                      expired |-> FALSE]
        BY <2>3, <3>2, <4>1 DEF IssueCommit, Own
      <4>3. job[x].device \in Devices
        BY <4>1 DEF TypeOK, Jobs
      <4>4. session'[job[x].token] \in SessionRows
        BY <4>2, <4>3 DEF SessionRows
      <4>5. session'[job[x].token] # None
        BY <4>4, NoneAssumption
      <4>6. session'[job[x].token].device = job[x].device
        BY <4>2
      <4> QED
        BY <4>1, <4>5, <4>6 DEF Exists
    <3>3. CASE x # h
      <4>1. pc'[x] = pc[x]
        BY <2>3, <3>3 DEF IssueCommit, Finish, Goto, TypeOK
      <4> QED
        BY <3>1, <4>1, GoOnFits
    <3> QED
      BY <3>2, <3>3
  <2>4. CASE (PinTrust(h) \/ IssueLock(h)) \/ Trust(h) \/ Serve(h) \/ Raise(h)
    <3>1. CASE PinTrust(h) \/ IssueLock(h)
      BY <1>1, <3>1 DEF PinTrust, IssueLock, Goto, TypeOK, tables, Drawing, JobsFit,
                        Own, Exists
    <3>2. CASE Trust(h) \/ Serve(h) \/ Raise(h)
      <4>1. Quiet
        BY <1>0, <3>2, TrustQuiet, ServeQuiet, RaiseQuiet
      <4>2. ~IssueCommit(h)
        <5>1. CASE Trust(h) \/ Serve(h)
          BY <5>1 DEF Trust, TrustUpsert, TrustSweep, TrustCommit, TrustVictim, WaitsFor,
                 Serve, GatePass, Use, Register, Logout, Ask, SelfApprove, Refuse,
                 Approve, Revoke, Cancel, IssueCommit
        <5>2. CASE Raise(h)
          BY <5>2, FailAssumption DEF Raise, IssueCommit, TypeOK
        <5> QED
          BY <3>2, <5>1, <5>2
      <4>3. pc[x] \notin Drawing
        BY <1>0, <1>2, <4>2, DrawingEnds
      <4> QED
        BY <4>1, <4>3, GoOnFits
    <3> QED
      BY <2>4, <3>1, <3>2
  <2> QED
    BY <1>1, <1>2, <2>1, <2>2, <2>3, <2>4 DEF HandlerStep, Issue, JobsFit, Own, Exists
<1>3. CASE ClockStep
  <2>1. UNCHANGED control
    BY <1>3 DEF ClockStep, Expire, DelayOver, CacheExpire
  <2>2. Quiet /\ pc'[x] = pc[x]
    BY <2>1 DEF control, Quiet
  <2> QED
    BY <2>2, GoOnFits
<1>4. ASSUME NEW p \in Procs, Crash(p)
      PROVE  Exists(job[x].token)' /\ session'[job'[x].token].device = job'[x].device
  <2>1. Quiet
    BY <1>4, CrashQuiet
  <2>2. pc'[x] = pc[x]
    BY <1>4 DEF Crash
  <2> QED
    BY <2>1, <2>2, GoOnFits
<1>5. CASE UNCHANGED vars
  BY <1>1, <1>5 DEF vars, control, tables
<1> QED
  BY <1>2, <1>3, <1>4, <1>5, StepSplit

\* A device loses its trust at the end of a trust transaction, or by a revocation.
LEMMA Displacers ==
  ASSUME TypeOK, [Next]_vars, NEW d \in Devices, device[d] = "trusted",
         device'[d] # "trusted"
  PROVE  \E h \in Handlers : pc[h] \in {"sweeping", "allowed"} /\ pc'[h] # pc[h]
<1>1. ASSUME NEW h \in Handlers, HandlerStep(h)
      PROVE  pc[h] \in {"sweeping", "allowed"} /\ pc'[h] # pc[h]
  <2>1. ASSUME NEW s \in Sessions, NEW k \in Logins, NEW e \in Devices,
               StartLogin(h, k, e, s)
        PROVE  FALSE
    BY <2>1 DEF StartLogin, tables
  <2>2. ASSUME NEW s \in Sessions, Load(h, s)
        PROVE  FALSE
    BY <2>2 DEF Load, tables
  <2>3. CASE Issue(h)
    BY <2>3 DEF Issue, PinTrust, IssueLock, IssueCommit, tables, TypeOK
  <2>4. CASE Trust(h)
    <3>1. TrustCommit(h)
      BY <2>4 DEF Trust, TrustUpsert, TrustSweep, TrustVictim, tables
    <3> QED
      BY <3>1 DEF TrustCommit, Proceed, Finish, Goto, TypeOK
  <2>5. CASE Serve(h)
    <3>1. PICK e \in Devices : Approve(h, e) \/ Revoke(h, e) \/ Cancel(h, e) \/ Ask(h)
                               \/ SelfApprove(h)
      BY <2>5 DEF Serve, GatePass, Use, Register, Logout, Refuse, tables
    <3>2. ~Approve(h, e) /\ ~Ask(h) /\ ~SelfApprove(h) /\ ~Cancel(h, e)
      BY DEF Approve, Ask, SelfApprove, Cancel, Update, TypeOK
    <3> QED
      BY <3>1, <3>2 DEF Revoke, Update, Finish, Goto, TypeOK
  <2>6. CASE Raise(h)
    BY <2>6 DEF Raise, tables
  <2> QED
    BY <1>1, <2>1, <2>2, <2>3, <2>4, <2>5, <2>6 DEF HandlerStep
<1>2. ~ClockStep \/ UNCHANGED device
  BY DEF ClockStep, Expire, DelayOver, CacheExpire, tables
<1>3. ASSUME NEW p \in Procs, Crash(p)
      PROVE  UNCHANGED device
  BY <1>3 DEF Crash, tables
<1> QED
  BY <1>1, <1>2, <1>3, StepSplit DEF vars, tables

\* No handler begins as a leftover.
LEMMA LeftoversEnd ==
  ASSUME SessionInv, TypeOK', [Next]_vars, NEW x \in Handlers, Leftover(x)'
  PROVE  job[x] # None /\ job'[x].token = job[x].token
<1>0. ControlOK /\ job'[x] # None
  BY DEF SessionInv, TypeOK, ControlOK, Leftover
<1>1. CASE Quiet
  BY <1>0, <1>1 DEF Quiet
<1>2. CASE job'[x] = job[x]
  BY <1>0, <1>2
<1>3. ASSUME NEW h \in Handlers, HandlerStep(h)
      PROVE  Quiet \/ job'[x] = job[x]
  <2>1. ASSUME NEW s \in Sessions, NEW k \in Logins, NEW d \in Devices,
               StartLogin(h, k, d, s)
        PROVE  job'[x] = job[x]
    <3>1. UNCHANGED session /\ ~Exists(s)
          /\ job' = [job EXCEPT ![h] = [kind |-> k, device |-> d, token |-> s,
                                        then |-> "idle"]]
      BY <2>1 DEF StartLogin, tables
    <3>2. x # h
      BY <1>0, <3>1 DEF Leftover, Exists, ControlOK
    <3> QED
      BY <1>0, <3>1, <3>2 DEF ControlOK
  <2>2. ASSUME NEW s \in Sessions, Load(h, s)
        PROVE  job'[x] = job[x]
    <3>1. UNCHANGED session /\ Live(s)
          /\ job' = [job EXCEPT ![h] = [kind |-> "request", device |-> session[s].device,
                                        token |-> s, then |-> "checked"]]
      BY <2>2 DEF Load, Valid, tables
    <3>2. x # h
      BY <1>0, <3>1 DEF Leftover, Live, Exists, ControlOK
    <3> QED
      BY <1>0, <3>1, <3>2 DEF ControlOK
  <2>3. CASE Issue(h)
    BY <1>0, <2>3, CommitQuiet DEF Issue, PinTrust, IssueLock
  <2>4. CASE Trust(h) \/ Serve(h) \/ Raise(h)
    BY <1>0, <2>4, TrustQuiet, ServeQuiet, RaiseQuiet
  <2> QED
    BY <1>3, <2>1, <2>2, <2>3, <2>4 DEF HandlerStep
<1>4. CASE ClockStep
  BY <1>2, <1>4 DEF ClockStep, Expire, DelayOver, CacheExpire, control
<1>5. ASSUME NEW p \in Procs, Crash(p)
      PROVE  Quiet
  BY <1>5, CrashQuiet
<1>6. CASE UNCHANGED vars
  BY <1>2, <1>6 DEF vars, control
<1> QED
  BY <1>1, <1>2, <1>3, <1>4, <1>5, <1>6, StepSplit

\* Past its issue, a handler has a token of its device, also when others end it.
THEOREM JobsInvariant == Spec => []JobsFit
<1>1. Init => JobsFit
  BY DEF Init, JobsFit
<1>2. SessionInv /\ SessionInv' /\ JobsFit /\ [Next]_vars => JobsFit'
  BY FitStep DEF SessionInv
<1> QED
  BY <1>1, <1>2, SessionInvariant, PTL DEF Spec

\* The live device yields to itself or to what its session's start has cut off.
THEOREM LeftoversTheorem == Spec => OnlyLeftoversDisplace
<1> DEFINE Kept(s) == LET d == session[s].device
                      IN  Live(s) /\ device[d] = "trusted" /\ device'[d] # "trusted"
                          => \E h \in Handlers : /\ pc'[h] # pc[h] /\ job[h] # None
                                                /\ (Own(h) = d \/ Leftover(h))
           Begun(h) == Leftover(h)' => job[h] # None /\ job'[h].token = job[h].token
<1>1. ASSUME SessionInv, JobsFit, [Next]_vars, NEW s \in Sessions
      PROVE  Kept(s)
  <2> USE DEF SessionInv, LoginInv
  <2> SUFFICES ASSUME Live(s), device[session[s].device] = "trusted",
                      device'[session[s].device] # "trusted"
               PROVE  \E h \in Handlers : /\ pc'[h] # pc[h] /\ job[h] # None
                                         /\ (Own(h) = session[s].device \/ Leftover(h))
    OBVIOUS
  <2>1. session[s].device \in Devices
    <3>1. session[s] \in SessionRows
      BY <1>1 DEF TypeOK, Live, Exists
    <3> QED
      BY <3>1 DEF SessionRows
  <2>2. PICK h \in Handlers : pc[h] \in {"sweeping", "allowed"} /\ pc'[h] # pc[h]
    BY <1>1, <2>1, Displacers
  <2>3. /\ job[h] # None /\ job[h].token \in Sessions
        /\ Exists(job[h].token) /\ session[job[h].token].device = Own(h)
    BY <1>1, <2>2 DEF TypeOK, Jobs, JobsFit, Drawing
  <2>4. Live(job[h].token) => job[h].token = s
    BY <1>1, <2>3 DEF OneLiveSession
  <2> QED
    BY <2>2, <2>3, <2>4 DEF Leftover
<1>2. ASSUME SessionInv, SessionInv', [Next]_vars, NEW h \in Handlers
      PROVE  Begun(h)
  BY <1>2, LeftoversEnd DEF SessionInv
<1>3. SessionInv /\ SessionInv' /\ JobsFit /\ [Next]_vars
      => [(\A s \in Sessions : Kept(s)) /\ (\A h \in Handlers : Begun(h))]_vars
  BY <1>1, <1>2
<1> QED
  BY <1>3, SessionInvariant, JobsInvariant, PTL DEF Spec, OnlyLeftoversDisplace
===============================================================================
