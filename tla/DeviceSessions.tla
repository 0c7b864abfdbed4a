---------------------------- MODULE DeviceSessions ----------------------------
(***************************************************************************)
(* Sessions and trusted devices of one vault: session tokens               *)
(* (auth_local.py), the logins that issue them (routes/auth_zk_routes.py,  *)
(* routes/auth_routes.py), the device monitor that runs behind every       *)
(* authenticated request (device_monitor.py), the gate (device_gate.py)    *)
(* and the device endpoints (routes/device_routes.py).                     *)
(*                                                                         *)
(* Every table here is keyed by the vault, so vaults do not interfere.     *)
(* Handlers interleave between their SQL transactions, and between the     *)
(* statements of the two transactions that have more than one: issuing a   *)
(* session holds the vault row; trusting a device holds its own row while  *)
(* the second statement works on the rows it saw when it began (READ       *)
(* COMMITTED), so two of them may wait for each other and Postgres then    *)
(* aborts one.  The second statement takes its rows all at once.           *)
(***************************************************************************)
EXTENDS Naturals

CONSTANTS
    Devices,    \* device ids, one per browser
    Sessions,   \* ids of the tokens that may be issued
    Handlers,   \* request handlers
    Procs,      \* server processes
    ProcOf,     \* the process a handler runs in
    Logins,     \* how the vault signs in: "login" (ZK), "pin" (before ZK), both
    Legacy,     \* the device statuses the vault has from earlier releases
    MaxFails,   \* bound: raised statements and crashes
    None        \* SQL NULL, or no such row

ASSUME ProcAssumption == ProcOf \in [Handlers -> Procs]
ASSUME LoginAssumption == Logins \subseteq {"login", "pin"}
ASSUME LegacyAssumption == Legacy \subseteq {"none", "pending", "trusted", "revoked"}
ASSUME FailAssumption == MaxFails \in Nat

VARIABLES
    session,    \* auth_sessions
    device,     \* trusted_devices: status, "none" where there is no row
    delay,      \*   cooldown_until of a self-approval, against the clock
    pc,         \* where a handler stands
    job,        \* the request it serves
    seen,       \* the rows the running statement of its transaction works on
    cache,      \* _monitor_cache: fresh entries by process and device
    fails       \* statements that raised, and crashes

tables  == <<session, device, delay>>
control == <<pc, job, seen>>
vars == <<tables, control, cache, fails>>

Status == {"none", "pending", "trusted", "revoked"}
Delays == {"no", "running", "over"}

SessionRows == [device : Devices, status : {"live", "superseded", "revoked"},
                expired : BOOLEAN]

\* What a handler serves: a ZK login or sign-up, a PIN login, or a request with a
\* session token; which endpoint the request is for matters after the monitor.
\* then: where the handler goes on after a trust transaction.
Kinds == Logins \cup {"request"}
Jobs == [kind : Kinds, device : Devices, token : Sessions, then : {"checked", "idle"}]

Steps == {"idle", "pin", "issue", "issuing", "trust", "upserted", "sweeping",
          "checked", "allowed"}

ASSUME NoneAssumption == None \notin Jobs \cup SessionRows

-----------------------------------------------------------------------------
Exists(s) == session[s] # None
Live(s)   == Exists(s) /\ session[s].status = "live"

\* Mutant: the query looks at the expiry alone.
ValidUntilExpiry(s) == Exists(s) /\ ~session[s].expired

\* _load_principal
Valid(s) == Live(s) /\ ~session[s].expired

Own(h) == job[h].device

\* Device rows a trust transaction has updated and not committed.
RowFree(h, d) == \A x \in Handlers \ {h} :
                    pc[x] \in {"upserted", "sweeping"} => Own(x) # d

\* A row inserted for a device holds a share of the vault row (foreign key).
Inserting(x) == pc[x] \in {"upserted", "sweeping"} /\ device[Own(x)] = "none"

MayInsert(h) == device[Own(h)] = "none" => \A x \in Handlers : pc[x] # "issuing"

\* Mutant: the vault row is read without FOR UPDATE.
VaultRead(h) == TRUE

\* SELECT vault_id FROM vaults ... FOR UPDATE
VaultFree(h) == \A x \in Handlers \ {h} : pc[x] # "issuing" /\ ~Inserting(x)

\* Rows updated by a login that has not committed.
SessionLocked(s) == \E x \in Handlers : pc[x] = "issuing" /\ s \in seen[x]

Goto(h, step) == pc' = [pc EXCEPT ![h] = step]

\* The handler answers; nothing of the request survives it.
Finish(h) == /\ Goto(h, "idle")
             /\ job' = [job EXCEPT ![h] = None]
             /\ seen' = [seen EXCEPT ![h] = {}]

\* Mutant: the transaction is not ended when the request goes on.
ProceedOpen(h) == IF job[h].then = "idle" THEN Finish(h)
                  ELSE Goto(h, "checked") /\ UNCHANGED <<job, seen>>

\* After a trust transaction, whatever became of it.
Proceed(h) == IF job[h].then = "idle" THEN Finish(h)
              ELSE /\ Goto(h, "checked")
                   /\ seen' = [seen EXCEPT ![h] = {}]
                   /\ UNCHANGED job

-----------------------------------------------------------------------------
\* A fresh vault has no rows.  "pending", and a second trusted device, are left
\* from releases in which a device waited for approval.
Init == /\ session = [s \in Sessions |-> None]
        /\ device \in [Devices -> Legacy]
        /\ delay = [d \in Devices |-> "no"]
        /\ pc = [h \in Handlers |-> "idle"]
        /\ job = [h \in Handlers |-> None]
        /\ seen = [h \in Handlers |-> {}]
        /\ cache = {}
        /\ fails = 0

-----------------------------------------------------------------------------
(* Logins. *)

\* The credentials are proved; a fresh token id is drawn.  ZK logins and
\* sign-ups issue first, PIN logins trust the device first.
StartLogin(h, k, d, s) ==
    /\ pc[h] = "idle"
    /\ ~Exists(s) /\ \A x \in Handlers : job[x] # None => job[x].token # s
    /\ Goto(h, IF k = "pin" THEN "pin" ELSE "issue")
    /\ job' = [job EXCEPT ![h] = [kind |-> k, device |-> d, token |-> s,
                                  then |-> "idle"]]
    /\ UNCHANGED <<tables, seen, cache, fails>>

\* _upsert_trusted_device of auth_routes.py leaves the other devices alone.
PinTrust(h) ==
    /\ pc[h] = "pin" /\ RowFree(h, Own(h)) /\ MayInsert(h)
    /\ device' = [device EXCEPT ![Own(h)] = "trusted"]
    /\ Goto(h, "issue")
    /\ UNCHANGED <<session, delay, job, seen, cache, fails>>

\* issue_session_token locks the vault row and revokes what is unrevoked ...
IssueLock(h) ==
    /\ pc[h] = "issue" /\ VaultFree(h)
    /\ Goto(h, "issuing")
    /\ seen' = [seen EXCEPT ![h] = {s \in Sessions : Live(s)}]
    /\ UNCHANGED <<tables, job, cache, fails>>

\* ... then inserts the new session and commits.
IssueCommit(h) ==
    /\ pc[h] = "issuing"
    /\ session' = [s \in Sessions |->
          IF s = job[h].token
          THEN [device |-> Own(h), status |-> "live", expired |-> FALSE]
          ELSE IF s \in seen[h] THEN [session[s] EXCEPT !.status = "superseded"]
          ELSE session[s]]
    /\ IF job[h].kind = "login"
       THEN /\ Goto(h, "trust")
            /\ seen' = [seen EXCEPT ![h] = {}]
            /\ UNCHANGED job
       ELSE Finish(h)
    /\ UNCHANGED <<device, delay, cache, fails>>

-----------------------------------------------------------------------------
(* trust_current_and_revoke_others. *)

\* Mutant: INSERT ... ON CONFLICT DO NOTHING.
UpsertedIfNew(d) == IF device[d] = "none" THEN "trusted" ELSE device[d]

Upserted(d) == "trusted"

\* The upsert takes the row of the device.
TrustUpsert(h) ==
    /\ pc[h] = "trust" /\ RowFree(h, Own(h)) /\ MayInsert(h)
    /\ Goto(h, "upserted")
    /\ UNCHANGED <<tables, job, seen, cache, fails>>

\* UPDATE ... WHERE device_id <> d AND status <> 'revoked' takes its snapshot.
TrustSweep(h) ==
    /\ pc[h] = "upserted"
    /\ seen' = [seen EXCEPT ![h] = {e \in Devices \ {Own(h)} :
                                       device[e] \in {"pending", "trusted"}}]
    /\ Goto(h, "sweeping")
    /\ UNCHANGED <<tables, job, cache, fails>>

\* It has got the rows of its snapshot, and commits.
TrustCommit(h) ==
    /\ pc[h] = "sweeping" /\ \A e \in seen[h] : RowFree(h, e)
    /\ device' = [e \in Devices |-> IF e = Own(h) THEN Upserted(e)
                                    ELSE IF e \in seen[h] THEN "revoked" ELSE device[e]]
    /\ delay' = [e \in Devices |-> IF e \in seen[h] \cup {Own(h)} THEN "no" ELSE delay[e]]
    /\ Proceed(h)
    /\ UNCHANGED <<session, cache, fails>>

WaitsFor(h, x) == /\ pc[h] = "sweeping" /\ pc[x] \in {"upserted", "sweeping"}
                  /\ h # x /\ Own(x) \in seen[h]

\* Postgres aborts one of the transactions that wait for each other; the
\* callers swallow the exception.
TrustVictim(h) ==
    /\ \E S \in SUBSET Handlers : h \in S /\ \A x \in S : \E y \in S : WaitsFor(x, y)
    /\ Proceed(h)
    /\ UNCHANGED <<tables, cache, fails>>

-----------------------------------------------------------------------------
(* Requests. *)

\* verify_session_token: the session is good, and the monitor runs unless this
\* process has an entry.  The entry is made before the transaction it stands for.
\* A browser sends the device id it signed in with.
Load(h, s) ==
    /\ pc[h] = "idle"
    /\ Valid(s)
    /\ LET d == session[s].device
       IN  /\ Goto(h, IF <<ProcOf[h], d>> \in cache THEN "checked" ELSE "trust")
           /\ cache' = cache \cup {<<ProcOf[h], d>>}
           /\ job' = [job EXCEPT ![h] = [kind |-> "request", device |-> d, token |-> s,
                                         then |-> "checked"]]
    /\ UNCHANGED <<tables, seen, fails>>

\* verify_trusted_device and verify_caller_is_trusted_device
GatePass(h) ==
    /\ pc[h] = "checked" /\ device[Own(h)] = "trusted"
    /\ Goto(h, "allowed")
    /\ UNCHANGED <<tables, job, seen, cache, fails>>

\* /devices/register, exempt from the gate, trusts once more.
Register(h) ==
    /\ pc[h] = "checked"
    /\ Goto(h, "trust")
    /\ job' = [job EXCEPT ![h].then = "idle"]
    /\ UNCHANGED <<tables, seen, cache, fails>>

\* Any route behind the gate that leaves these tables alone.
Use(h) == /\ pc[h] = "allowed"
          /\ Finish(h)
          /\ UNCHANGED <<tables, cache, fails>>

\* The row of device d, if its status is in from, is updated.
Update(h, d, from, status, wait) ==
    /\ RowFree(h, d)
    /\ device[d] \in from
    /\ device' = [device EXCEPT ![d] = status]
    /\ delay' = [delay EXCEPT ![d] = wait]
    /\ Finish(h)
    /\ UNCHANGED <<session, cache, fails>>

\* /devices/approve and /devices/revoke.  In any other state of the row these
\* and the next three endpoints answer without a change, as Use does.
Approve(h, d) == pc[h] = "allowed" /\ Update(h, d, {"pending"}, "trusted", "no")
Revoke(h, d)  == pc[h] = "allowed" /\ Update(h, d, {"pending", "trusted"}, "revoked", "no")

\* /devices/request-self-approval and /devices/finalize-self-approval with the
\* right PIN, exempt from the gate
Ask(h) == /\ pc[h] = "checked" /\ delay[Own(h)] # "running"
          /\ Update(h, Own(h), {"pending"}, "pending", "running")
SelfApprove(h) == /\ pc[h] = "checked" /\ delay[Own(h)] = "over"
                  /\ Update(h, Own(h), {"pending"}, "trusted", "no")

\* /devices/cancel-self-approval; for another device it first looks its own up,
\* as the gate does
Cancel(h, d) == /\ pc[h] = "allowed" \/ (pc[h] = "checked" /\ d = Own(h))
                /\ Update(h, d, Status \ {"none"}, device[d], "no")

\* The gate refuses the device, or these three have nothing to change.
Refuse(h) == /\ pc[h] = "checked"
             /\ Finish(h)
             /\ UNCHANGED <<tables, cache, fails>>

\* Mutant: the statement does not ask for revoked_at IS NULL.
RevocableAlways(s) == TRUE

\* revoke_session_token: WHERE token_id = ... AND revoked_at IS NULL
Revocable(s) == Live(s)

\* /auth/logout, exempt from the gate
Logout(h) ==
    /\ pc[h] = "checked"
    /\ ~SessionLocked(job[h].token)
    /\ session' = IF Revocable(job[h].token)
                  THEN [session EXCEPT ![job[h].token].status = "revoked"] ELSE session
    /\ Finish(h)
    /\ UNCHANGED <<device, delay, cache, fails>>

-----------------------------------------------------------------------------
(* Time and failures. *)

Expire(s) == /\ Valid(s)
             /\ session' = [session EXCEPT ![s].expired = TRUE]
             /\ UNCHANGED <<device, delay, control, cache, fails>>

DelayOver(d) == /\ delay[d] = "running"
                /\ delay' = [delay EXCEPT ![d] = "over"]
                /\ UNCHANGED <<session, device, control, cache, fails>>

\* An entry passes MONITOR_CACHE_TTL_SECONDS, or is pushed out.
CacheExpire(p, d) == /\ <<p, d>> \in cache
                     /\ cache' = cache \ {<<p, d>>}
                     /\ UNCHANGED <<tables, control, fails>>

\* A statement raises.  Trusting is best effort, everything else ends the request.
Raise(h) ==
    /\ pc[h] # "idle" /\ fails < MaxFails
    /\ fails' = fails + 1
    /\ IF pc[h] \in {"trust", "upserted", "sweeping"} THEN Proceed(h)
       ELSE IF pc[h] = "pin" THEN Goto(h, "issue") /\ UNCHANGED <<job, seen>>
       ELSE Finish(h)
    /\ UNCHANGED <<tables, cache>>

\* A process dies; its open transactions are rolled back.
Crash(p) ==
    /\ fails < MaxFails
    /\ fails' = fails + 1
    /\ LET gone == {h \in Handlers : ProcOf[h] = p}
       IN  /\ pc' = [h \in Handlers |-> IF h \in gone THEN "idle" ELSE pc[h]]
           /\ job' = [h \in Handlers |-> IF h \in gone THEN None ELSE job[h]]
           /\ seen' = [h \in Handlers |-> IF h \in gone THEN {} ELSE seen[h]]
    /\ cache' = {c \in cache : c[1] # p}
    /\ UNCHANGED tables

-----------------------------------------------------------------------------
Issue(h) == PinTrust(h) \/ IssueLock(h) \/ IssueCommit(h)
Trust(h) == TrustUpsert(h) \/ TrustSweep(h) \/ TrustCommit(h) \/ TrustVictim(h)
Serve(h) == \/ GatePass(h) \/ Use(h) \/ Register(h) \/ Logout(h)
            \/ Ask(h) \/ SelfApprove(h) \/ Refuse(h)
            \/ \E d \in Devices : Approve(h, d) \/ Revoke(h, d) \/ Cancel(h, d)

Next ==
    \/ \E h \in Handlers :
         \/ \E s \in Sessions :
              \/ \E k \in Logins, d \in Devices : StartLogin(h, k, d, s)
              \/ Load(h, s)
         \/ Issue(h) \/ Trust(h) \/ Serve(h) \/ Raise(h)
    \/ \E s \in Sessions : Expire(s)
    \/ \E d \in Devices : DelayOver(d) \/ \E p \in Procs : CacheExpire(p, d)
    \/ \E p \in Procs : Crash(p)

Spec == Init /\ [][Next]_vars

\* A handler that is not interrupted runs on; Postgres queues those that wait
\* for a row and breaks deadlocks; cache entries grow old.
Fairness == /\ \A h \in Handlers : SF_vars(Issue(h) \/ Trust(h) \/ Serve(h))
            /\ \A p \in Procs, d \in Devices : WF_vars(CacheExpire(p, d))
FairSpec == Spec /\ Fairness

-----------------------------------------------------------------------------
(* Properties. *)

\* What a handler may hold at a step: rows are seen inside a transaction only.
Snapshots(step) == CASE step = "issuing"  -> SUBSET Sessions
                     [] step = "sweeping" -> SUBSET Devices
                     [] OTHER             -> {{}}

\* Rows and running handlers have their types, and no transaction is left open.
TypeOK ==
    /\ session \in [Sessions -> SessionRows \cup {None}]
    /\ device \in [Devices -> Status]
    /\ delay \in [Devices -> Delays]
    /\ pc \in [Handlers -> Steps]
    /\ job \in [Handlers -> Jobs \cup {None}]
    /\ \A h \in Handlers : /\ pc[h] = "idle" <=> job[h] = None
                          /\ seen[h] \in Snapshots(pc[h])
    /\ seen \in [Handlers -> SUBSET (Sessions \cup Devices)]
    /\ cache \subseteq Procs \X Devices
    /\ fails \in 0 .. MaxFails

\* A vault has at most one session that is not revoked, however many logins,
\* logouts and failures run at once (the contract of issue_session_token): the
\* unique index of migration 0025 never has to refuse a login.
OneLiveSession == \A s, t \in Sessions : Live(s) /\ Live(t) => s = t

\* A session ends once and for one reason: a late logout does not turn
\* "superseded", which tells the client to wipe its keys, into "revoked".
EndedOnce ==
    [][\A s \in Sessions : Exists(s) /\ ~Live(s) =>
          Exists(s)' /\ session'[s].status = session[s].status]_vars

\* A request, or the trust transaction of a login, whose session has ended.
Leftover(h) == job[h] # None /\ Exists(job[h].token) /\ ~Live(job[h].token)

\* The device of the live session loses its trust to a handler of its own or to a
\* leftover, never to another session in force, and a leftover is only what was
\* under way when its session ended.
OnlyLeftoversDisplace ==
    [][/\ \A s \in Sessions :
             LET d == session[s].device
             IN  Live(s) /\ device[d] = "trusted" /\ device'[d] # "trusted"
                 => \E h \in Handlers : /\ pc'[h] # pc[h] /\ job[h] # None
                                       /\ (Own(h) = d \/ Leftover(h))
       /\ \A h \in Handlers : Leftover(h)' =>
             job[h] # None /\ job'[h].token = job[h].token]_vars

\* A session that stays live and in use gets its device through the gate again
\* and again, whatever stale requests, failed trust transactions and cached
\* monitor entries have done to it.
LiveDeviceHeals ==
    \A s \in Sessions :
       /\ <>[](Valid(s))
       /\ []<>(\E h \in Handlers : pc[h] = "checked" /\ job[h].token = s)
       => []<>(Exists(s) /\ device[session[s].device] = "trusted")
=============================================================================
