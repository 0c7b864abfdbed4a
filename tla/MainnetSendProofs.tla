------------------------- MODULE MainnetSendProofs -------------------------
(***************************************************************************)
(* Proofs about MainnetSend, for any number of vaults, wallets, drafts,    *)
(* handlers and processes, any lease lengths and any bound on the clock.   *)
(***************************************************************************)
EXTENDS MainnetSend, TLAPS

USE DEF pauseVars, dbVars, workVars, netVars, Goto, Finish, Tell

\* The initial state is well typed and satisfies the strengthening.
LEMMA InitInv == Init => SendInv
  <1> SUFFICES ASSUME Init PROVE SendInv
      OBVIOUS
  <1> USE DEF Init
  <1>1. TypeOK
    BY DEF TypeOK, Steps
  <1>2. HandlersServe /\ RequestsFit /\ IdsFresh /\ CallersOwn
    BY DEF HandlersServe, RequestsFit, IdsFresh, CallersOwn, Calling
  <1>3. CallsFollow /\ AnswersTrue /\ StampsPast
    BY DEF CallsFollow, AnswersTrue, StampsPast, Consumed
  <1>4. SentIsOnRecord /\ LeasesBacked
    BY DEF SentIsOnRecord, LeasesBacked, InSection
  <1> QED
    BY <1>1, <1>2, <1>3, <1>4 DEF SendInv

\* Every handler that is not idle has a well-typed request.
LEMMA BusyRequest ==
    ASSUME TypeOK, HandlersServe, NEW w \in Workers, pc[w] # "idle"
    PROVE  req[w] \in Requests /\ Draft(w) \in Drafts /\ req[w].tx \in Tx
  BY DEF TypeOK, HandlersServe, Draft, Requests

\* Type correctness is kept by every step.
LEMMA TypeStep == SendInv /\ [Next]_vars => TypeOK'
  <1> SUFFICES ASSUME SendInv, [Next]_vars PROVE TypeOK'
      OBVIOUS
  <1> USE DEF SendInv
  <1>1. CASE UNCHANGED vars
    BY <1>1 DEF TypeOK, vars
  <1>2. CASE Tick
    <2>1. now' \in Nat
      BY <1>2 DEF TypeOK, Tick
    <2> QED
      BY <1>2, <2>1 DEF TypeOK, Tick
  <1>3. ASSUME NEW b \in BOOLEAN, SetPaused(b) PROVE TypeOK'
    <2>1. flips' \in Nat
      BY <1>3 DEF TypeOK, SetPaused
    <2> QED
      BY <1>3, <2>1 DEF TypeOK, SetPaused
  <1>4. ASSUME NEW v \in Vaults, DraftStep(v) PROVE TypeOK'
    <2>1. ASSUME NEW s \in Wallets, NEW f \in Forms, NEW n \in Nonces,
                 NEW c \in Terms, NEW d \in Drafts, DraftAsk(v, s, f, n, c, d)
          PROVE  TypeOK'
      <3> DEFINE r == [form |-> f, vault |-> v, wallet |-> s, nonce |-> n, terms |-> c,
                       id |-> d, step |-> "asked", stamp |-> 0, swept |-> {},
                       freed |-> {}]
      <3>1. r \in Registrations
        BY DEF Registrations
      <3>2. reg' = [reg EXCEPT ![v] = r]
        BY <2>1 DEF DraftAsk
      <3> HIDE DEF r
      <3>3. reg' \in [Vaults -> Registrations \cup {None}]
        BY <3>1, <3>2 DEF TypeOK
      <3> QED
        BY <2>1, <3>3 DEF TypeOK, DraftAsk, Unmoved
    <2>2. CASE DraftBegin(v) \/ DraftSweep(v) \/ DraftCheck(v)
      <3>1. reg[v] \in Registrations /\ now \in Nat /\ Unmoved
        BY <2>2 DEF TypeOK, DraftBegin, DraftSweep, DraftCheck, At
      <3>2. PICK r \in Registrations : reg' = [reg EXCEPT ![v] = r]
        <4>1. CASE DraftBegin(v)
          <5>1. [reg[v] EXCEPT !.step = "begun", !.stamp = now] \in Registrations
            BY <3>1 DEF Registrations
          <5>2. reg' = [reg EXCEPT ![v] = [reg[v] EXCEPT !.step = "begun", !.stamp = now]]
            BY <4>1 DEF DraftBegin, TypeOK
          <5> QED
            BY <5>1, <5>2
        <4>2. CASE DraftSweep(v)
          <5> DEFINE S == {e \in Drafts : Abandoned(e, reg[v])}
          <5>1. [reg[v] EXCEPT !.step = "swept", !.swept = S] \in Registrations
            BY <3>1 DEF Registrations
          <5>2. reg' = [reg EXCEPT ![v] = [reg[v] EXCEPT !.step = "swept", !.swept = S]]
            BY <4>2 DEF DraftSweep, TypeOK
          <5> QED
            BY <5>1, <5>2
        <4>3. CASE DraftCheck(v)
          <5> DEFINE S == {e \in Drafts : Freed(e, reg[v])}
          <5>1. [reg[v] EXCEPT !.step = "checked", !.freed = S] \in Registrations
            BY <3>1 DEF Registrations
          <5>2. reg' = [reg EXCEPT ![v] = [reg[v] EXCEPT !.step = "checked", !.freed = S]]
            BY <4>3 DEF DraftCheck, TypeOK
          <5> QED
            BY <5>1, <5>2
        <4> QED
          BY <2>2, <4>1, <4>2, <4>3
      <3>3. reg' \in [Vaults -> Registrations \cup {None}]
        BY <3>2 DEF TypeOK
      <3> QED
        BY <3>1, <3>3 DEF TypeOK, Unmoved
    <2>3. CASE DraftConflict(v) \/ DraftAbort(v)
      BY <2>3 DEF TypeOK, DraftConflict, DraftAbort, Unmoved
    <2>4. CASE DraftRegister(v)
      <3>1. reg[v] \in Registrations /\ reg[v].stamp + DraftTTL \in Nat
        BY <2>4, LeaseAssumption DEF TypeOK, DraftRegister, Registrations, At
      <3>2. expires' \in [Drafts -> Nat]
        BY <2>4, <3>1 DEF TypeOK, DraftRegister, Registrations
      <3>3. draft' \in [Drafts -> DraftFields \cup {None}]
        BY <2>4, <3>1 DEF TypeOK, DraftRegister, Registrations, DraftFields
      <3>4. reg' \in [Vaults -> Registrations \cup {None}]
        BY <2>4 DEF TypeOK, DraftRegister
      <3> QED
        BY <2>4, <3>2, <3>3, <3>4 DEF TypeOK, DraftRegister
    <2> QED
      BY <1>4, <2>1, <2>2, <2>3, <2>4 DEF DraftStep
  <1>5. ASSUME NEW w \in Workers, NEW r \in Requests, Admit(w, r) PROVE TypeOK'
    BY <1>5 DEF TypeOK, Admit, Steps
  <1>6. ASSUME NEW w \in Workers, Serve(w) PROVE TypeOK'
    <2> USE DEF TypeOK, Steps
    <2>1. CASE LoadOpen(w)
      BY <2>1 DEF LoadOpen
    <2>2. CASE Replay(w)
      BY <2>2 DEF Replay, Verdict, Verdicts
    <2>3. CASE LoadRefused(w)
      BY <2>3 DEF LoadRefused
    <2>4. CASE LoadRaises(w)
      BY <2>4 DEF LoadRaises
    <2>5. CASE ClaimWrite(w)
      <3>1. stamp[w] + ClaimLease \in Nat
        BY LeaseAssumption
      <3>2. claimUntil' \in [Drafts -> Nat]
        BY <2>5, <3>1 DEF ClaimWrite
      <3> QED
        BY <2>5, <3>2 DEF ClaimWrite
    <2>6. CASE ClaimRefused(w)
      BY <2>6 DEF ClaimRefused
    <2>7. CASE AcquireLock(w)
      <3>1. now + LockLease \in Nat
        BY LeaseAssumption
      <3>2. lock' \in [Wallets -> [owner : Workers \cup {None}, until : Nat]]
        BY <2>7, <3>1 DEF AcquireLock
      <3>3. lease' \in [Workers -> Nat] /\ pc' \in [Workers -> Steps]
        BY <2>7, <3>1 DEF AcquireLock
      <3> QED
        BY <2>7, <3>2, <3>3 DEF AcquireLock
    <2>8. CASE LockBusy(w)
      BY <2>8 DEF LockBusy
    <2>9. CASE ReleaseClaim(w)
      <3>1. claim' \in [Drafts -> Workers \cup {None}]
        BY <2>9 DEF ReleaseClaim
      <3>2. claimUntil' \in [Drafts -> Nat]
        BY <2>9 DEF ReleaseClaim
      <3> QED
        BY <2>9, <3>1, <3>2 DEF ReleaseClaim
    <2>10. CASE Consume(w)
      BY <2>10, BusyRequest DEF Consume
    <2>11. CASE ClaimLost(w)
      BY <2>11 DEF ClaimLost
    <2>12. CASE Broadcast(w)
      <3>1. req[w].tx \in Tx /\ pc' \in [Workers -> Steps]
        BY <2>12, BusyRequest DEF Broadcast
      <3>2. limbo' \subseteq Tx
        BY <2>12, <3>1 DEF Broadcast
      <3>3. answer' \in [Workers -> Outcomes \cup {None}]
        BY <2>12 DEF Broadcast, RpcOutcome, Outcomes
      <3>4. sends' \in [Drafts -> Nat]
        <4>1. sends' = [sends EXCEPT ![Draft(w)] = sends[Draft(w)] + 1]
          BY <2>12 DEF Broadcast
        <4>2. Draft(w) \in Drafts /\ sends[Draft(w)] \in Nat
          BY <2>12, BusyRequest DEF Broadcast
        <4> QED
          BY <4>1, <4>2
      <3> QED
        BY <2>12, <3>1, <3>2, <3>3, <3>4 DEF Broadcast
    <2>13. CASE Poll(w)
      <3>1. answer' \in [Workers -> Outcomes \cup {None}]
        BY <2>13 DEF Poll, PollOutcomes, Outcomes
      <3>2. pc' \in [Workers -> Steps]
        BY <2>13 DEF Poll
      <3> QED
        BY <2>13, <3>1, <3>2 DEF Poll
    <2>14. CASE Record(w)
      BY <2>14, BusyRequest, ProcsAssumption DEF Record, Verdict, Verdicts
    <2>15. CASE ReleaseLock(w)
      BY <2>15 DEF ReleaseLock
    <2> QED
      BY <1>6, <2>1, <2>2, <2>3, <2>4, <2>5, <2>6, <2>7, <2>8, <2>9, <2>10, <2>11,
         <2>12, <2>13, <2>14, <2>15 DEF Serve
  <1>7. ASSUME NEW w \in Workers, Raise(w) PROVE TypeOK'
    <2>1. UNCHANGED <<now, pauseVars, dbVars, lock, reg, cache, netVars, sends, told>>
      BY <1>7 DEF Raise
    <2>2. CASE pc[w] \in {"locked", "consumed", "echoed", "answered"}
      <3>1. /\ Goto(w, "unlocking") /\ answer' = [answer EXCEPT ![w] = None]
            /\ UNCHANGED <<req, stamp, lease>>
        BY <1>7, <2>2 DEF Raise
      <3> QED
        BY <2>1, <3>1 DEF TypeOK, Steps
    <2>3. CASE pc[w] \notin {"locked", "consumed", "echoed", "answered"}
      <3>1. Finish(w)
        BY <1>7, <2>3 DEF Raise
      <3> QED
        BY <2>1, <3>1 DEF TypeOK, Steps
    <2> QED
      BY <2>2, <2>3
  <1>8. ASSUME NEW p \in Procs, Crash(p) PROVE TypeOK'
    BY <1>8 DEF TypeOK, Crash, Steps
  <1>9. ASSUME NEW p \in Procs, NEW e \in Vaults \X Keys, CacheExpire(p, e)
        PROVE  TypeOK'
    BY <1>9 DEF TypeOK, CacheExpire
  <1>10. ASSUME NEW t \in Tx, NetworkAccept(t) PROVE TypeOK'
    BY <1>10 DEF TypeOK, NetworkAccept
  <1> QED
    BY <1>1, <1>2, <1>3, <1>4, <1>5, <1>6, <1>7, <1>8, <1>9, <1>10 DEF Next

-----------------------------------------------------------------------------
(* What the steps leave alone. *)

\* Worker x takes no part in the step.
Kept(x) == /\ pc'[x] = pc[x] /\ req'[x] = req[x] /\ stamp'[x] = stamp[x]
           /\ lease'[x] = lease[x] /\ answer'[x] = answer[x]

\* Worker x is cut short, or takes no part.
Stops(x) == \/ pc'[x] = "idle" /\ stamp'[x] = 0
            \/ /\ InSection(x) /\ pc'[x] = "unlocking"
               /\ req'[x] = req[x] /\ lease'[x] = lease[x] /\ stamp'[x] = stamp[x]
            \/ Kept(x)

Quiet == /\ UNCHANGED <<dbVars, lock, reg, workVars, netVars, sends, told>>
         /\ now <= now'

Stopping == /\ UNCHANGED <<now, dbVars, lock, reg, netVars, sends, told>>
            /\ \A x \in Workers : Stops(x)

\* A handler that raises moves to the finally clause or is done.
LEMMA RaiseStops ==
    ASSUME TypeOK, NEW w \in Workers, Raise(w) PROVE Stopping
  <1>1. UNCHANGED <<now, dbVars, lock, reg, netVars, sends, told>>
    BY DEF Raise
  <1>2. ASSUME NEW x \in Workers, x # w PROVE Kept(x)
    BY <1>2 DEF Raise, TypeOK, Kept
  <1>3. Stops(w)
    <2>1. CASE pc[w] \in {"locked", "consumed", "echoed", "answered"}
      BY <2>1 DEF Raise, TypeOK, Stops, InSection
    <2>2. CASE pc[w] \notin {"locked", "consumed", "echoed", "answered"}
      BY <2>2 DEF Raise, TypeOK, Stops
    <2> QED
      BY <2>1, <2>2
  <1> QED
    BY <1>1, <1>2, <1>3 DEF Stopping, Stops

\* A crash ends the handlers of one process.
LEMMA CrashStops ==
    ASSUME TypeOK, NEW p \in Procs, Crash(p) PROVE Stopping
  <1>1. UNCHANGED <<now, dbVars, lock, reg, netVars, sends, told>>
    BY DEF Crash
  <1>2. ASSUME NEW x \in Workers PROVE Stops(x)
    BY DEF Crash, TypeOK, Stops, Kept
  <1> QED
    BY <1>1, <1>2 DEF Stopping

\* Every step is of one of six kinds.
LEMMA StepKinds ==
    ASSUME TypeOK, [Next]_vars
    PROVE  \/ Quiet
           \/ Stopping
           \/ \E v \in Vaults : DraftStep(v)
           \/ \E w \in Workers, r \in Requests : Admit(w, r)
           \/ \E w \in Workers : Serve(w)
           \/ \E t \in Tx : NetworkAccept(t)
  <1>1. CASE UNCHANGED vars
    <2>1. UNCHANGED <<dbVars, lock, reg, workVars, netVars, sends, told>> /\ now' = now
      BY <1>1 DEF vars
    <2>2. now <= now'
      BY <2>1 DEF TypeOK
    <2> QED
      BY <2>1, <2>2 DEF Quiet
  <1>2. CASE Tick
    <2>1. UNCHANGED <<dbVars, lock, reg, workVars, netVars, sends, told>> /\ now' = now + 1
      BY <1>2 DEF Tick
    <2>2. now <= now'
      BY <2>1 DEF TypeOK
    <2> QED
      BY <2>1, <2>2 DEF Quiet
  <1>3. ASSUME NEW b \in BOOLEAN, SetPaused(b) PROVE Quiet
    <2>1. UNCHANGED <<dbVars, lock, reg, workVars, netVars, sends, told>> /\ now' = now
      BY <1>3 DEF SetPaused
    <2>2. now <= now'
      BY <2>1 DEF TypeOK
    <2> QED
      BY <2>1, <2>2 DEF Quiet
  <1>4. ASSUME NEW p \in Procs, NEW e \in Vaults \X Keys, CacheExpire(p, e)
        PROVE  Quiet
    <2>1. UNCHANGED <<dbVars, lock, reg, workVars, netVars, sends, told>> /\ now' = now
      BY <1>4 DEF CacheExpire
    <2>2. now <= now'
      BY <2>1 DEF TypeOK
    <2> QED
      BY <2>1, <2>2 DEF Quiet
  <1> QED
    BY <1>1, <1>2, <1>3, <1>4, RaiseStops, CrashStops DEF Next

\* Until it commits, a draft request changes nothing but itself.
LEMMA DraftRuns ==
    ASSUME TypeOK, NEW v \in Vaults, DraftStep(v), ~DraftRegister(v)
    PROVE  /\ Unmoved
           /\ \A u \in Vaults \ {v} : reg'[u] = reg[u]
  <1>1. CASE DraftBegin(v) \/ DraftSweep(v) \/ DraftConflict(v) \/ DraftCheck(v)
             \/ DraftAbort(v)
    BY <1>1 DEF DraftBegin, DraftSweep, DraftConflict, DraftCheck, DraftAbort, TypeOK
  <1>2. ASSUME NEW s \in Wallets, NEW f \in Forms, NEW n \in Nonces, NEW c \in Terms,
               NEW d \in Drafts, DraftAsk(v, s, f, n, c, d)
        PROVE  Unmoved /\ \A u \in Vaults \ {v} : reg'[u] = reg[u]
    BY <1>2 DEF DraftAsk, TypeOK
  <1> QED
    BY <1>1, <1>2 DEF DraftStep

\* A draft request changes drafts, their expiry and itself only.
LEMMA DraftFrame ==
    ASSUME TypeOK, IdsFresh, NEW v \in Vaults, DraftStep(v)
    PROVE  /\ UNCHANGED <<now, claim, claimUntil, hash, outcome, lock, workVars,
                          netVars, sends, told>>
           /\ \A d \in Drafts : Exists(d) => draft'[d] = draft[d]
           /\ \A u \in Vaults \ {v} : reg'[u] = reg[u]
  <1>1. CASE DraftRegister(v)
    <2>1. ASSUME NEW d \in Drafts, Exists(d) PROVE draft'[d] = draft[d]
      <3>1. d # reg[v].id
        BY <1>1, <2>1 DEF DraftRegister, IdsFresh, At
      <3> QED
        BY <1>1, <3>1 DEF DraftRegister, TypeOK
    <2> QED
      BY <1>1, <2>1 DEF DraftRegister, TypeOK
  <1>2. CASE ~DraftRegister(v)
    BY <1>2, DraftRuns DEF Unmoved
  <1> QED
    BY <1>1, <1>2

\* A running request stays the one it was.
SameAsk(v) == /\ reg[v] # None /\ reg[v] \in Registrations
              /\ reg'[v].form = reg[v].form /\ reg'[v].vault = reg[v].vault
              /\ reg'[v].wallet = reg[v].wallet /\ reg'[v].id = reg[v].id

Begun(v) == /\ reg'[v].step = "begun" /\ reg'[v].stamp = now
            /\ reg'[v].swept = reg[v].swept

Swept(v) == /\ reg[v].step = "begun" /\ ScopeFree(v)
            /\ reg'[v].step = "swept" /\ reg'[v].stamp = reg[v].stamp
            /\ \A e \in reg'[v].swept : Abandoned(e, reg[v])

Checked(v) == /\ reg[v].step = "swept"
              /\ \A e \in Drafts : ~Conflicts(e, reg[v])
              /\ reg'[v].step = "checked" /\ reg'[v].stamp = reg[v].stamp
              /\ reg'[v].swept = reg[v].swept
              /\ \A e \in Drafts : Freed(e, reg[v]) => e \in reg'[v].freed

Asked(v) == /\ reg'[v].step = "asked" /\ reg'[v].stamp = 0 /\ reg'[v].swept = {}
            /\ reg'[v].vault = v
            /\ \E d \in Drafts : /\ reg'[v].id = d /\ ~Exists(d)
                                 /\ \A u \in Vaults : reg[u] # None => reg[u].id # d

\* What becomes of the running request of a vault before it commits.
LEMMA RequestMoves ==
    ASSUME TypeOK, NEW v \in Vaults, DraftStep(v), ~DraftRegister(v), reg'[v] # None
    PROVE  Asked(v) \/ (SameAsk(v) /\ (Begun(v) \/ Swept(v) \/ Checked(v)))
  <1>1. CASE DraftBegin(v)
    <2>1. reg[v] # None /\ reg[v] \in Registrations
      BY <1>1 DEF DraftBegin, At, TypeOK
    <2>2. reg'[v] = [reg[v] EXCEPT !.step = "begun", !.stamp = now]
      BY <1>1 DEF DraftBegin, TypeOK
    <2> QED
      BY <2>1, <2>2 DEF Registrations, SameAsk, Begun
  <1>2. CASE DraftSweep(v)
    <2> DEFINE S == {e \in Drafts : Abandoned(e, reg[v])}
    <2>1. /\ reg[v] # None /\ reg[v] \in Registrations
          /\ reg[v].step = "begun" /\ ScopeFree(v)
      BY <1>2 DEF DraftSweep, At, TypeOK
    <2>2. reg'[v] = [reg[v] EXCEPT !.step = "swept", !.swept = S]
      BY <1>2 DEF DraftSweep, TypeOK
    <2>3. \A e \in S : Abandoned(e, reg[v])
      OBVIOUS
    <2> HIDE DEF S
    <2> QED
      BY <2>1, <2>2, <2>3 DEF Registrations, SameAsk, Swept
  <1>3. CASE DraftCheck(v)
    <2> DEFINE S == {e \in Drafts : Freed(e, reg[v])}
    <2>1. /\ reg[v] # None /\ reg[v] \in Registrations
          /\ reg[v].step = "swept" /\ \A e \in Drafts : ~Conflicts(e, reg[v])
      BY <1>3 DEF DraftCheck, At, TypeOK
    <2>2. reg'[v] = [reg[v] EXCEPT !.step = "checked", !.freed = S]
      BY <1>3 DEF DraftCheck, TypeOK
    <2>3. \A e \in Drafts : Freed(e, reg[v]) => e \in S
      OBVIOUS
    <2> HIDE DEF S
    <2> QED
      BY <2>1, <2>2, <2>3 DEF Registrations, SameAsk, Checked
  <1>4. CASE DraftConflict(v) \/ DraftAbort(v)
    BY <1>4 DEF DraftConflict, DraftAbort, TypeOK
  <1>5. ASSUME NEW s \in Wallets, NEW f \in Forms, NEW n \in Nonces, NEW c \in Terms,
               NEW d \in Drafts, DraftAsk(v, s, f, n, c, d)
        PROVE  Asked(v)
    BY <1>5 DEF DraftAsk, TypeOK, Asked
  <1> QED
    BY <1>1, <1>2, <1>3, <1>4, <1>5 DEF DraftStep

\* A handler changes its own working state, and neither clock, drafts nor
\* draft requests.
LEMMA ServeFrame ==
    ASSUME TypeOK, NEW w \in Workers, Serve(w)
    PROVE  /\ UNCHANGED <<now, draft, expires, reg, accepted>>
           /\ \A x \in Workers \ {w} : Kept(x)
           /\ pc[w] # "idle"
           /\ pc'[w] # "idle" => req'[w] = req[w]
  <1> USE DEF TypeOK, Kept
  <1>1. CASE LoadOpen(w)
    BY <1>1 DEF LoadOpen
  <1>2. CASE Replay(w)
    BY <1>2 DEF Replay
  <1>3. CASE LoadRefused(w)
    BY <1>3 DEF LoadRefused
  <1>4. CASE LoadRaises(w)
    BY <1>4 DEF LoadRaises
  <1>5. CASE ClaimWrite(w)
    BY <1>5 DEF ClaimWrite
  <1>6. CASE ClaimRefused(w)
    BY <1>6 DEF ClaimRefused
  <1>7. CASE AcquireLock(w)
    BY <1>7 DEF AcquireLock
  <1>8. CASE LockBusy(w)
    BY <1>8 DEF LockBusy
  <1>9. CASE ReleaseClaim(w)
    BY <1>9 DEF ReleaseClaim
  <1>10. CASE Consume(w)
    BY <1>10 DEF Consume
  <1>11. CASE ClaimLost(w)
    BY <1>11 DEF ClaimLost
  <1>12. CASE Broadcast(w)
    BY <1>12 DEF Broadcast
  <1>13. CASE Poll(w)
    BY <1>13 DEF Poll
  <1>14. CASE Record(w)
    BY <1>14 DEF Record
  <1>15. CASE ReleaseLock(w)
    BY <1>15 DEF ReleaseLock
  <1> QED
    BY <1>1, <1>2, <1>3, <1>4, <1>5, <1>6, <1>7, <1>8, <1>9, <1>10, <1>11, <1>12,
       <1>13, <1>14, <1>15 DEF Serve

\* A registered draft keeps its columns.
LEMMA RowsKept ==
    ASSUME SendInv, [Next]_vars, NEW d \in Drafts, Exists(d)
    PROVE  draft'[d] = draft[d]
  <1> USE DEF SendInv
  <1>1. CASE Quiet \/ Stopping
    BY <1>1 DEF Quiet, Stopping
  <1>2. CASE \E v \in Vaults : DraftStep(v)
    BY <1>2, DraftFrame
  <1>3. CASE \E w \in Workers, r \in Requests : Admit(w, r)
    BY <1>3 DEF Admit
  <1>4. CASE \E w \in Workers : Serve(w)
    BY <1>4, ServeFrame
  <1>5. CASE \E t \in Tx : NetworkAccept(t)
    BY <1>5 DEF NetworkAccept
  <1> QED
    BY <1>1, <1>2, <1>3, <1>4, <1>5, StepKinds

\* A handler that is busy after a step was busy with the same request before
\* it, unless the step admitted the request.
LEMMA RequestKept ==
    ASSUME SendInv, [Next]_vars, NEW x \in Workers, pc'[x] # "idle"
    PROVE  \/ /\ pc[x] # "idle" /\ req'[x] = req[x]
              /\ req[x] \in Requests /\ Draft(x) \in Drafts
              /\ draft'[Draft(x)] = draft[Draft(x)]
           \/ \E r \in Requests : Admit(x, r) /\ draft' = draft
  <1> USE DEF SendInv
  <1>1. CASE pc[x] # "idle" /\ req'[x] = req[x]
    <2>1. req[x] \in Requests /\ Draft(x) \in Drafts /\ Exists(Draft(x))
      BY <1>1, BusyRequest DEF HandlersServe
    <2> QED
      BY <1>1, <2>1, RowsKept
  <1>2. CASE Quiet
    BY <1>1, <1>2 DEF Quiet
  <1>3. CASE Stopping
    BY <1>1, <1>3 DEF Stopping, Stops, Kept, InSection
  <1>4. CASE \E v \in Vaults : DraftStep(v)
    BY <1>1, <1>4, DraftFrame
  <1>5. ASSUME NEW w \in Workers, NEW r \in Requests, Admit(w, r)
        PROVE  \/ pc[x] # "idle" /\ req'[x] = req[x]
               \/ Admit(x, r) /\ draft' = draft
    BY <1>5 DEF Admit, TypeOK
  <1>6. ASSUME NEW w \in Workers, Serve(w) PROVE pc[x] # "idle" /\ req'[x] = req[x]
    BY <1>6, ServeFrame DEF Kept
  <1>7. CASE \E t \in Tx : NetworkAccept(t)
    BY <1>1, <1>7 DEF NetworkAccept
  <1> QED
    BY <1>1, <1>2, <1>3, <1>4, <1>5, <1>6, <1>7, StepKinds

-----------------------------------------------------------------------------
(* The conjuncts of SendInv, one by one. *)

LEMMA HandlersStep == SendInv /\ [Next]_vars => HandlersServe'
  <1> SUFFICES ASSUME SendInv, [Next]_vars, NEW x \in Workers, pc'[x] # "idle"
               PROVE  req'[x] \in Requests /\ draft'[req'[x].draft] # None
      BY DEF HandlersServe, Exists, Draft
  <1>1. CASE \E r \in Requests : Admit(x, r) /\ draft' = draft
    BY <1>1 DEF Admit, Exists, SendInv, TypeOK
  <1>2. CASE /\ pc[x] # "idle" /\ req'[x] = req[x] /\ req[x] \in Requests
             /\ draft'[Draft(x)] = draft[Draft(x)]
    BY <1>2 DEF SendInv, HandlersServe, Exists, Draft
  <1> QED
    BY <1>1, <1>2, RequestKept

LEMMA FitStep == SendInv /\ [Next]_vars => RequestsFit'
  <1> SUFFICES ASSUME SendInv, [Next]_vars, NEW x \in Workers,
                      pc'[x] \notin {"idle", "admitted"}
               PROVE  draft'[req'[x].draft].vault = req'[x].vault
      BY DEF RequestsFit, Draft
  <1>1. ~ \E r \in Requests : Admit(x, r)
    BY DEF Admit, SendInv, TypeOK
  <1>2. /\ pc[x] # "idle" /\ req'[x] = req[x]
        /\ draft'[Draft(x)] = draft[Draft(x)]
    BY <1>1, RequestKept
  <1>3. CASE pc[x] # "admitted"
    BY <1>2, <1>3 DEF SendInv, RequestsFit, Draft
  <1>4. CASE pc[x] = "admitted"
    <2> USE DEF SendInv
    <2>1. CASE Quiet
      BY <1>4, <2>1 DEF Quiet
    <2>2. CASE Stopping
      BY <1>4, <2>2 DEF Stopping, Stops, Kept, InSection
    <2>3. CASE \E v \in Vaults : DraftStep(v)
      BY <1>4, <2>3, DraftFrame
    <2>4. CASE \E w \in Workers, r \in Requests : Admit(w, r)
      BY <1>4, <2>4 DEF Admit, TypeOK
    <2>5. ASSUME NEW w \in Workers, Serve(w)
          PROVE  draft[Draft(x)].vault = req[x].vault
      <3>1. w = x
        BY <1>4, <2>5, ServeFrame DEF Kept
      <3>2. CASE LoadOpen(x)
        BY <3>2 DEF LoadOpen, Visible
      <3>3. CASE Replay(x) \/ LoadRefused(x) \/ LoadRaises(x)
        BY <3>3 DEF Replay, LoadRefused, LoadRaises, TypeOK
      <3> QED
        BY <1>4, <2>5, <3>1, <3>2, <3>3
           DEF Serve, ClaimWrite, ClaimRefused, AcquireLock, LockBusy, ReleaseClaim,
               Consume, ClaimLost, Broadcast, Poll, Record, ReleaseLock
    <2>6. CASE \E t \in Tx : NetworkAccept(t)
      BY <1>4, <2>6 DEF NetworkAccept
    <2> QED
      BY <1>2, <2>1, <2>2, <2>3, <2>4, <2>5, <2>6, StepKinds DEF Draft
  <1> QED
    BY <1>3, <1>4

LEMMA IdsStep == SendInv /\ [Next]_vars => IdsFresh'
  <1> SUFFICES ASSUME SendInv, [Next]_vars PROVE IdsFresh'
      OBVIOUS
  <1> USE DEF SendInv
  <1>1. CASE UNCHANGED <<draft, reg>>
    BY <1>1 DEF IdsFresh, Exists
  <1>2. ASSUME NEW v \in Vaults, DraftRegister(v) PROVE IdsFresh'
    <2>1. ASSUME NEW u \in Vaults, reg'[u] # None
          PROVE  u # v /\ reg'[u] = reg[u] /\ reg[u].id # reg[v].id
      BY <1>2, <2>1 DEF DraftRegister, At, IdsFresh, TypeOK
    <2>2. ASSUME NEW u \in Vaults, reg'[u] # None PROVE draft'[reg'[u].id] = None
      <3>1. reg[u] \in Registrations
        BY <2>1, <2>2 DEF TypeOK
      <3>2. reg[u].id \in Drafts /\ draft[reg[u].id] = None
        BY <2>1, <2>2, <3>1 DEF IdsFresh, Exists, Registrations
      <3> QED
        BY <1>2, <2>1, <2>2, <3>2 DEF DraftRegister, TypeOK
    <2> QED
      BY <2>1, <2>2 DEF IdsFresh, Exists
  <1>3. ASSUME NEW v \in Vaults, DraftStep(v), ~DraftRegister(v) PROVE IdsFresh'
    <2>1. draft' = draft /\ \A u \in Vaults \ {v} : reg'[u] = reg[u]
      BY <1>3, DraftRuns DEF Unmoved
    <2>2. ASSUME reg'[v] # None
          PROVE  \/ reg[v] # None /\ reg'[v].id = reg[v].id
                 \/ \E d \in Drafts : /\ reg'[v].id = d /\ ~Exists(d)
                                      /\ \A u \in Vaults : reg[u] # None => reg[u].id # d
      BY <1>3, <2>2, RequestMoves DEF Asked, SameAsk
    <2> QED
      BY <2>1, <2>2 DEF IdsFresh, Exists
  <1>5. ASSUME NEW w \in Workers, Serve(w) PROVE UNCHANGED <<draft, reg>>
    BY <1>5, ServeFrame
  <1> QED
    BY <1>1, <1>2, <1>3, <1>5, StepKinds DEF Quiet, Stopping, Admit, NetworkAccept

LEMMA StampsStep == SendInv /\ [Next]_vars => StampsPast'
  <1> SUFFICES ASSUME SendInv, [Next]_vars PROVE StampsPast'
      OBVIOUS
  <1> USE DEF SendInv
  <1>1. now \in Nat /\ stamp \in [Workers -> Nat]
    BY DEF TypeOK
  <1>2. ASSUME UNCHANGED <<stamp, reg, hash>>, now <= now', now' \in Nat
        PROVE  StampsPast'
    <2>1. ASSUME NEW v \in Vaults, reg[v] # None PROVE reg[v].stamp \in Nat
      BY <2>1 DEF TypeOK, Registrations
    <2> QED
      BY <1>1, <1>2, <2>1 DEF StampsPast, Consumed
  <1>3. CASE Quiet \/ (\E t \in Tx : NetworkAccept(t))
             \/ (\E w \in Workers, r \in Requests : Admit(w, r))
    <2>1. UNCHANGED <<stamp, reg, hash>> /\ now <= now'
      BY <1>1, <1>3 DEF Quiet, NetworkAccept, Admit
    <2> QED
      BY <1>2, <2>1, TypeStep DEF TypeOK
  <1>4. CASE Stopping
    <2>1. ASSUME NEW x \in Workers PROVE stamp'[x] <= now
      BY <1>1, <1>4 DEF Stopping, Stops, Kept, StampsPast
    <2> QED
      BY <1>4, <2>1 DEF Stopping, StampsPast, Consumed
  <1>5. ASSUME NEW v \in Vaults, DraftStep(v) PROVE StampsPast'
    <2>1. UNCHANGED <<now, stamp, hash>>
      BY <1>5, DraftFrame
    <2>2. ASSUME NEW u \in Vaults, reg'[u] # None
          PROVE  reg'[u].stamp <= now /\ \A d \in reg'[u].swept : ~Consumed(d)
      <3>1. CASE DraftRegister(v)
        BY <2>2, <3>1 DEF DraftRegister, TypeOK, StampsPast
      <3>2. CASE ~DraftRegister(v) /\ u # v
        BY <1>5, <2>2, <3>2, DraftFrame DEF StampsPast
      <3>3. CASE ~DraftRegister(v) /\ u = v
        <4>1. CASE Asked(v)
          BY <1>1, <3>3, <4>1 DEF Asked
        <4>2. CASE SameAsk(v) /\ Begun(v)
          BY <1>1, <3>3, <4>2 DEF SameAsk, Begun, StampsPast
        <4>3. CASE SameAsk(v) /\ Swept(v)
          BY <1>1, <3>3, <4>3 DEF SameAsk, Swept, StampsPast, Abandoned
        <4>4. CASE SameAsk(v) /\ Checked(v)
          BY <1>1, <3>3, <4>4 DEF SameAsk, Checked, StampsPast
        <4> QED
          BY <1>5, <2>2, <3>3, <4>1, <4>2, <4>3, <4>4, RequestMoves
      <3> QED
        BY <3>1, <3>2, <3>3
    <2> QED
      BY <2>1, <2>2 DEF StampsPast, Consumed
  <1>6. ASSUME NEW w \in Workers, Serve(w) PROVE StampsPast'
    <2>1. UNCHANGED <<now, reg>> /\ \A x \in Workers \ {w} : Kept(x)
      BY <1>6, ServeFrame
    <2>2. stamp'[w] \in {0, now, stamp[w]}
      BY <1>1, <1>6
         DEF Serve, LoadOpen, Replay, LoadRefused, LoadRaises, ClaimWrite,
             ClaimRefused, AcquireLock, LockBusy, ReleaseClaim, Consume, ClaimLost,
             Broadcast, Poll, Record, ReleaseLock
    <2>3. ASSUME NEW x \in Workers PROVE stamp'[x] <= now
      BY <1>1, <2>1, <2>2 DEF Kept, StampsPast
    <2>4. ASSUME NEW v \in Vaults, reg[v] # None, NEW d \in reg[v].swept
          PROVE  hash'[d] = None
      <3>1. d \in Drafts /\ hash[d] = None /\ RowLocked(d)
        BY <2>4 DEF TypeOK, Registrations, StampsPast, Consumed, RowLocked
      <3>2. CASE Consume(w)
        BY <3>1, <3>2 DEF Consume, TypeOK
      <3>3. CASE ~Consume(w)
        BY <1>6, <3>1, <3>3
           DEF Serve, LoadOpen, Replay, LoadRefused, LoadRaises, ClaimWrite,
               ClaimRefused, AcquireLock, LockBusy, ReleaseClaim, ClaimLost,
               Broadcast, Poll, Record, ReleaseLock
      <3> QED
        BY <3>2, <3>3
    <2> QED
      BY <2>1, <2>3, <2>4 DEF StampsPast, Consumed
  <1> QED
    BY <1>3, <1>4, <1>5, <1>6, StepKinds

\* Only consume writes the hash, and only on a draft that has none.
LEMMA HashKept ==
    ASSUME SendInv, [Next]_vars, NEW d \in Drafts, Consumed(d)
    PROVE  hash'[d] = hash[d]
  <1> USE DEF SendInv
  <1>1. ASSUME NEW w \in Workers, Serve(w) PROVE hash'[d] = hash[d]
    <2>1. CASE Consume(w)
      BY <2>1 DEF Consume, HoldsClaim, TypeOK
    <2>2. CASE ~Consume(w)
      BY <1>1, <2>2
         DEF Serve, LoadOpen, Replay, LoadRefused, LoadRaises, ClaimWrite,
             ClaimRefused, AcquireLock, LockBusy, ReleaseClaim, ClaimLost,
             Broadcast, Poll, Record, ReleaseLock
    <2> QED
      BY <2>1, <2>2
  <1> QED
    BY <1>1, DraftFrame, StepKinds DEF Quiet, Stopping, Admit, NetworkAccept

\* The claim on a consumed draft stays as it is.
LEMMA ClaimKept ==
    ASSUME SendInv, [Next]_vars, NEW d \in Drafts, Consumed(d)
    PROVE  claim'[d] = claim[d]
  <1> USE DEF SendInv
  <1>1. ASSUME NEW w \in Workers, Serve(w) PROVE claim'[d] = claim[d]
    <2>1. CASE ClaimWrite(w)
      BY <2>1 DEF ClaimWrite, Claimable, TypeOK
    <2>2. CASE ReleaseClaim(w)
      BY <2>2 DEF ReleaseClaim, HoldsClaim, TypeOK
    <2>3. CASE ~ClaimWrite(w) /\ ~ReleaseClaim(w)
      BY <1>1, <2>3
         DEF Serve, LoadOpen, Replay, LoadRefused, LoadRaises, Consume,
             ClaimRefused, AcquireLock, LockBusy, ClaimLost,
             Broadcast, Poll, Record, ReleaseLock
    <2> QED
      BY <2>1, <2>2, <2>3
  <1> QED
    BY <1>1, DraftFrame, StepKinds DEF Quiet, Stopping, Admit, NetworkAccept

\* A handler comes to its call by consume only, and keeps its request until
\* the outcome is recorded.
LEMMA CallingFrom ==
    ASSUME SendInv, [Next]_vars, NEW x \in Workers, pc'[x] \in Calling
    PROVE  /\ req'[x] = req[x] /\ Draft(x) \in Drafts /\ req[x].tx \in Tx
           /\ \/ Consume(x)
              \/ pc[x] \in Calling
  <1> USE DEF SendInv
  <1>1. pc'[x] # "idle" /\ ~ \E r \in Requests : Admit(x, r)
    BY DEF Admit, TypeOK, Calling
  <1>2. pc[x] # "idle" /\ req'[x] = req[x] /\ Draft(x) \in Drafts /\ req[x].tx \in Tx
    BY <1>1, RequestKept, BusyRequest
  <1>3. ASSUME NEW w \in Workers, Serve(w) PROVE Consume(x) \/ pc[x] \in Calling
    <2>1. CASE w # x
      BY <1>3, <2>1, ServeFrame DEF Kept
    <2>2. CASE w = x
      BY <1>3, <2>2
         DEF Serve, LoadOpen, Replay, LoadRefused, LoadRaises, ClaimWrite,
             ClaimRefused, AcquireLock, LockBusy, ReleaseClaim, ClaimLost,
             Broadcast, Poll, Record, ReleaseLock, TypeOK, Calling
    <2> QED
      BY <2>1, <2>2
  <1>4. ASSUME NEW w \in Workers, NEW r \in Requests, Admit(w, r) PROVE pc[x] \in Calling
    BY <1>1, <1>4 DEF Admit, TypeOK, Calling
  <1>5. ASSUME Stopping PROVE pc[x] \in Calling
    BY <1>5 DEF Stopping, Stops, Kept, Calling
  <1>6. ASSUME NEW v \in Vaults, DraftStep(v) PROVE pc[x] \in Calling
    BY <1>6, DraftFrame
  <1> QED
    BY <1>2, <1>3, <1>4, <1>5, <1>6, StepKinds DEF Quiet, NetworkAccept

LEMMA CallersStep == SendInv /\ [Next]_vars => CallersOwn'
  <1> SUFFICES ASSUME SendInv, [Next]_vars, NEW x \in Workers, pc'[x] \in Calling
               PROVE  claim'[req'[x].draft] = x /\ hash'[req'[x].draft] = req'[x].tx
      BY DEF CallersOwn, Draft
  <1> USE DEF SendInv
  <1>1. /\ req'[x] = req[x] /\ Draft(x) \in Drafts /\ req[x].tx \in Tx
        /\ Consume(x) \/ pc[x] \in Calling
    BY CallingFrom
  <1>2. CASE Consume(x)
    BY <1>1, <1>2 DEF Consume, HoldsClaim, TypeOK, Draft
  <1>3. CASE pc[x] \in Calling
    <2>1. claim[Draft(x)] = x /\ hash[Draft(x)] = req[x].tx /\ Consumed(Draft(x))
      BY <1>1, <1>3, NoneAssumption DEF CallersOwn, Consumed
    <2> QED
      BY <1>1, <2>1, HashKept, ClaimKept DEF Draft
  <1> QED
    BY <1>1, <1>2, <1>3

\* Only a broadcast counts a call, and only a record settles an outcome.
LEMMA CountersMove ==
    ASSUME SendInv, [Next]_vars
    PROVE  \/ UNCHANGED <<sends, outcome>>
           \/ \E w \in Workers : Broadcast(w) \/ Record(w)
  <1>1. ASSUME NEW w \in Workers, Serve(w), ~Broadcast(w), ~Record(w)
        PROVE  UNCHANGED <<sends, outcome>>
    BY <1>1
       DEF Serve, LoadOpen, Replay, LoadRefused, LoadRaises, ClaimWrite,
           ClaimRefused, AcquireLock, LockBusy, ReleaseClaim, Consume, ClaimLost,
           Poll, ReleaseLock
  <1> QED
    BY <1>1, DraftFrame, StepKinds DEF SendInv, Quiet, Stopping, Admit, NetworkAccept

\* The two conjuncts of CallsFollow, for one draft and for one handler.
DraftCounts(d) == /\ ~Consumed(d) => sends[d] = 0
                  /\ outcome[d] # None => Consumed(d) /\ sends[d] = 1
                  /\ sends[d] \in {0, 1}
HandlerCounts(w) == /\ pc[w] = "consumed" => sends[Draft(w)] = 0
                    /\ pc[w] \in {"echoed", "answered"} => sends[Draft(w)] = 1

\* Two handlers in their call serve different drafts.
LEMMA CallersApart ==
    ASSUME SendInv, NEW w \in Workers, NEW x \in Workers, w # x,
           pc[w] \in Calling, pc[x] \in Calling
    PROVE  Draft(w) # Draft(x)
  BY DEF SendInv, CallersOwn

\* A handler in its call works on a consumed draft.
LEMMA CallerConsumed ==
    ASSUME SendInv, NEW w \in Workers, pc[w] \in Calling
    PROVE  Draft(w) \in Drafts /\ Consumed(Draft(w)) /\ hash[Draft(w)] = req[w].tx
  BY BusyRequest, NoneAssumption DEF SendInv, CallersOwn, Consumed, Calling

LEMMA CallsStep == SendInv /\ [Next]_vars => CallsFollow'
  <1> SUFFICES ASSUME SendInv, [Next]_vars PROVE CallsFollow'
      OBVIOUS
  <1> USE DEF SendInv
  <1>1. ASSUME NEW d \in Drafts PROVE DraftCounts(d)'
    <2>1. DraftCounts(d) /\ (Consumed(d) => Consumed(d)')
      BY HashKept DEF CallsFollow, DraftCounts, Consumed
    <2>2. CASE UNCHANGED <<sends, outcome>>
      BY <2>1, <2>2 DEF DraftCounts
    <2>3. ASSUME NEW w \in Workers, Broadcast(w) PROVE DraftCounts(d)'
      <3>1. pc[w] = "consumed" /\ UNCHANGED <<outcome, hash>>
            /\ sends' = [sends EXCEPT ![Draft(w)] = sends[Draft(w)] + 1]
        BY <2>3 DEF Broadcast
      <3>2. Consumed(Draft(w)) /\ sends[Draft(w)] = 0
        BY <3>1, CallerConsumed DEF CallsFollow, Calling
      <3> QED
        BY <2>1, <3>1, <3>2 DEF DraftCounts, Consumed, TypeOK
    <2>4. ASSUME NEW w \in Workers, Record(w) PROVE DraftCounts(d)'
      <3>1. pc[w] = "answered" /\ UNCHANGED <<sends, hash>>
            /\ outcome'[d] = IF d = Draft(w) /\ MayRecord(w, Draft(w))
                             THEN answer[w] ELSE outcome[d]
        BY <2>4 DEF Record, TypeOK
      <3>2. Consumed(Draft(w)) /\ sends[Draft(w)] = 1
        BY <3>1, CallerConsumed DEF CallsFollow, Calling
      <3> QED
        BY <2>1, <3>1, <3>2 DEF DraftCounts, Consumed
    <2> QED
      BY <2>2, <2>3, <2>4, CountersMove
  <1>2. ASSUME NEW x \in Workers, pc'[x] \in Calling PROVE HandlerCounts(x)'
    <2>1. req'[x] = req[x] /\ Draft(x) \in Drafts /\ (Consume(x) \/ pc[x] \in Calling)
      BY <1>2, CallingFrom
    <2>2. CASE Consume(x)
      BY <2>1, <2>2
         DEF Consume, HoldsClaim, CallsFollow, HandlerCounts, Draft, TypeOK
    <2>3. CASE Broadcast(x)
      <3>1. pc[x] = "consumed" /\ sends'[Draft(x)] = sends[Draft(x)] + 1
            /\ pc'[x] \in {"echoed", "answered"}
        BY <2>1, <2>3 DEF Broadcast, TypeOK
      <3> QED
        BY <2>1, <3>1 DEF CallsFollow, HandlerCounts, Draft
    <2>4. CASE pc[x] \in Calling /\ ~Broadcast(x)
      <3>1. sends'[Draft(x)] = sends[Draft(x)]
        <4>1. ASSUME NEW w \in Workers, Broadcast(w) PROVE sends'[Draft(x)] = sends[Draft(x)]
          <5>1. w # x /\ pc[w] = "consumed"
            BY <2>4, <4>1 DEF Broadcast
          <5>2. Draft(w) # Draft(x)
            BY <2>4, <5>1, CallersApart DEF Calling
          <5> QED
            BY <4>1, <5>2 DEF Broadcast, TypeOK
        <4> QED
          BY <4>1, CountersMove DEF Record
      <3>2. /\ pc'[x] = "consumed" => pc[x] = "consumed"
            /\ pc'[x] \in {"echoed", "answered"} => pc[x] \in {"echoed", "answered"}
        <4>1. ASSUME NEW w \in Workers, Serve(w)
              PROVE  pc'[x] = pc[x] \/ (Poll(x) /\ pc'[x] = "answered")
          <5>1. CASE w # x
            BY <4>1, <5>1, ServeFrame DEF Kept
          <5>2. CASE w = x
            BY <1>2, <2>4, <4>1, <5>2
               DEF Serve, LoadOpen, Replay, LoadRefused, LoadRaises, ClaimWrite,
                   ClaimRefused, AcquireLock, LockBusy, ReleaseClaim, Consume,
                   ClaimLost, Poll, Record, ReleaseLock, TypeOK, Calling
          <5> QED
            BY <5>1, <5>2
        <4>2. ASSUME NEW w \in Workers, NEW r \in Requests, Admit(w, r)
              PROVE  pc'[x] = pc[x]
          BY <1>2, <4>2 DEF Admit, TypeOK, Calling
        <4>3. ASSUME Stopping PROVE pc'[x] = pc[x]
          BY <1>2, <4>3 DEF Stopping, Stops, Kept, Calling
        <4>4. ASSUME NEW v \in Vaults, DraftStep(v) PROVE pc'[x] = pc[x]
          BY <4>4, DraftFrame
        <4> QED
          BY <4>1, <4>2, <4>3, <4>4, StepKinds DEF Quiet, NetworkAccept, Poll
      <3> QED
        BY <2>1, <2>4, <3>1, <3>2 DEF CallsFollow, HandlerCounts, Draft
    <2> QED
      BY <2>1, <2>2, <2>3, <2>4
  <1> QED
    BY <1>1, <1>2 DEF CallsFollow, DraftCounts, HandlerCounts, Calling

\* What the network has, it keeps; and it only takes up what nodes were given.
LEMMA NetworkGrows ==
    ASSUME SendInv, [Next]_vars
    PROVE  limbo \subseteq limbo' /\ accepted \subseteq accepted' /\ accepted' \subseteq limbo'
  <1> USE DEF SendInv, AnswersTrue
  <1>1. ASSUME NEW w \in Workers, Serve(w)
        PROVE  limbo \subseteq limbo' /\ accepted' = accepted
    BY <1>1, ServeFrame
       DEF Serve, LoadOpen, Replay, LoadRefused, LoadRaises, ClaimWrite,
           ClaimRefused, AcquireLock, LockBusy, ReleaseClaim, Consume, ClaimLost,
           Broadcast, Poll, Record, ReleaseLock
  <1>2. ASSUME NEW v \in Vaults, DraftStep(v)
        PROVE  limbo' = limbo /\ accepted' = accepted
    BY <1>2, DraftFrame
  <1> QED
    BY <1>1, <1>2, StepKinds DEF Quiet, Stopping, Admit, NetworkAccept

\* A handler comes to its answer by the call or by the polls, and keeps it.
LEMMA AnsweredFrom ==
    ASSUME SendInv, [Next]_vars, NEW x \in Workers, pc'[x] = "answered"
    PROVE  \/ pc[x] = "answered" /\ answer'[x] = answer[x]
           \/ Broadcast(x)
           \/ Poll(x)
  <1> USE DEF SendInv
  <1>1. ASSUME Serve(x) PROVE Broadcast(x) \/ Poll(x)
    BY <1>1
       DEF Serve, LoadOpen, Replay, LoadRefused, LoadRaises, ClaimWrite,
           ClaimRefused, AcquireLock, LockBusy, ReleaseClaim, Consume, ClaimLost,
           Record, ReleaseLock, TypeOK
  <1>2. ASSUME NEW w \in Workers, Serve(w), w # x
        PROVE  answer'[x] = answer[x] /\ pc[x] = "answered"
    BY <1>2, ServeFrame DEF Kept
  <1>3. ASSUME NEW w \in Workers, NEW r \in Requests, Admit(w, r)
        PROVE  answer'[x] = answer[x] /\ pc[x] = "answered"
    BY <1>3 DEF Admit, TypeOK
  <1>4. ASSUME Stopping PROVE answer'[x] = answer[x] /\ pc[x] = "answered"
    BY <1>4 DEF Stopping, Stops, Kept
  <1>5. ASSUME NEW v \in Vaults, DraftStep(v)
        PROVE  answer'[x] = answer[x] /\ pc[x] = "answered"
    BY <1>5, DraftFrame
  <1> QED
    BY <1>1, <1>2, <1>3, <1>4, <1>5, StepKinds DEF Quiet, NetworkAccept

\* A provider answers "known" only for a transaction it has.
LEMMA AnswersStep == SendInv /\ [Next]_vars => AnswersTrue'
  <1> SUFFICES ASSUME SendInv, [Next]_vars, NEW x \in Workers, pc'[x] = "answered"
               PROVE  /\ answer'[x] # None
                      /\ answer'[x] \in {"submitted", "already_known"}
                         => req'[x].tx \in accepted'
      BY NetworkGrows DEF AnswersTrue
  <1> USE DEF SendInv
  <1>1. /\ req'[x] = req[x] /\ accepted \subseteq accepted'
        /\ Consume(x) \/ pc[x] \in Calling
    BY CallingFrom, NetworkGrows DEF Calling
  <1>2. CASE answer'[x] = answer[x] /\ pc[x] = "answered"
    BY <1>1, <1>2 DEF AnswersTrue
  <1>3. CASE Broadcast(x) \/ Poll(x)
    <2>1. None \notin {"submitted", "already_known", "explicitly_rejected",
                       "submission_uncertain"}
      BY NoneAssumption DEF Outcomes
    <2>2. CASE Broadcast(x)
      <3>1. PICK reply \in RpcReplies(req[x].tx) : answer'[x] = RpcOutcome(reply)
        BY <2>2 DEF Broadcast, TypeOK
      <3>2. reply = "known" => req[x].tx \in accepted
        BY <3>1 DEF RpcReplies
      <3> QED
        BY <1>1, <2>1, <3>1, <3>2 DEF RpcOutcome
    <2>3. CASE Poll(x)
      <3>1. PICK o \in PollOutcomes(req[x].tx) : answer'[x] = o
        BY <2>3 DEF Poll, TypeOK
      <3> QED
        BY <1>1, <2>1, <3>1 DEF PollOutcomes
    <2> QED
      BY <1>3, <2>2, <2>3
  <1> QED
    BY <1>2, <1>3, AnsweredFrom

\* The hash is written before the call, and never overwritten.
LEMMA RecordStep == SendInv /\ [Next]_vars => SentIsOnRecord'
  <1> SUFFICES ASSUME SendInv, [Next]_vars, NEW t \in limbo'
               PROVE  \E d \in Drafts : hash'[d] = t
      BY NetworkGrows DEF SentIsOnRecord
  <1> USE DEF SendInv
  <1>1. CASE t \in limbo
    <2>1. PICK d \in Drafts : hash[d] = t
      BY <1>1 DEF SentIsOnRecord
    <2>2. Consumed(d)
      BY <1>1, <2>1, NoneAssumption DEF Consumed, TypeOK
    <2> QED
      BY <2>1, <2>2, HashKept
  <1>2. CASE t \notin limbo
    <2>1. ASSUME NEW w \in Workers, Serve(w), ~Broadcast(w) PROVE FALSE
      BY <1>2, <2>1
         DEF Serve, LoadOpen, Replay, LoadRefused, LoadRaises, ClaimWrite,
             ClaimRefused, AcquireLock, LockBusy, ReleaseClaim, Consume, ClaimLost,
             Poll, Record, ReleaseLock
    <2>2. ASSUME NEW v \in Vaults, DraftStep(v) PROVE FALSE
      BY <1>2, <2>2, DraftFrame
    <2>3. PICK w \in Workers : Broadcast(w)
      BY <1>2, <2>1, <2>2, StepKinds DEF Quiet, Stopping, Admit, NetworkAccept
    <2>4. t = req[w].tx /\ hash' = hash /\ pc[w] = "consumed"
      BY <1>2, <2>3 DEF Broadcast
    <2> QED
      BY <2>4, CallerConsumed DEF Calling
  <1> QED
    BY <1>1, <1>2

\* A wallet lock is taken over only when its lease has run out.
LEMMA LeasesStep == SendInv /\ [Next]_vars => LeasesBacked'
  <1> SUFFICES ASSUME SendInv, [Next]_vars, NEW x \in Workers,
                      InSection(x)', lease'[x] >= now'
               PROVE  lock'[Wallet(x)'] = [owner |-> x, until |-> lease'[x]]
      BY DEF LeasesBacked
  <1> USE DEF SendInv
  <1>1. /\ req'[x] = req[x] /\ Draft(x) \in Drafts /\ pc[x] # "idle"
        /\ Wallet(x)' = Wallet(x)
    <2>1. ~ \E r \in Requests : Admit(x, r)
      BY DEF Admit, TypeOK, InSection
    <2> QED
      BY <2>1, RequestKept DEF InSection, Wallet, Draft
  <1>2. now \in Nat /\ now' \in Nat /\ lease[x] \in Nat /\ lease'[x] \in Nat
    BY TypeStep DEF TypeOK
  <1>3. CASE /\ InSection(x) /\ lease'[x] = lease[x] /\ lock' = lock /\ now <= now'
    BY <1>1, <1>2, <1>3 DEF LeasesBacked
  <1>4. ASSUME NEW w \in Workers, Serve(w)
        PROVE  lock'[Wallet(x)] = [owner |-> x, until |-> lease'[x]]
    <2>1. now' = now /\ (w # x => Kept(x))
      BY <1>4, ServeFrame
    <2>2. CASE AcquireLock(w)
      <3>1. LockFree(Wallet(w)) /\ pc[w] = "claimed" /\ pc'[w] = "locked"
            /\ lease'[w] = now + LockLease
            /\ lock' = [lock EXCEPT ![Wallet(w)] = [owner |-> w, until |-> now + LockLease]]
        BY <2>2 DEF AcquireLock, TypeOK
      <3>2. Draft(w) \in Drafts /\ Exists(Draft(w))
        BY <3>1, BusyRequest DEF HandlersServe
      <3>3. Wallet(w) \in Wallets
        BY <3>2 DEF TypeOK, Exists, Wallet, DraftFields
      <3>4. CASE w = x
        BY <3>1, <3>3, <3>4 DEF TypeOK
      <3>5. CASE w # x
        <4>1. InSection(x) /\ lease'[x] = lease[x] /\ lease[x] >= now
          BY <2>1, <3>5 DEF Kept, InSection
        <4>2. lock[Wallet(x)] = [owner |-> x, until |-> lease[x]]
          BY <4>1 DEF LeasesBacked
        <4>3. x # None /\ ~(lease[x] < now)
          BY <1>2, <4>1, NoneAssumption
        <4>4. ~LockFree(Wallet(x))
          BY <4>2, <4>3 DEF LockFree
        <4> QED
          BY <3>1, <4>1, <4>2, <4>4 DEF TypeOK
      <3> QED
        BY <3>4, <3>5
    <2>3. CASE ReleaseLock(w)
      <3>1. w # x
        BY <2>3 DEF ReleaseLock, TypeOK, InSection
      <3>2. InSection(x) /\ lease'[x] = lease[x] /\ lease[x] >= now
        BY <2>1, <3>1 DEF Kept, InSection
      <3>3. lock[Wallet(x)] = [owner |-> x, until |-> lease[x]]
        BY <3>2 DEF LeasesBacked
      <3> QED
        BY <2>3, <3>1, <3>2, <3>3 DEF ReleaseLock, TypeOK
    <2>4. CASE ~AcquireLock(w) /\ ~ReleaseLock(w)
      <3>1. lock' = lock
        BY <1>4, <2>4
           DEF Serve, LoadOpen, Replay, LoadRefused, LoadRaises, ClaimWrite,
               ClaimRefused, LockBusy, ReleaseClaim, Consume, ClaimLost,
               Broadcast, Poll, Record
      <3>2. CASE w # x
        BY <1>1, <1>2, <2>1, <3>1, <3>2 DEF Kept, InSection, LeasesBacked
      <3>3. CASE w = x
        <4>1. InSection(x) /\ lease'[x] = lease[x]
          BY <1>4, <2>4, <3>3
             DEF Serve, LoadOpen, Replay, LoadRefused, LoadRaises, ClaimWrite,
                 ClaimRefused, LockBusy, ReleaseClaim, Consume, ClaimLost,
                 Broadcast, Poll, Record, InSection, TypeOK
        <4> QED
          BY <1>1, <1>2, <2>1, <3>1, <4>1 DEF LeasesBacked
      <3> QED
        BY <3>2, <3>3
    <2> QED
      BY <2>2, <2>3, <2>4
  <1>5. ASSUME Quiet \/ Stopping \/ (\E t \in Tx : NetworkAccept(t))
               \/ (\E w \in Workers, r \in Requests : Admit(w, r))
               \/ (\E v \in Vaults : DraftStep(v))
        PROVE  InSection(x) /\ lease'[x] = lease[x] /\ lock' = lock /\ now <= now'
    <2>1. ASSUME NEW v \in Vaults, DraftStep(v)
          PROVE  UNCHANGED <<pc, lease, lock, now>>
      BY <2>1, DraftFrame
    <2>2. ASSUME NEW w \in Workers, NEW r \in Requests, Admit(w, r)
          PROVE  pc'[x] = pc[x] /\ UNCHANGED <<lease, lock, now>>
      BY <2>2 DEF Admit, TypeOK, InSection
    <2>3. ASSUME NEW t \in Tx, NetworkAccept(t) PROVE UNCHANGED <<pc, lease, lock, now>>
      BY <2>3 DEF NetworkAccept
    <2>4. ASSUME Stopping
          PROVE  InSection(x) /\ lease'[x] = lease[x] /\ UNCHANGED <<lock, now>>
      BY <2>4 DEF Stopping, Stops, Kept, InSection
    <2>5. ASSUME Quiet PROVE UNCHANGED <<pc, lease, lock>> /\ now <= now'
      BY <2>5 DEF Quiet
    <2> QED
      BY <1>2, <1>5, <2>1, <2>2, <2>3, <2>4, <2>5 DEF InSection
  <1> QED
    BY <1>1, <1>3, <1>4, <1>5, StepKinds

-----------------------------------------------------------------------------
(* The second strengthening, conjunct by conjunct. *)

LEMMA InitTruth == Init => TruthInv
  BY NoneAssumption
     DEF Init, TruthInv, CallsUnsettled, ToldFollows, SuccessOnChain, LimboOpen,
         CacheTruthful, Calling, Outcomes

\* A recorded outcome is never written over.
LEMMA OutcomeKept ==
    ASSUME SendInv, [Next]_vars, NEW d \in Drafts, outcome[d] # None
    PROVE  outcome'[d] = outcome[d]
  <1>1. ASSUME NEW w \in Workers, Broadcast(w) \/ Record(w) PROVE outcome'[d] = outcome[d]
    BY <1>1 DEF Broadcast, Record, MayRecord, SendInv, TypeOK
  <1> QED
    BY <1>1, CountersMove

\* No other handler can have settled the draft of a running call, so the
\* answer of the call is what goes on record.
LEMMA RecordSettles ==
    ASSUME SendInv, CallsUnsettled, NEW w \in Workers, Record(w)
    PROVE  /\ Draft(w) \in Drafts /\ hash[Draft(w)] = req[w].tx /\ hash' = hash
           /\ outcome[Draft(w)] = None
           /\ outcome' = [outcome EXCEPT ![Draft(w)] = answer[w]]
           /\ answer[w] \in Outcomes
  <1>1. pc[w] = "answered" /\ hash' = hash
    BY DEF Record
  <1>2. Draft(w) \in Drafts /\ Consumed(Draft(w)) /\ hash[Draft(w)] = req[w].tx
    BY <1>1, CallerConsumed DEF Calling
  <1>3. claim[Draft(w)] = w /\ outcome[Draft(w)] = None /\ answer[w] # None
    BY <1>1 DEF SendInv, CallersOwn, AnswersTrue, CallsUnsettled, Calling
  <1>4. MayRecord(w, Draft(w))
    BY <1>2, <1>3 DEF MayRecord
  <1> QED
    BY <1>1, <1>2, <1>3, <1>4 DEF Record, SendInv, TypeOK

LEMMA UnsettledStep == SendInv /\ CallsUnsettled /\ [Next]_vars => CallsUnsettled'
  <1> SUFFICES ASSUME SendInv, CallsUnsettled, [Next]_vars,
                      NEW x \in Workers, pc'[x] \in Calling
               PROVE  outcome'[req'[x].draft] = None
      BY DEF CallsUnsettled, Draft
  <1>1. req'[x] = req[x] /\ Draft(x) \in Drafts /\ (Consume(x) \/ pc[x] \in Calling)
    BY CallingFrom
  <1>2. CASE Consume(x)
    <2>1. outcome[Draft(x)] = None /\ outcome' = outcome
      BY <1>1, <1>2 DEF Consume, HoldsClaim, SendInv, CallsFollow
    <2> QED
      BY <1>1, <2>1 DEF Draft
  <1>3. CASE pc[x] \in Calling
    <2>1. outcome[Draft(x)] = None
      BY <1>3 DEF CallsUnsettled
    <2>2. ASSUME NEW w \in Workers, Record(w) PROVE outcome'[Draft(x)] = None
      <3>1. pc[w] = "answered" /\ pc'[w] = "unlocking"
        BY <2>2 DEF Record, SendInv, TypeOK
      <3>2. Draft(w) # Draft(x)
        BY <1>3, <3>1, CallersApart DEF Calling
      <3> QED
        BY <1>1, <2>1, <2>2, <3>2, RecordSettles DEF SendInv, TypeOK
    <2>3. ASSUME NEW w \in Workers, Broadcast(w) PROVE outcome' = outcome
      BY <2>3 DEF Broadcast
    <2> QED
      BY <1>1, <2>1, <2>2, <2>3, CountersMove DEF Draft
  <1> QED
    BY <1>1, <1>2, <1>3

\* Clients are told something by a replay, by an error and by a record.
LEMMA ToldMoves ==
    ASSUME SendInv, [Next]_vars
    PROVE  \/ told' = told
           \/ \E w \in Workers : Replay(w) \/ LoadRaises(w) \/ Record(w)
  <1>1. ASSUME NEW w \in Workers, Serve(w), ~Replay(w), ~LoadRaises(w), ~Record(w)
        PROVE  told' = told
    BY <1>1
       DEF Serve, LoadOpen, LoadRefused, ClaimWrite, ClaimRefused, AcquireLock,
           LockBusy, ReleaseClaim, Consume, ClaimLost, Broadcast, Poll, ReleaseLock
  <1> QED
    BY <1>1, DraftFrame, StepKinds DEF SendInv, Quiet, Stopping, Admit, NetworkAccept

LEMMA ToldStep ==
    SendInv /\ CallsUnsettled /\ ToldFollows /\ [Next]_vars => ToldFollows'
  <1> SUFFICES ASSUME SendInv, CallsUnsettled, ToldFollows, [Next]_vars, NEW d \in Drafts
               PROVE  /\ "accepted" \in told'[d]
                         => outcome'[d] \in {"submitted", "already_known"}
                      /\ "rejected" \in told'[d] => outcome'[d] = "explicitly_rejected"
      BY DEF ToldFollows
  <1>1. None \notin {"submitted", "already_known", "explicitly_rejected",
                     "submission_uncertain"}
    BY NoneAssumption DEF Outcomes
  <1>2. CASE told'[d] = told[d]
    BY <1>1, <1>2, OutcomeKept DEF ToldFollows
  <1>3. ASSUME NEW w \in Workers, Replay(w), told'[d] # told[d]
        PROVE  /\ told'[d] = told[d] \cup {Verdict(outcome[d])}
               /\ outcome'[d] = outcome[d]
    <2>1. Draft(w) = d /\ told'[d] = told[d] \cup {Verdict(outcome[d])}
      BY <1>3 DEF Replay, SendInv, TypeOK
    <2> QED
      BY <1>3, <2>1 DEF Replay
  <1>4. ASSUME NEW w \in Workers, LoadRaises(w), told'[d] # told[d]
        PROVE  told'[d] = told[d] \cup {"error"} /\ outcome'[d] = outcome[d]
    BY <1>4 DEF LoadRaises, SendInv, TypeOK
  <1>5. ASSUME NEW w \in Workers, Record(w), told'[d] # told[d]
        PROVE  /\ told'[d] = told[d] \cup {Verdict(outcome'[d])}
               /\ outcome[d] = None
    <2>1. Draft(w) = d /\ told'[d] = told[d] \cup {Verdict(answer[w])}
      BY <1>5 DEF Record, SendInv, TypeOK
    <2>2. outcome[d] = None /\ outcome'[d] = answer[w]
      BY <1>5, <2>1, RecordSettles DEF SendInv, TypeOK
    <2> QED
      BY <2>1, <2>2
  <1> QED
    BY <1>1, <1>2, <1>3, <1>4, <1>5, ToldMoves DEF ToldFollows, Verdict

LEMMA SuccessStep ==
    SendInv /\ CallsUnsettled /\ SuccessOnChain /\ [Next]_vars => SuccessOnChain'
  <1> SUFFICES ASSUME SendInv, CallsUnsettled, SuccessOnChain, [Next]_vars,
                      NEW d \in Drafts, outcome'[d] \in {"submitted", "already_known"}
               PROVE  hash'[d] \in accepted'
      BY DEF SuccessOnChain
  <1>1. accepted \subseteq accepted'
    BY NetworkGrows
  <1>2. CASE outcome[d] = outcome'[d]
    <2>1. outcome[d] # None
      BY <1>2, NoneAssumption DEF Outcomes
    <2>2. Consumed(d) /\ hash[d] \in accepted
      BY <1>2, <2>1 DEF SendInv, CallsFollow, SuccessOnChain
    <2> QED
      BY <1>1, <2>2, HashKept
  <1>3. CASE outcome[d] # outcome'[d]
    <2>1. PICK w \in Workers : Record(w)
      BY <1>3, CountersMove DEF Broadcast
    <2>2. d = Draft(w) /\ hash'[d] = req[w].tx /\ outcome'[d] = answer[w]
      BY <1>3, <2>1, RecordSettles DEF SendInv, TypeOK
    <2>3. req[w].tx \in accepted
      BY <2>1, <2>2 DEF Record, SendInv, AnswersTrue
    <2> QED
      BY <1>1, <2>2, <2>3
  <1> QED
    BY <1>2, <1>3

\* A draft that stands for a transaction in limbo goes on standing for it.
LEMMA OpenKept ==
    ASSUME SendInv, CallsUnsettled, [Next]_vars, NEW d \in Drafts, Consumed(d),
           sends[d] = 1, outcome[d] # "explicitly_rejected", ~AboutToReject(d)
    PROVE  /\ hash'[d] = hash[d] /\ sends'[d] = 1
           /\ outcome'[d] # "explicitly_rejected" /\ ~AboutToReject(d)'
  <1> USE DEF SendInv
  <1>1. ASSUME NEW w \in Workers, Broadcast(w) PROVE d # Draft(w)
    BY <1>1 DEF Broadcast, CallsFollow
  <1>2. sends'[d] = 1
    <2>1. ASSUME NEW w \in Workers, Broadcast(w) PROVE sends'[d] = 1
      BY <1>1, <2>1 DEF Broadcast, TypeOK
    <2>2. ASSUME NEW w \in Workers, Record(w) PROVE UNCHANGED sends
      BY <2>2 DEF Record
    <2> QED
      BY <2>1, <2>2, CountersMove
  <1>3. outcome'[d] # "explicitly_rejected"
    <2>1. ASSUME NEW w \in Workers, Record(w) PROVE outcome'[d] # "explicitly_rejected"
      <3>1. pc[w] = "answered" /\ outcome' = [outcome EXCEPT ![Draft(w)] = answer[w]]
        BY <2>1, RecordSettles DEF Record
      <3>2. CASE d = Draft(w)
        BY <3>1, <3>2 DEF AboutToReject, TypeOK
      <3> QED
        BY <3>1, <3>2 DEF TypeOK
    <2> QED
      BY <2>1, CountersMove DEF Broadcast
  <1>4. ASSUME NEW x \in Workers, pc'[x] = "answered", req'[x].draft = d,
               answer'[x] = "explicitly_rejected"
        PROVE  FALSE
    <2>1. Draft(x) = d
      BY <1>4, CallingFrom DEF Calling, Draft
    <2>2. CASE pc[x] = "answered" /\ answer'[x] = answer[x]
      BY <1>4, <2>1, <2>2 DEF AboutToReject
    <2>3. CASE Broadcast(x)
      BY <1>1, <2>1, <2>3
    <2>4. CASE Poll(x)
      BY <1>4, <2>4 DEF Poll, PollOutcomes, TypeOK
    <2> QED
      BY <1>4, <2>2, <2>3, <2>4, AnsweredFrom
  <1> QED
    BY <1>2, <1>3, <1>4, HashKept DEF AboutToReject, Draft

LEMMA LimboStep == SendInv /\ CallsUnsettled /\ LimboOpen /\ [Next]_vars => LimboOpen'
  <1> SUFFICES ASSUME SendInv, CallsUnsettled, LimboOpen, [Next]_vars, NEW t \in limbo'
               PROVE  \E d \in Drafts : /\ hash'[d] = t /\ sends'[d] = 1
                                       /\ outcome'[d] # "explicitly_rejected"
                                       /\ ~AboutToReject(d)'
      BY DEF LimboOpen
  <1> USE DEF SendInv
  <1>1. CASE t \in limbo
    <2>1. PICK d \in Drafts : /\ hash[d] = t /\ sends[d] = 1
                             /\ outcome[d] # "explicitly_rejected" /\ ~AboutToReject(d)
      BY <1>1 DEF LimboOpen
    <2>2. Consumed(d)
      BY <1>1, <2>1, NoneAssumption DEF Consumed, TypeOK
    <2> QED
      BY <2>1, <2>2, OpenKept
  <1>2. CASE t \notin limbo
    <2>1. ASSUME NEW w \in Workers, Serve(w), ~Broadcast(w) PROVE FALSE
      BY <1>2, <2>1
         DEF Serve, LoadOpen, Replay, LoadRefused, LoadRaises, ClaimWrite,
             ClaimRefused, AcquireLock, LockBusy, ReleaseClaim, Consume, ClaimLost,
             Poll, Record, ReleaseLock
    <2>2. ASSUME NEW v \in Vaults, DraftStep(v) PROVE FALSE
      BY <1>2, <2>2, DraftFrame
    <2>3. PICK w \in Workers : Broadcast(w)
      BY <1>2, <2>1, <2>2, StepKinds DEF Quiet, Stopping, Admit, NetworkAccept
    <2>4. pc[w] = "consumed" /\ pc'[w] \in Calling /\ UNCHANGED <<hash, outcome, req>>
          /\ sends' = [sends EXCEPT ![Draft(w)] = sends[Draft(w)] + 1]
      BY <2>3 DEF Broadcast, TypeOK, Calling
    <2>5. /\ Draft(w) \in Drafts /\ hash[Draft(w)] = req[w].tx
          /\ sends[Draft(w)] = 0 /\ outcome[Draft(w)] = None
      BY <2>4, CallerConsumed DEF Calling, CallsFollow, CallsUnsettled
    <2>6. t = req[w].tx /\ (pc'[w] = "answered" => answer'[w] = "submission_uncertain")
      BY <1>2, <2>3 DEF Broadcast, RpcOutcome, TypeOK
    <2>7. ASSUME NEW x \in Workers, x # w, pc'[x] = "answered" PROVE Draft(x) # Draft(w)
      <3>1. pc[x] = "answered"
        BY <2>3, <2>7 DEF Broadcast, TypeOK
      <3> QED
        BY <2>4, <2>7, <3>1, CallersApart DEF Calling
    <2>8. ~AboutToReject(Draft(w))'
      BY <2>4, <2>6, <2>7 DEF AboutToReject, Draft
    <2>9. "explicitly_rejected" # None
      BY NoneAssumption DEF Outcomes
    <2>10. Draft(w)' = Draft(w)
      BY <2>4 DEF Draft
    <2> QED
      BY <2>4, <2>5, <2>6, <2>8, <2>9, <2>10 DEF TypeOK, AboutToReject
  <1> QED
    BY <1>1, <1>2

\* A cache entry is made when the outcome goes on record, and may be forgotten.
LEMMA CacheMoves ==
    ASSUME SendInv, [Next]_vars, NEW p \in Procs, NEW e \in Vaults \X Keys,
           cache'[p][e] # None, cache'[p][e] # cache[p][e]
    PROVE  \E w \in Workers :
              Record(w) /\ cache'[p][e] = [tx |-> req[w].tx, verdict |-> Verdict(answer[w])]
  <1> USE DEF SendInv
  <1>1. ASSUME NEW w \in Workers, Serve(w), ~Record(w) PROVE cache' = cache
    BY <1>1
       DEF Serve, LoadOpen, Replay, LoadRefused, LoadRaises, ClaimWrite,
           ClaimRefused, AcquireLock, LockBusy, ReleaseClaim, Consume, ClaimLost,
           Broadcast, Poll, ReleaseLock
  <1>2. ASSUME NEW w \in Workers, Record(w)
        PROVE  cache'[p][e] = [tx |-> req[w].tx, verdict |-> Verdict(answer[w])]
    BY <1>2 DEF Record, TypeOK
  <1>3. ASSUME NEW v \in Vaults, DraftStep(v) PROVE cache' = cache
    <2>1. CASE DraftRegister(v)
      BY <2>1 DEF DraftRegister
    <2>2. CASE ~DraftRegister(v)
      BY <1>3, <2>2, DraftRuns DEF Unmoved, SendInv
    <2> QED
      BY <2>1, <2>2
  <1>4. ASSUME NEW q \in Procs, Crash(q) PROVE cache'[p][e] \in {cache[p][e], None}
    BY <1>4 DEF Crash, TypeOK
  <1>5. ASSUME NEW q \in Procs, NEW g \in Vaults \X Keys, CacheExpire(q, g)
        PROVE  cache'[p][e] \in {cache[p][e], None}
    BY <1>5 DEF CacheExpire, TypeOK
  <1>6. ASSUME UNCHANGED vars \/ Tick \/ (\E b \in BOOLEAN : SetPaused(b))
               \/ (\E w \in Workers, r \in Requests : Admit(w, r))
               \/ (\E w \in Workers : Raise(w)) \/ (\E t \in Tx : NetworkAccept(t))
        PROVE  cache' = cache
    BY <1>6 DEF vars, Tick, SetPaused, Admit, Raise, NetworkAccept
  <1> QED
    BY <1>1, <1>2, <1>3, <1>4, <1>5, <1>6 DEF Next

LEMMA CacheStep == SendInv /\ CallsUnsettled /\ CacheTruthful /\ [Next]_vars => CacheTruthful'
  <1> SUFFICES ASSUME SendInv, CallsUnsettled, CacheTruthful, [Next]_vars,
                      NEW p \in Procs, NEW e \in Vaults \X Keys, cache'[p][e] # None
               PROVE  \E d \in Drafts : /\ hash'[d] = cache'[p][e].tx
                                       /\ outcome'[d] # None
                                       /\ Verdict(outcome'[d]) = cache'[p][e].verdict
      BY DEF CacheTruthful
  <1>1. CASE cache'[p][e] = cache[p][e]
    <2>1. PICK d \in Drafts : /\ hash[d] = cache[p][e].tx /\ outcome[d] # None
                             /\ Verdict(outcome[d]) = cache[p][e].verdict
      BY <1>1 DEF CacheTruthful
    <2>2. Consumed(d)
      BY <2>1 DEF SendInv, CallsFollow
    <2> QED
      BY <1>1, <2>1, <2>2, HashKept, OutcomeKept
  <1>2. CASE cache'[p][e] # cache[p][e]
    <2>1. PICK w \in Workers :
             Record(w) /\ cache'[p][e] = [tx |-> req[w].tx, verdict |-> Verdict(answer[w])]
      BY <1>2, CacheMoves
    <2>2. /\ Draft(w) \in Drafts /\ hash'[Draft(w)] = req[w].tx
          /\ outcome'[Draft(w)] = answer[w] /\ answer[w] # None
      <3>1. /\ Draft(w) \in Drafts /\ hash'[Draft(w)] = req[w].tx
            /\ outcome' = [outcome EXCEPT ![Draft(w)] = answer[w]]
            /\ answer[w] \in Outcomes
        BY <2>1, RecordSettles
      <3>2. outcome \in [Drafts -> Outcomes \cup {None}]
        BY DEF SendInv, TypeOK
      <3> QED
        BY <3>1, <3>2, NoneAssumption
    <2> QED
      BY <2>1, <2>2
  <1> QED
    BY <1>1, <1>2

-----------------------------------------------------------------------------
(* The parts of ScopeInv, which rest on SendInv. *)

\* A row appears only when its draft request commits.
LEMMA NewRow ==
    ASSUME SendInv, [Next]_vars, NEW v \in Vaults, reg[v] # None,
           reg[v].id \in Drafts, draft'[reg[v].id] # None
    PROVE  DraftRegister(v)
  <1> USE DEF SendInv
  <1>1. draft[reg[v].id] = None
    BY DEF IdsFresh, Exists
  <1>2. PICK u \in Vaults : DraftRegister(u)
    <2>1. ASSUME NEW u \in Vaults, DraftStep(u), ~DraftRegister(u) PROVE draft' = draft
      BY <2>1, DraftRuns DEF Unmoved
    <2> QED
      BY <1>1, <2>1, ServeFrame, StepKinds
         DEF Quiet, Stopping, Admit, NetworkAccept
  <1>3. reg[u] # None /\ (draft'[reg[v].id] = draft[reg[v].id] \/ reg[v].id = reg[u].id)
    BY <1>2 DEF DraftRegister, At, TypeOK
  <1> QED
    BY <1>1, <1>2, <1>3 DEF IdsFresh, DraftRegister, At

\* The two parts of ScopeInv hold before any request runs.
LEMMA InitScope == Init => ScopeInv
  BY DEF Init, ScopeInv, ScopesApart, SweepsFit, CheckedClear, At

\* The advisory lock is taken by one request of a scope at a time.
LEMMA ApartStep == SendInv /\ ScopesApart /\ [Next]_vars => ScopesApart'
  <1> SUFFICES ASSUME SendInv, ScopesApart, [Next]_vars,
                      NEW x \in Vaults, NEW y \in Vaults, x # y,
                      reg'[x] # None, reg'[y] # None,
                      reg'[x].step \in Holding, reg'[y].step \in Holding
               PROVE  ~SameScope(reg'[x], reg'[y])
      BY DEF ScopesApart
  <1> USE DEF SendInv
  <1>1. CASE reg' = reg
    BY <1>1 DEF ScopesApart
  <1>2. ASSUME NEW v \in Vaults, DraftStep(v) PROVE ~SameScope(reg'[x], reg'[y])
    <2> DEFINE Both == \A u \in Vaults \ {v} : reg'[u] # None /\ reg'[u].step \in Holding
                                             => ~SameScope(reg'[u], reg'[v])
    <2>1. \A u \in Vaults \ {v} : reg'[u] = reg[u]
      BY <1>2, DraftFrame
    <2>2. CASE x # v /\ y # v
      BY <2>1, <2>2 DEF ScopesApart
    <2>3. ASSUME reg'[v] # None, reg'[v].step \in Holding PROVE Both
      <3>1. ~DraftRegister(v)
        BY <2>3 DEF DraftRegister, TypeOK
      <3>2. SameAsk(v) /\ (Swept(v) \/ Checked(v))
        BY <1>2, <2>3, <3>1, RequestMoves DEF Holding, Asked, Begun
      <3>3. \A a : SameScope(a, reg'[v]) => SameScope(a, reg[v])
        BY <3>2 DEF SameAsk, SameScope
      <3>4. CASE Swept(v)
        BY <2>1, <3>3, <3>4 DEF Swept, ScopeFree
      <3>5. CASE Checked(v)
        BY <2>1, <3>2, <3>3, <3>5 DEF SameAsk, Checked, Holding, ScopesApart
      <3> QED
        BY <3>2, <3>4, <3>5
    <2>4. \A a, b : SameScope(a, b) => SameScope(b, a)
      BY DEF SameScope
    <2> QED
      BY <2>2, <2>3, <2>4
  <1>3. ASSUME NEW w \in Workers, Serve(w) PROVE reg' = reg
    BY <1>3, ServeFrame
  <1> QED
    BY <1>1, <1>2, <1>3, StepKinds DEF Quiet, Stopping, Admit, NetworkAccept

\* A request keeps its vault, and what it swept stays in its scope.
LEMMA SweepsStep == SendInv /\ SweepsFit /\ [Next]_vars => SweepsFit'
  <1> SUFFICES ASSUME SendInv, SweepsFit, [Next]_vars, NEW v \in Vaults, reg'[v] # None
               PROVE  /\ reg'[v].vault = v
                      /\ \A e \in reg'[v].swept : /\ draft'[e] # None
                                                  /\ InSweep(draft'[e], reg'[v])
      BY DEF SweepsFit, Exists
  <1> USE DEF SendInv
  <1>1. ASSUME reg'[v] = reg[v]
        PROVE  /\ reg'[v].vault = v
               /\ \A e \in reg'[v].swept : /\ draft'[e] # None
                                           /\ InSweep(draft'[e], reg'[v])
    <2>1. reg[v] \in Registrations
      BY <1>1 DEF TypeOK
    <2>2. ASSUME NEW e \in reg[v].swept
          PROVE  e \in Drafts /\ Exists(e) /\ InSweep(draft[e], reg[v])
      BY <1>1, <2>1 DEF Registrations, SweepsFit
    <2>3. \A e \in reg[v].swept : draft'[e] = draft[e]
      BY <2>2, RowsKept
    <2> QED
      BY <1>1, <2>2, <2>3 DEF SweepsFit, Exists
  <1>2. ASSUME NEW u \in Vaults, DraftStep(u), reg'[v] # reg[v]
        PROVE  /\ reg'[v].vault = v
               /\ \A e \in reg'[v].swept : /\ draft'[e] # None
                                           /\ InSweep(draft'[e], reg'[v])
    <2>1. u = v
      BY <1>2, DraftFrame
    <2>2. ~DraftRegister(v) /\ draft' = draft
      <3>1. ~DraftRegister(v)
        BY DEF DraftRegister, TypeOK
      <3> QED
        BY <1>2, <2>1, <3>1, DraftRuns DEF Unmoved
    <2>3. CASE Asked(v)
      BY <2>3 DEF Asked
    <2>4. CASE SameAsk(v)
      <3>1. reg'[v].vault = v /\ \A a : InSweep(a, reg[v]) => InSweep(a, reg'[v])
        BY <2>4 DEF SameAsk, SweepsFit, InSweep
      <3>2. \A e \in reg'[v].swept : Exists(e) /\ InSweep(draft[e], reg[v])
        <4>1. CASE Begun(v) \/ Checked(v)
          BY <2>4, <4>1 DEF SameAsk, Begun, Checked, SweepsFit
        <4>2. CASE Swept(v)
          BY <4>2 DEF Swept, Abandoned
        <4> QED
          BY <1>2, <2>1, <2>2, <2>4, <4>1, <4>2, RequestMoves DEF Asked
      <3> QED
        BY <2>2, <3>1, <3>2 DEF Exists
    <2> QED
      BY <1>2, <2>1, <2>2, <2>3, <2>4, RequestMoves
  <1>3. ASSUME NEW w \in Workers, Serve(w) PROVE reg' = reg
    BY <1>3, ServeFrame
  <1> QED
    BY <1>1, <1>2, <1>3, StepKinds DEF Quiet, Stopping, Admit, NetworkAccept

\* What a checked request may meet in its scope does not grow: rows are added
\* by requests of other scopes, and a rejected broadcast stays one.
LEMMA ClearStep == SendInv /\ ScopeInv /\ [Next]_vars => CheckedClear'
  <1> DEFINE Rejected(e) == Consumed(e) /\ outcome[e] = "explicitly_rejected"
  <1> SUFFICES ASSUME SendInv, ScopeInv, [Next]_vars,
                      NEW v \in Vaults, reg'[v] # None, reg'[v].step = "checked",
                      NEW e \in Drafts, draft'[e] # None,
                      SameScope(draft'[e], reg'[v]), expires'[e] > reg'[v].stamp,
                      e \notin reg'[v].swept \cup reg'[v].freed
               PROVE  Rejected(e)'
      BY DEF CheckedClear, At, Exists
  <1> USE DEF SendInv, ScopeInv
  <1>1. ASSUME Rejected(e) PROVE Rejected(e)'
    BY <1>1, HashKept, OutcomeKept, NoneAssumption DEF Consumed, Outcomes
  <1>2. ASSUME reg'[v] = reg[v], draft'[e] = draft[e], ~(expires'[e] > expires[e])
        PROVE  Rejected(e)
    <2>1. /\ expires[e] \in Nat /\ expires'[e] \in Nat /\ reg[v].stamp \in Nat
      BY <1>2, TypeStep DEF TypeOK, Registrations
    <2>2. expires[e] > reg[v].stamp
      BY <1>2, <2>1
    <2> QED
      BY <1>2, <2>2 DEF CheckedClear, At, Exists
  <1>3. CASE UNCHANGED <<reg, draft, expires>>
    BY <1>1, <1>2, <1>3 DEF TypeOK
  <1>4. ASSUME NEW u \in Vaults, DraftRegister(u) PROVE Rejected(e)
    <2>1. u # v /\ reg'[v] = reg[v]
      BY <1>4 DEF DraftRegister, TypeOK
    <2>2. reg[u] \in Registrations /\ reg[u].step = "checked"
      BY <1>4 DEF DraftRegister, At, TypeOK
    <2>3. ~SameScope(reg[u], reg[v])
      BY <1>4, <2>1, <2>2 DEF ScopesApart, Holding, DraftRegister, At
    <2>4. e # reg[u].id
      <3>1. SUFFICES ASSUME e = reg[u].id PROVE SameScope(reg[u], reg[v])
        BY <2>3
      <3>2. draft'[e] = [form |-> reg[u].form, vault |-> reg[u].vault,
                         wallet |-> reg[u].wallet, nonce |-> reg[u].nonce,
                         terms |-> reg[u].terms]
        BY <1>4, <3>1 DEF DraftRegister, TypeOK
      <3> QED
        BY <2>1, <3>2 DEF SameScope
    <2>5. draft'[e] = draft[e]
      BY <1>4, <2>4 DEF DraftRegister, TypeOK
    <2>6. e \notin reg[u].swept
      <3>1. SUFFICES ASSUME e \in reg[u].swept PROVE SameScope(reg[u], reg[v])
        BY <2>3
      <3>2. /\ InSweep(draft[e], reg[u]) /\ SameScope(draft[e], reg[v])
            /\ reg[u].vault = u /\ reg[v].vault = v /\ reg[u].form \in Forms
        BY <1>4, <2>1, <2>2, <2>5, <3>1 DEF SweepsFit, Registrations, Exists, DraftRegister, At
      <3> QED
        BY <2>1, <3>2, FormsAssumption DEF InSweep, SameScope
    <2>7. expires'[e] = expires[e] /\ expires[e] \in Nat
      BY <1>4, <2>4, <2>6 DEF DraftRegister, TypeOK
    <2> QED
      BY <1>2, <2>1, <2>5, <2>7
  <1>5. ASSUME NEW u \in Vaults, DraftStep(u), ~DraftRegister(u) PROVE Rejected(e)
    <2>1. draft' = draft /\ expires' = expires /\ expires[e] \in Nat
      BY <1>5, DraftRuns DEF Unmoved, TypeOK
    <2>2. CASE u # v
      BY <1>2, <1>5, <2>1, <2>2, DraftRuns
    <2>3. CASE u = v
      <3>1. SameAsk(v) /\ Checked(v)
        BY <1>5, <2>3, RequestMoves DEF Asked, Begun, Swept
      <3>2. /\ ~Conflicts(e, reg[v]) /\ ~Freed(e, reg[v])
            /\ Exists(e) /\ SameScope(draft[e], reg[v])
            /\ e \notin reg[v].swept /\ expires[e] > reg[v].stamp
        BY <2>1, <3>1 DEF SameAsk, Checked, Exists, SameScope
      <3> QED
        BY <3>2 DEF Conflicts, Freed
    <2> QED
      BY <2>2, <2>3
  <1>6. ASSUME NEW w \in Workers, Serve(w) PROVE UNCHANGED <<reg, draft, expires>>
    BY <1>6, ServeFrame
  <1> QED
    BY <1>1, <1>3, <1>4, <1>5, <1>6, StepKinds DEF Quiet, Stopping, Admit, NetworkAccept

-----------------------------------------------------------------------------
(* The theorems. *)

\* SendInv is an invariant: in every state some handlers may be stalled past
\* their leases, cut short or crashed, and still each call has its record.
THEOREM SendInvariant == Spec => []SendInv
  <1>1. SendInv /\ [Next]_vars => SendInv'
    BY TypeStep, HandlersStep, FitStep, StampsStep, IdsStep, CallersStep, CallsStep,
       AnswersStep, RecordStep, LeasesStep DEF SendInv
  <1> QED
    BY InitInv, <1>1, PTL DEF Spec

\* Every column and handler variable keeps its type, the CHECK constraints of
\* migration 0020 among them.
THEOREM TypesKept == Spec => []TypeOK
  <1>1. SendInv => TypeOK
    BY DEF SendInv
  <1> QED
    BY SendInvariant, <1>1, PTL

\* One draft never leads to two eth_sendRawTransaction calls.
THEOREM SingleAttempt == Spec => []AtMostOneBroadcast
  <1>1. SendInv => AtMostOneBroadcast
    BY DEF SendInv, CallsFollow, AtMostOneBroadcast
  <1> QED
    BY SendInvariant, <1>1, PTL

\* The hash of whatever a node may hold is on a draft row.
THEOREM NothingUnrecorded == Spec => []SentIsOnRecord
  <1>1. SendInv => SentIsOnRecord
    BY DEF SendInv
  <1> QED
    BY SendInvariant, <1>1, PTL

\* TruthInv is an invariant too: the rows, the answers of the handlers, what
\* clients heard and the caches agree with the network and with each other.
THEOREM TruthInvariant == Spec => []TruthInv
  <1>1. SendInv /\ TruthInv /\ [Next]_vars => TruthInv'
    BY UnsettledStep, ToldStep, SuccessStep, LimboStep, CacheStep DEF TruthInv
  <1> QED
    BY InitTruth, <1>1, SendInvariant, PTL DEF Spec

\* What is recorded is true: a success is on the network, and a rejected
\* transaction that the network has was put there by another draft.
THEOREM RecordsTrue == Spec => []OutcomeTruthful
  <1>1. ASSUME SendInv, TruthInv PROVE OutcomeTruthful
    <2> SUFFICES ASSUME NEW d \in Drafts, outcome[d] = "explicitly_rejected",
                        hash[d] \in limbo \cup accepted
                 PROVE  \E e \in Drafts \ {d} : hash[e] = hash[d] /\ sends[e] > 0
        BY <1>1 DEF OutcomeTruthful, TruthInv, SuccessOnChain
    <2>1. hash[d] \in limbo
      BY <1>1 DEF SendInv, AnswersTrue
    <2>2. PICK e \in Drafts : /\ hash[e] = hash[d] /\ sends[e] = 1
                             /\ outcome[e] # "explicitly_rejected"
      BY <1>1, <2>1 DEF TruthInv, LimboOpen
    <2> QED
      BY <2>2
  <1> QED
    BY <1>1, SendInvariant, TruthInvariant, PTL

\* No client hears "accepted" and another "rejected" of the same draft, and
\* "accepted" is said only of what the network has.
THEOREM RepliesTrue == Spec => []RepliesAgree
  <1>1. TruthInv => RepliesAgree
    BY DEF TruthInv, ToldFollows, SuccessOnChain, RepliesAgree
  <1> QED
    BY <1>1, TruthInvariant, PTL

\* A cached reply is what the row of its transaction says, in every process.
THEOREM CachesTrue == Spec => []CacheTruthful
  <1>1. TruthInv => CacheTruthful
    BY DEF TruthInv
  <1> QED
    BY <1>1, TruthInvariant, PTL

\* The wallet lock excludes for as long as its lease lasts.
THEOREM WalletExclusion == Spec => []OneSenderPerWallet
  <1>1. ASSUME SendInv PROVE OneSenderPerWallet
    <2> SUFFICES ASSUME NEW w \in Workers, NEW x \in Workers,
                        w # x, InSection(w), InSection(x), Wallet(w) = Wallet(x),
                        ~(lease[w] < now), ~(lease[x] < now)
                 PROVE  FALSE
        BY DEF OneSenderPerWallet
    <2>1. lease[w] >= now /\ lease[x] >= now
      BY <1>1 DEF SendInv, TypeOK
    <2>2. /\ lock[Wallet(w)] = [owner |-> w, until |-> lease[w]]
          /\ lock[Wallet(x)] = [owner |-> x, until |-> lease[x]]
      BY <1>1, <2>1 DEF SendInv, LeasesBacked
    <2> QED
      BY <2>2
  <1> QED
    BY SendInvariant, <1>1, PTL

\* The hash and the outcome of a draft are written once.
THEOREM SettledOnce == Spec => WrittenOnce
  <1>1. ASSUME SendInv, [Next]_vars, NEW d \in Drafts
        PROVE  /\ hash[d] # None => hash'[d] = hash[d]
               /\ outcome[d] # None => outcome'[d] = outcome[d]
    BY <1>1, HashKept, OutcomeKept DEF Consumed
  <1>2. SendInv /\ [Next]_vars
        => [\A d \in Drafts : /\ hash[d] # None => hash'[d] = hash[d]
                              /\ outcome[d] # None => outcome'[d] = outcome[d]]_vars
    BY <1>1
  <1> QED
    BY <1>2, SendInvariant, PTL DEF Spec, WrittenOnce

\* A live claim is ended by its owner only, when the wallet is busy, and a live
\* wallet lock by its owner only, when its request is over.
THEOREM LeasesHold == Spec => LeasesRespected
  <1> DEFINE ClaimsLast(d) == claim[d] # None /\ claimUntil[d] > now /\ claim'[d] # claim[d]
                              => pc[claim[d]] = "busy" /\ Draft(claim[d]) = d
             LocksLast(s) == lock[s].owner # None /\ lock[s].until >= now /\ lock'[s] # lock[s]
                             => pc[lock[s].owner] = "unlocking"
  <1>1. ASSUME SendInv, [Next]_vars, NEW d \in Drafts PROVE ClaimsLast(d)
    <2> SUFFICES ASSUME claim[d] # None, claimUntil[d] > now, claim'[d] # claim[d]
                 PROVE  pc[claim[d]] = "busy" /\ Draft(claim[d]) = d
        OBVIOUS
    <2>1. PICK w \in Workers : ClaimWrite(w) \/ ReleaseClaim(w)
      <3>1. ASSUME NEW w \in Workers, Serve(w), ~ClaimWrite(w), ~ReleaseClaim(w)
            PROVE  claim' = claim
        BY <3>1
           DEF Serve, LoadOpen, Replay, LoadRefused, LoadRaises, Consume,
               ClaimRefused, AcquireLock, LockBusy, ClaimLost,
               Broadcast, Poll, Record, ReleaseLock
      <3> QED
        BY <1>1, <3>1, DraftFrame, StepKinds
           DEF SendInv, Quiet, Stopping, Admit, NetworkAccept
    <2>2. now \in Nat /\ claimUntil[d] \in Nat /\ stamp[w] \in Nat /\ stamp[w] <= now
      BY <1>1 DEF SendInv, TypeOK, StampsPast
    <2>3. CASE ClaimWrite(w)
      <3>1. d = Draft(w) /\ Unclaimed(d, stamp[w])
        BY <1>1, <2>3 DEF ClaimWrite, Claimable, SendInv, TypeOK
      <3> QED
        BY <2>2, <3>1 DEF Unclaimed
    <2>4. CASE ReleaseClaim(w)
      BY <1>1, <2>4 DEF ReleaseClaim, HoldsClaim, SendInv, TypeOK
    <2> QED
      BY <2>1, <2>3, <2>4
  <1>2. ASSUME SendInv, [Next]_vars, NEW s \in Wallets PROVE LocksLast(s)
    <2> SUFFICES ASSUME lock[s].owner # None, lock[s].until >= now, lock'[s] # lock[s]
                 PROVE  pc[lock[s].owner] = "unlocking"
        OBVIOUS
    <2>1. PICK w \in Workers : AcquireLock(w) \/ ReleaseLock(w)
      <3>1. ASSUME NEW w \in Workers, Serve(w), ~AcquireLock(w), ~ReleaseLock(w)
            PROVE  lock' = lock
        BY <3>1
           DEF Serve, LoadOpen, Replay, LoadRefused, LoadRaises, ClaimWrite,
               ClaimRefused, ReleaseClaim, Consume, LockBusy, ClaimLost,
               Broadcast, Poll, Record
      <3> QED
        BY <1>2, <3>1, DraftFrame, StepKinds
           DEF SendInv, Quiet, Stopping, Admit, NetworkAccept
    <2>2. now \in Nat /\ lock[s].until \in Nat /\ lock \in [Wallets -> [owner : Workers \cup {None}, until : Nat]]
      BY <1>2 DEF SendInv, TypeOK
    <2>3. CASE AcquireLock(w)
      <3>1. s = Wallet(w) /\ LockFree(s)
        BY <2>2, <2>3 DEF AcquireLock
      <3> QED
        BY <2>2, <3>1 DEF LockFree
    <2>4. CASE ReleaseLock(w)
      BY <2>2, <2>4 DEF ReleaseLock
    <2> QED
      BY <2>1, <2>3, <2>4
  <1>3. SendInv /\ [Next]_vars
        => [/\ \A d \in Drafts : ClaimsLast(d)
            /\ \A s \in Wallets : LocksLast(s)]_vars
    BY <1>1, <1>2
  <1> QED
    BY <1>3, SendInvariant, PTL DEF Spec, LeasesRespected

\* ScopeInv is an invariant: draft requests of one scope run one at a time from
\* their sweep on, and after the conflict check only freed drafts can get busy.
THEOREM ScopeInvariant == Spec => []ScopeInv
  <1>1. SendInv /\ ScopeInv /\ [Next]_vars => ScopeInv'
    BY ApartStep, SweepsStep, ClearStep DEF ScopeInv
  <1> QED
    BY InitScope, <1>1, SendInvariant, PTL DEF Spec

\* A busy draft of the scope of a new one was freed between the sweep and the
\* conflict check of the request that hands the new one out.
THEOREM OnlyFreed == Spec => OnlyFreedSlipThrough
  <1> DEFINE Clear(v, e) == /\ Exists(e) /\ SameScope(draft[e], reg[v])
                            /\ Busy(e) /\ expires'[e] > now
                            => e \in reg[v].freed
             Out(v) == reg[v] # None /\ draft'[reg[v].id] # None
  <1>1. ASSUME SendInv, ScopeInv, [Next]_vars, NEW v \in Vaults, Out(v), NEW e \in Drafts
        PROVE  Clear(v, e)
    <2> SUFFICES ASSUME Exists(e), SameScope(draft[e], reg[v]), Busy(e),
                        expires'[e] > now
                 PROVE  e \in reg[v].freed
        OBVIOUS
    <2> USE DEF SendInv
    <2>1. /\ reg[v] \in Registrations /\ ~Exists(reg[v].id)
          /\ reg[v].stamp \in Nat /\ reg[v].stamp <= now /\ now \in Nat
      BY <1>1 DEF TypeOK, Registrations, IdsFresh, StampsPast
    <2>2. DraftRegister(v)
      BY <1>1, <2>1, NewRow DEF Registrations, Exists
    <2>3. e # reg[v].id
      BY <2>1
    <2>4. e \notin reg[v].swept /\ expires'[e] = expires[e] /\ expires[e] \in Nat
      BY <1>1, <2>1, <2>2, <2>3 DEF DraftRegister, TypeOK
    <2>5. expires[e] > reg[v].stamp
      BY <2>1, <2>4
    <2>6. ~(Consumed(e) /\ outcome[e] = "explicitly_rejected")
      BY DEF Busy
    <2> QED
      BY <1>1, <2>2, <2>4, <2>5, <2>6 DEF ScopeInv, CheckedClear, DraftRegister
  <1>2. SendInv /\ ScopeInv /\ [Next]_vars
        => [\A v \in Vaults : Out(v) => \A e \in Drafts : Clear(v, e)]_vars
    BY <1>1
  <1> QED
    BY <1>2, SendInvariant, ScopeInvariant, PTL DEF Spec, OnlyFreedSlipThrough

\* A vault consumes its own drafts only.
THEOREM OwnVault == Spec => OwnVaultOnly
  <1> DEFINE Own(d) == \E w \in Workers : /\ pc[w] = "locked" /\ Draft(w) = d
                                          /\ req[w].vault = draft[d].vault
  <1>1. ASSUME SendInv, [Next]_vars, NEW d \in Drafts, hash[d] = None, hash'[d] # None
        PROVE  Own(d)
    <2>1. PICK w \in Workers : Consume(w)
      <3>1. ASSUME NEW w \in Workers, Serve(w), ~Consume(w) PROVE hash' = hash
        BY <3>1
           DEF Serve, LoadOpen, Replay, LoadRefused, LoadRaises, ClaimWrite,
               ClaimRefused, AcquireLock, LockBusy, ReleaseClaim, ClaimLost,
               Broadcast, Poll, Record, ReleaseLock
      <3> QED
        BY <1>1, <3>1, DraftFrame, StepKinds
           DEF SendInv, Quiet, Stopping, Admit, NetworkAccept
    <2>2. pc[w] = "locked" /\ Draft(w) = d
      BY <1>1, <2>1 DEF Consume, SendInv, TypeOK
    <2> QED
      BY <1>1, <2>2 DEF SendInv, RequestsFit
  <1>2. SendInv /\ [Next]_vars
        => [\A d \in Drafts : hash[d] = None /\ hash'[d] # None => Own(d)]_vars
    BY <1>1
  <1> QED
    BY <1>2, SendInvariant, PTL DEF Spec, OwnVaultOnly

\* The store and the routes implement SendPromise.
THEOREM SendRefines == Spec => KeepsPromise
  <1>1. Init => Promise!Init
    BY DEF Init, Promise!Init
  <1>2. ASSUME SendInv, [Next]_vars PROVE [Promise!Next]_Promise!pvars
    <2> USE DEF SendInv, Promise!pvars
    <2>1. ASSUME NEW w \in Workers, Serve(w) PROVE [Promise!Next]_Promise!pvars
      <3>1. CASE Consume(w)
        <4>1. Draft(w) \in Drafts /\ req[w].tx \in Tx
          BY <1>2, <3>1, BusyRequest DEF Consume
        <4>2. Promise!Spend(Draft(w), req[w].tx)
          BY <3>1 DEF Consume, HoldsClaim, Consumed, Promise!Spend
        <4> QED
          BY <4>1, <4>2 DEF Promise!Next
      <3>2. CASE Broadcast(w)
        <4>1. pc[w] = "consumed" /\ UNCHANGED <<hash, outcome, accepted>>
              /\ sends' = [sends EXCEPT ![Draft(w)] = sends[Draft(w)] + 1]
              /\ limbo' \in {limbo, limbo \cup {req[w].tx}}
          BY <3>2 DEF Broadcast
        <4>2. /\ Draft(w) \in Drafts /\ hash[Draft(w)] # None
              /\ hash[Draft(w)] = req[w].tx /\ sends[Draft(w)] = 0
          BY <1>2, <4>1, CallerConsumed DEF Calling, Consumed, CallsFollow
        <4>3. Promise!Call(Draft(w))
          BY <4>1, <4>2 DEF Promise!Call
        <4> QED
          BY <4>2, <4>3 DEF Promise!Next
      <3>3. CASE Record(w)
        <4>1. pc[w] = "answered" /\ UNCHANGED <<hash, sends, limbo, accepted>>
              /\ outcome' = IF MayRecord(w, Draft(w))
                            THEN [outcome EXCEPT ![Draft(w)] = answer[w]] ELSE outcome
          BY <3>3 DEF Record
        <4>2. /\ Draft(w) \in Drafts /\ sends[Draft(w)] = 1 /\ answer[w] \in Outcomes
              /\ hash[Draft(w)] = req[w].tx
              /\ answer[w] \in {"submitted", "already_known"} => req[w].tx \in accepted
          BY <1>2, <4>1, CallerConsumed DEF Calling, CallsFollow, AnswersTrue, TypeOK
        <4>3. Promise!Justified(Draft(w), answer[w])
          BY <4>2 DEF Promise!Justified, Outcomes
        <4>4. CASE MayRecord(w, Draft(w))
          <5>1. Promise!Settle(Draft(w), answer[w])
            BY <4>1, <4>2, <4>3, <4>4 DEF Promise!Settle, MayRecord
          <5> QED
            BY <4>2, <5>1 DEF Promise!Next
        <4> QED
          BY <4>1, <4>4
      <3>4. CASE ~Consume(w) /\ ~Broadcast(w) /\ ~Record(w)
        BY <2>1, <3>4
           DEF Serve, LoadOpen, Replay, LoadRefused, LoadRaises, ClaimWrite,
               ClaimRefused, AcquireLock, LockBusy, ReleaseClaim, ClaimLost,
               Poll, ReleaseLock
      <3> QED
        BY <3>1, <3>2, <3>3, <3>4
    <2>2. ASSUME NEW t \in Tx, NetworkAccept(t) PROVE Promise!Next
      BY <2>2 DEF NetworkAccept, Promise!TakeUp, Promise!Next
    <2>3. ASSUME NEW v \in Vaults, DraftStep(v) PROVE UNCHANGED Promise!pvars
      BY <1>2, <2>3, DraftFrame
    <2> QED
      BY <1>2, <2>1, <2>2, <2>3, StepKinds DEF Quiet, Stopping, Admit
  <1> QED
    BY <1>1, <1>2, SendInvariant, PTL DEF Spec, KeepsPromise, Promise!Spec
=============================================================================
