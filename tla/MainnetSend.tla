---------------------------- MODULE MainnetSend ----------------------------
(***************************************************************************)
(* Ethereum-mainnet sends: the Postgres control store                      *)
(* (crypto_mainnet_control_store.py) driven by the draft and broadcast     *)
(* routes (routes/crypto_wallet_routes.py).                                *)
(*                                                                         *)
(* A client asks for a draft (nonce, gas, payee are fixed by the server),  *)
(* signs it, and asks a worker to broadcast it.  The worker claims the     *)
(* draft under a lease, takes a leased lock on the sending wallet, marks   *)
(* the draft consumed with the hash of the signed transaction, calls the   *)
(* RPC provider once, and records what the call was found to have done.    *)
(* Workers run in any number of processes; every SQL transaction is one    *)
(* step, or one step per statement where a statement of somebody else can  *)
(* come between (READ COMMITTED, and NOW() is the time the transaction     *)
(* began).                                                                 *)
(***************************************************************************)
EXTENDS Integers

CONSTANTS
    Vaults,         \* the accounts
    Wallets,        \* sender addresses on Ethereum mainnet
    Holds,          \* <<v, s>>: the wallet record of vault v has address s
    Drafts,         \* draft ids the generator may hand out
    Workers,        \* request handlers
    Procs,          \* server processes
    ProcOf,         \* the process a handler runs in
    Keys,           \* idempotency keys clients use
    Forms,          \* "plain" drafts, and "sealed" (ciphertext-first) ones
    Terms,          \* what a draft fixes beside wallet and nonce
    Sigs,           \* distinct signatures over the same fields
    MaxNonce,       \* bound: nonces are 0..MaxNonce
    DraftTTL,       \* 300 s in the code
    ClaimLease,     \* 60 s
    LockLease,      \* 60 s
    MaxTime,        \* bound: the clock stops here
    MaxFlips,       \* bound: how often the operator flips the pause flag
    None            \* SQL NULL

ASSUME ProcsAssumption == ProcOf \in [Workers -> Procs]
ASSUME HoldsAssumption == Holds \subseteq Vaults \X Wallets
ASSUME FormsAssumption == Forms \subseteq {"plain", "sealed"}
ASSUME LeaseAssumption == /\ DraftTTL \in Nat \ {0}
                          /\ ClaimLease \in Nat \ {0}
                          /\ LockLease \in Nat \ {0}
ASSUME BoundAssumption == MaxNonce \in Nat /\ MaxTime \in Nat /\ MaxFlips \in Nat

VARIABLES
    now,            \* the database clock
    paused, flips,  \* the send_paused control row
    draft,          \* columns of crypto_mainnet_drafts that never change
    expires,        \*   expires_at
    claim,          \*   claim_token (the worker whose request drew it)
    claimUntil,     \*   claim_expires_at
    hash,           \*   consumed_at and local_tx_hash, which are set together
    outcome,        \*   broadcast_outcome
    lock,           \* crypto_mainnet_wallet_locks: owner and expires_at
    reg,            \* per vault, its running draft request
    pc,             \* where the handler of each worker stands
    req,            \* the request it serves
    stamp,          \* NOW() of its claim transaction
    lease,          \* history: the deadline of the wallet lock it got
    answer,         \* the outcome it is about to record
    cache,          \* per process: the idempotency cache
    limbo,          \* external: transactions some node may still take up
    accepted,       \* external: transactions the network has accepted
    sends,          \* history: RPC broadcasts made for each draft
    told            \* history: what clients were told about each draft

dbVars    == <<draft, expires, claim, claimUntil, hash, outcome>>
workVars  == <<pc, req, stamp, lease, answer>>
netVars   == <<limbo, accepted>>
pauseVars == <<paused, flips>>
vars == <<now, pauseVars, dbVars, lock, reg, workVars, cache, netVars, sends, told>>

Time   == 0 .. MaxTime
Nonces == 0 .. MaxNonce
Tx == [wallet : Wallets, nonce : Nonces, terms : Terms, sig : Sigs]

Outcomes == {"submitted", "submission_uncertain", "already_known",
             "explicitly_rejected"}

DraftFields == [form : Forms, vault : Vaults, wallet : Wallets,
                nonce : Nonces, terms : Terms]
ASSUME NoneAssumption ==
    None \notin Workers \cup Keys \cup Outcomes \cup DraftFields \cup Tx

Requests == [vault : Vaults, draft : Drafts, tx : Tx, key : Keys \cup {None}]

Steps == {"idle", "admitted", "claiming", "claimed",
          "busy", "locked", "consumed", "echoed", "answered", "unlocking"}

-----------------------------------------------------------------------------
(* The WHERE clauses of the store. *)

Exists(d)   == draft[d] # None
Consumed(d) == hash[d] # None

\* Two drafts (or a draft and a draft request) fall in one conflict scope: the
\* sender address, or for sealed drafts the vault and its keyed address hash.
SameScope(a, b) == /\ a.form = b.form
                   /\ a.wallet = b.wallet
                   /\ a.form = "sealed" => a.vault = b.vault

\* Mutant: the claim lease ends one tick early.
UnclaimedEarly(d, t) == claim[d] = None \/ claimUntil[d] <= t + 1

Unclaimed(d, t) == claim[d] = None \/ claimUntil[d] <= t

\* A draft request sweeps the drafts of its wallet; a sealed one, whose second
\* sweep names no wallet, all sealed drafts of its vault.
InSweep(a, r) == /\ a.form = r.form
                 /\ r.form = "plain"  => a.wallet = r.wallet
                 /\ r.form = "sealed" => a.vault = r.vault

\* _expire_abandoned_unsigned_sender_drafts
Abandoned(d, r) == /\ Exists(d) /\ InSweep(draft[d], r)
                   /\ ~Consumed(d)
                   /\ expires[d] > r.stamp
                   /\ Unclaimed(d, r.stamp)

\* Mutant: a broadcast without a recorded outcome does not conflict.
ConflictsIfRecorded(d, r) ==
    /\ Exists(d) /\ SameScope(draft[d], r)
    /\ d \notin r.swept
    /\ expires[d] > r.stamp
    /\ \/ ~Consumed(d) /\ ~Unclaimed(d, r.stamp)
       \/ outcome[d] \in {"submitted", "submission_uncertain", "already_known"}

\* The conflict check of register_draft, after the sweep of the same
\* transaction has expired r.swept.
Conflicts(d, r) == /\ Exists(d) /\ SameScope(draft[d], r)
                   /\ d \notin r.swept
                   /\ expires[d] > r.stamp
                   /\ \/ ~Consumed(d) /\ ~Unclaimed(d, r.stamp)
                      \/ Consumed(d) /\ outcome[d] # "explicitly_rejected"

Claimable(d, t) == ~Consumed(d) /\ expires[d] > t /\ Unclaimed(d, t)

\* Mutant: any claim will do, whoever holds it.
HoldsAnyClaim(w, d) == claim[d] # None

HoldsClaim(w, d) == claim[d] = w /\ ~Consumed(d)

\* Mutant: the outcome is refused once the claim lease is over.
MayRecordInLease(w, d) == /\ claim[d] = w /\ claimUntil[d] > now
                          /\ Consumed(d) /\ outcome[d] = None

MayRecord(w, d) == claim[d] = w /\ Consumed(d) /\ outcome[d] = None

\* Mutant: the wallet lease ends one tick early.
LockFreeEarly(s) == lock[s].owner = None \/ lock[s].until <= now

LockFree(s) == lock[s].owner = None \/ lock[s].until < now

\* Rows updated by a draft request that has not committed are row-locked.
RowLocked(d) == \E v \in Vaults : reg[v] # None /\ d \in reg[v].swept

-----------------------------------------------------------------------------
Init == /\ now = 0
        /\ paused = TRUE /\ flips = 0
        /\ draft = [d \in Drafts |-> None]
        /\ expires = [d \in Drafts |-> 0]
        /\ claim = [d \in Drafts |-> None]
        /\ claimUntil = [d \in Drafts |-> 0]
        /\ hash = [d \in Drafts |-> None]
        /\ outcome = [d \in Drafts |-> None]
        /\ lock = [s \in Wallets |-> [owner |-> None, until |-> 0]]
        /\ reg = [v \in Vaults |-> None]
        /\ pc = [w \in Workers |-> "idle"]
        /\ req = [w \in Workers |-> None]
        /\ stamp = [w \in Workers |-> 0]
        /\ lease = [w \in Workers |-> 0]
        /\ answer = [w \in Workers |-> None]
        /\ cache = [p \in Procs |-> [e \in Vaults \X Keys |-> None]]
        /\ limbo = {} /\ accepted = {}
        /\ sends = [d \in Drafts |-> 0]
        /\ told = [d \in Drafts |-> {}]

-----------------------------------------------------------------------------
(* Time and the operator. *)

Tick == /\ now < MaxTime
        /\ now' = now + 1
        /\ UNCHANGED <<pauseVars, dbVars, lock, reg, workVars, cache, netVars,
                       sends, told>>

\* set_mainnet_send_paused; migration 0020 seeds the row paused.
SetPaused(b) == /\ flips < MaxFlips
                /\ b # paused
                /\ paused' = b
                /\ flips' = flips + 1
                /\ UNCHANGED <<now, dbVars, lock, reg, workVars, cache, netVars,
                               sends, told>>

-----------------------------------------------------------------------------
(* The draft route, one running request per vault. *)

\* The provider's pending count for a wallet may lag behind the network.
MayReadNonce(s, n) ==
    \A m \in Nonces : m < n => \E t \in accepted : t.wallet = s /\ t.nonce = m

Unmoved == UNCHANGED <<now, pauseVars, dbVars, lock, workVars, cache, netVars,
                       sends, told>>

\* The route passes the pause check, finds the wallet record, reads the nonce
\* and draws the id.
DraftAsk(v, s, f, n, c, d) ==
    /\ ~paused
    /\ <<v, s>> \in Holds
    /\ MayReadNonce(s, n)
    /\ ~Exists(d)
    /\ reg[v] = None
    /\ \A u \in Vaults : reg[u] # None => reg[u].id # d
    /\ reg' = [reg EXCEPT ![v] =
                 [form |-> f, vault |-> v, wallet |-> s, nonce |-> n, terms |-> c,
                  id |-> d, step |-> "asked", stamp |-> 0, swept |-> {},
                  freed |-> {}]]
    /\ Unmoved

At(v, step) == reg[v] # None /\ reg[v].step = step

\* register_draft opens its transaction, which fixes NOW(), with the statement
\* that asks for the advisory lock of its scope.
DraftBegin(v) ==
    /\ At(v, "asked")
    /\ reg' = [reg EXCEPT ![v].step = "begun", ![v].stamp = now]
    /\ Unmoved

\* The steps at which a request holds the advisory lock of its scope.
Holding == {"swept", "checked"}

\* pg_advisory_xact_lock
ScopeFree(v) == \A u \in Vaults : reg[u] # None /\ reg[u].step \in Holding
                                  => ~SameScope(reg[u], reg[v])

\* It gets the lock and expires the abandoned drafts, not yet committed.
DraftSweep(v) ==
    /\ At(v, "begun")
    /\ ScopeFree(v)
    /\ reg' = [reg EXCEPT ![v].step = "swept",
                          ![v].swept = {e \in Drafts : Abandoned(e, reg[v])}]
    /\ Unmoved

\* The conflict SELECT finds a row: roll back, and with it the sweep.
DraftConflict(v) ==
    /\ At(v, "swept")
    /\ \E d \in Drafts : Conflicts(d, reg[v])
    /\ reg' = [reg EXCEPT ![v] = None]
    /\ Unmoved

\* What the sweep left because a claim was running, and the SELECT passes over
\* because that claim has been released in between.
Freed(d, r) == /\ Exists(d) /\ SameScope(draft[d], r)
               /\ d \notin r.swept
               /\ expires[d] > r.stamp
               /\ ~Consumed(d)

\* It finds none.  No lock is taken on the rows it read.
DraftCheck(v) ==
    /\ At(v, "swept")
    /\ \A d \in Drafts : ~Conflicts(d, reg[v])
    /\ reg' = [reg EXCEPT ![v].step = "checked",
                          ![v].freed = {e \in Drafts : Freed(e, reg[v])}]
    /\ Unmoved

\* Insert the row and commit.
DraftRegister(v) ==
    /\ At(v, "checked")
    /\ draft' = [draft EXCEPT ![reg[v].id] =
                    [form |-> reg[v].form, vault |-> reg[v].vault,
                     wallet |-> reg[v].wallet, nonce |-> reg[v].nonce,
                     terms |-> reg[v].terms]]
    /\ expires' = [d \in Drafts |->
                     IF d = reg[v].id THEN reg[v].stamp + DraftTTL
                     ELSE IF d \in reg[v].swept THEN reg[v].stamp
                     ELSE expires[d]]
    /\ reg' = [reg EXCEPT ![v] = None]
    /\ UNCHANGED <<now, pauseVars, claim, claimUntil, hash, outcome, lock,
                   workVars, cache, netVars, sends, told>>

\* The route gives up (RPC or balance check), raises or dies: rolled back.
DraftAbort(v) ==
    /\ reg[v] # None
    /\ reg' = [reg EXCEPT ![v] = None]
    /\ Unmoved

-----------------------------------------------------------------------------
(* The broadcast route. *)

Draft(w)  == req[w].draft
Wallet(w) == draft[Draft(w)].wallet

Goto(w, step) == pc' = [pc EXCEPT ![w] = step]

\* The handler returns or raises; nothing of the request survives it.
Finish(w) == /\ Goto(w, "idle")
             /\ req' = [req EXCEPT ![w] = None]
             /\ stamp' = [stamp EXCEPT ![w] = 0]
             /\ lease' = [lease EXCEPT ![w] = 0]
             /\ answer' = [answer EXCEPT ![w] = None]

Tell(d, verdict) == told' = [told EXCEPT ![d] = @ \cup {verdict}]

\* Mutant: a missing outcome is reported as a rejection.
VerdictPessimist(o) ==
    CASE o \in {"submitted", "already_known"}   -> "accepted"
      [] o \in {"explicitly_rejected", None}    -> "rejected"
      [] OTHER                                  -> "uncertain"

\* What an outcome is reported as, on the first answer and on a replay.
Verdict(o) == CASE o \in {"submitted", "already_known"} -> "accepted"
                [] o = "explicitly_rejected"            -> "rejected"
                [] OTHER                                -> "uncertain"

\* verify_signed_tx_against_draft
Matches(t, d) == /\ t.wallet = draft[d].wallet
                 /\ t.nonce = draft[d].nonce
                 /\ t.terms = draft[d].terms

\* _lookup_idempotent_broadcast
Cached(w, r) == r.key # None /\ cache[ProcOf[w]][<<r.vault, r.key>>] # None

\* A request passes the pause check, which is made once, the idempotency cache
\* and the rate limiter.  A request any of them answers changes nothing.
Admit(w, r) == /\ pc[w] = "idle"
               /\ ~paused
               /\ ~Cached(w, r)
               /\ Exists(r.draft)
               /\ Goto(w, "admitted")
               /\ req' = [req EXCEPT ![w] = r]
               /\ UNCHANGED <<now, pauseVars, dbVars, lock, reg, stamp, lease,
                              answer, cache, netVars, sends, told>>

\* Mutant: the vault of the row is not compared.
VisibleToAll(w) == expires[Draft(w)] > now

\* load_draft_readonly sees the row of this vault.
Visible(w) == /\ expires[Draft(w)] > now
              /\ draft[Draft(w)].vault = req[w].vault

\* load_draft_readonly converts value_wei_str, which sealed rows leave NULL.
Readable(w) == draft[Draft(w)].form = "plain"

\* Load an open draft, verify the signature against it before any write, and
\* open the transaction of claim_draft, whose first SELECT fixes NOW().  What
\* changes between load and SELECT, the SELECT or the UPDATE refuses.
LoadOpen(w) ==
    /\ pc[w] = "admitted"
    /\ Visible(w) /\ Readable(w) /\ ~Consumed(Draft(w))
    /\ Matches(req[w].tx, Draft(w))
    /\ Goto(w, "claiming")
    /\ stamp' = [stamp EXCEPT ![w] = now]
    /\ UNCHANGED <<now, pauseVars, dbVars, lock, reg, req, lease, answer, cache,
                   netVars, sends, told>>

\* A consumed draft replays its recorded outcome to the same transaction.
Replay(w) ==
    /\ pc[w] = "admitted"
    /\ Visible(w) /\ Readable(w) /\ Consumed(Draft(w))
    /\ hash[Draft(w)] = req[w].tx
    /\ Tell(Draft(w), Verdict(outcome[Draft(w)]))
    /\ Finish(w)
    /\ UNCHANGED <<now, pauseVars, dbVars, lock, reg, cache, netVars, sends>>

\* Unknown, expired or foreign draft, wrong transaction: refused, no write.
LoadRefused(w) ==
    /\ pc[w] = "admitted"
    /\ \/ ~Visible(w)
       \/ Readable(w) /\ Consumed(Draft(w)) /\ hash[Draft(w)] # req[w].tx
       \/ Readable(w) /\ ~Consumed(Draft(w)) /\ ~Matches(req[w].tx, Draft(w))
    /\ Finish(w)
    /\ UNCHANGED <<now, pauseVars, dbVars, lock, reg, cache, netVars, sends, told>>

\* int(None) raises: the route answers 500.
LoadRaises(w) ==
    /\ pc[w] = "admitted"
    /\ Visible(w) /\ ~Readable(w)
    /\ Tell(Draft(w), "error")
    /\ Finish(w)
    /\ UNCHANGED <<now, pauseVars, dbVars, lock, reg, cache, netVars, sends>>

\* The UPDATE of claim_draft takes the row, or finds it no longer claimable.
ClaimWrite(w) ==
    /\ pc[w] = "claiming"
    /\ ~RowLocked(Draft(w))
    /\ Claimable(Draft(w), stamp[w])
    /\ claim' = [claim EXCEPT ![Draft(w)] = w]
    /\ claimUntil' = [claimUntil EXCEPT ![Draft(w)] = stamp[w] + ClaimLease]
    /\ Goto(w, "claimed")
    /\ stamp' = [stamp EXCEPT ![w] = 0]
    /\ UNCHANGED <<now, pauseVars, draft, expires, hash, outcome, lock, reg, req,
                   lease, answer, cache, netVars, sends, told>>

ClaimRefused(w) ==
    /\ pc[w] = "claiming"
    /\ ~RowLocked(Draft(w))
    /\ ~Claimable(Draft(w), stamp[w])
    /\ Finish(w)
    /\ UNCHANGED <<now, pauseVars, dbVars, lock, reg, cache, netVars, sends, told>>

\* acquire_wallet_lock: insert, or take over a row whose lease has run out.
AcquireLock(w) ==
    /\ pc[w] = "claimed"
    /\ LockFree(Wallet(w))
    /\ lock' = [lock EXCEPT ![Wallet(w)] = [owner |-> w, until |-> now + LockLease]]
    /\ lease' = [lease EXCEPT ![w] = now + LockLease]
    /\ Goto(w, "locked")
    /\ UNCHANGED <<now, pauseVars, dbVars, reg, req, stamp, answer, cache, netVars,
                   sends, told>>

\* Mutant: wait for the wallet lock instead of refusing the request.
LockBusyWaits(w) == /\ pc[w] = "claimed"
                    /\ ~LockFree(Wallet(w))
                    /\ UNCHANGED vars

LockBusy(w) ==
    /\ pc[w] = "claimed"
    /\ ~LockFree(Wallet(w))
    /\ Goto(w, "busy")
    /\ UNCHANGED <<now, pauseVars, dbVars, lock, reg, req, stamp, lease, answer,
                   cache, netVars, sends, told>>

\* release_claimed_draft, then 409.
ReleaseClaim(w) ==
    /\ pc[w] = "busy"
    /\ ~RowLocked(Draft(w))
    /\ IF HoldsClaim(w, Draft(w))
       THEN /\ claim' = [claim EXCEPT ![Draft(w)] = None]
            /\ claimUntil' = [claimUntil EXCEPT ![Draft(w)] = 0]
       ELSE UNCHANGED <<claim, claimUntil>>
    /\ Finish(w)
    /\ UNCHANGED <<now, pauseVars, draft, expires, hash, outcome, lock, reg, cache,
                   netVars, sends, told>>

\* consume_claimed_draft: the hash is on record before the RPC call.
Consume(w) ==
    /\ pc[w] = "locked"
    /\ ~RowLocked(Draft(w))
    /\ HoldsClaim(w, Draft(w))
    /\ hash' = [hash EXCEPT ![Draft(w)] = req[w].tx]
    /\ Goto(w, "consumed")
    /\ UNCHANGED <<now, pauseVars, draft, expires, claim, claimUntil, outcome, lock,
                   reg, req, stamp, lease, answer, cache, netVars, sends, told>>

\* Mutant: the result of consume_claimed_draft is ignored.
ClaimLostIgnored(w) ==
    /\ pc[w] = "locked"
    /\ ~RowLocked(Draft(w))
    /\ ~HoldsClaim(w, Draft(w))
    /\ Goto(w, "consumed")
    /\ UNCHANGED <<now, pauseVars, dbVars, lock, reg, req, stamp, lease, answer,
                   cache, netVars, sends, told>>

ClaimLost(w) ==
    /\ pc[w] = "locked"
    /\ ~RowLocked(Draft(w))
    /\ ~HoldsClaim(w, Draft(w))
    /\ Goto(w, "unlocking")
    /\ UNCHANGED <<now, pauseVars, dbVars, lock, reg, req, stamp, lease, answer,
                   cache, netVars, sends, told>>

\* eth_sendRawTransaction.  A hash that comes back, and a failure that may
\* have come after the node took the transaction, leave it in limbo.
SameNonce(t, u) == t.wallet = u.wallet /\ t.nonce = u.nonce

RpcReplies(t) ==
    {"echoed", "ambiguous"}
      \cup {o \in {"known"}    : t \in accepted}
      \cup {o \in {"nonce"}    : \E u \in accepted : SameNonce(t, u)}
      \cup {o \in {"rejected"} : t \notin accepted}

\* Mutant: a reply the table has no value for is recorded as it came.
RpcOutcomeRaw(reply) == CASE reply = "known"    -> "already_known"
                          [] reply = "rejected" -> "explicitly_rejected"
                          [] OTHER              -> reply

\* How the route classifies a reply that ends the call.
RpcOutcome(reply) == CASE reply = "known"    -> "already_known"
                       [] reply = "rejected" -> "explicitly_rejected"
                       [] OTHER              -> "submission_uncertain"

Broadcast(w) ==
    /\ pc[w] = "consumed"
    /\ sends' = [sends EXCEPT ![Draft(w)] = @ + 1]
    /\ \E reply \in RpcReplies(req[w].tx) :
          /\ limbo' = IF reply \in {"echoed", "ambiguous"}
                      THEN limbo \cup {req[w].tx} ELSE limbo
          /\ \/ /\ reply = "echoed"
                /\ Goto(w, "echoed")
                /\ UNCHANGED answer
             \/ /\ reply # "echoed"
                /\ Goto(w, "answered")
                /\ answer' = [answer EXCEPT ![w] = RpcOutcome(reply)]
    /\ UNCHANGED <<now, pauseVars, dbVars, lock, reg, req, stamp, lease, cache,
                   accepted, told>>

\* The network takes up a transaction, at most one for each nonce.
NetworkAccept(t) ==
    /\ t \in limbo \ accepted
    /\ \A u \in accepted : ~SameNonce(t, u)
    /\ accepted' = accepted \cup {t}
    /\ UNCHANGED <<now, pauseVars, dbVars, lock, reg, workVars, cache, limbo, sends,
                   told>>

\* Mutant: the echoed hash is proof enough (the canary incident).
PollTrustsEcho(t) == {"submitted"}

\* What the visibility polls may conclude: a node that has not seen an
\* accepted transaction yet leaves the outcome uncertain.
PollOutcomes(t) == {"submission_uncertain"}
                     \cup {o \in {"submitted"} : t \in accepted}

Poll(w) ==
    /\ pc[w] = "echoed"
    /\ \E o \in PollOutcomes(req[w].tx) : answer' = [answer EXCEPT ![w] = o]
    /\ Goto(w, "answered")
    /\ UNCHANGED <<now, pauseVars, dbVars, lock, reg, req, stamp, lease, cache,
                   netVars, sends, told>>

\* record_broadcast_outcome, then the idempotency entry and the answer.
Record(w) ==
    /\ pc[w] = "answered"
    /\ outcome' = IF MayRecord(w, Draft(w))
                  THEN [outcome EXCEPT ![Draft(w)] = answer[w]] ELSE outcome
    /\ cache' = IF req[w].key = None THEN cache
                ELSE [cache EXCEPT ![ProcOf[w]][<<req[w].vault, req[w].key>>] =
                        [tx |-> req[w].tx, verdict |-> Verdict(answer[w])]]
    /\ Tell(Draft(w), Verdict(answer[w]))
    /\ Goto(w, "unlocking")
    /\ answer' = [answer EXCEPT ![w] = None]
    /\ UNCHANGED <<now, pauseVars, draft, expires, claim, claimUntil, hash, lock,
                   reg, req, stamp, lease, netVars, sends>>

\* release_wallet_lock, in the finally clause of the route.
ReleaseLock(w) ==
    /\ pc[w] = "unlocking"
    /\ lock' = IF lock[Wallet(w)].owner = w
               THEN [lock EXCEPT ![Wallet(w)] = [owner |-> None, until |-> 0]]
               ELSE lock
    /\ Finish(w)
    /\ UNCHANGED <<now, pauseVars, dbVars, reg, cache, netVars, sends, told>>

\* A statement raises: inside the try block the lock is still released, before
\* it the claim is left to its lease.
Raise(w) ==
    /\ pc[w] \notin {"idle", "unlocking"}
    /\ IF pc[w] \in {"locked", "consumed", "echoed", "answered"}
       THEN /\ Goto(w, "unlocking")
            /\ answer' = [answer EXCEPT ![w] = None]
            /\ UNCHANGED <<req, stamp, lease>>
       ELSE Finish(w)
    /\ UNCHANGED <<now, pauseVars, dbVars, lock, reg, cache, netVars, sends, told>>

\* The process dies: its handlers and its cache are gone, the rows stay.
Crash(p) ==
    /\ LET gone == {w \in Workers : ProcOf[w] = p}
       IN  /\ pc' = [w \in Workers |-> IF w \in gone THEN "idle" ELSE pc[w]]
           /\ req' = [w \in Workers |-> IF w \in gone THEN None ELSE req[w]]
           /\ stamp' = [w \in Workers |-> IF w \in gone THEN 0 ELSE stamp[w]]
           /\ lease' = [w \in Workers |-> IF w \in gone THEN 0 ELSE lease[w]]
           /\ answer' = [w \in Workers |-> IF w \in gone THEN None ELSE answer[w]]
    /\ cache' = [cache EXCEPT ![p] = [e \in Vaults \X Keys |-> None]]
    /\ UNCHANGED <<now, pauseVars, dbVars, lock, reg, netVars, sends, told>>

\* An idempotency entry passes its 24 hours.
CacheExpire(p, e) ==
    /\ cache[p][e] # None
    /\ cache' = [cache EXCEPT ![p][e] = None]
    /\ UNCHANGED <<now, pauseVars, dbVars, lock, reg, workVars, netVars, sends, told>>

-----------------------------------------------------------------------------
DraftStep(v) ==
    \/ \E s \in Wallets, f \in Forms, n \in Nonces, c \in Terms, d \in Drafts :
          DraftAsk(v, s, f, n, c, d)
    \/ DraftBegin(v) \/ DraftSweep(v) \/ DraftConflict(v) \/ DraftCheck(v)
    \/ DraftRegister(v) \/ DraftAbort(v)

Serve(w) ==
    \/ LoadOpen(w) \/ Replay(w) \/ LoadRefused(w) \/ LoadRaises(w)
    \/ ClaimWrite(w) \/ ClaimRefused(w)
    \/ AcquireLock(w) \/ LockBusy(w) \/ ReleaseClaim(w)
    \/ Consume(w) \/ ClaimLost(w) \/ Broadcast(w) \/ Poll(w) \/ Record(w)
    \/ ReleaseLock(w)

Next ==
    \/ Tick
    \/ \E b \in BOOLEAN : SetPaused(b)
    \/ \E v \in Vaults : DraftStep(v)
    \/ \E w \in Workers, r \in Requests : Admit(w, r)
    \/ \E w \in Workers : Serve(w) \/ Raise(w)
    \/ \E p \in Procs : Crash(p) \/ \E e \in Vaults \X Keys : CacheExpire(p, e)
    \/ \E t \in Tx : NetworkAccept(t)

Spec == Init /\ [][Next]_vars

\* A draft transaction that is not interrupted runs on, and so does a handler:
\* Postgres queues the statements that wait for a row lock, so one that is
\* blocked again and again by new draft transactions still gets its turn.
Fairness == /\ \A w \in Workers : SF_vars(Serve(w))
            /\ \A v \in Vaults : WF_vars(DraftConflict(v) \/ DraftCheck(v) \/ DraftRegister(v))
FairSpec == Spec /\ Fairness

-----------------------------------------------------------------------------
(* Properties. *)

Registrations == [form : Forms, vault : Vaults, wallet : Wallets,
                  nonce : Nonces, terms : Terms, id : Drafts,
                  step : {"asked", "begun", "swept", "checked"}, stamp : Nat,
                  swept : SUBSET Drafts, freed : SUBSET Drafts]
Verdicts == {"accepted", "rejected", "uncertain"}

\* Every variable, and with the columns of migration 0020 its CHECK constraints.
TypeOK ==
    /\ now \in Nat /\ paused \in BOOLEAN /\ flips \in Nat
    /\ draft \in [Drafts -> DraftFields \cup {None}]
    /\ expires \in [Drafts -> Nat]
    /\ claim \in [Drafts -> Workers \cup {None}]
    /\ claimUntil \in [Drafts -> Nat]
    /\ hash \in [Drafts -> Tx \cup {None}]
    /\ outcome \in [Drafts -> Outcomes \cup {None}]
    /\ lock \in [Wallets -> [owner : Workers \cup {None}, until : Nat]]
    /\ reg \in [Vaults -> Registrations \cup {None}]
    /\ pc \in [Workers -> Steps]
    /\ req \in [Workers -> Requests \cup {None}]
    /\ stamp \in [Workers -> Nat]
    /\ lease \in [Workers -> Nat]
    /\ answer \in [Workers -> Outcomes \cup {None}]
    /\ cache \in [Procs -> [Vaults \X Keys ->
                               [tx : Tx, verdict : Verdicts] \cup {None}]]
    /\ limbo \subseteq Tx /\ accepted \subseteq Tx
    /\ sends \in [Drafts -> Nat]
    /\ told \in [Drafts -> SUBSET (Verdicts \cup {"error"})]

\* However workers stall, crash and retry, one draft leads to at most one
\* eth_sendRawTransaction call (the single-attempt policy of the route).
AtMostOneBroadcast == \A d \in Drafts : sends[d] <= 1

\* A transaction that any node may hold has its hash on a draft row: after a
\* crash or a timeout the server still knows what may have been submitted.
SentIsOnRecord == \A t \in limbo \cup accepted : \E d \in Drafts : hash[d] = t

\* A recorded outcome is true of the network: a success names a transaction the
\* network has, a rejection one this draft did not put there.
OutcomeTruthful ==
    \A d \in Drafts :
       /\ outcome[d] \in {"submitted", "already_known"} => hash[d] \in accepted
       /\ /\ outcome[d] = "explicitly_rejected"
          /\ hash[d] \in limbo \cup accepted
          => \E e \in Drafts \ {d} : hash[e] = hash[d] /\ sends[e] > 0

\* What clients hear about one draft never turns from accepted to rejected or
\* back, and "accepted" is only said of a transaction the network has.
RepliesAgree ==
    \A d \in Drafts : "accepted" \in told[d] => /\ "rejected" \notin told[d]
                                                /\ hash[d] \in accepted

\* The idempotency cache of a process says nothing the draft table does not say.
CacheTruthful ==
    \A p \in Procs, e \in Vaults \X Keys :
       cache[p][e] # None =>
          \E d \in Drafts : /\ hash[d] = cache[p][e].tx
                            /\ outcome[d] # None
                            /\ Verdict(outcome[d]) = cache[p][e].verdict

InSection(w) == pc[w] \in {"locked", "consumed", "echoed", "answered", "unlocking"}

\* Two handlers are between acquire and release for one wallet only when the
\* lease of one of them has run out.
OneSenderPerWallet ==
    \A w, x \in Workers :
       /\ w # x /\ InSection(w) /\ InSection(x)
       /\ Wallet(w) = Wallet(x)
       => lease[w] < now \/ lease[x] < now

\* The hash and the outcome of a draft are each written once.
WrittenOnce ==
    [][\A d \in Drafts : /\ hash[d] # None => hash'[d] = hash[d]
                         /\ outcome[d] # None => outcome'[d] = outcome[d]]_vars

\* A claim or a wallet lock whose lease has not run out is ended by its owner only.
LeasesRespected ==
    [][/\ \A d \in Drafts :
             claim[d] # None /\ claimUntil[d] > now /\ claim'[d] # claim[d]
             => pc[claim[d]] = "busy" /\ Draft(claim[d]) = d
       /\ \A s \in Wallets :
             lock[s].owner # None /\ lock[s].until >= now /\ lock'[s] # lock[s]
             => pc[lock[s].owner] = "unlocking"]_vars

\* A draft that cannot be spent any more, or must not be: its broadcast may have
\* reached the network, or a claim on it runs.
Busy(e) == \/ Consumed(e) /\ outcome[e] # "explicitly_rejected"
           \/ ~Consumed(e) /\ ~Unclaimed(e, now)

\* When a draft is handed out, the only busy drafts of its scope are those whose
\* claim was released between the sweep and the conflict check of that very
\* request, and taken again before it committed.
OnlyFreedSlipThrough ==
    [][\A v \in Vaults : reg[v] # None /\ draft'[reg[v].id] # None =>
          \A e \in Drafts : /\ Exists(e) /\ SameScope(draft[e], reg[v])
                            /\ Busy(e) /\ expires'[e] > now
                            => e \in reg[v].freed]_vars

\* Only a request of the vault that owns a draft ever consumes it.
OwnVaultOnly ==
    [][\A d \in Drafts : hash[d] = None /\ hash'[d] # None =>
          \E w \in Workers : /\ pc[w] = "locked" /\ Draft(w) = d
                             /\ req[w].vault = draft[d].vault]_vars

\* The store and the routes implement the promise.
Promise == INSTANCE SendPromise WITH
              spentOn <- hash, calls <- sends, settled <- outcome, known <- limbo

KeepsPromise == Promise!Spec

\* Every request is answered, though a draft transaction may hold its row and
\* the wallet lock may be held by a handler that died.
RequestsEnd == \A w \in Workers : pc[w] # "idle" ~> pc[w] = "idle"

-----------------------------------------------------------------------------
(* Why the safety properties hold: an inductive strengthening. *)

Calling == {"consumed", "echoed", "answered"}

\* A busy handler serves a request about a row that exists.
HandlersServe == \A w \in Workers :
                    pc[w] # "idle" => req[w] \in Requests /\ Exists(Draft(w))

\* Past the load, the request is one of the vault the draft belongs to.
RequestsFit == \A w \in Workers :
                  pc[w] \notin {"idle", "admitted"}
                  => draft[Draft(w)].vault = req[w].vault

\* NOW() of a running transaction lies in the past, and nothing it has swept
\* can be consumed while it holds the row.
StampsPast == /\ \A w \in Workers : stamp[w] <= now
              /\ \A v \in Vaults : reg[v] # None =>
                    /\ reg[v].stamp <= now
                    /\ \A d \in reg[v].swept : ~Consumed(d)

\* The id of a running draft request is fresh, and its own.
IdsFresh == \A v \in Vaults : reg[v] # None =>
               /\ ~Exists(reg[v].id)
               /\ \A u \in Vaults \ {v} : reg[u] # None => reg[u].id # reg[v].id

\* From consume to record a handler owns the draft, and its hash is on record.
CallersOwn == \A w \in Workers : pc[w] \in Calling =>
                 claim[Draft(w)] = w /\ hash[Draft(w)] = req[w].tx

\* The call counter follows the state machine of the draft.
CallsFollow ==
    /\ \A d \in Drafts : /\ ~Consumed(d) => sends[d] = 0
                         /\ outcome[d] # None => Consumed(d) /\ sends[d] = 1
                         /\ sends[d] \in {0, 1}
    /\ \A w \in Workers : /\ pc[w] = "consumed" => sends[Draft(w)] = 0
                          /\ pc[w] \in {"echoed", "answered"} => sends[Draft(w)] = 1

\* What is about to be recorded is already true of the network.
AnswersTrue ==
    /\ accepted \subseteq limbo
    /\ \A w \in Workers : pc[w] = "answered" =>
          /\ answer[w] # None
          /\ (answer[w] \in {"submitted", "already_known"} => req[w].tx \in accepted)

\* A live lease is backed by the lock row.
LeasesBacked == \A w \in Workers : InSection(w) /\ lease[w] >= now =>
                   lock[Wallet(w)] = [owner |-> w, until |-> lease[w]]

SendInv == /\ TypeOK /\ HandlersServe /\ RequestsFit /\ StampsPast /\ IdsFresh
           /\ CallersOwn /\ CallsFollow /\ AnswersTrue /\ SentIsOnRecord
           /\ LeasesBacked

(* A second strengthening, which rests on the first: what has been said of the *)
(* network, on the rows, to clients and in the caches.                         *)

\* While a draft's one call runs, its outcome is not on record yet.
CallsUnsettled == \A w \in Workers : pc[w] \in Calling => outcome[Draft(w)] = None

\* A definite word to a client has the same outcome on the row.
ToldFollows ==
    \A d \in Drafts :
       /\ "accepted" \in told[d] => outcome[d] \in {"submitted", "already_known"}
       /\ "rejected" \in told[d] => outcome[d] = "explicitly_rejected"

SuccessOnChain ==
    \A d \in Drafts : outcome[d] \in {"submitted", "already_known"}
                      => hash[d] \in accepted

AboutToReject(d) == \E w \in Workers : /\ pc[w] = "answered" /\ Draft(w) = d
                                        /\ answer[w] = "explicitly_rejected"

\* Every transaction a node may hold was put there by the call of some draft
\* that is neither recorded as rejected nor about to be.
LimboOpen ==
    \A t \in limbo : \E d \in Drafts : /\ hash[d] = t /\ sends[d] = 1
                                      /\ outcome[d] # "explicitly_rejected"
                                      /\ ~AboutToReject(d)

TruthInv == /\ CallsUnsettled /\ ToldFollows /\ SuccessOnChain /\ LimboOpen
            /\ CacheTruthful

(* A third one, about draft requests.                                          *)

\* The advisory lock keeps the requests of one scope apart.
ScopesApart ==
    \A u, v \in Vaults : /\ u # v /\ reg[u] # None /\ reg[v] # None
                         /\ reg[u].step \in Holding /\ reg[v].step \in Holding
                         => ~SameScope(reg[u], reg[v])

\* A request is filed under its vault, and sweeps in its own scope.
SweepsFit ==
    \A v \in Vaults : reg[v] # None =>
       /\ reg[v].vault = v
       /\ \A e \in reg[v].swept : Exists(e) /\ InSweep(draft[e], reg[v])

\* After its conflict check a request has, in its scope, only drafts it swept,
\* drafts that were free at the check, and rejected ones.
CheckedClear ==
    \A v \in Vaults : At(v, "checked") =>
       \A e \in Drafts : /\ Exists(e) /\ SameScope(draft[e], reg[v])
                         /\ expires[e] > reg[v].stamp
                         /\ e \notin reg[v].swept \cup reg[v].freed
                         => Consumed(e) /\ outcome[e] = "explicitly_rejected"

ScopeInv == ScopesApart /\ SweepsFit /\ CheckedClear
=============================================================================
