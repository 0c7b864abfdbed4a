----------------------------- MODULE PlayBilling -----------------------------
(***************************************************************************)
(* Storage bought through Google Play: notices that Play publishes, and    *)
(* devices that present their purchases, make requests which fetch the     *)
(* state of the purchase from Play and write it to the ledger              *)
(* (routes/provider_billing_routes.py, google_play_billing.py,             *)
(* billing_entitlements.py).                                               *)
(*                                                                         *)
(* Play, its queue of notices and the time are external.  Times of two     *)
(* purchases are never compared, so each purchase has a clock: it ticks at *)
(* a change of the purchase and at a stamp that a request takes for it.    *)
(* A step of a request is one transaction or one call.                     *)
(***************************************************************************)
EXTENDS Integers, FiniteSets, Functions

CONSTANTS
    Purchases,  \* purchase tokens
    Accounts,   \* accounts that present tokens
    BuyerOf,    \* [Purchases -> Accounts]: the account named by Play
    Requests,   \* requests in flight: one per server process
    Starts,     \* bound: states in which a purchase starts, of "pending" and "active"
    MaxTime,    \* bound: ticks of a clock
    MaxEvents,  \* bound: ticks of all clocks, crashes and failed calls
    None        \* no account, no purchase

ASSUME NoneAssumption == None \notin Purchases \cup Accounts
ASSUME BuyerAssumption == BuyerOf \in [Purchases -> Accounts]
ASSUME StartAssumption == Starts \subseteq {"pending", "active"}
ASSUME BoundAssumption == MaxTime \in Nat /\ MaxEvents \in Nat

VARIABLES
    clock,  \* the time of a purchase
    play,   \* what Play says of a purchase, which one it replaces, its paid period and
            \* its last change
    sent,   \* notices that Play has not seen acknowledged
    log,    \* provider_event_log, by the purchase and the time of the event
    row,    \* billing_entitlements
    pc,     \* where a request stands
    req,    \* what it works on
    fails   \* crashes and failed calls

vars == <<clock, play, sent, log, row, pc, req, fails>>

Times == 1 .. MaxTime

\* read records when Play was asked for what the row holds.
NoRow == [account |-> None, status |-> "none", term |-> 0, seen |-> 0, read |-> 0,
          by |-> None]
NoReq == [kind |-> "none", purchase |-> None, account |-> None, at |-> 0, view |-> "none",
          term |-> 0, read |-> 0, status |-> "none", outcome |-> "none"]

Bound(p) == row[p].account # None
Granting(p) == row[p].status = "active"
Goto(r, step) == pc' = [pc EXCEPT ![r] = step]
Reply(r) == Goto(r, "idle") /\ req' = [req EXCEPT ![r] = NoReq]

Room(n) == FoldFunction(+, fails, clock) + n <= MaxEvents
Ticks(n, ps) == /\ Room(n) /\ \A p \in ps : clock[p] < MaxTime
                /\ clock' = [p \in Purchases |-> IF p \in ps THEN clock[p] + 1 ELSE clock[p]]

\* At the start the ledger may hold a purchase that Play has confirmed long ago.
Bought(b) ==
    /\ play = [p \in Purchases |-> [state |-> IF p = b THEN "active" ELSE "none", link |-> None,
                                    term |-> 0, since |-> 0]]
    /\ row = [p \in Purchases |-> IF p = b THEN [NoRow EXCEPT !.account = BuyerOf[p],
                                                              !.status = "active"] ELSE NoRow]

Init == /\ clock = [p \in Purchases |-> 0]
        /\ \E b \in Purchases \cup {None} : Bought(b)
        /\ sent = {}
        /\ log = [p \in Purchases |-> [t \in Times |-> "none"]]
        /\ pc = [r \in Requests |-> "idle"]
        /\ req = [r \in Requests |-> NoReq]
        /\ fails = 0

-----------------------------------------------------------------------------
(* Google Play. *)

Notice(k, p, t) == [kind |-> k, purchase |-> p, at |-> t]

Running(p) == play[p].state \in {"active", "held"}

\* What a state may become; "void" is a full refund.
After == [none |-> {}, pending |-> {"active", "ended"},
          active |-> {"active", "held", "ended", "void"}, held |-> {"active", "ended"},
          ended |-> {}, void |-> {}]

\* A paid period ends with the renewal, the hold or the end of the subscription.
Rolls(old, new) == old \in {"active", "held"} /\ new # "void"

\* The purchase starts in place of another, which ends.
Takeover(p, q, new) ==
    /\ Ticks(2, {p, q})
    /\ play' = [play EXCEPT ![q].state = "ended", ![q].since = clock'[q],
                            ![p].state = new, ![p].link = q, ![p].since = clock'[p]]
    /\ sent' = sent \cup {Notice("change", x, clock'[x]) : x \in {p, q}}

Change(p, q, new) ==
    LET old == play[p].state
    IN /\ Ticks(1, {p})
       /\ play' = [play EXCEPT ![p] = [state |-> new, link |-> q, since |-> clock'[p],
                                       term |-> @.term + (IF Rolls(old, new) THEN 1 ELSE 0)]]
       /\ sent' = sent \cup {Notice(IF new = "void" THEN "void" ELSE "change", p, clock'[p])}

\* A purchase of its own, or one that replaces a running one of the same buyer.
PlaySells(p, q, new) ==
    /\ play[p].state = "none" /\ q # p
    /\ q # None => Running(q) /\ BuyerOf[q] = BuyerOf[p]
    /\ IF q # None /\ new = "active" THEN Takeover(p, q, new) ELSE Change(p, q, new)
    /\ UNCHANGED <<log, row, pc, req, fails>>

PlayChanges(p, new) ==
    LET q == play[p].link
    IN /\ new \in After[play[p].state]
       /\ IF play[p].state = "pending" /\ new = "active" /\ q # None /\ Running(q)
          THEN Takeover(p, q, new) ELSE Change(p, q, new)
       /\ UNCHANGED <<log, row, pc, req, fails>>

-----------------------------------------------------------------------------
(* Requests. *)

\* Mutant: an event is claimed again as long as its outcome is not known.
ClaimableOpen(n) == log[n.purchase][n.at] \in {"none", "error", "processing"}

\* claim_provider_event
Claimable(n) == log[n.purchase][n.at] \in {"none", "error"}

\* google_play_rtdn: a notice is delivered, as often as Play likes until one
\* delivery is answered with success; "duplicate" is.
Receive(r, n) ==
    /\ pc[r] = "idle" /\ n \in sent
    /\ IF Claimable(n)
       THEN /\ log' = [log EXCEPT ![n.purchase][n.at] = "processing"]
            /\ req' = [req EXCEPT ![r] = [NoReq EXCEPT !.kind = n.kind, !.at = n.at,
                                                       !.purchase = n.purchase]]
            /\ Goto(r, "bind") /\ UNCHANGED sent
       ELSE sent' = sent \ {n} /\ UNCHANGED <<log, pc, req>>
    /\ UNCHANGED <<clock, play, row, fails>>

\* get_subscription: Play may have forgotten a purchase that was refunded.
Answers(p) == {play[p].state} \cup (IF play[p].state = "void" THEN {"gone"} ELSE {})

\* Mutant: whoever presents a token is taken for its buyer.
BuyerTrusted(p, a) == TRUE

\* _verified_subscription_snapshot compares the account that Play names.
IsBuyer(p, a) == BuyerOf[p] = a

\* verify_google_play_purchase, or one token of reconcile_google_play_purchases, up to
\* the fetch; a request that is refused here leaves nothing.  In bulk, a token that is
\* bound to the account may be gone.
Present(r, p, a, bulk) ==
    /\ pc[r] = "idle" /\ play[p].state # "none"
    /\ \E v \in Answers(p) :
         /\ IF v = "gone" THEN bulk /\ row[p].account = a ELSE IsBuyer(p, a)
         /\ req' = [req EXCEPT ![r] = [NoReq EXCEPT !.kind = "device", !.purchase = p,
                        !.account = a, !.view = v, !.term = play[p].term, !.read = clock[p]]]
    /\ Goto(r, "judge")
    /\ UNCHANGED <<clock, play, sent, log, row, fails>>

Finish(r, outcome) ==
    /\ Goto(r, "finish")
    /\ req' = [req EXCEPT ![r] = [NoReq EXCEPT !.kind = req[r].kind, !.at = req[r].at,
                    !.purchase = req[r].purchase, !.outcome = outcome]]
Refuse(r, outcome) == IF req[r].kind = "device" THEN Reply(r) ELSE Finish(r, outcome)

\* find_account_for_purchase
Bind(r) ==
    LET p == req[r].purchase
    IN /\ pc[r] = "bind"
       /\ IF req[r].kind = "void"
          THEN IF Bound(p)
               THEN /\ Goto(r, "revoke")
                    /\ req' = [req EXCEPT ![r].account = row[p].account]
               ELSE Finish(r, "unbound")
          ELSE /\ Goto(r, "fetch")
               /\ req' = [req EXCEPT ![r].account = row[p].account]
       /\ UNCHANGED <<clock, play, sent, log, row, fails>>

Fetch(r) ==
    LET p == req[r].purchase
    IN /\ pc[r] = "fetch"
       /\ \E v \in Answers(p) :
            IF v = "gone" THEN Finish(r, "rejected")
            ELSE /\ req' = [req EXCEPT ![r].view = v, ![r].term = play[p].term,
                                      ![r].read = clock[p]]
                 /\ Goto(r, IF req[r].account = None THEN "link" ELSE "judge")
       /\ UNCHANGED <<clock, play, sent, log, row, fails>>

\* Mutant: the replaced purchase is not looked up.
LinkedAny(q) == q # None

Linked(q) == q # None /\ Bound(q)

\* A notice of a purchase nobody presented: it is bound through the one it replaces.
Link(r) ==
    LET q == play[req[r].purchase].link
    IN /\ pc[r] = "link"
       /\ IF Linked(q) THEN Goto(r, "judge") /\ req' = [req EXCEPT ![r].account = row[q].account]
          ELSE Finish(r, "unbound")
       /\ UNCHANGED <<clock, play, sent, log, row, fails>>

\* normalize_google_subscription_state looks at the clock.
StatusOf(view, expired) == IF view = "active" /\ ~ expired THEN "active"
                           ELSE IF view = "pending" THEN "pending" ELSE "expired"

\* A device is answered with the state of the purchase at a stamp taken after the fetch
\* (verify_and_apply_google_subscription); a notice must be of its account's buyer.
Judge(r) ==
    LET p      == req[r].purchase
        device == req[r].kind = "device"
    IN /\ pc[r] = "judge"
       /\ IF device \/ IsBuyer(p, req[r].account)
          THEN /\ IF device THEN Ticks(1, {p}) ELSE UNCHANGED clock
               /\ req' = [req EXCEPT ![r].at = IF device THEN clock'[p] ELSE @, ![r].view = "none",
                    ![r].status = StatusOf(req[r].view, req[r].term # play[p].term)]
               /\ Goto(r, IF req[r].view = "gone" THEN "terminate" ELSE "write")
          ELSE Finish(r, "rejected") /\ UNCHANGED clock
       /\ UNCHANGED <<play, sent, log, row, fails>>

\* Mutant: the time of the event is not compared.
StaleNever(r) == FALSE

Stale(r) == req[r].at < row[req[r].purchase].seen

\* Mutant: a purchase that was replaced may come back.
ReplacedNever(r) == FALSE

\* A replaced purchase does not grant again.
Replaced(r) == row[req[r].purchase].by # None /\ req[r].status = "active"

Elsewhere(p, a) == row[p].account \notin {None, a}

\* A period that is over grants nothing, whatever the status.
Past(q) == row[q].term # play[q].term
Live(q) == Granting(q) /\ ~ Past(q)

\* Mutant: nobody looks for another tier.
ConflictsNever(r) == FALSE

\* A second tier is taken only in place of the one that Play links it to; the unique
\* index on granting rows asks for no less.
Conflicts(r) ==
    LET p == req[r].purchase
        others == {q \in Purchases \ {p} : row[q].account = req[r].account /\ Live(q)}
    IN req[r].status = "active" /\ ~ others \subseteq {play[p].link}

TakesOver(r, q) == q = play[req[r].purchase].link /\ Bound(q) /\ req[r].status = "active"

\* Rows of the account after a write: the lapsed expire, the replaced is canceled.
Written(r, q) ==
    LET w == req[r]
        lapsed == row[q].account = w.account /\ Granting(q) /\ Past(q)
    IN IF q = w.purchase
       THEN [account |-> w.account, status |-> w.status, term |-> w.term, seen |-> w.at,
             read |-> w.read, by |-> row[q].by]
       ELSE [row[q] EXCEPT !.status = IF lapsed THEN "expired"
                                      ELSE IF TakesOver(r, q) /\ Granting(q) THEN "canceled" ELSE @,
                           !.by = IF TakesOver(r, q) THEN w.purchase ELSE @]

\* reconcile_google_play_storage_entitlement
Write(r) ==
    LET p == req[r].purchase
        a == req[r].account
        q == play[p].link
        fate == IF Elsewhere(p, a) THEN "error"
                ELSE IF Stale(r) \/ Replaced(r) THEN "stale"
                ELSE IF q # None /\ Elsewhere(q, a) THEN "error"
                ELSE IF Conflicts(r) THEN "rejected" ELSE "applied"
    IN /\ pc[r] = "write"
       /\ row' = IF fate = "applied" THEN [x \in Purchases |-> Written(r, x)] ELSE row
       /\ Refuse(r, fate)
       /\ UNCHANGED <<clock, play, sent, log, fails>>

\* revoke_verified_purchase_entitlement: the account is the one of the row.
Revoke(r) ==
    LET p == req[r].purchase
    IN /\ pc[r] = "revoke"
       /\ IF Stale(r) THEN Finish(r, "stale") /\ UNCHANGED row
          ELSE /\ row' = [row EXCEPT ![p].status = "revoked", ![p].seen = req[r].at,
                                     ![p].read = req[r].at]
               /\ Finish(r, "applied")
       /\ UNCHANGED <<clock, play, sent, log, fails>>

\* terminalize_missing_provider_purchase
Terminate(r) ==
    LET p == req[r].purchase
    IN /\ pc[r] = "terminate"
       /\ row' = IF Stale(r) \/ ~ Bound(p) THEN row
                 ELSE [row EXCEPT ![p].seen = req[r].at, ![p].read = req[r].read,
                        ![p].status = IF @ = "pending" THEN "canceled"
                                      ELSE IF @ = "active" THEN "expired" ELSE @]
       /\ Reply(r)
       /\ UNCHANGED <<clock, play, sent, log, fails>>

\* finish_provider_event, and the answer: Play delivers again what was refused.
Record(r) ==
    /\ pc[r] = "finish"
    /\ log' = [log EXCEPT ![req[r].purchase][req[r].at] = req[r].outcome]
    /\ sent' = IF req[r].outcome \in {"error", "rejected"} THEN sent
               ELSE {n \in sent : <<n.purchase, n.at>> # <<req[r].purchase, req[r].at>>}
    /\ Reply(r)
    /\ UNCHANGED <<clock, play, row, fails>>

\* A call fails: the fetch, the check before a refund, or, when the row has been
\* written, the acknowledgement or the note in the log.  The failed request of a device
\* leaves nothing behind.
Fail(r) == /\ req[r].kind # "device"
           /\ \/ pc[r] \in {"fetch", "revoke"}
              \/ pc[r] = "finish" /\ req[r].outcome = "applied"
           /\ Room(1) /\ fails' = fails + 1
           /\ Finish(r, "error")
           /\ UNCHANGED <<clock, play, sent, log, row>>

Crash(r) == /\ pc[r] # "idle" /\ req[r].kind # "device" /\ Room(1) /\ fails' = fails + 1
            /\ Reply(r)
            /\ UNCHANGED <<clock, play, sent, log, row>>

Next == \/ \E p \in Purchases, q \in Purchases \cup {None}, new \in Starts :
             PlaySells(p, q, new)
        \/ \E p \in Purchases, new \in {"pending", "active", "held", "ended", "void"} :
             PlayChanges(p, new)
        \/ \E r \in Requests :
             \/ \E n \in sent : Receive(r, n)
             \/ \E p \in Purchases, a \in Accounts, bulk \in BOOLEAN : Present(r, p, a, bulk)
             \/ Bind(r) \/ Fetch(r) \/ Link(r) \/ Judge(r)
             \/ Write(r) \/ Revoke(r) \/ Terminate(r) \/ Record(r)
             \/ Fail(r) \/ Crash(r)

Spec == Init /\ [][Next]_vars

-----------------------------------------------------------------------------
(* Properties. *)

PlayStates == {"none", "pending", "active", "held", "ended", "void"}
Statuses == {"none", "pending", "active", "expired", "canceled", "revoked"}
Outcomes == {"none", "processing", "applied", "stale", "unbound", "rejected", "error"}
Steps == {"idle", "bind", "fetch", "link", "judge", "write", "revoke", "terminate", "finish"}
Clock == 0 .. MaxTime
Notices == [kind : {"change", "void"}, purchase : Purchases, at : Times]
Rows == [account : Accounts \cup {None}, status : Statuses, term : Clock, seen : Clock,
         read : Clock, by : Purchases \cup {None}]
Reqs == [kind : {"none", "change", "void", "device"}, purchase : Purchases \cup {None},
         account : Accounts \cup {None}, at : Clock, view : PlayStates \cup {"gone"},
         term : Clock, read : Clock, status : Statuses, outcome : Outcomes]

\* Every variable has its type; a row that is bound has its status and its time, and a
\* request on the way has what its step needs.
TypeOK ==
    /\ clock \in [Purchases -> Clock] /\ fails \in Nat
    /\ play \in [Purchases -> [state : PlayStates, link : Purchases \cup {None},
                            term : Clock, since : Clock]]
    /\ sent \subseteq Notices /\ log \in [Purchases -> [Times -> Outcomes]]
    /\ row \in [Purchases -> Rows]
    /\ \A p \in Purchases : Bound(p) <=> row[p].status # "none"
    /\ pc \in [Requests -> Steps] /\ req \in [Requests -> Reqs]
    /\ \A r \in Requests :
         /\ pc[r] # "idle" => req[r].purchase # None
         /\ pc[r] \in {"judge", "write", "revoke", "terminate"} => req[r].account # None

\* An account has storage from one purchase at a time, in every order in which an
\* upgrade, its notices and its devices reach the server.
OneTier ==
    \A p, q \in Purchases : Live(p) /\ Live(q) /\ row[p].account = row[q].account => p = q

\* A purchase is bound to its buyer's account, even if another account presents the
\* token, or the binding is made through a replaced purchase.
BoundToBuyer == \A p \in Purchases : Bound(p) => row[p].account = BuyerOf[p]

\* Two deliveries of a notice are never worked on at once.
OneDelivery ==
    \A r, s \in Requests : pc[r] # "idle" /\ pc[s] # "idle" /\ req[r].kind # "device"
                             /\ req[r].purchase = req[s].purchase /\ req[r].at = req[s].at
                             => r = s

\* Play changed between the fetch and the stamp of what the row holds.
Overtaken(p) == row[p].read < play[p].since /\ play[p].since < row[p].seen

\* When the notice of the last change has been dealt with, the row grants storage
\* exactly if Play does, unless that change overtook a request with a later stamp:
\* whatever was delivered twice, late or out of order, or failed on the way.
TrueUnlessOvertaken ==
    \A p \in Purchases :
        /\ Bound(p) /\ ~ Overtaken(p)
        /\ play[p].since > 0 /\ log[p][play[p].since] \in {"applied", "stale"}
        => (Live(p) <=> play[p].state = "active")

\* A purchase that was replaced does not grant again.
ReplacedStaysOut ==
    [][\A p \in Purchases : row[p].by # None => row'[p].by # None /\ row'[p].status # "active"]_vars

\* Every lifecycle event is reconciled with Play (the cutover guide says so): a notice
\* that is not delivered any more has been dealt with, or its request works on it.
EveryEventReconciled ==
    \A p \in Purchases, t \in Times :
        log[p][t] \in {"processing", "error"} =>
            \/ \E n \in sent : n.purchase = p /\ n.at = t
            \/ \E r \in Requests : /\ pc[r] # "idle" /\ req[r].kind # "device"
                                   /\ req[r].purchase = p /\ req[r].at = t

-----------------------------------------------------------------------------
(* Why rows are true: an inductive strengthening. *)

\* A purchase that is over stays so; one that ran has ended the one it replaces.
Over(p) == play[p].state \in {"ended", "void"}
Settled(p) == play[p].state # "none" /\ (play[p].link # None => Over(play[p].link))

PlayOrder ==
    \A p \in Purchases :
        /\ play[p].since <= clock[p]
        /\ play[p].link # None => Running(play[p].link) \/ Over(play[p].link)
        /\ Running(p) => Settled(p)

\* The row of a purchase knows of an event, or has been replaced for good.
Heard(p, t) == t <= row[p].seen \/ row[p].by # None
Dealt == {"applied", "stale"}

\* What Play said at a time is what it says now, if nothing has changed since.
Current(p, at) == play[p].since <= at

VoidsKnown == \A n \in sent : n.kind = "void" => play[n.purchase].state = "void"

RequestTrue(step, w) ==
    LET p == w.purchase
    IN /\ w.at <= clock[p] /\ w.read <= clock[p]
       /\ (step = "bind" /\ w.kind = "void") \/ step \in {"revoke", "terminate"} =>
             play[p].state = "void"
       /\ step \in {"link", "judge"} =>
             /\ w.view = "gone" => play[p].state = "void"
             /\ w.view = "active" => Settled(p)
             /\ Current(p, w.read) => w.view \in Answers(p) /\ w.term = play[p].term
             /\ w.kind # "device" => w.at <= w.read
       /\ step = "write" =>
             /\ w.status = "active" => Settled(p)
             /\ Current(p, w.read) => /\ w.status = "active" <=> play[p].state = "active"
                                      /\ w.term = play[p].term
       /\ step \in {"write", "terminate"} => w.at <= w.read \/ w.at # play[p].since
       /\ step = "finish" /\ w.outcome \in Dealt => Heard(p, w.at)

RequestsTrue == \A r \in Requests : pc[r] # "idle" => RequestTrue(pc[r], req[r])

RowTrue(p) ==
    /\ row[p].seen <= clock[p] /\ row[p].read <= clock[p]
    /\ row[p].by # None => Over(p)
    /\ row[p].read < row[p].seen => row[p].seen # play[p].since
    /\ Bound(p) /\ Current(p, row[p].read) => (Live(p) <=> play[p].state = "active")
    /\ \A t \in Times : log[p][t] \in Dealt => Heard(p, t)

RowsTrue == \A p \in Purchases : RowTrue(p)

TruthInv == PlayOrder /\ VoidsKnown /\ RequestsTrue /\ RowsTrue

=============================================================================
