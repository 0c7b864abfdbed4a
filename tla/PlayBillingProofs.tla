--------------------------- MODULE PlayBillingProofs ---------------------------
(***************************************************************************)
(* Theorems about PlayBilling, for any number of purchases, accounts and   *)
(* requests, any clocks and any number of crashes and failed calls.        *)
(*                                                                         *)
(* A row never knows of a later paid period than Play (Terms), so a row    *)
(* that is past stays past, and only a write makes one live; a write is    *)
(* made for the account of the buyer (Ready).  A notice that is worked on  *)
(* is logged as such, and the stamp of a device is the time of no notice   *)
(* (Logged), so each notice has one request at a time.                     *)
(*                                                                         *)
(* A row says what Play said when it was read (RowTrue), and a request on  *)
(* the way knows what Play said when it fetched (RequestTrue): either is   *)
(* still so as long as Play has not moved since (CurrentStays).  An event  *)
(* is dealt with only by a row that has its time, or is replaced for good  *)
(* (Heard), and what replaces it knows that Play has ended it (Settled).   *)
(***************************************************************************)
EXTENDS PlayBilling, TLAPS

USE NoneAssumption, BuyerAssumption, StartAssumption, BoundAssumption

-----------------------------------------------------------------------------
(* The invariant, by the variables it is about. *)

PlayRecords == [state : PlayStates, link : Purchases \cup {None}, term : Clock, since : Clock]

ClocksOK == /\ clock \in [Purchases -> Clock] /\ fails \in Nat
            /\ play \in [Purchases -> PlayRecords]
            /\ \A p \in Purchases : play[p].term <= clock[p]

RowsOK == /\ row \in [Purchases -> Rows]
          /\ \A p \in Purchases : Bound(p) <=> row[p].status # "none"

LogOK == sent \subseteq Notices /\ log \in [Purchases -> [Times -> Outcomes]]

\* What a step needs of its request.
Fits(step, q) ==
    /\ step # "idle" => q.purchase # None
    /\ step \in {"judge", "write", "revoke", "terminate"} => q.account # None

ReqsOK == /\ pc \in [Requests -> Steps] /\ req \in [Requests -> Reqs]
          /\ \A r \in Requests : Fits(pc[r], req[r])

\* A row, and a request, know of no later period than Play.
Terms == /\ \A p \in Purchases : row[p].term <= play[p].term
         /\ \A r \in Requests : req[r].purchase # None =>
               req[r].term <= play[req[r].purchase].term

\* What has been checked when a request is about to write.
Checked(step, q) ==
    /\ step \in {"bind", "fetch", "link", "revoke", "finish"} => q.kind # "device"
    /\ step = "write" => q.status \in {"active", "pending", "expired"}
    /\ step \in {"write", "terminate"} \/ (step = "judge" /\ q.kind = "device") =>
          q.account = BuyerOf[q.purchase]

Ready == \A r \in Requests : /\ Checked(pc[r], req[r])
                             /\ pc[r] = "revoke" => Bound(req[r].purchase)

ReplacedOut == \A p \in Purchases : row[p].by # None => row[p].status # "active"

RowInv == /\ ClocksOK /\ RowsOK /\ LogOK /\ ReqsOK /\ Terms /\ Ready
          /\ BoundToBuyer /\ ReplacedOut /\ OneTier

LEMMA TypeParts == TypeOK <=> /\ clock \in [Purchases -> Clock] /\ fails \in Nat
                              /\ play \in [Purchases -> PlayRecords]
                              /\ RowsOK /\ LogOK /\ ReqsOK
  BY Zenon DEF TypeOK, PlayRecords, RowsOK, LogOK, ReqsOK, Fits

-----------------------------------------------------------------------------
(* The first state. *)

LEMMA BillInit == Init => RowInv
<1> SUFFICES ASSUME Init PROVE RowInv
  OBVIOUS
<1>1. PICK b \in Purchases \cup {None} : Bought(b)
  BY DEF Init
<1> DEFINE bought(p) == [NoRow EXCEPT !.account = BuyerOf[p], !.status = "active"]
<1>2. /\ NoRow \in Rows /\ NoRow.account = None /\ NoRow.status = "none"
      /\ NoRow.by = None /\ NoRow.term = 0
  BY DEF NoRow, Rows, Statuses, Clock
<1>3. ASSUME NEW p \in Purchases
      PROVE  /\ bought(p) \in Rows /\ bought(p).account = BuyerOf[p]
             /\ bought(p).status = "active" /\ bought(p).by = None /\ bought(p).term = 0
  <2>1. BuyerOf[p] \in Accounts
    OBVIOUS
  <2> QED
    BY <1>2, <2>1 DEF Rows, Statuses
<1>10. \A p \in Purchases : row[p] = IF p = b THEN bought(p) ELSE NoRow
  BY <1>1 DEF Bought
<1> HIDE DEF bought
<1>4. RowsOK
  <2>1. row = [p \in Purchases |-> row[p]]
    BY <1>1 DEF Bought
  <2>3. \A p \in Purchases : row[p] \in Rows
    BY <1>2, <1>3, <1>10
  <2>2. row \in [Purchases -> Rows]
    BY <2>1, <2>3
  <2> QED
    BY <1>2, <1>3, <1>10, <2>2 DEF RowsOK, Bound
<1>5. ClocksOK
  <2> DEFINE start(p) == [state |-> IF p = b THEN "active" ELSE "none", link |-> None,
                          term |-> 0, since |-> 0]
  <2>1. \A p \in Purchases : start(p) \in PlayRecords /\ start(p).term = 0
    BY DEF PlayRecords, PlayStates, Clock
  <2>2. play = [p \in Purchases |-> start(p)]
    BY <1>1 DEF Bought
  <2> HIDE DEF start
  <2> QED
    BY <2>1, <2>2 DEF Init, ClocksOK, Clock
<1>6. LogOK
  BY DEF Init, LogOK, Outcomes
<1>7. ReqsOK
  BY DEF Init, ReqsOK, Fits, Reqs, NoReq, Steps, Clock, PlayStates, Statuses, Outcomes
<1>8. Terms /\ Ready
  <2>1. \A p \in Purchases : row[p].term = 0 /\ play[p].term = 0
    <3>1. \A p \in Purchases : play[p].term = 0
      BY <1>1 DEF Bought
    <3> QED
      BY <1>2, <1>3, <1>10, <3>1
  <2>2. \A r \in Requests : req[r].purchase = None /\ pc[r] = "idle"
    BY DEF Init, NoReq
  <2> QED
    BY <2>1, <2>2 DEF Terms, Ready, Checked
<1>9. BoundToBuyer /\ ReplacedOut /\ OneTier
  BY <1>2, <1>3, <1>10 DEF BoundToBuyer, ReplacedOut, OneTier, Bound, Live, Granting
<1> QED
  BY <1>4, <1>5, <1>6, <1>7, <1>8, <1>9 DEF RowInv

-----------------------------------------------------------------------------
(* Play and the clocks. *)

LEMMA Ticking ==
  ASSUME ClocksOK, NEW n, NEW ps \in SUBSET Purchases, Ticks(n, ps)
  PROVE  /\ clock' \in [Purchases -> Clock]
         /\ \A p \in Purchases : clock'[p] = IF p \in ps THEN clock[p] + 1 ELSE clock[p]
         /\ \A p \in ps : clock'[p] \in Times
  BY DEF ClocksOK, Ticks, Clock, Times

LEMMA TicksAny ==
  ASSUME ClocksOK, NEW n, NEW ps, Ticks(n, ps)
  PROVE  /\ clock' \in [Purchases -> Clock]
         /\ \A p \in Purchases : clock[p] <= clock'[p]
<1>1. clock' = [p \in Purchases |-> IF p \in ps \cap Purchases THEN clock[p] + 1 ELSE clock[p]]
  BY DEF Ticks
<1>2. \A p \in Purchases \cap ps : clock[p] < MaxTime
  BY DEF Ticks
<1> QED
  BY <1>1, <1>2 DEF ClocksOK, Clock

\* Clocks and paid periods only advance, and a period not without its clock.
Advances == /\ ClocksOK'
            /\ sent' \subseteq Notices
            /\ \A p \in Purchases : play[p].term <= play'[p].term

LEMMA TakeoverAdvances ==
  ASSUME ClocksOK, LogOK, NEW p \in Purchases, NEW q \in Purchases, NEW new \in PlayStates,
         Takeover(p, q, new), UNCHANGED fails
  PROVE  Advances
<1>1. /\ clock' \in [Purchases -> Clock]
      /\ \A x \in Purchases : clock[x] <= clock'[x]
      /\ \A x \in {p, q} : clock'[x] \in Times
  BY Ticking DEF Takeover, ClocksOK, Clock
<1>2. PICK s \in Clock, t \in Clock :
        /\ play'[p] = [play[p] EXCEPT !.state = new, !.link = q, !.since = s]
        /\ q # p => play'[q] = [play[q] EXCEPT !.state = "ended", !.since = t]
        /\ \A x \in Purchases \ {p, q} : play'[x] = play[x]
        /\ play' = [x \in Purchases |-> play'[x]]
  BY <1>1 DEF Takeover, ClocksOK
<1>3. \A x \in Purchases : play[x] \in PlayRecords
  BY DEF ClocksOK
<1>4. /\ play'[p] \in PlayRecords /\ play'[p].term = play[p].term
      /\ play'[q] \in PlayRecords /\ play'[q].term = play[q].term
  <2>1. "ended" \in PlayStates
    BY DEF PlayStates
  <2>2. play'[p] \in PlayRecords /\ play'[p].term = play[p].term
    <3>1. /\ play[p] \in PlayRecords
          /\ play'[p] = [play[p] EXCEPT !.state = new, !.link = q, !.since = s]
      BY <1>2, <1>3
    <3> QED
      BY <3>1 DEF PlayRecords
  <2>3. CASE q # p
    <3>1. play[q] \in PlayRecords
      BY <1>3
    <3>2. play'[q] = [play[q] EXCEPT !.state = "ended", !.since = t]
      BY <1>2, <2>3
    <3>3. play'[q] \in PlayRecords /\ play'[q].term = play[q].term
      BY <3>1, <3>2, <2>1 DEF PlayRecords
    <3> QED
      BY <2>2, <3>3
  <2> QED
    BY <2>2, <2>3
<1>5. \A x \in Purchases : play'[x] \in PlayRecords /\ play'[x].term = play[x].term
  BY <1>2, <1>3, <1>4
<1>6. \A x \in Purchases : play[x].term \in Nat /\ clock[x] \in Nat /\ clock'[x] \in Nat
  BY <1>1, <1>3 DEF ClocksOK, PlayRecords, Clock
<1>7. sent' \subseteq Notices
  BY <1>1 DEF LogOK, Takeover, Notice, Notices
<1>8. ClocksOK'
  BY <1>1, <1>2, <1>5, <1>6 DEF ClocksOK
<1> QED
  BY <1>5, <1>6, <1>7, <1>8 DEF Advances

LEMMA ChangeAdvances ==
  ASSUME ClocksOK, LogOK, NEW p \in Purchases, NEW q \in Purchases \cup {None},
         NEW new \in PlayStates, Change(p, q, new), UNCHANGED fails
  PROVE  Advances
<1>1. /\ clock' \in [Purchases -> Clock]
      /\ \A x \in Purchases : clock[x] <= clock'[x]
      /\ clock'[p] \in Times /\ clock'[p] = clock[p] + 1
  BY Ticking DEF Change, ClocksOK, Clock
<1>2. PICK n \in {0, 1} :
        play' = [play EXCEPT ![p] = [state |-> new, link |-> q, since |-> clock'[p],
                                     term |-> play[p].term + n]]
  BY DEF Change, ClocksOK
<1>3. \A x \in Purchases : /\ play[x] \in PlayRecords /\ play[x].term \in Nat
                           /\ clock[x] \in Nat /\ clock'[x] \in Nat /\ clock'[x] <= MaxTime
                           /\ play[x].term <= clock[x]
  BY <1>1 DEF ClocksOK, PlayRecords, Clock
<1>4. play[p].term + n \in Clock /\ play[p].term + n <= clock'[p]
  BY <1>1, <1>3 DEF Clock
<1>5. play'[p] \in PlayRecords /\ play'[p].term = play[p].term + n
  BY <1>1, <1>2, <1>4 DEF ClocksOK, PlayRecords
<1>6. play' \in [Purchases -> PlayRecords] /\ \A x \in Purchases \ {p} : play'[x] = play[x]
  BY <1>2, <1>5 DEF ClocksOK
<1>7. sent' \subseteq Notices
  BY <1>1 DEF LogOK, Change, Notice, Notices
<1>8. ClocksOK'
  BY <1>1, <1>3, <1>4, <1>5, <1>6 DEF ClocksOK
<1> QED
  BY <1>3, <1>5, <1>6, <1>7, <1>8 DEF Advances

-----------------------------------------------------------------------------
(* Which steps change what. *)

Sold == \E p \in Purchases, new \in PlayStates :
          \/ \E q \in Purchases : Takeover(p, q, new)
          \/ \E q \in Purchases \cup {None} : Change(p, q, new)

Sales == \/ \E p \in Purchases, q \in Purchases \cup {None}, new \in Starts :
              PlaySells(p, q, new)
         \/ \E p \in Purchases, new \in {"pending", "active", "held", "ended", "void"} :
              PlayChanges(p, new)

\* What a request does besides being received or presented
Works(r) == \/ Bind(r) \/ Fetch(r) \/ Link(r) \/ Judge(r)
            \/ Write(r) \/ Revoke(r) \/ Terminate(r) \/ Record(r)
            \/ Fail(r) \/ Crash(r)

LEMMA StepSplit ==
  ASSUME Next
  PROVE  \/ Sales
         \/ \E r \in Requests :
              \/ \E n \in sent : Receive(r, n)
              \/ \E p \in Purchases, a \in Accounts, bulk \in BOOLEAN : Present(r, p, a, bulk)
              \/ Works(r)
  BY Zenon DEF Next, Sales, Works

LEMMA SaleSteps ==
  ASSUME ClocksOK, Sales
  PROVE  Sold /\ UNCHANGED <<log, row, pc, req, fails>>
<1>1. ASSUME NEW p \in Purchases, NEW q \in Purchases \cup {None}, NEW new \in Starts,
             PlaySells(p, q, new)
      PROVE  Sold /\ UNCHANGED <<log, row, pc, req, fails>>
  <2>1. new \in PlayStates
    BY DEF PlayStates
  <2>2. (Takeover(p, q, new) /\ q \in Purchases) \/ Change(p, q, new)
    BY <1>1 DEF PlaySells
  <2> QED
    BY <1>1, <2>1, <2>2 DEF PlaySells, Sold
<1>2. ASSUME NEW p \in Purchases, NEW new \in {"pending", "active", "held", "ended", "void"},
             PlayChanges(p, new)
      PROVE  Sold /\ UNCHANGED <<log, row, pc, req, fails>>
  <2>1. new \in PlayStates
    BY DEF PlayStates
  <2>2. play[p].link \in Purchases \cup {None}
    BY DEF ClocksOK, PlayRecords
  <2>3. \/ Takeover(p, play[p].link, new) /\ play[p].link # None
        \/ Change(p, play[p].link, new)
    BY <1>2 DEF PlayChanges
  <2> QED
    BY <1>2, <2>1, <2>2, <2>3 DEF PlayChanges, Sold
<1> QED
  BY <1>1, <1>2 DEF Sales

LEMMA PlayAdvances ==
  ASSUME ClocksOK, LogOK, [Next]_vars
  PROVE  Advances
<1>1. ASSUME UNCHANGED <<clock, play>>, sent' \subseteq sent, fails' \in {fails, fails + 1}
      PROVE  Advances
  BY <1>1 DEF Advances, ClocksOK, LogOK, PlayRecords, Clock
<1>2. CASE Sales
  BY <1>2, SaleSteps, TakeoverAdvances, ChangeAdvances DEF Sold
<1>3. ASSUME NEW r \in Requests, Judge(r)
      PROVE  Advances
  <2>1. CASE UNCHANGED clock
    BY <1>1, <1>3, <2>1 DEF Judge
  <2>2. CASE Ticks(1, {req[r].purchase})
    <3>1. /\ clock' \in [Purchases -> Clock]
          /\ \A x \in Purchases : clock[x] <= clock'[x]
      BY <2>2, TicksAny
    <3>2. \A x \in Purchases : /\ play[x].term \in Nat /\ play[x].term <= clock[x]
                               /\ clock[x] \in Nat /\ clock'[x] \in Nat
      BY <3>1 DEF ClocksOK, PlayRecords, Clock
    <3>3. ClocksOK'
      BY <1>3, <3>1, <3>2 DEF ClocksOK, Judge
    <3> QED
      BY <1>3, <3>2, <3>3 DEF Advances, Judge, LogOK
  <2> QED
    BY <1>3, <2>1, <2>2 DEF Judge
<1>4. ASSUME NEW r \in Requests, NEW n \in sent, Receive(r, n)
      PROVE  Advances
  BY <1>1, <1>4 DEF Receive
<1>5. ASSUME NEW r \in Requests, NEW p \in Purchases, NEW a \in Accounts, NEW bulk \in BOOLEAN,
             Present(r, p, a, bulk)
      PROVE  Advances
  BY <1>1, <1>5 DEF Present
<1>6. ASSUME NEW r \in Requests, Works(r), ~ Judge(r)
      PROVE  Advances
  BY <1>1, <1>6 DEF Works, Bind, Fetch, Link, Write, Revoke, Terminate, Record, Fail, Crash
<1>7. CASE UNCHANGED vars
  BY <1>1, <1>7 DEF vars
<1> QED
  BY <1>2, <1>3, <1>4, <1>5, <1>6, <1>7, StepSplit
-----------------------------------------------------------------------------
(* Requests. *)

Known(q) == q.purchase # None => q.term <= play[q.purchase].term
KnownNext(q) == q.purchase # None => q.term <= play'[q.purchase].term

ReqGood == /\ ReqsOK
           /\ \A r \in Requests : Checked(pc[r], req[r]) /\ Known(req[r])

LEMMA RequestSet ==
  ASSUME ReqGood, ClocksOK, Advances, NEW r \in Requests, NEW step \in Steps, NEW q \in Reqs,
         Fits(step, q), Checked(step, q), KnownNext(q),
         Goto(r, step), req' = [req EXCEPT ![r] = q]
  PROVE  ReqGood'
<1>1. ReqsOK'
  BY DEF ReqGood, ReqsOK, Goto
<1>2. /\ pc'[r] = step /\ req'[r] = q
      /\ \A x \in Requests \ {r} : pc'[x] = pc[x] /\ req'[x] = req[x]
  BY DEF ReqGood, ReqsOK, Goto
<1>3. \A x \in Requests : Checked(pc'[x], req'[x])
  BY <1>2 DEF ReqGood
<1>4. ASSUME NEW x \in Requests \ {r}, req[x].purchase # None
      PROVE  req[x].term <= play'[req[x].purchase].term
  <2>1. req[x].purchase \in Purchases /\ req[x].term \in Nat
    BY <1>4 DEF ReqGood, ReqsOK, Reqs, Clock
  <2>2. /\ play[req[x].purchase].term \in Nat /\ play'[req[x].purchase].term \in Nat
        /\ play[req[x].purchase].term <= play'[req[x].purchase].term
    BY <2>1 DEF ClocksOK, Advances, PlayRecords, Clock
  <2>3. req[x].term <= play[req[x].purchase].term
    BY <1>4 DEF ReqGood, Known
  <2> QED
    BY <2>1, <2>2, <2>3
<1>5. \A x \in Requests : Known(req[x])'
  BY <1>2, <1>4 DEF Known, KnownNext
<1> QED
  BY <1>1, <1>3, <1>5 DEF ReqGood

LEMMA RequestsStay ==
  ASSUME ReqGood, ClocksOK, Advances, UNCHANGED <<pc, req>>
  PROVE  ReqGood'
<1>1. ReqsOK'
  BY DEF ReqGood, ReqsOK, Fits
<1>2. \A x \in Requests : Checked(pc'[x], req'[x])
  BY DEF ReqGood
<1>3. ASSUME NEW x \in Requests, req[x].purchase # None
      PROVE  req[x].term <= play'[req[x].purchase].term
  <2>1. req[x].purchase \in Purchases /\ req[x].term \in Nat
    BY <1>3 DEF ReqGood, ReqsOK, Reqs, Clock
  <2>2. /\ play[req[x].purchase].term \in Nat /\ play'[req[x].purchase].term \in Nat
        /\ play[req[x].purchase].term <= play'[req[x].purchase].term
    BY <2>1 DEF ClocksOK, Advances, PlayRecords, Clock
  <2>3. req[x].term <= play[req[x].purchase].term
    BY <1>3 DEF ReqGood, Known
  <2> QED
    BY <2>1, <2>2, <2>3
<1>4. \A x \in Requests : Known(req[x])'
  BY <1>3 DEF Known
<1> QED
  BY <1>1, <1>2, <1>4 DEF ReqGood

LEMMA Blank ==
  /\ NoReq \in Reqs /\ NoReq.purchase = None /\ NoReq.account = None /\ NoReq.at = 0
  /\ NoReq.kind = "none" /\ NoReq.term = 0 /\ NoReq.status = "none"
  BY DEF NoReq, Reqs, Clock, PlayStates, Statuses, Outcomes

LEMMA Replied ==
  ASSUME ReqGood, ClocksOK, Advances, NEW r \in Requests, Reply(r)
  PROVE  ReqGood'
<1>1. NoReq \in Reqs /\ NoReq.purchase = None
  BY DEF NoReq, Reqs, Clock, PlayStates, Statuses, Outcomes
<1>2. Fits("idle", NoReq) /\ Checked("idle", NoReq) /\ KnownNext(NoReq)
  BY <1>1 DEF Fits, Checked, KnownNext
<1> QED
  BY <1>1, <1>2, RequestSet DEF Reply, Steps

\* What remains of a request when its outcome is known.
LEMMA Finishing ==
  ASSUME ReqGood, ClocksOK, Advances, NEW r \in Requests, NEW outcome \in Outcomes,
         Finish(r, outcome), pc[r] # "idle", req[r].kind # "device"
  PROVE  ReqGood'
<1> DEFINE q == [NoReq EXCEPT !.kind = req[r].kind, !.at = req[r].at,
                              !.purchase = req[r].purchase, !.outcome = outcome]
<1>1. req' = [req EXCEPT ![r] = q]
  BY DEF Finish
<1>2. req[r] \in Reqs /\ req[r].purchase # None
  BY DEF ReqGood, ReqsOK, Fits
<1>3. req[r].purchase \in Purchases /\ req[r].at \in Clock
      /\ req[r].kind \in {"none", "change", "void", "device"}
  BY <1>2 DEF Reqs
<1>4. q \in Reqs /\ q.purchase = req[r].purchase /\ q.term = 0 /\ q.kind = req[r].kind
  BY <1>3, Blank DEF Reqs
<1> HIDE DEF q
<1>5. play'[q.purchase].term \in Nat
  BY <1>3, <1>4 DEF Advances, ClocksOK, PlayRecords, Clock
<1>6. Fits("finish", q) /\ Checked("finish", q)
  BY <1>3, <1>4 DEF Fits, Checked
<1>7. KnownNext(q)
  BY <1>4, <1>5 DEF KnownNext
<1> QED
  BY <1>1, <1>4, <1>6, <1>7, RequestSet DEF Finish, Steps

LEMMA Refused ==
  ASSUME ReqGood, ClocksOK, Advances, NEW r \in Requests, NEW outcome \in Outcomes,
         Refuse(r, outcome), pc[r] # "idle"
  PROVE  ReqGood'
  BY Replied, Finishing DEF Refuse

\* What each step of a request leaves of it, where Play does not change.
LEMMA ReceiveReq ==
  ASSUME RowInv, ReqGood, Advances, NEW r \in Requests, NEW n \in sent, Receive(r, n)
  PROVE  ReqGood'
<1> DEFINE q == [NoReq EXCEPT !.kind = n.kind, !.at = n.at, !.purchase = n.purchase]
<1>0. ClocksOK /\ n \in Notices
  BY DEF RowInv, LogOK
<1>1. CASE UNCHANGED <<pc, req>>
  BY <1>0, <1>1, RequestsStay
<1>2. CASE req' = [req EXCEPT ![r] = q] /\ Goto(r, "bind")
  <2>1. n.kind \in {"change", "void"} /\ n.at \in Clock /\ n.purchase \in Purchases
    BY <1>0 DEF Notices, Times, Clock
  <2>2. q \in Reqs /\ q.purchase = n.purchase /\ q.term = 0 /\ q.kind = n.kind
    BY <2>1, Blank DEF Reqs
  <2> HIDE DEF q
  <2>3. play'[q.purchase].term \in Nat
    BY <2>1, <2>2 DEF Advances, ClocksOK, PlayRecords, Clock
  <2>4. Fits("bind", q) /\ Checked("bind", q) /\ KnownNext(q)
    BY <2>1, <2>2, <2>3 DEF Fits, Checked, KnownNext
  <2> QED
    BY <1>0, <1>2, <2>2, <2>4, RequestSet DEF Steps
<1> QED
  BY <1>1, <1>2 DEF Receive

LEMMA PresentReq ==
  ASSUME RowInv, ReqGood, Advances, NEW r \in Requests, NEW p \in Purchases,
         NEW a \in Accounts, NEW bulk \in BOOLEAN, Present(r, p, a, bulk)
  PROVE  ReqGood'
<1>1. PICK v \in Answers(p) :
        /\ IF v = "gone" THEN bulk /\ row[p].account = a ELSE IsBuyer(p, a)
        /\ req' = [req EXCEPT ![r] = [NoReq EXCEPT !.kind = "device", !.purchase = p,
                     !.account = a, !.view = v, !.term = play[p].term, !.read = clock[p]]]
  BY DEF Present
<1> DEFINE q == [NoReq EXCEPT !.kind = "device", !.purchase = p, !.account = a, !.view = v,
                              !.term = play[p].term, !.read = clock[p]]
<1>2. a = BuyerOf[p]
  BY <1>1 DEF IsBuyer, RowInv, BoundToBuyer, Bound
<1>3. play[p] \in PlayRecords /\ clock[p] \in Clock
  BY DEF RowInv, ClocksOK
<1>4. v \in PlayStates \cup {"gone"} /\ play[p].term \in Clock
  BY <1>3 DEF Answers, PlayRecords
<1>5. q \in Reqs /\ q.purchase = p /\ q.account = a /\ q.term = play[p].term
  BY <1>3, <1>4, Blank DEF Reqs
<1>6. play'[p].term = play[p].term /\ Goto(r, "judge")
  BY DEF Present
<1>7. play[p].term \in Nat
  BY <1>4 DEF Clock
<1> HIDE DEF q
<1>8. Fits("judge", q) /\ Checked("judge", q) /\ KnownNext(q)
  BY <1>2, <1>5, <1>6, <1>7 DEF Fits, Checked, KnownNext
<1> QED
  BY <1>1, <1>5, <1>6, <1>8, RequestSet DEF Steps, RowInv, q

LEMMA BindReq ==
  ASSUME RowInv, ReqGood, Advances, NEW r \in Requests, Bind(r)
  PROVE  ReqGood'
<1> DEFINE p == req[r].purchase
<1>0. /\ ClocksOK /\ req[r] \in Reqs /\ p \in Purchases /\ row[p] \in Rows
      /\ Known(req[r]) /\ UNCHANGED play /\ req[r].kind # "device"
  BY DEF Checked, Bind, ReqGood, ReqsOK, Fits, Reqs, RowInv, RowsOK
<1>1. ASSUME NEW step \in {"revoke", "fetch"}, Goto(r, step),
             req' = [req EXCEPT ![r].account = row[p].account],
             step = "revoke" => Bound(p)
      PROVE  ReqGood'
  <2>1. [req[r] EXCEPT !.account = row[p].account] \in Reqs
    <3>1. row[p].account \in Accounts \cup {None}
      BY <1>0 DEF Rows
    <3> QED
      BY <1>0, <3>1 DEF Reqs
  <2> DEFINE q == [req[r] EXCEPT !.account = row[p].account]
  <2>2. /\ q.purchase = p /\ q.term = req[r].term /\ q.account = row[p].account
        /\ q.kind = req[r].kind
    BY <1>0 DEF Reqs
  <2>3. req' = [req EXCEPT ![r] = q]
    BY <1>1 DEF ReqGood, ReqsOK
  <2> HIDE DEF q
  <2>4. Fits(step, q) /\ Checked(step, q) /\ KnownNext(q)
    BY <1>0, <1>1, <2>2 DEF Fits, Checked, KnownNext, Known, Bound
  <2> QED
    BY <1>0, <1>1, <2>1, <2>3, <2>4, RequestSet DEF Steps, q
<1>2. CASE Finish(r, "unbound")
  BY <1>0, <1>2, Finishing DEF Bind, Outcomes
<1> QED
  BY <1>1, <1>2 DEF Bind

LEMMA FetchReq ==
  ASSUME RowInv, ReqGood, Advances, NEW r \in Requests, Fetch(r)
  PROVE  ReqGood'
<1> DEFINE p == req[r].purchase
<1>0. /\ ClocksOK /\ req[r] \in Reqs /\ p \in Purchases /\ UNCHANGED play
      /\ play[p] \in PlayRecords /\ clock[p] \in Clock
  BY DEF Fetch, ReqGood, ReqsOK, Fits, Reqs, RowInv, ClocksOK
<1>1. PICK v \in Answers(p) :
         IF v = "gone" THEN Finish(r, "rejected")
         ELSE /\ req' = [req EXCEPT ![r].view = v, ![r].term = play[p].term,
                                    ![r].read = clock[p]]
              /\ Goto(r, IF req[r].account = None THEN "link" ELSE "judge")
  BY DEF Fetch
<1>2. CASE Finish(r, "rejected")
  BY <1>0, <1>2, Finishing DEF Fetch, Outcomes, ReqGood, Checked
<1>3. CASE v # "gone"
  <2> DEFINE q == [req[r] EXCEPT !.view = v, !.term = play[p].term, !.read = clock[p]]
             step == IF req[r].account = None THEN "link" ELSE "judge"
  <2>1. v \in PlayStates \cup {"gone"} /\ play[p].term \in Clock
    BY <1>0 DEF Answers, PlayRecords
  <2>2. /\ q \in Reqs /\ q.purchase = p /\ q.account = req[r].account
        /\ q.kind = req[r].kind /\ q.term = play[p].term
    <3> DEFINE x == req[r]
               t == play[p].term
               c == clock[p]
    <3>1. x \in Reqs /\ t \in Clock /\ c \in Clock
      BY <1>0, <2>1
    <3>2. q = [x EXCEPT !.view = v, !.term = t, !.read = c]
      OBVIOUS
    <3>3. x.purchase = p
      OBVIOUS
    <3> HIDE DEF x, t, c, p, q
    <3>4. /\ q \in Reqs /\ q.purchase = x.purchase /\ q.account = x.account
          /\ q.kind = x.kind /\ q.term = t
      BY <2>1, <3>1, <3>2 DEF Reqs
    <3> QED
      BY <3>3, <3>4 DEF x, t
  <2>3. req' = [req EXCEPT ![r] = q]
    BY <1>1, <1>3 DEF ReqGood, ReqsOK
  <2>4. req[r].kind # "device"
    BY DEF Fetch, ReqGood, Checked
  <2>5. play[p].term \in Nat
    BY <2>1 DEF Clock
  <2> HIDE DEF q
  <2>6. Fits(step, q) /\ Checked(step, q) /\ KnownNext(q)
    BY <1>0, <2>2, <2>4, <2>5 DEF Fits, Checked, KnownNext
  <2> QED
    BY <1>0, <1>1, <1>3, <2>2, <2>3, <2>6, RequestSet DEF Steps, q
<1> QED
  BY <1>1, <1>2, <1>3

LEMMA LinkReq ==
  ASSUME RowInv, ReqGood, Advances, NEW r \in Requests, Link(r)
  PROVE  ReqGood'
<1> DEFINE p == req[r].purchase
           l == play[p].link
           q == [req[r] EXCEPT !.account = row[l].account]
<1>0. /\ ClocksOK /\ req[r] \in Reqs /\ p \in Purchases /\ UNCHANGED play
      /\ Known(req[r]) /\ req[r].kind # "device"
  BY DEF Link, ReqGood, ReqsOK, Fits, Reqs, RowInv, Checked
<1>1. CASE Linked(l) /\ Goto(r, "judge") /\ req' = [req EXCEPT ![r].account = row[l].account]
  <2>1. row[l].account \in Accounts
    <3>1. l \in Purchases
      BY <1>0, <1>1 DEF Linked, ClocksOK, PlayRecords
    <3> QED
      BY <1>1, <3>1 DEF Linked, Bound, RowInv, RowsOK, Rows
  <2>2. /\ q \in Reqs /\ q.purchase = p /\ q.term = req[r].term /\ q.kind = req[r].kind
        /\ q.account = row[l].account
    <3> HIDE DEF l
    <3> QED
      BY <1>0, <2>1 DEF Reqs
  <2>3. req' = [req EXCEPT ![r] = q]
    BY <1>1 DEF ReqGood, ReqsOK
  <2> HIDE DEF q
  <2>4. Fits("judge", q) /\ Checked("judge", q) /\ KnownNext(q)
    BY <1>0, <2>1, <2>2 DEF Fits, Checked, KnownNext, Known
  <2> QED
    BY <1>0, <1>1, <2>2, <2>3, <2>4, RequestSet DEF Steps, q
<1>2. CASE Finish(r, "unbound")
  BY <1>0, <1>2, Finishing DEF Link, Outcomes
<1> QED
  BY <1>1, <1>2 DEF Link

LEMMA JudgeReq ==
  ASSUME RowInv, ReqGood, Advances, NEW r \in Requests, Judge(r)
  PROVE  ReqGood'
<1> DEFINE x == req[r]
           p == x.purchase
           at == IF x.kind = "device" THEN clock'[p] ELSE x.at
           status == StatusOf(x.view, x.term # play[p].term)
           q == [x EXCEPT !.at = at, !.view = "none", !.status = status]
           step == IF x.view = "gone" THEN "terminate" ELSE "write"
<1>0. /\ ClocksOK /\ x \in Reqs /\ p \in Purchases /\ UNCHANGED play /\ Known(x)
  BY DEF Judge, ReqGood, ReqsOK, Fits, Reqs, RowInv
<1>1. CASE ~ (x.kind = "device" \/ IsBuyer(p, x.account))
  BY <1>0, <1>1, Finishing DEF Judge, Outcomes
<1>2. CASE x.kind = "device" \/ IsBuyer(p, x.account)
  <2>1. at \in Clock
    <3>1. x.at \in Clock
      BY <1>0 DEF Reqs
    <3>2. x.kind = "device" => Ticks(1, {p})
      BY <1>2 DEF Judge
    <3>3. x.kind = "device" => clock' \in [Purchases -> Clock]
      BY <1>0, <3>2, TicksAny
    <3> QED
      BY <1>0, <3>1, <3>3
  <2>2. status \in {"active", "pending", "expired"} /\ "none" \in PlayStates
    BY DEF StatusOf, PlayStates
  <2>3. status \in Statuses
    BY <2>2 DEF Statuses
  <2>4. Goto(r, step) /\ req' = [req EXCEPT ![r] = q]
    BY <1>2 DEF Judge, ReqGood, ReqsOK
  <2>5. x.account = BuyerOf[p] /\ x.account # None
    BY <1>2 DEF Judge, IsBuyer, ReqGood, ReqsOK, Fits, Checked
  <2> HIDE DEF at, status
  <2>6. /\ q \in Reqs /\ q.purchase = p /\ q.term = x.term /\ q.account = x.account
        /\ q.status = status
    <3> HIDE DEF x
    <3> QED
      BY <1>0, <2>1, <2>2, <2>3 DEF Reqs
  <2> HIDE DEF q
  <2>7. Fits(step, q) /\ Checked(step, q) /\ KnownNext(q)
    BY <1>0, <2>2, <2>5, <2>6 DEF Fits, Checked, KnownNext, Known
  <2>8. step \in Steps
    BY DEF Steps
  <2> QED
    BY <1>0, <2>4, <2>6, <2>7, <2>8, RequestSet
<1> QED
  BY <1>1, <1>2

LEMMA ReqsNext ==
  ASSUME RowInv, [Next]_vars
  PROVE  ReqGood' /\ Advances
<1>0. ReqGood /\ ClocksOK /\ Advances
  BY PlayAdvances DEF RowInv, ReqGood, Ready, Terms, Known
<1>1. CASE Sales
  BY <1>0, <1>1, SaleSteps, RequestsStay
<1>2. ASSUME NEW r \in Requests, Works(r)
      PROVE  ReqGood'
  <2>1. CASE Write(r)
    <3>1. pc[r] # "idle" /\ \E o \in Outcomes : Refuse(r, o)
      BY <2>1 DEF Write, Outcomes
    <3> QED
      BY <1>0, <3>1, Refused
  <2>2. CASE Revoke(r)
    <3>1. pc[r] = "revoke" /\ \E o \in Outcomes : Finish(r, o)
      BY <2>2 DEF Revoke, Outcomes
    <3> QED
      BY <1>0, <3>1, Finishing DEF ReqGood, Checked
  <2>3. CASE Terminate(r) \/ Record(r) \/ Crash(r)
    BY <1>0, <2>3, Replied DEF Terminate, Record, Crash
  <2>4. CASE Fail(r)
    <3>1. pc[r] # "idle" /\ req[r].kind # "device" /\ Finish(r, "error")
      BY <2>4 DEF Fail
    <3> QED
      BY <1>0, <3>1, Finishing DEF Outcomes
  <2> QED
    BY <1>0, <1>2, <2>1, <2>2, <2>3, <2>4, BindReq, FetchReq, LinkReq, JudgeReq DEF Works
<1>3. CASE UNCHANGED vars
  BY <1>0, <1>3, RequestsStay DEF vars
<1> QED
  BY <1>0, <1>1, <1>2, <1>3, ReceiveReq, PresentReq, StepSplit
-----------------------------------------------------------------------------
(* What a step may do to a row. *)

\* The row keeps its account and period, and does not begin to grant.
Dims(p) == /\ row'[p] \in Rows
           /\ row'[p].account = row[p].account /\ row'[p].term = row[p].term
           /\ row'[p].status = "none" <=> row[p].status = "none"
           /\ row'[p].status = "active" => row[p].status = "active" /\ row'[p].by = row[p].by
           /\ row[p].by # None => row'[p].by # None

\* A request writes the row, while the others keep theirs or lose them to it.
Renewed(r, p) ==
    /\ pc[r] = "write" /\ req[r].purchase = p
    /\ ~ Elsewhere(p, req[r].account) /\ ~ Replaced(r) /\ ~ Conflicts(r)
    /\ row'[p] \in Rows /\ row'[p].by = row[p].by
    /\ row'[p].account = req[r].account /\ row'[p].status = req[r].status
    /\ row'[p].term = req[r].term
    /\ \A q \in Purchases \ {p} : TakesOver(r, q) => row'[q].status # "active"

RowMove(p) == Dims(p) \/ \E r \in Requests : Renewed(r, p)

LEMMA RowsStay ==
  ASSUME RowsOK, UNCHANGED row, NEW p \in Purchases
  PROVE  Dims(p)
  BY DEF RowsOK, Dims

LEMMA WriteRow ==
  ASSUME RowInv, NEW r \in Requests, Write(r), row' # row
  PROVE  /\ \A p \in Purchases : p # req[r].purchase => Dims(p)
         /\ Renewed(r, req[r].purchase)
<1> DEFINE w == req[r]
           p == w.purchase
<1>0. /\ w \in Reqs /\ p \in Purchases /\ w.account \in Accounts
      /\ w.status \in {"active", "pending", "expired"}
      /\ row \in [Purchases -> Rows]
  BY DEF Write, RowInv, ReqsOK, Fits, Reqs, Ready, Checked, RowsOK
<1>1. row' = [x \in Purchases |-> Written(r, x)]
  BY DEF Write
<1>2. ~ Elsewhere(p, w.account) /\ ~ Replaced(r) /\ ~ Conflicts(r) /\ pc[r] = "write"
  BY DEF Write
<1>3. ASSUME NEW q \in Purchases, q # p
      PROVE  Dims(q) /\ (TakesOver(r, q) => row'[q].status # "active")
  <2> DEFINE lapsed == row[q].account = w.account /\ Granting(q) /\ Past(q)
             st == IF lapsed THEN "expired"
                   ELSE IF TakesOver(r, q) /\ Granting(q) THEN "canceled" ELSE row[q].status
             by == IF TakesOver(r, q) THEN p ELSE row[q].by
             old == row[q]
  <2>1. row'[q] = [old EXCEPT !.status = st, !.by = by]
    BY <1>1, <1>3 DEF Written
  <2>2. old \in Rows
    BY <1>0
  <2>3. st \in Statuses /\ by \in Purchases \cup {None}
    BY <1>0, <2>2 DEF Rows, Statuses
  <2>4. /\ st = "none" <=> old.status = "none"
        /\ st = "active" => old.status = "active" /\ by = old.by
        /\ old.by # None => by # None
        /\ TakesOver(r, q) => st # "active"
    BY <1>0 DEF Granting
  <2> HIDE DEF st, by, old
  <2>5. /\ row'[q] \in Rows /\ row'[q].status = st /\ row'[q].by = by
        /\ row'[q].account = old.account /\ row'[q].term = old.term
    BY <2>1, <2>2, <2>3 DEF Rows
  <2> QED
    BY <2>4, <2>5 DEF Dims, old
<1>4. /\ row'[p] \in Rows /\ row'[p].by = row[p].by
      /\ row'[p].account = w.account /\ row'[p].status = w.status
      /\ row'[p].term = w.term
  <2>1. row'[p] = [account |-> w.account, status |-> w.status, term |-> w.term,
                   seen |-> w.at, read |-> w.read, by |-> row[p].by]
    BY <1>0, <1>1 DEF Written
  <2>2. /\ row[p].by \in Purchases \cup {None} /\ w.status \in Statuses
        /\ w.term \in Clock /\ w.at \in Clock /\ w.read \in Clock
    BY <1>0 DEF Rows, Reqs
  <2> HIDE DEF w, p
  <2> QED
    BY <1>0, <2>1, <2>2 DEF Rows
<1> QED
  BY <1>2, <1>3, <1>4 DEF Renewed

LEMMA RevokeRow ==
  ASSUME RowInv, NEW r \in Requests, Revoke(r), NEW p \in Purchases
  PROVE  Dims(p)
<1>0. row \in [Purchases -> Rows] /\ (Bound(p) <=> row[p].status # "none")
  BY DEF RowInv, RowsOK
<1>1. CASE row'[p] = row[p]
  BY <1>0, <1>1 DEF Dims
<1>2. CASE p = req[r].purchase /\ row' # row
  <2> DEFINE at == req[r].at
             old == row[p]
  <2>1. row'[p] = [old EXCEPT !.status = "revoked", !.seen = at, !.read = at]
    BY <1>0, <1>2 DEF Revoke
  <2>2. old \in Rows /\ at \in Clock /\ old.status # "none"
    BY <1>0, <1>2 DEF Revoke, RowInv, Ready, ReqsOK, Reqs
  <2> HIDE DEF at, old
  <2>3. /\ row'[p] \in Rows /\ row'[p].account = old.account /\ row'[p].term = old.term
        /\ row'[p].status = "revoked" /\ row'[p].by = old.by
    BY <2>1, <2>2 DEF Rows, Statuses
  <2> QED
    BY <2>2, <2>3 DEF Dims, old
<1> QED
  BY <1>0, <1>1, <1>2 DEF Revoke

LEMMA TerminateRow ==
  ASSUME RowInv, NEW r \in Requests, Terminate(r), NEW p \in Purchases
  PROVE  Dims(p)
<1>0. row \in [Purchases -> Rows]
  BY DEF RowInv, RowsOK
<1>1. CASE row'[p] = row[p]
  BY <1>0, <1>1 DEF Dims
<1>2. CASE p = req[r].purchase /\ row' # row
  <2> DEFINE at == req[r].at
             read == req[r].read
             old == row[p]
             st == IF old.status = "pending" THEN "canceled"
                   ELSE IF old.status = "active" THEN "expired" ELSE old.status
  <2>1. row'[p] = [old EXCEPT !.seen = at, !.read = read, !.status = st]
    BY <1>0, <1>2 DEF Terminate
  <2>2. old \in Rows /\ at \in Clock /\ read \in Clock
    BY <1>0, <1>2 DEF RowInv, ReqsOK, Reqs
  <2>3. st \in Statuses /\ st # "active" /\ (st = "none" <=> old.status = "none")
    BY <2>2 DEF Rows, Statuses
  <2> HIDE DEF at, read, old, st
  <2>4. /\ row'[p] \in Rows /\ row'[p].account = old.account /\ row'[p].term = old.term
        /\ row'[p].status = st /\ row'[p].by = old.by
    BY <2>1, <2>2, <2>3 DEF Rows
  <2> QED
    BY <2>3, <2>4 DEF Dims, old
<1> QED
  BY <1>0, <1>1, <1>2 DEF Terminate

LEMMA RowMoves ==
  ASSUME RowInv, [Next]_vars
  PROVE  \/ \A p \in Purchases : Dims(p)
         \/ \E r \in Requests : /\ Renewed(r, req[r].purchase) /\ UNCHANGED play
                                /\ \A p \in Purchases : p # req[r].purchase => Dims(p)
<1>0. RowsOK /\ ClocksOK
  BY DEF RowInv
<1>1. CASE UNCHANGED row
  BY <1>0, <1>1, RowsStay
<1>2. ASSUME NEW r \in Requests, Write(r), row' # row
      PROVE  /\ Renewed(r, req[r].purchase) /\ UNCHANGED play
             /\ \A p \in Purchases : p # req[r].purchase => Dims(p)
  BY <1>2, WriteRow DEF Write
<1>3. ASSUME NEW r \in Requests, Works(r), ~ Write(r)
      PROVE  UNCHANGED row \/ \A p \in Purchases : Dims(p)
  BY <1>3, RevokeRow, TerminateRow
     DEF Works, Bind, Fetch, Link, Judge, Record, Fail, Crash
<1>4. ASSUME NEW r \in Requests, NEW n \in sent, Receive(r, n)
      PROVE  UNCHANGED row
  BY <1>4 DEF Receive
<1>5. ASSUME NEW r \in Requests, NEW p \in Purchases, NEW a \in Accounts, NEW bulk \in BOOLEAN,
             Present(r, p, a, bulk)
      PROVE  UNCHANGED row
  BY <1>5 DEF Present
<1>6. CASE Sales
  BY <1>0, <1>1, <1>6, SaleSteps
<1>7. CASE UNCHANGED vars
  BY <1>1, <1>7 DEF vars
<1> QED
  BY <1>1, <1>2, <1>3, <1>4, <1>5, <1>6, <1>7, StepSplit
LEMMA RowShape ==
  ASSUME RowInv, [Next]_vars
  PROVE  row' = [p \in Purchases |-> row'[p]]
<1>0. row = [p \in Purchases |-> row[p]]
  BY DEF RowInv, RowsOK
<1>1. ASSUME NEW r \in Requests, Works(r)
      PROVE  row' = [p \in Purchases |-> row'[p]]
  <2>1. CASE Write(r)
    BY <1>0, <2>1 DEF Write
  <2>2. CASE Revoke(r)
    BY <1>0, <2>2 DEF Revoke
  <2>3. CASE Terminate(r)
    BY <1>0, <2>3 DEF Terminate
  <2> QED
    BY <1>0, <1>1, <2>1, <2>2, <2>3 DEF Works, Bind, Fetch, Link, Judge, Record, Fail, Crash
<1>2. ASSUME NEW r \in Requests, NEW n \in sent, Receive(r, n)
      PROVE  UNCHANGED row
  BY <1>2 DEF Receive
<1>3. ASSUME NEW r \in Requests, NEW p \in Purchases, NEW a \in Accounts, NEW bulk \in BOOLEAN,
             Present(r, p, a, bulk)
      PROVE  UNCHANGED row
  BY <1>3 DEF Present
<1>4. CASE Sales
  BY <1>0, <1>4, SaleSteps DEF RowInv
<1>5. CASE UNCHANGED vars
  BY <1>0, <1>5 DEF vars
<1> QED
  BY <1>0, <1>1, <1>2, <1>3, <1>4, <1>5, StepSplit

\* What a written row shares with its request.
LEMMA WrittenRow ==
  ASSUME RowInv, NEW r \in Requests, Renewed(r, req[r].purchase)
  PROVE  LET p == req[r].purchase
         IN /\ p \in Purchases /\ row'[p].account = BuyerOf[p] /\ BuyerOf[p] # None
            /\ row'[p].status # "none" /\ row'[p].term <= play[p].term
            /\ row'[p].status = "active" => row[p].by = None
  BY DEF Renewed, RowInv, ReqsOK, Fits, Reqs, Ready, Checked, Terms, Replaced

LEMMA RowsNext ==
  ASSUME RowInv, [Next]_vars
  PROVE  RowsOK'
<1>1. ASSUME NEW p \in Purchases
      PROVE  row'[p] \in Rows /\ (row'[p].account # None <=> row'[p].status # "none")
  <2>1. CASE Dims(p)
    BY <2>1 DEF Dims, RowInv, RowsOK, Bound
  <2>2. ASSUME NEW r \in Requests, Renewed(r, req[r].purchase), p = req[r].purchase
        PROVE  row'[p] \in Rows /\ (row'[p].account # None <=> row'[p].status # "none")
    BY <2>2, WrittenRow DEF Renewed
  <2> QED
    BY <2>1, <2>2, RowMoves
<1>2. row' \in [Purchases -> Rows]
  BY <1>1, RowShape
<1> QED
  BY <1>1, <1>2 DEF RowsOK, Bound

\* A row that is bound stays bound, and to the buyer.
LEMMA BuyerNext ==
  ASSUME RowInv, [Next]_vars
  PROVE  BoundToBuyer' /\ \A p \in Purchases : Bound(p) => Bound(p)'
<1>1. ASSUME NEW p \in Purchases
      PROVE  /\ row'[p].account # None => row'[p].account = BuyerOf[p]
             /\ row[p].account # None => row'[p].account # None
  <2>1. CASE Dims(p)
    BY <2>1 DEF Dims, RowInv, BoundToBuyer, Bound
  <2>2. ASSUME NEW r \in Requests, Renewed(r, req[r].purchase), p = req[r].purchase
        PROVE  row'[p].account = BuyerOf[p] /\ BuyerOf[p] # None
    BY <2>2, WrittenRow
  <2> QED
    BY <2>1, <2>2, RowMoves
<1> QED
  BY <1>1 DEF BoundToBuyer, Bound

LEMMA ReplacedNext ==
  ASSUME RowInv, [Next]_vars, NEW p \in Purchases
  PROVE  /\ row[p].by # None => row'[p].by # None
         /\ row'[p].by # None => row'[p].status # "active"
<1>1. CASE Dims(p)
  BY <1>1 DEF Dims, RowInv, ReplacedOut
<1>2. ASSUME NEW r \in Requests, Renewed(r, req[r].purchase), p = req[r].purchase
      PROVE  /\ row[p].by # None => row'[p].by # None
             /\ row'[p].by # None => row'[p].status # "active"
  BY <1>2, WrittenRow DEF Renewed
<1> QED
  BY <1>1, <1>2, RowMoves

LEMMA TermsNext ==
  ASSUME RowInv, [Next]_vars
  PROVE  Terms'
<1>0. ReqGood' /\ Advances /\ RowsOK
  BY ReqsNext DEF RowInv
<1>1. ASSUME NEW p \in Purchases
      PROVE  row'[p].term <= play'[p].term
  <2>1. /\ row[p].term \in Nat /\ play[p].term \in Nat /\ play'[p].term \in Nat
        /\ row[p].term <= play[p].term /\ play[p].term <= play'[p].term
    BY <1>0 DEF RowsOK, Rows, Clock, RowInv, Terms, ClocksOK, PlayRecords, Advances
  <2>2. CASE Dims(p)
    BY <2>1, <2>2 DEF Dims
  <2>3. ASSUME NEW r \in Requests, Renewed(r, req[r].purchase), p = req[r].purchase,
               UNCHANGED play
        PROVE  row'[p].term <= play'[p].term
    BY <2>3, WrittenRow
  <2> QED
    BY <2>2, <2>3, RowMoves
<1> QED
  BY <1>0, <1>1 DEF Terms, ReqGood, Known

\* Only a write makes a row live, since periods do not come back.
LEMMA LiveBefore ==
  ASSUME RowInv, [Next]_vars, NEW p \in Purchases, Dims(p), Live(p)'
  PROVE  Live(p) /\ row'[p].account = row[p].account
<1>1. /\ row[p].term \in Nat /\ play[p].term \in Nat /\ play'[p].term \in Nat
      /\ row[p].term <= play[p].term /\ play[p].term <= play'[p].term
  BY ReqsNext DEF RowInv, RowsOK, Rows, Clock, Terms, ClocksOK, PlayRecords, Advances
<1> QED
  BY <1>1 DEF Dims, Live, Granting, Past

LEMMA TierNext ==
  ASSUME RowInv, [Next]_vars
  PROVE  OneTier'
<1> SUFFICES ASSUME NEW p \in Purchases, NEW q \in Purchases, Live(p)', Live(q)', p # q,
                    row'[p].account = row'[q].account
             PROVE  FALSE
  BY DEF OneTier
<1>1. CASE Dims(p) /\ Dims(q)
  BY <1>1, LiveBefore DEF RowInv, OneTier
<1>2. ASSUME NEW r \in Requests, NEW x \in {p, q}, NEW y \in {p, q}, x # y,
             Renewed(r, x), req[r].purchase = x, Dims(y)
      PROVE  FALSE
  <2>1. Live(y) /\ row[y].account = req[r].account
    BY <1>2, LiveBefore DEF Renewed
  <2>2. req[r].status = "active"
    BY <1>2 DEF Renewed, Live, Granting
  <2>3. y = play[x].link
    BY <1>2, <2>1, <2>2 DEF Renewed, Conflicts
  <2>4. Bound(y)
    BY <2>1 DEF Live, Granting, RowInv, RowsOK
  <2>5. TakesOver(r, y)
    BY <1>2, <2>2, <2>3, <2>4 DEF TakesOver
  <2>6. row'[y].status # "active"
    BY <1>2, <2>5 DEF Renewed
  <2> QED
    BY <2>6 DEF Live, Granting
<1>3. CASE \A x \in Purchases : Dims(x)
  BY <1>1, <1>3
<1>4. ASSUME NEW r \in Requests, Renewed(r, req[r].purchase),
             \A x \in Purchases : x # req[r].purchase => Dims(x)
      PROVE  FALSE
  <2>1. CASE req[r].purchase = p
    <3>1. Dims(q) /\ Renewed(r, p)
      BY <1>4, <2>1
    <3> QED
      BY <1>2, <2>1, <3>1
  <2>2. CASE req[r].purchase = q
    <3>1. Dims(p) /\ Renewed(r, q)
      BY <1>4, <2>2
    <3> QED
      BY <1>2, <2>2, <3>1
  <2>3. CASE req[r].purchase \notin {p, q}
    BY <1>1, <1>4, <2>3
  <2> QED
    BY <2>1, <2>2, <2>3
<1> QED
  BY <1>3, <1>4, RowMoves

LEMMA LogNext ==
  ASSUME RowInv, [Next]_vars
  PROVE  LogOK'
<1>0. LogOK /\ Advances
  BY ReqsNext DEF RowInv
<1>1. CASE UNCHANGED log
  BY <1>0, <1>1 DEF LogOK, Advances
<1>2. ASSUME NEW r \in Requests, Record(r)
      PROVE  LogOK'
  <2>1. req[r].outcome \in Outcomes
    BY <1>2 DEF RowInv, ReqsOK, Reqs
  <2> QED
    BY <1>0, <1>2, <2>1 DEF Record, LogOK, Advances
<1>3. ASSUME NEW r \in Requests, NEW n \in sent, Receive(r, n)
      PROVE  LogOK'
  <2>1. sent' \subseteq Notices
    BY <1>0 DEF Advances
  <2>2. CASE Claimable(n)
    <3>1. log' = [log EXCEPT ![n.purchase][n.at] = "processing"]
      BY <1>3, <2>2 DEF Receive
    <3>2. log' \in [Purchases -> [Times -> Outcomes]]
      BY <1>0, <3>1 DEF LogOK, Outcomes
    <3> QED
      BY <2>1, <3>2 DEF LogOK
  <2>3. CASE ~ Claimable(n)
    <3>1. UNCHANGED log
      BY <1>3, <2>3 DEF Receive
    <3> QED
      BY <1>1, <3>1
  <2> QED
    BY <2>2, <2>3
<1>4. ASSUME NEW r \in Requests, Works(r), ~ Record(r)
      PROVE  UNCHANGED log
  BY <1>4 DEF Works, Bind, Fetch, Link, Judge, Write, Revoke, Terminate, Fail, Crash
<1>5. ASSUME NEW r \in Requests, NEW p \in Purchases, NEW a \in Accounts, NEW bulk \in BOOLEAN,
             Present(r, p, a, bulk)
      PROVE  UNCHANGED log
  BY <1>5 DEF Present
<1>6. CASE Sales
  BY <1>1, <1>6, SaleSteps DEF RowInv
<1>7. CASE UNCHANGED vars
  BY <1>1, <1>7 DEF vars
<1> QED
  BY <1>1, <1>2, <1>3, <1>4, <1>5, <1>6, <1>7, StepSplit

\* Of the requests only one moves.
LEMMA Others ==
  ASSUME RowInv, NEW r \in Requests, NEW x \in Requests, x # r,
         \/ \E n \in sent : Receive(x, n)
         \/ \E p \in Purchases, a \in Accounts, bulk \in BOOLEAN : Present(x, p, a, bulk)
         \/ Works(x)
  PROVE  pc'[r] = pc[r] /\ req'[r] = req[r]
<1>0. ReqsOK
  BY DEF RowInv
<1>1. ASSUME NEW step, NEW q, Goto(x, step), req' = [req EXCEPT ![x] = q] \/ UNCHANGED req
      PROVE  pc'[r] = pc[r] /\ req'[r] = req[r]
  BY <1>0, <1>1 DEF ReqsOK, Goto
<1>2. CASE UNCHANGED <<pc, req>>
  BY <1>2
<1>3. CASE Reply(x)
  BY <1>1, <1>3 DEF Reply
<1>4. ASSUME NEW o, Finish(x, o)
      PROVE  pc'[r] = pc[r] /\ req'[r] = req[r]
  BY <1>1, <1>4 DEF Finish
<1>5. CASE \E n \in sent : Receive(x, n)
  BY <1>1, <1>2, <1>5 DEF Receive
<1>6. CASE \E p \in Purchases, a \in Accounts, bulk \in BOOLEAN : Present(x, p, a, bulk)
  BY <1>1, <1>6 DEF Present
<1>7. CASE Bind(x)
  BY <1>0, <1>1, <1>4, <1>7 DEF Bind
<1>8. CASE Fetch(x)
  BY <1>0, <1>1, <1>4, <1>8 DEF Fetch
<1>9. CASE Link(x)
  BY <1>0, <1>1, <1>4, <1>9 DEF Link
<1>10. CASE Judge(x)
  BY <1>0, <1>1, <1>4, <1>10 DEF Judge
<1>11. CASE Write(x) \/ Revoke(x) \/ Terminate(x) \/ Record(x) \/ Fail(x) \/ Crash(x)
  BY <1>3, <1>4, <1>11 DEF Write, Revoke, Terminate, Record, Fail, Crash, Refuse
<1> QED
  BY <1>5, <1>6, <1>7, <1>8, <1>9, <1>10, <1>11 DEF Works

LEMMA Staying ==
  ASSUME RowInv, Sales \/ UNCHANGED vars
  PROVE  UNCHANGED <<log, row, pc, req>>
<1>1. CASE Sales
  BY <1>1, SaleSteps DEF RowInv
<1> QED
  BY <1>1 DEF vars

\* A request that revokes has a row to revoke.
LEMMA RevokeNext ==
  ASSUME RowInv, [Next]_vars, NEW r \in Requests, pc'[r] = "revoke"
  PROVE  Bound(req[r].purchase)'
<1> DEFINE p == req'[r].purchase
<1>0. ReqsOK
  BY DEF RowInv
<1>1. p \in Purchases
  BY ReqsNext DEF ReqGood, ReqsOK, Fits, Reqs
<1>2. Bound(p) => row'[p].account # None
  BY <1>1, BuyerNext DEF Bound
<1>3. CASE pc'[r] = pc[r] /\ req'[r] = req[r]
  BY <1>2, <1>3 DEF RowInv, Ready, Bound
<1>4. ASSUME Works(r)
      PROVE  Bind(r)
  BY <1>0, <1>4
     DEF Works, Fetch, Link, Judge, Write, Revoke, Terminate, Record, Fail, Crash,
         Goto, Finish, Reply, Refuse, ReqsOK
<1>5. CASE Bind(r)
  <2>1. Bound(req[r].purchase) /\ req' = [req EXCEPT ![r].account = row[req[r].purchase].account]
    BY <1>0, <1>5 DEF Bind, Goto, Finish, ReqsOK
  <2>2. req'[r].purchase = req[r].purchase
    BY <1>0, <2>1 DEF ReqsOK, Reqs
  <2> QED
    BY <1>2, <2>1, <2>2 DEF Bound
<1>6. ASSUME NEW n \in sent, Receive(r, n), pc'[r] # pc[r] \/ req'[r] # req[r]
      PROVE  FALSE
  BY <1>0, <1>6 DEF Receive, Goto, ReqsOK
<1>7. ASSUME NEW q \in Purchases, NEW a \in Accounts, NEW bulk \in BOOLEAN, Present(r, q, a, bulk)
      PROVE  FALSE
  BY <1>0, <1>7 DEF Present, Goto, ReqsOK
<1>8. CASE Sales \/ UNCHANGED vars
  BY <1>3, <1>8, Staying
<1> QED
  BY <1>3, <1>4, <1>5, <1>6, <1>7, <1>8, Others, StepSplit

-----------------------------------------------------------------------------
(* The invariant of the rows. *)

LEMMA RowNext == RowInv /\ [Next]_vars => RowInv'
<1> SUFFICES ASSUME RowInv, [Next]_vars PROVE RowInv'
  OBVIOUS
<1>1. ClocksOK' /\ ReqsOK' /\ \A r \in Requests : Checked(pc'[r], req'[r])
  BY ReqsNext DEF ReqGood, Advances
<1>2. RowsOK' /\ LogOK' /\ Terms' /\ BoundToBuyer' /\ OneTier'
  BY RowsNext, LogNext, TermsNext, BuyerNext, TierNext
<1>3. Ready'
  BY <1>1, RevokeNext DEF Ready
<1>4. ReplacedOut'
  BY ReplacedNext DEF ReplacedOut
<1> QED
  BY <1>1, <1>2, <1>3, <1>4 DEF RowInv

\* What the theorems about rows rest on: RowInv holds in every reachable state.
THEOREM RowInvariant == Spec => []RowInv
  BY BillInit, RowNext, PTL DEF Spec

\* Every variable has its type: TypeOK.
THEOREM BillingTypes == Spec => []TypeOK
<1>1. RowInv => TypeOK
  BY TypeParts DEF RowInv, ClocksOK
<1> QED
  BY <1>1, RowInvariant, PTL

\* A purchase is bound to nobody but its buyer: BoundToBuyer.
THEOREM BuyerIsBound == Spec => []BoundToBuyer
<1>1. RowInv => BoundToBuyer
  BY DEF RowInv
<1> QED
  BY <1>1, RowInvariant, PTL

\* An account has storage from one purchase at a time: OneTier.
THEOREM TierIsOne == Spec => []OneTier
<1>1. RowInv => OneTier
  BY DEF RowInv
<1> QED
  BY <1>1, RowInvariant, PTL

\* A purchase that was replaced does not grant again: ReplacedStaysOut.
THEOREM ReplacedStays == Spec => ReplacedStaysOut
<1>1. ASSUME RowInv, [Next]_vars, NEW p \in Purchases, row[p].by # None
      PROVE  row'[p].by # None /\ row'[p].status # "active"
  BY <1>1, ReplacedNext
<1>2. RowInv /\ [Next]_vars =>
        [\A p \in Purchases : row[p].by # None
              => row'[p].by # None /\ row'[p].status # "active"]_vars
  BY <1>1
<1> QED
  BY <1>2, RowInvariant, PTL DEF Spec, ReplacedStaysOut
-----------------------------------------------------------------------------
(* One request for each notice. *)

\* Notices and the log are not of the future.
Timely == /\ \A n \in sent : n.at <= clock[n.purchase]
          /\ \A p \in Purchases, t \in Times : log[p][t] # "none" => t <= clock[p]

\* The request of a notice, and the stamp of a device, in the log.
Worked(q)  == q.at \in Times /\ log[q.purchase][q.at] = "processing"
Stamped(q) == q.at # 0 => /\ q.at \in Times /\ q.at <= clock[q.purchase]
                          /\ log[q.purchase][q.at] = "none"
                          /\ \A n \in sent : <<n.purchase, n.at>> # <<q.purchase, q.at>>

Logged == \A r \in Requests : pc[r] # "idle" =>
             IF req[r].kind = "device" THEN Stamped(req[r]) ELSE Worked(req[r])

LogInv == RowInv /\ Timely /\ Logged /\ OneDelivery

LEMMA LogInit == Init => LogInv
<1> SUFFICES ASSUME Init PROVE LogInv
  OBVIOUS
<1> QED
  BY BillInit DEF Init, LogInv, Timely, Logged, OneDelivery

\* A request on the way keeps what it is about.
Keeps(r) == /\ pc[r] # "idle" /\ req'[r].kind = req[r].kind
            /\ req'[r].at = req[r].at /\ req'[r].purchase = req[r].purchase

LEMMA WorksKeep ==
  ASSUME RowInv, NEW r \in Requests, Works(r), ~ (Judge(r) /\ req[r].kind = "device")
  PROVE  pc'[r] = "idle" \/ Keeps(r)
<1>0. ReqsOK /\ req[r] \in Reqs
  BY DEF RowInv, ReqsOK
<1>1. CASE Reply(r)
  BY <1>0, <1>1 DEF Reply, Goto, ReqsOK
<1>2. ASSUME NEW o, Finish(r, o), pc[r] # "idle"
      PROVE  Keeps(r)
  <2> DEFINE k == req[r].kind
             t == req[r].at
             p == req[r].purchase
  <2>1. req'[r] = [NoReq EXCEPT !.kind = k, !.at = t, !.purchase = p, !.outcome = o]
    BY <1>0, <1>2 DEF Finish, ReqsOK
  <2> HIDE DEF k, t, p
  <2>2. req'[r].kind = k /\ req'[r].at = t /\ req'[r].purchase = p
    BY <2>1, Blank DEF Reqs
  <2> QED
    BY <1>2, <2>2 DEF Keeps, k, t, p
<1>3. ASSUME NEW o, Refuse(r, o), pc[r] # "idle"
      PROVE  pc'[r] = "idle" \/ Keeps(r)
  BY <1>0, <1>1, <1>2, <1>3 DEF Refuse, Reply, Goto, ReqsOK
<1>4. ASSUME NEW a, req' = [req EXCEPT ![r].account = a], pc[r] # "idle"
      PROVE  Keeps(r)
  BY <1>0, <1>4 DEF Keeps, ReqsOK, Reqs
<1>5. CASE Bind(r)
  BY <1>2, <1>4, <1>5 DEF Bind
<1>6. CASE Link(r)
  BY <1>2, <1>4, <1>6 DEF Link
<1>7. CASE Fetch(r)
  <2>1. ASSUME NEW v, NEW t, NEW c, pc[r] # "idle",
               req' = [req EXCEPT ![r].view = v, ![r].term = t, ![r].read = c]
        PROVE  Keeps(r)
    BY <1>0, <2>1 DEF Keeps, ReqsOK, Reqs
  <2> QED
    BY <1>2, <1>7, <2>1 DEF Fetch
<1>8. CASE Judge(r) /\ req[r].kind # "device"
  <2>1. ASSUME NEW v, NEW s, pc[r] # "idle",
               req' = [req EXCEPT ![r].at = req[r].at, ![r].view = v, ![r].status = s]
        PROVE  Keeps(r)
    BY <1>0, <2>1 DEF Keeps, ReqsOK, Reqs
  <2>2. CASE IsBuyer(req[r].purchase, req[r].account)
    <3>1. /\ pc[r] # "idle"
          /\ req' = [req EXCEPT ![r].at = req[r].at, ![r].view = "none",
               ![r].status = StatusOf(req[r].view, req[r].term # play[req[r].purchase].term)]
      BY <1>8, <2>2 DEF Judge
    <3> QED
      BY <2>1, <3>1
  <2>3. CASE ~ IsBuyer(req[r].purchase, req[r].account)
    <3>1. pc[r] # "idle" /\ Finish(r, "rejected")
      BY <1>8, <2>3 DEF Judge
    <3> QED
      BY <1>2, <3>1
  <2> QED
    BY <2>2, <2>3
<1>9. CASE Write(r) \/ Revoke(r) \/ Terminate(r) \/ Record(r) \/ Fail(r) \/ Crash(r)
  BY <1>0, <1>1, <1>2, <1>3, <1>9
     DEF Write, Revoke, Terminate, Record, Fail, Crash, Reply, Goto, ReqsOK
<1> QED
  BY <1>5, <1>6, <1>7, <1>8, <1>9 DEF Works

\* The notices of a change have its time.
LEMMA NewNotices ==
  ASSUME ClocksOK, LogOK, Sold
  PROVE  /\ clock' \in [Purchases -> Clock]
         /\ \A p \in Purchases : clock[p] <= clock'[p]
         /\ \A n \in sent' : \/ n \in sent
                             \/ /\ n.purchase \in Purchases
                                /\ n.at = clock'[n.purchase] /\ clock[n.purchase] < n.at
<1>1. ASSUME NEW ps \in SUBSET Purchases, NEW m, Ticks(m, ps),
             \A n \in sent' : n \in sent \/ \E p \in ps, k \in {"change", "void"} :
                                               n = Notice(k, p, clock'[p])
      PROVE  /\ clock' \in [Purchases -> Clock]
             /\ \A p \in Purchases : clock[p] <= clock'[p]
             /\ \A n \in sent' : \/ n \in sent
                                 \/ /\ n.purchase \in Purchases
                                    /\ n.at = clock'[n.purchase] /\ clock[n.purchase] < n.at
  <2>1. /\ clock' \in [Purchases -> Clock]
        /\ \A p \in Purchases : clock[p] <= clock'[p]
    BY <1>1, TicksAny
  <2>2. \A p \in ps : clock[p] \in Nat /\ clock'[p] = clock[p] + 1
    BY <1>1, Ticking DEF ClocksOK, Clock
  <2> QED
    BY <1>1, <2>1, <2>2 DEF Notice
<1>2. ASSUME NEW p \in Purchases, NEW new \in PlayStates, NEW q \in Purchases, Takeover(p, q, new)
      PROVE  /\ Ticks(2, {p, q})
             /\ \A n \in sent' : n \in sent \/ \E x \in {p, q}, k \in {"change", "void"} :
                                                  n = Notice(k, x, clock'[x])
  BY <1>2 DEF Takeover
<1>3. ASSUME NEW p \in Purchases, NEW new \in PlayStates, NEW q \in Purchases \cup {None},
             Change(p, q, new)
      PROVE  /\ Ticks(1, {p})
             /\ \A n \in sent' : n \in sent \/ \E x \in {p}, k \in {"change", "void"} :
                                                  n = Notice(k, x, clock'[x])
  BY <1>3 DEF Change
<1>4. CASE \E p \in Purchases, new \in PlayStates, q \in Purchases : Takeover(p, q, new)
  <2>1. PICK p \in Purchases, new \in PlayStates, q \in Purchases : Takeover(p, q, new)
    BY <1>4
  <2>2. {p, q} \in SUBSET Purchases
    OBVIOUS
  <2> QED
    BY <1>1, <1>2, <2>1, <2>2
<1>5. CASE \E p \in Purchases, new \in PlayStates, q \in Purchases \cup {None} :
             Change(p, q, new)
  <2>1. PICK p \in Purchases, new \in PlayStates, q \in Purchases \cup {None} :
            Change(p, q, new)
    BY <1>5
  <2>2. {p} \in SUBSET Purchases
    OBVIOUS
  <2> QED
    BY <1>1, <1>3, <2>1, <2>2
<1> QED
  BY <1>4, <1>5 DEF Sold

LEMMA SaleLogged ==
  ASSUME LogInv, Sales
  PROVE  Timely' /\ Logged' /\ OneDelivery'
<1>0. ClocksOK /\ LogOK /\ ReqsOK
  BY DEF LogInv, RowInv
<1>1. Sold /\ UNCHANGED <<log, row, pc, req, fails>>
  BY <1>0, SaleSteps
<1>2. /\ clock' \in [Purchases -> Clock]
      /\ \A p \in Purchases : clock[p] <= clock'[p]
      /\ \A n \in sent' : \/ n \in sent
                          \/ /\ n.purchase \in Purchases
                             /\ n.at = clock'[n.purchase] /\ clock[n.purchase] < n.at
  BY <1>0, <1>1, NewNotices
<1>3. \A p \in Purchases : clock[p] \in Nat /\ clock'[p] \in Nat
  BY <1>0, <1>2 DEF ClocksOK, Clock
<1>4. Timely'
  <2>1. ASSUME NEW n \in sent'
        PROVE  n.at <= clock'[n.purchase]
    <3>1. CASE n \in sent
      <4>1. n.purchase \in Purchases /\ n.at \in Nat
        BY <1>0, <3>1 DEF LogOK, Notices, Times
      <4> QED
        BY <1>2, <1>3, <3>1, <4>1 DEF LogInv, Timely
    <3> QED
      BY <1>2, <1>3, <3>1
  <2>2. ASSUME NEW p \in Purchases, NEW t \in Times, log'[p][t] # "none"
        PROVE  t <= clock'[p]
    <3>1. t <= clock[p] /\ t \in Nat
      BY <1>1, <2>2 DEF LogInv, Timely, Times
    <3> QED
      BY <1>2, <1>3, <3>1
  <2> QED
    BY <2>1, <2>2 DEF Timely
<1>5. ASSUME NEW r \in Requests, pc[r] # "idle", req[r].kind = "device", req[r].at # 0
      PROVE  Stamped(req[r])'
  <2>1. /\ req[r].at \in Times /\ req[r].at <= clock[req[r].purchase]
        /\ log[req[r].purchase][req[r].at] = "none"
        /\ \A n \in sent : <<n.purchase, n.at>> # <<req[r].purchase, req[r].at>>
    BY <1>5 DEF LogInv, Logged, Stamped
  <2>2. req[r].purchase \in Purchases /\ req[r].at \in Nat
    BY <1>0, <1>5, <2>1 DEF ReqsOK, Fits, Reqs, Times
  <2>3. req[r].at <= clock'[req[r].purchase]
    BY <1>2, <1>3, <2>1, <2>2
  <2>4. \A n \in sent' : <<n.purchase, n.at>> # <<req[r].purchase, req[r].at>>
    BY <1>2, <1>3, <2>1, <2>2
  <2> QED
    BY <1>1, <2>1, <2>3, <2>4 DEF Stamped
<1>6. Logged'
  <2>1. ASSUME NEW r \in Requests, pc'[r] # "idle"
        PROVE  IF req'[r].kind = "device" THEN Stamped(req[r])' ELSE Worked(req[r])'
    <3>1. pc[r] # "idle" /\ req'[r] = req[r]
      BY <1>1, <2>1
    <3>2. CASE req[r].kind = "device"
      <4>1. CASE req[r].at # 0
        BY <1>5, <3>1, <3>2, <4>1
      <4>2. CASE req[r].at = 0
        BY <3>1, <3>2, <4>2 DEF Stamped
      <4> QED
        BY <4>1, <4>2
    <3>3. CASE req[r].kind # "device"
      BY <1>1, <3>1, <3>3 DEF LogInv, Logged, Worked
    <3> QED
      BY <3>1, <3>2, <3>3
  <2> QED
    BY <2>1 DEF Logged
<1>7. OneDelivery'
  BY <1>1 DEF LogInv, OneDelivery
<1> QED
  BY <1>4, <1>6, <1>7

\* Where requests keep what they are about and the log is as it was, all is as it was.
LEMMA KeptLogged ==
  ASSUME LogInv, UNCHANGED <<clock, log>>, sent' \subseteq sent,
         \A r \in Requests : \/ pc'[r] = "idle" \/ Keeps(r)
                             \/ pc'[r] = pc[r] /\ req'[r] = req[r]
  PROVE  Timely' /\ Logged' /\ OneDelivery'
<1>1. Timely'
  BY DEF LogInv, Timely
<1>2. ASSUME NEW r \in Requests, pc'[r] # "idle"
      PROVE  /\ pc[r] # "idle" /\ req'[r].kind = req[r].kind
             /\ req'[r].at = req[r].at /\ req'[r].purchase = req[r].purchase
  BY <1>2 DEF Keeps
<1>3. ASSUME NEW r \in Requests, pc'[r] # "idle"
      PROVE  IF req'[r].kind = "device" THEN Stamped(req[r])' ELSE Worked(req[r])'
  BY <1>2, <1>3 DEF LogInv, Logged, Stamped, Worked
<1>4. Logged'
  BY <1>3 DEF Logged
<1>5. OneDelivery'
  BY <1>2 DEF LogInv, OneDelivery
<1> QED
  BY <1>1, <1>4, <1>5

LEMMA ReceiveLogged ==
  ASSUME LogInv, NEW r \in Requests, NEW n \in sent, Receive(r, n)
  PROVE  Timely' /\ Logged' /\ OneDelivery'
<1>0. LogOK /\ ReqsOK /\ n \in Notices
  BY DEF LogInv, RowInv, LogOK
<1>1. CASE ~ Claimable(n)
  BY <1>1, KeptLogged DEF Receive
<1>2. CASE Claimable(n)
  <2> DEFINE p == n.purchase
             t == n.at
  <2>1. /\ log' = [log EXCEPT ![p][t] = "processing"]
        /\ req' = [req EXCEPT ![r] = [NoReq EXCEPT !.kind = n.kind, !.at = t, !.purchase = p]]
        /\ Goto(r, "bind") /\ UNCHANGED <<sent, clock>>
        /\ log[p][t] \in {"none", "error"}
    BY <1>2 DEF Receive, Claimable
  <2>2. p \in Purchases /\ t \in Times /\ n.kind # "device"
    BY <1>0 DEF Notices
  <2>3. req'[r].kind # "device" /\ req'[r].at = t /\ req'[r].purchase = p /\ pc'[r] = "bind"
    <3> DEFINE k == n.kind
    <3>1. req'[r] = [NoReq EXCEPT !.kind = k, !.at = t, !.purchase = p] /\ pc'[r] = "bind"
      BY <1>0, <2>1 DEF ReqsOK, Goto
    <3>2. k # "device"
      BY <2>2
    <3> HIDE DEF k, t, p
    <3> QED
      BY <3>1, <3>2, Blank DEF Reqs
  <2>4. \A x \in Requests \ {r} : pc'[x] = pc[x] /\ req'[x] = req[x]
    BY <1>0, <2>1 DEF ReqsOK, Goto
  <2>5. /\ log'[p][t] = "processing"
        /\ \A x \in Purchases, y \in Times : <<x, y>> # <<p, t>> => log'[x][y] = log[x][y]
    BY <1>0, <2>1, <2>2 DEF LogOK
  <2>6. ASSUME NEW x \in Requests \ {r}, pc[x] # "idle"
        PROVE  /\ req[x].purchase \in Purchases
               /\ <<req[x].purchase, req[x].at>> # <<p, t>>
    <3>1. req[x].purchase \in Purchases
      BY <1>0, <2>6 DEF ReqsOK, Fits, Reqs
    <3>2. t # 0
      BY <2>2 DEF Times
    <3> QED
      BY <2>1, <2>6, <3>1, <3>2 DEF LogInv, Logged, Stamped, Worked
  <2>7. Timely'
    <3>1. t <= clock[p]
      BY DEF LogInv, Timely
    <3> QED
      BY <2>1, <2>5, <3>1 DEF LogInv, Timely
  <2>8. ASSUME NEW x \in Requests, pc'[x] # "idle"
        PROVE  IF req'[x].kind = "device" THEN Stamped(req[x])' ELSE Worked(req[x])'
    <3>1. CASE x = r
      BY <2>2, <2>3, <2>5, <3>1 DEF Worked
    <3>2. CASE x # r
      BY <2>1, <2>4, <2>5, <2>6, <2>8, <3>2 DEF LogInv, Logged, Stamped, Worked
    <3> QED
      BY <3>1, <3>2
  <2>9. Logged'
    BY <2>8 DEF Logged
  <2>10. OneDelivery'
    BY <2>3, <2>4, <2>6 DEF LogInv, OneDelivery
  <2> QED
    BY <2>7, <2>9, <2>10
<1> QED
  BY <1>1, <1>2

LEMMA PresentLogged ==
  ASSUME LogInv, NEW r \in Requests, NEW p \in Purchases, NEW a \in Accounts,
         NEW bulk \in BOOLEAN, Present(r, p, a, bulk)
  PROVE  Timely' /\ Logged' /\ OneDelivery'
<1>0. ReqsOK
  BY DEF LogInv, RowInv
<1>1. UNCHANGED <<clock, log, sent, play>> /\ pc[r] = "idle" /\ Goto(r, "judge")
  BY DEF Present
<1>2. req'[r].kind = "device" /\ req'[r].at = 0
  <2>1. ASSUME NEW v, NEW t, NEW c,
               req' = [req EXCEPT ![r] = [NoReq EXCEPT !.kind = "device", !.purchase = p,
                         !.account = a, !.view = v, !.term = t, !.read = c]]
        PROVE  req'[r].kind = "device" /\ req'[r].at = 0
    BY <1>0, <2>1, Blank DEF ReqsOK, Reqs
  <2> QED
    BY <2>1 DEF Present
<1>3. \A x \in Requests \ {r} : pc'[x] = pc[x] /\ req'[x] = req[x]
  BY <1>0 DEF Present, ReqsOK, Goto
<1>4. Timely'
  BY <1>1 DEF LogInv, Timely
<1>5. ASSUME NEW x \in Requests, pc'[x] # "idle"
      PROVE  IF req'[x].kind = "device" THEN Stamped(req[x])' ELSE Worked(req[x])'
  <2>1. CASE x = r
    BY <1>2, <2>1 DEF Stamped
  <2>2. CASE x # r
    BY <1>1, <1>3, <1>5, <2>2 DEF LogInv, Logged, Stamped, Worked
  <2> QED
    BY <2>1, <2>2
<1>6. Logged'
  BY <1>5 DEF Logged
<1>7. ASSUME NEW x \in Requests \ {r}, pc[x] # "idle", req[x].kind # "device"
      PROVE  req[x].at # 0
  BY <1>7 DEF LogInv, Logged, Worked, Times
<1>8. OneDelivery'
  BY <1>2, <1>3, <1>7 DEF LogInv, OneDelivery
<1> QED
  BY <1>4, <1>6, <1>8

LEMMA JudgeLogged ==
  ASSUME LogInv, NEW r \in Requests, Judge(r), req[r].kind = "device"
  PROVE  Timely' /\ Logged' /\ OneDelivery'
<1> DEFINE p == req[r].purchase
<1>0. ReqsOK /\ ClocksOK /\ LogOK /\ req[r] \in Reqs /\ p \in Purchases
  BY DEF LogInv, RowInv, Judge, ReqsOK, Fits, Reqs
<1>1. Ticks(1, {p}) /\ UNCHANGED <<sent, log>>
  BY DEF Judge
<1>2. /\ clock' \in [Purchases -> Clock] /\ clock'[p] = clock[p] + 1 /\ clock'[p] \in Times
      /\ \A x \in Purchases : clock[x] \in Nat /\ clock'[x] \in Nat /\ clock[x] <= clock'[x]
  BY <1>0, <1>1, Ticking DEF ClocksOK, Clock
<1>3. /\ req'[r].kind = "device" /\ req'[r].at = clock'[p] /\ req'[r].purchase = p
      /\ \A x \in Requests \ {r} : pc'[x] = pc[x] /\ req'[x] = req[x]
  <2>1. ASSUME NEW t, NEW v, NEW s,
               req' = [req EXCEPT ![r].at = t, ![r].view = v, ![r].status = s]
        PROVE  /\ req'[r].kind = "device" /\ req'[r].at = t /\ req'[r].purchase = p
               /\ \A x \in Requests \ {r} : req'[x] = req[x]
    BY <1>0, <2>1 DEF ReqsOK, Reqs
  <2>2. \A x \in Requests \ {r} : pc'[x] = pc[x]
    BY <1>0 DEF Judge, Goto, ReqsOK
  <2> DEFINE st == StatusOf(req[r].view, req[r].term # play[p].term)
             at == IF req[r].kind = "device" THEN clock'[p] ELSE req[r].at
  <2>3. req' = [req EXCEPT ![r].at = at, ![r].view = "none", ![r].status = st]
    BY DEF Judge
  <2>4. at = clock'[p]
    OBVIOUS
  <2> HIDE DEF at, st
  <2> QED
    BY <2>1, <2>2, <2>3, <2>4
<1>4. /\ log[p][clock'[p]] = "none"
      /\ \A n \in sent : <<n.purchase, n.at>> # <<p, clock'[p]>>
  BY <1>0, <1>2 DEF LogInv, Timely, LogOK, Outcomes
<1>5. Timely'
  <2>1. ASSUME NEW n \in sent
        PROVE  n.at <= clock'[n.purchase]
    <3>1. n.purchase \in Purchases /\ n.at \in Nat
      BY <1>0 DEF LogOK, Notices, Times
    <3> QED
      BY <1>2, <3>1 DEF LogInv, Timely
  <2>2. ASSUME NEW x \in Purchases, NEW t \in Times, log[x][t] # "none"
        PROVE  t <= clock'[x]
    <3>1. t <= clock[x] /\ t \in Nat
      BY <2>2 DEF LogInv, Timely, Times
    <3> QED
      BY <1>2, <3>1
  <2> QED
    BY <1>1, <2>1, <2>2 DEF Timely
<1>6. ASSUME NEW x \in Requests \ {r}, pc[x] # "idle"
      PROVE  /\ <<req[x].purchase, req[x].at>> # <<p, clock'[p]>>
             /\ IF req[x].kind = "device" THEN Stamped(req[x])' ELSE Worked(req[x])'
  <2>1. req[x].purchase \in Purchases
    BY <1>0, <1>6 DEF ReqsOK, Fits, Reqs
  <2>2. CASE req[x].kind # "device"
    <3>1. Worked(req[x])
      BY <1>6, <2>2 DEF LogInv, Logged
    <3>2. Worked(req[x])'
      BY <1>1, <1>3, <3>1 DEF Worked
    <3> QED
      BY <1>4, <2>2, <3>1, <3>2 DEF Worked
  <2>3. CASE req[x].kind = "device" /\ req[x].at # 0
    <3>1. /\ req[x].at \in Times /\ req[x].at \in Nat /\ req[x].at <= clock[req[x].purchase]
          /\ log[req[x].purchase][req[x].at] = "none"
          /\ \A n \in sent : <<n.purchase, n.at>> # <<req[x].purchase, req[x].at>>
      BY <1>6, <2>3 DEF LogInv, Logged, Stamped, Times
    <3>2. req[x].at <= clock'[req[x].purchase]
      BY <1>2, <2>1, <3>1
    <3>3. Stamped(req[x])'
      BY <1>1, <1>3, <3>1, <3>2 DEF Stamped
    <3> QED
      BY <1>2, <2>1, <2>3, <3>1, <3>3
  <2>4. CASE req[x].kind = "device" /\ req[x].at = 0
    BY <1>2, <1>3, <2>4 DEF Stamped, Times
  <2> QED
    BY <2>2, <2>3, <2>4
<1>7. Stamped(req[r])'
  <2>1. /\ req'[r].at \in Times /\ req'[r].at <= clock'[req'[r].purchase]
        /\ log'[req'[r].purchase][req'[r].at] = "none"
    BY <1>0, <1>1, <1>2, <1>3, <1>4
  <2>2. \A n \in sent' : <<n.purchase, n.at>> # <<req'[r].purchase, req'[r].at>>
    BY <1>1, <1>3, <1>4
  <2> QED
    BY <2>1, <2>2 DEF Stamped
<1>8. Logged'
  BY <1>3, <1>6, <1>7 DEF Logged
<1>9. OneDelivery'
  BY <1>3, <1>6 DEF LogInv, OneDelivery
<1> QED
  BY <1>5, <1>8, <1>9

LEMMA RecordLogged ==
  ASSUME LogInv, NEW r \in Requests, Record(r)
  PROVE  Timely' /\ Logged' /\ OneDelivery'
<1> DEFINE p == req[r].purchase
           t == req[r].at
<1>0. ReqsOK /\ LogOK /\ p \in Purchases /\ req[r].kind # "device"
  BY DEF LogInv, RowInv, Record, ReqsOK, Fits, Reqs, Ready, Checked
<1>1. t \in Times /\ log[p][t] = "processing"
  BY <1>0 DEF Record, LogInv, Logged, Worked
<1>2. /\ sent' \subseteq sent /\ UNCHANGED clock /\ pc'[r] = "idle"
      /\ \A x \in Requests \ {r} : pc'[x] = pc[x] /\ req'[x] = req[x]
  BY <1>0 DEF Record, Reply, Goto, ReqsOK
<1>3. \A x \in Purchases, y \in Times : <<x, y>> # <<p, t>> => log'[x][y] = log[x][y]
  BY <1>0 DEF Record, LogOK
<1>4. \A x \in Requests \ {r} : pc[x] # "idle" =>
         /\ req[x].purchase \in Purchases /\ <<req[x].purchase, req[x].at>> # <<p, t>>
  BY <1>0 DEF Record, LogInv, OneDelivery, ReqsOK, Fits, Reqs
<1>5. Timely'
  BY <1>1, <1>2, <1>3 DEF LogInv, Timely
<1>6. ASSUME NEW x \in Requests, pc'[x] # "idle"
      PROVE  IF req'[x].kind = "device" THEN Stamped(req[x])' ELSE Worked(req[x])'
  <2>1. x # r /\ pc[x] # "idle" /\ req'[x] = req[x]
    BY <1>2, <1>6
  <2> QED
    BY <1>2, <1>3, <1>4, <2>1 DEF LogInv, Logged, Stamped, Worked
<1>7. Logged'
  BY <1>6 DEF Logged
<1>8. OneDelivery'
  BY <1>2 DEF LogInv, OneDelivery
<1> QED
  BY <1>5, <1>7, <1>8

LEMMA DeliveryNext == LogInv /\ [Next]_vars => LogInv'
<1> SUFFICES ASSUME LogInv, [Next]_vars PROVE Timely' /\ Logged' /\ OneDelivery'
  BY RowNext DEF LogInv
<1>0. RowInv
  BY DEF LogInv
<1>1. ASSUME NEW r \in Requests, Works(r), ~ Record(r), ~ (Judge(r) /\ req[r].kind = "device")
      PROVE  Timely' /\ Logged' /\ OneDelivery'
  <2>1. UNCHANGED <<clock, log, sent>>
    BY <1>1 DEF Works, Bind, Fetch, Link, Judge, Write, Revoke, Terminate, Fail, Crash
  <2>2. pc'[r] = "idle" \/ Keeps(r)
    BY <1>0, <1>1, WorksKeep
  <2>3. \A x \in Requests \ {r} : pc'[x] = pc[x] /\ req'[x] = req[x]
    BY <1>0, <1>1, Others
  <2> QED
    BY <2>1, <2>2, <2>3, KeptLogged
<1>2. CASE UNCHANGED vars
  BY <1>2, KeptLogged DEF vars
<1> QED
  BY <1>1, <1>2, SaleLogged, ReceiveLogged, PresentLogged, JudgeLogged, RecordLogged, StepSplit

\* Two deliveries of a notice are never worked on at once: OneDelivery.
THEOREM DeliveryIsOne == Spec => []OneDelivery
<1>1. LogInv => OneDelivery
  BY DEF LogInv
<1> QED
  BY <1>1, LogInit, DeliveryNext, PTL DEF Spec

-----------------------------------------------------------------------------
(* Rows are true.  What Play says moves in few ways. *)

Truth == LogInv /\ TruthInv

Moved(x) ==
    \/ play'[x] = play[x]
    \/ /\ play'[x].since = clock'[x] /\ clock[x] < clock'[x] /\ ~ Over(x)
       /\ play[x].state # "none" => play'[x].state # "none" /\ play'[x].link = play[x].link
       /\ Running(x) => Running(x)' \/ Over(x)'
       /\ play'[x].link # None => play'[x].link = play[x].link \/ Running(play'[x].link)
       /\ Running(x)' => Running(x) \/ play'[x].link = None \/ Over(play[x].link)'

\* Clocks do not go back, and every purchase stays or moves.
Forth == /\ clock' \in [Purchases -> Clock] /\ play' \in [Purchases -> PlayRecords]
         /\ \A p \in Purchases : clock[p] <= clock'[p] /\ Moved(p)

LEMMA TakeoverMoves ==
  ASSUME ClocksOK, PlayOrder, NEW p \in Purchases, NEW q \in Purchases, p # q,
         Takeover(p, q, "active"), Running(q),
         play[p].state \in {"none", "pending"}, play[p].state = "pending" => play[p].link = q
  PROVE  \A x \in Purchases : Moved(x)
<1> DEFINE s == clock'[p]
           t == clock'[q]
<1>1. \A x \in {p, q} : clock[x] \in Nat /\ clock'[x] = clock[x] + 1
  <2>1. Ticks(2, {p, q})
    BY DEF Takeover
  <2>2. clock[p] \in Nat /\ clock[q] \in Nat
    BY DEF ClocksOK, Clock
  <2> QED
    BY <2>1, <2>2, Ticking DEF ClocksOK
<1>2. /\ play'[p] = [play[p] EXCEPT !.state = "active", !.link = q, !.since = s]
      /\ play'[q] = [play[q] EXCEPT !.state = "ended", !.since = t]
      /\ \A x \in Purchases \ {p, q} : play'[x] = play[x]
  BY DEF Takeover, ClocksOK
<1> HIDE DEF s, t
<1>3. /\ play'[p].state = "active" /\ play'[p].link = q /\ play'[p].since = s
      /\ play'[q].state = "ended" /\ play'[q].link = play[q].link /\ play'[q].since = t
  <2>1. play[p] \in PlayRecords /\ play[q] \in PlayRecords
    BY DEF ClocksOK
  <2> QED
    BY <1>2, <2>1 DEF PlayRecords
<1>4. Moved(p)
  BY <1>1, <1>3 DEF Moved, Over, Running, s
<1>5. Moved(q)
  BY <1>1, <1>3 DEF Moved, Over, Running, t
<1> QED
  BY <1>2, <1>4, <1>5 DEF Moved

LEMMA ChangeMoves ==
  ASSUME ClocksOK, PlayOrder, NEW p \in Purchases, NEW q \in Purchases \cup {None},
         NEW new \in PlayStates \ {"none"}, Change(p, q, new), ~ Over(p),
         IF play[p].state = "none" THEN q # None => Running(q) ELSE q = play[p].link,
         Running(p) => new \in {"active", "held", "ended", "void"},
         new \in {"active", "held"} => Running(p) \/ q = None \/ ~ Running(q),
         new = "held" => Running(p),
         play[p].state = "none" /\ new = "active" => q = None
  PROVE  \A x \in Purchases : Moved(x)
<1> DEFINE s == clock'[p]
           n == IF Rolls(play[p].state, new) THEN 1 ELSE 0
<1>1. clock[p] \in Nat /\ clock'[p] = clock[p] + 1
  BY Ticking DEF Change, ClocksOK, Clock
<1>2. /\ play'[p] = [state |-> new, link |-> q, since |-> s, term |-> play[p].term + n]
      /\ \A x \in Purchases \ {p} : play'[x] = play[x]
  BY DEF Change, ClocksOK
<1> HIDE DEF s, n
<1>3. play'[p].state = new /\ play'[p].link = q /\ play'[p].since = s
  BY <1>2
<1>4. Running(p)' => Running(p) \/ q = None \/ Over(play[p].link)'
  <2>1. CASE new = "active" /\ ~ Running(p) /\ q # None
    <3>1. Over(q) /\ q # p /\ q \in Purchases
      BY <2>1 DEF PlayOrder
    <3> QED
      BY <1>2, <1>3, <3>1 DEF Over
  <2> QED
    BY <1>3, <2>1 DEF Running
<1>5. Moved(p)
  BY <1>1, <1>3, <1>4 DEF Moved, Over, Running, s
<1> QED
  BY <1>2, <1>5 DEF Moved

LEMMA SaleMoves ==
  ASSUME ClocksOK, PlayOrder, Sales
  PROVE  \A x \in Purchases : Moved(x)
<1>1. ASSUME NEW p \in Purchases, NEW q \in Purchases \cup {None}, NEW new \in Starts,
             PlaySells(p, q, new)
      PROVE  \A x \in Purchases : Moved(x)
  <2>1. /\ new \in {"pending", "active"} /\ new \in PlayStates \ {"none"} /\ ~ Running(p)
        /\ ~ Over(p) /\ play[p].state = "none" /\ q # p /\ (q # None => Running(q))
    BY <1>1, StartAssumption DEF PlaySells, PlayStates, Running, Over
  <2>2. CASE q # None /\ new = "active"
    BY <1>1, <2>1, <2>2, TakeoverMoves DEF PlaySells
  <2>3. CASE ~ (q # None /\ new = "active")
    BY <1>1, <2>1, <2>3, ChangeMoves DEF PlaySells
  <2> QED
    BY <2>2, <2>3
<1>2. ASSUME NEW p \in Purchases, NEW new \in {"pending", "active", "held", "ended", "void"},
             PlayChanges(p, new)
      PROVE  \A x \in Purchases : Moved(x)
  <2> DEFINE q == play[p].link
             old == play[p].state
  <2>1. q \in Purchases \cup {None} /\ old \in PlayStates
    BY DEF ClocksOK, PlayRecords
  <2>2. /\ new \in PlayStates \ {"none"} /\ old \in {"pending", "active", "held"}
        /\ old = "pending" => new \in {"active", "ended"}
        /\ old \in {"active", "held"} => new \in {"active", "held", "ended", "void"}
    BY <1>2, <2>1 DEF PlayChanges, After, PlayStates
  <2>3. ~ Over(p) /\ (Running(p) <=> old # "pending")
    BY <2>2 DEF Over, Running
  <2>4. CASE old = "pending" /\ new = "active" /\ q # None /\ Running(q)
    <3>1. q # p /\ q \in Purchases
      BY <2>1, <2>4 DEF Running
    <3> QED
      BY <1>2, <2>4, <3>1, TakeoverMoves DEF PlayChanges
  <2>5. CASE ~ (old = "pending" /\ new = "active" /\ q # None /\ Running(q))
    <3>1. Change(p, q, new)
      BY <1>2, <2>5 DEF PlayChanges
    <3> QED
      BY <2>1, <2>2, <2>3, <2>5, <3>1, ChangeMoves
  <2> QED
    BY <2>4, <2>5
<1> QED
  BY <1>1, <1>2 DEF Sales

\* What never changes again.
LEMMA OverStays ==
  ASSUME Forth, NEW p \in Purchases, Over(p)
  PROVE  play'[p] = play[p] /\ Over(p)'
  BY DEF Forth, Moved, Over

LEMMA SettledStays ==
  ASSUME ClocksOK, Forth, NEW p \in Purchases, Settled(p)
  PROVE  Settled(p)'
<1>1. /\ play[p].state # "none" /\ play[p].link \in Purchases \cup {None}
      /\ play[p].link # None => Over(play[p].link)
  BY DEF Settled, ClocksOK, PlayRecords
<1>2. play'[p].state # "none" /\ play'[p].link = play[p].link
  BY <1>1 DEF Forth, Moved
<1> QED
  BY <1>1, <1>2, OverStays DEF Settled, Over

\* A time that was not in the future when Play moved is not the time of what it says.
LEMMA CurrentStays ==
  ASSUME ClocksOK, PlayOrder, Forth, NEW p \in Purchases, NEW t \in Nat, t <= clock[p]
  PROVE  /\ t <= clock'[p]
         /\ play'[p].since <= t => play'[p] = play[p]
         /\ t # play[p].since => t # play'[p].since
<1>1. clock[p] \in Nat /\ clock'[p] \in Nat /\ clock[p] <= clock'[p] /\ Moved(p)
  BY DEF Forth, ClocksOK, Clock
<1>2. play'[p].since = play[p].since \/ (play'[p].since = clock'[p] /\ clock[p] < clock'[p])
  BY <1>1 DEF Moved
<1> QED
  BY <1>1, <1>2 DEF Moved

LEMMA OrderNext ==
  ASSUME ClocksOK, PlayOrder, Forth
  PROVE  PlayOrder'
<1> SUFFICES ASSUME NEW p \in Purchases
             PROVE  /\ play'[p].since <= clock'[p]
                    /\ play'[p].link # None => Running(play[p].link)' \/ Over(play[p].link)'
                    /\ Running(p)' => Settled(p)'
  BY DEF PlayOrder
<1>1. /\ clock[p] \in Nat /\ clock'[p] \in Nat /\ clock[p] <= clock'[p] /\ Moved(p)
      /\ play[p] \in PlayRecords /\ play'[p] \in PlayRecords
  BY DEF Forth, ClocksOK, Clock
<1>2. play[p].since \in Nat /\ play'[p].link \in Purchases \cup {None} /\ play[p].since <= clock[p]
  BY <1>1 DEF PlayRecords, Clock, PlayOrder
<1>3. play'[p].since <= clock'[p]
  BY <1>1, <1>2 DEF Moved
<1>4. ASSUME play'[p].link # None
      PROVE  Running(play[p].link)' \/ Over(play[p].link)'
  <2>1. PICK l \in Purchases : l = play'[p].link
    BY <1>2, <1>4
  <2>2. Running(l) \/ Over(l)
    BY <1>1, <1>4, <2>1 DEF Moved, PlayOrder
  <2>3. play'[l].state \in {"active", "held", "ended", "void"}
    BY <2>1, <2>2 DEF Forth, Moved, Running, Over
  <2> QED
    BY <2>1, <2>3 DEF Running, Over
<1>5. ASSUME Running(p)'
      PROVE  Settled(p)'
  <2>1. CASE Running(p)
    <3>1. Settled(p)
      BY <2>1 DEF PlayOrder
    <3> QED
      BY <3>1, SettledStays
  <2>2. CASE ~ Running(p)
    BY <1>1, <1>5, <2>2 DEF Moved, Running, Settled, Over
  <2> QED
    BY <2>1, <2>2
<1> QED
  BY <1>3, <1>4, <1>5

LEMMA Forward ==
  ASSUME RowInv, PlayOrder, [Next]_vars
  PROVE  Forth
<1>0. ClocksOK /\ LogOK
  BY DEF RowInv
<1>1. ClocksOK'
  BY <1>0, PlayAdvances DEF Advances
<1>2. CASE Sales
  <2>1. \A p \in Purchases : clock[p] <= clock'[p]
    BY <1>0, <1>2, SaleSteps, NewNotices
  <2> QED
    BY <1>0, <1>1, <1>2, <2>1, SaleMoves DEF Forth, ClocksOK
<1>3. ASSUME UNCHANGED play, UNCHANGED clock \/ \E n, ps : Ticks(n, ps)
      PROVE  Forth
  <2>1. \A p \in Purchases : clock[p] <= clock'[p]
    BY <1>0, <1>3, TicksAny DEF ClocksOK, Clock
  <2> QED
    BY <1>1, <1>3, <2>1 DEF Forth, ClocksOK, Moved
<1>4. ASSUME NEW r \in Requests, Works(r)
      PROVE  UNCHANGED play /\ (UNCHANGED clock \/ \E n, ps : Ticks(n, ps))
  BY <1>4 DEF Works, Bind, Fetch, Link, Judge, Write, Revoke, Terminate, Record, Fail, Crash
<1>5. ASSUME NEW r \in Requests,
             \/ \E n \in sent : Receive(r, n)
             \/ \E p \in Purchases, a \in Accounts, bulk \in BOOLEAN : Present(r, p, a, bulk)
      PROVE  UNCHANGED <<play, clock>>
  BY <1>5 DEF Receive, Present
<1>6. CASE UNCHANGED vars
  BY <1>3, <1>6 DEF vars
<1> QED
  BY <1>2, <1>3, <1>4, <1>5, <1>6, StepSplit

\* A refund that is announced has been made.
LEMMA VoidsNext ==
  ASSUME RowInv, PlayOrder, VoidsKnown, [Next]_vars
  PROVE  VoidsKnown'
<1>0. ClocksOK /\ LogOK /\ Forth
  BY Forward DEF RowInv
<1>1. ASSUME NEW n \in sent, n.kind = "void"
      PROVE  play'[n.purchase].state = "void"
  <2>1. n.purchase \in Purchases /\ play[n.purchase].state = "void"
    BY <1>0, <1>1 DEF LogOK, Notices, VoidsKnown
  <2> QED
    BY <1>0, <2>1, OverStays DEF Over
<1>2. CASE sent' \subseteq sent
  BY <1>1, <1>2 DEF VoidsKnown
<1>3. ASSUME NEW p \in Purchases, NEW q \in Purchases, NEW new \in PlayStates, Takeover(p, q, new)
      PROVE  VoidsKnown'
  <2>1. \A n \in sent' : n \in sent \/ n.kind = "change"
    BY <1>3 DEF Takeover, Notice
  <2> QED
    BY <1>1, <2>1 DEF VoidsKnown
<1>4. ASSUME NEW p \in Purchases, NEW q \in Purchases \cup {None}, NEW new \in PlayStates,
             Change(p, q, new)
      PROVE  VoidsKnown'
  <2>1. \A n \in sent' : n \in sent \/ n.kind = "change" \/ (n.purchase = p /\ new = "void")
    BY <1>4 DEF Change, Notice
  <2>2. play'[p].state = new
    BY <1>0, <1>4 DEF Change, ClocksOK
  <2> QED
    BY <1>1, <2>1, <2>2 DEF VoidsKnown
<1>5. CASE Sales
  BY <1>0, <1>3, <1>4, <1>5, SaleSteps DEF Sold
<1>6. ASSUME NEW r \in Requests, Works(r)
      PROVE  sent' \subseteq sent
  BY <1>6 DEF Works, Bind, Fetch, Link, Judge, Write, Revoke, Terminate, Record, Fail, Crash
<1>7. ASSUME NEW r \in Requests,
             \/ \E n \in sent : Receive(r, n)
             \/ \E p \in Purchases, a \in Accounts, bulk \in BOOLEAN : Present(r, p, a, bulk)
      PROVE  sent' \subseteq sent
  BY <1>7 DEF Receive, Present
<1>8. CASE UNCHANGED vars
  BY <1>2, <1>8 DEF vars
<1> QED
  BY <1>2, <1>5, <1>6, <1>7, <1>8, StepSplit

-----------------------------------------------------------------------------
(* What a step does to the times of a row. *)

\* What a request that writes has found out.
LEMMA Writing ==
  ASSUME RowInv, NEW r \in Requests, pc[r] # "idle"
  PROVE  LET w == req[r]
         IN /\ w \in Reqs /\ w.purchase \in Purchases /\ w.at \in Nat /\ w.read \in Nat
            /\ w.at \in Clock /\ w.read \in Clock
            /\ row[w.purchase] \in Rows /\ row[w.purchase].seen \in Nat
            /\ row[w.purchase].read \in Nat /\ play[w.purchase] \in PlayRecords
            /\ clock[w.purchase] \in Nat /\ play[w.purchase].since \in Nat
<1> DEFINE w == req[r]
           p == w.purchase
<1>1. w \in Reqs /\ p \in Purchases
  BY DEF RowInv, ReqsOK, Fits, Reqs
<1>2. row[p] \in Rows /\ play[p] \in PlayRecords /\ clock[p] \in Clock
  BY <1>1 DEF RowInv, RowsOK, ClocksOK
<1>3. w.at \in Clock /\ w.read \in Clock
  BY <1>1 DEF Reqs
<1>4. row[p].seen \in Clock /\ row[p].read \in Clock /\ play[p].since \in Clock
  BY <1>2 DEF Rows, PlayRecords
<1> QED
  BY <1>1, <1>2, <1>3, <1>4 DEF Clock

\* The row that is written, and the others.
LEMMA WriteTimes ==
  ASSUME RowInv, NEW r \in Requests, Write(r), row' # row
  PROVE  LET w == req[r]
             p == w.purchase
         IN /\ row'[p].seen = w.at /\ row'[p].read = w.read /\ row'[p].by = row[p].by
            /\ row'[p].status = w.status /\ row'[p].term = w.term /\ row[p].seen <= w.at
            /\ \A q \in Purchases \ {p} :
                 /\ row'[q].seen = row[q].seen /\ row'[q].read = row[q].read
                 /\ row'[q].account = row[q].account /\ row'[q].term = row[q].term
                 /\ row'[q].by = row[q].by \/ TakesOver(r, q)
                 /\ TakesOver(r, q) => row'[q].status # "active"
                 /\ row'[q].status = "active" => row[q].status = "active"
                 /\ Live(q) => row'[q].status = "active" \/ TakesOver(r, q)
<1> DEFINE w == req[r]
           p == w.purchase
<1>0. /\ p \in Purchases /\ row \in [Purchases -> Rows] /\ row[p].seen \in Nat /\ w.at \in Nat
  BY Writing DEF Write, RowInv, RowsOK
<1>1. row' = [x \in Purchases |-> Written(r, x)] /\ ~ Stale(r)
  BY DEF Write
<1>2. /\ row'[p].seen = w.at /\ row'[p].read = w.read /\ row'[p].by = row[p].by
      /\ row'[p].status = w.status /\ row'[p].term = w.term
  BY <1>0, <1>1 DEF Written
<1>3. row[p].seen <= w.at
  BY <1>0, <1>1 DEF Stale
<1>4. ASSUME NEW q \in Purchases, q # p
      PROVE  /\ row'[q].seen = row[q].seen /\ row'[q].read = row[q].read
             /\ row'[q].account = row[q].account /\ row'[q].term = row[q].term
             /\ row'[q].by = row[q].by \/ TakesOver(r, q)
             /\ TakesOver(r, q) => row'[q].status # "active"
             /\ row'[q].status = "active" => row[q].status = "active"
             /\ Live(q) => row'[q].status = "active" \/ TakesOver(r, q)
  <2> DEFINE lapsed == row[q].account = w.account /\ Granting(q) /\ Past(q)
             st == IF lapsed THEN "expired"
                   ELSE IF TakesOver(r, q) /\ Granting(q) THEN "canceled" ELSE row[q].status
             by == IF TakesOver(r, q) THEN p ELSE row[q].by
             old == row[q]
  <2>1. row'[q] = [old EXCEPT !.status = st, !.by = by]
    BY <1>1, <1>4 DEF Written
  <2>2. old \in Rows
    BY <1>0
  <2>3. /\ st = "active" => old.status = "active"
        /\ TakesOver(r, q) => st # "active"
        /\ Live(q) => st = "active" \/ TakesOver(r, q)
        /\ by = old.by \/ TakesOver(r, q)
    BY DEF Live, Granting
  <2> HIDE DEF st, by, old
  <2>4. /\ row'[q].seen = old.seen /\ row'[q].read = old.read
        /\ row'[q].account = old.account /\ row'[q].term = old.term
        /\ row'[q].status = st /\ row'[q].by = by
    BY <2>1, <2>2 DEF Rows
  <2> QED
    BY <2>3, <2>4 DEF old
<1> QED
  BY <1>2, <1>3, <1>4

\* A refund, and a purchase that Play has forgotten, only end the row.
LEMMA EndTimes ==
  ASSUME RowInv, NEW r \in Requests, Revoke(r) \/ Terminate(r), row' # row
  PROVE  LET w == req[r]
             p == w.purchase
         IN /\ row'[p].seen = w.at /\ row[p].seen <= w.at /\ row'[p].by = row[p].by
            /\ row'[p].read = (IF pc[r] = "revoke" THEN w.at ELSE w.read)
            /\ row'[p].status # "active"
            /\ \A q \in Purchases \ {p} : row'[q] = row[q]
<1> DEFINE w == req[r]
           p == w.purchase
           old == row[p]
           st == IF old.status = "pending" THEN "canceled"
                 ELSE IF old.status = "active" THEN "expired" ELSE old.status
<1>0. /\ p \in Purchases /\ row \in [Purchases -> Rows] /\ old \in Rows
      /\ old.seen \in Nat /\ w.at \in Nat
  BY Writing DEF Revoke, Terminate, RowInv, RowsOK
<1>1. ~ Stale(r) /\ \A q \in Purchases \ {p} : row'[q] = row[q]
  BY <1>0 DEF Revoke, Terminate
<1>2. old.seen <= w.at
  BY <1>0, <1>1 DEF Stale
<1>3. CASE Revoke(r)
  <2> DEFINE at == w.at
  <2>1. row'[p] = [old EXCEPT !.status = "revoked", !.seen = at, !.read = at] /\ pc[r] = "revoke"
    BY <1>0, <1>3 DEF Revoke
  <2> HIDE DEF at, old
  <2>2. row'[p].status = "revoked" /\ row'[p].seen = at /\ row'[p].read = at /\ row'[p].by = old.by
    BY <1>0, <2>1 DEF Rows
  <2> QED
    BY <1>1, <1>2, <2>1, <2>2 DEF at, old
<1>4. CASE Terminate(r)
  <2> DEFINE at == w.at
             read == w.read
  <2>1. row'[p] = [old EXCEPT !.seen = at, !.read = read, !.status = st] /\ pc[r] = "terminate"
    BY <1>0, <1>4 DEF Terminate
  <2>2. st # "active"
    OBVIOUS
  <2> HIDE DEF at, read, old, st
  <2>3. row'[p].status = st /\ row'[p].seen = at /\ row'[p].read = read /\ row'[p].by = old.by
    BY <1>0, <2>1 DEF Rows
  <2> QED
    BY <1>1, <1>2, <2>1, <2>2, <2>3 DEF at, read, old
<1> QED
  BY <1>3, <1>4

LEMMA RowSame ==
  ASSUME RowInv, [Next]_vars, ~ \E r \in Requests : Write(r) \/ Revoke(r) \/ Terminate(r)
  PROVE  UNCHANGED row
<1>1. CASE Sales \/ UNCHANGED vars
  BY <1>1, Staying
<1>2. ASSUME NEW r \in Requests,
             \/ \E n \in sent : Receive(r, n)
             \/ \E p \in Purchases, a \in Accounts, bulk \in BOOLEAN : Present(r, p, a, bulk)
      PROVE  UNCHANGED row
  BY <1>2 DEF Receive, Present
<1>3. ASSUME NEW r \in Requests, Works(r), ~ (Write(r) \/ Revoke(r) \/ Terminate(r))
      PROVE  UNCHANGED row
  BY <1>3 DEF Works, Bind, Fetch, Link, Judge, Record, Fail, Crash
<1> QED
  BY <1>1, <1>2, <1>3, StepSplit

\* What a row has heard it does not forget.
LEMMA HeardStays ==
  ASSUME RowInv, [Next]_vars, NEW p \in Purchases, NEW t \in Nat, Heard(p, t)
  PROVE  Heard(p, t)'
<1>1. row[p].seen \in Nat /\ row'[p].seen \in Nat
  BY RowsNext DEF RowInv, RowsOK, Rows, Clock
<1>2. row[p].by # None => row'[p].by # None
  BY ReplacedNext
<1>3. row[p].seen <= row'[p].seen
  <2>1. CASE UNCHANGED row
    BY <1>1, <2>1
  <2>2. ASSUME NEW r \in Requests, Write(r), row' # row
        PROVE  row[p].seen <= row'[p].seen
    BY <1>1, <2>2, WriteTimes
  <2>3. ASSUME NEW r \in Requests, Revoke(r) \/ Terminate(r), row' # row
        PROVE  row[p].seen <= row'[p].seen
    BY <1>1, <2>3, EndTimes
  <2> QED
    BY <2>1, <2>2, <2>3, RowSame
<1> QED
  BY <1>1, <1>2, <1>3 DEF Heard
-----------------------------------------------------------------------------
(* What a request has found out stays true, whatever Play does meanwhile. *)

LEMMA RequestKept ==
  ASSUME RowInv, PlayOrder, [Next]_vars, NEW step, NEW w \in Reqs, w.purchase \in Purchases,
         RequestTrue(step, w)
  PROVE  RequestTrue(step, w)'
<1> DEFINE p == w.purchase
<1>0. /\ ClocksOK /\ Forth /\ w.at \in Nat /\ w.read \in Nat
      /\ w.at <= clock[p] /\ w.read <= clock[p]
  BY Forward DEF RowInv, Reqs, Clock, RequestTrue
<1>1. /\ w.at <= clock'[p] /\ w.read <= clock'[p]
      /\ play'[p].since <= w.read => play'[p] = play[p]
      /\ w.at # play[p].since => w.at # play'[p].since
  BY <1>0, CurrentStays
<1>2. play[p].state = "void" => play'[p].state = "void"
  BY <1>0, OverStays DEF Over
<1>3. Settled(p) => Settled(p)'
  BY <1>0, SettledStays
<1>4. Heard(p, w.at) => Heard(p, w.at)'
  BY <1>0, HeardStays
<1> HIDE DEF p
<1> QED
  BY <1>1, <1>2, <1>3, <1>4 DEF RequestTrue, Current, Answers, p

\* The next state of a request, by its parts.
LEMMA RequestIs ==
  ASSUME NEW r \in Requests, NEW step, NEW w, pc'[r] = step, req'[r] = w,
         RequestTrue(step, w)'
  PROVE  RequestTrue(pc[r], req[r])'
  BY DEF RequestTrue, Settled, Over, Current, Answers, Heard

\* A request that is done has been heard of, if it says so.
LEMMA FinishTrue ==
  ASSUME LogInv, RequestsTrue, NEW r \in Requests, NEW o, Finish(r, o), pc[r] # "idle",
         UNCHANGED clock,
         o \in Dealt => \/ req[r].at <= row'[req[r].purchase].seen
                       \/ row'[req[r].purchase].by # None
  PROVE  RequestTrue(pc[r], req[r])'
<1> DEFINE k == req[r].kind
           t == req[r].at
           p == req[r].purchase
           w == [NoReq EXCEPT !.kind = k, !.at = t, !.purchase = p, !.outcome = o]
<1>0. RowInv /\ ReqsOK
  BY DEF LogInv, RowInv
<1>1. p \in Purchases /\ t \in Nat /\ clock[p] \in Nat
  BY <1>0, Writing
<1>2. t <= clock[p]
  BY DEF RequestsTrue, RequestTrue
<1>3. pc'[r] = "finish" /\ req'[r] = w
  BY <1>0 DEF Finish, Goto, ReqsOK
<1> HIDE DEF k, t, p
<1>4. /\ w.purchase = p /\ w.at = t /\ w.outcome = o /\ w.read = 0
  BY DEF NoReq
<1> HIDE DEF w
<1>6. PICK q : q = req'[r]
  OBVIOUS
<1>7. RequestTrue("finish", q)'
  <2>1. q.purchase = req[r].purchase /\ q.at = req[r].at /\ q.outcome = o /\ q.read = 0
    BY <1>3, <1>4, <1>6 DEF p, t
  <2>2. q.at <= clock'[q.purchase] /\ 0 <= clock'[q.purchase]
    BY <1>1, <1>2, <2>1 DEF p, t
  <2> QED
    BY <2>1, <2>2 DEF RequestTrue, Heard
<1> QED
  BY <1>3, <1>6, <1>7, RequestIs

LEMMA ReceiveTrue ==
  ASSUME LogInv, TruthInv, NEW r \in Requests, NEW n \in sent, Receive(r, n), pc'[r] # "idle"
  PROVE  RequestTrue(pc[r], req[r])'
<1> DEFINE k == n.kind
           t == n.at
           p == n.purchase
<1>0. ReqsOK /\ ClocksOK /\ n \in Notices /\ p \in Purchases
  BY DEF LogInv, RowInv, LogOK, Notices
<1>1. /\ t <= clock[p] /\ clock[p] \in Nat /\ (k = "void" => play[p].state = "void")
  BY <1>0 DEF LogInv, Timely, TruthInv, VoidsKnown, ClocksOK, Clock
<1>2. /\ pc'[r] = "bind" /\ UNCHANGED <<clock, play>>
      /\ req'[r] = [NoReq EXCEPT !.kind = k, !.at = t, !.purchase = p]
  BY <1>0 DEF Receive, Goto, ReqsOK
<1> HIDE DEF k, t, p
<1>3. req'[r].kind = k /\ req'[r].at = t /\ req'[r].purchase = p /\ req'[r].read = 0
  BY <1>2 DEF NoReq
<1>4. PICK w : w = req'[r]
  OBVIOUS
<1>5. RequestTrue("bind", w)'
  BY <1>1, <1>2, <1>3, <1>4 DEF RequestTrue
<1> QED
  BY <1>2, <1>4, <1>5, RequestIs

\* What Play has just said.
LEMMA JustSaid ==
  ASSUME ClocksOK, PlayOrder, UNCHANGED <<clock, play>>, NEW p \in Purchases,
         NEW v \in Answers(p), NEW w, w.purchase = p, w.view = v, w.term = play[p].term,
         w.read = clock[p], w.at \in Nat, w.at <= clock[p], NEW step \in {"judge", "link"}
  PROVE  RequestTrue(step, w)'
<1>1. clock[p] \in Nat
  BY DEF ClocksOK, Clock
<1>2. v = "active" => Settled(p)
  BY DEF Answers, PlayOrder, Running
<1>3. v = "gone" => play[p].state = "void"
  BY DEF Answers, ClocksOK, PlayRecords, PlayStates
<1> QED
  BY <1>1, <1>2, <1>3 DEF RequestTrue, Settled, Over, Current, Answers

LEMMA PresentTrue ==
  ASSUME LogInv, TruthInv, NEW r \in Requests, NEW p \in Purchases, NEW a \in Accounts,
         NEW bulk \in BOOLEAN, Present(r, p, a, bulk)
  PROVE  RequestTrue(pc[r], req[r])'
<1>0. ReqsOK /\ ClocksOK /\ PlayOrder /\ clock[p] \in Nat
  BY DEF LogInv, RowInv, TruthInv, ClocksOK, Clock
<1>1. PICK v \in Answers(p) :
        req' = [req EXCEPT ![r] = [NoReq EXCEPT !.kind = "device", !.purchase = p,
                  !.account = a, !.view = v, !.term = play[p].term, !.read = clock[p]]]
  BY DEF Present
<1>2. pc'[r] = "judge" /\ UNCHANGED <<clock, play>>
  BY <1>0 DEF Present, Goto, ReqsOK
<1> DEFINE t == play[p].term
           c == clock[p]
<1>3. req'[r] = [NoReq EXCEPT !.kind = "device", !.purchase = p, !.account = a, !.view = v,
                   !.term = t, !.read = c]
  BY <1>0, <1>1 DEF ReqsOK
<1> HIDE DEF t, c
<1>4. /\ req'[r].purchase = p /\ req'[r].view = v /\ req'[r].term = t
      /\ req'[r].read = c /\ req'[r].at = 0
  BY <1>3 DEF NoReq
<1>5. PICK w : w = req'[r]
  OBVIOUS
<1>6. RequestTrue("judge", w)'
  BY <1>0, <1>2, <1>4, <1>5, JustSaid DEF t, c
<1> QED
  BY <1>2, <1>5, <1>6, RequestIs

LEMMA BindTrue ==
  ASSUME LogInv, TruthInv, NEW r \in Requests, Bind(r)
  PROVE  RequestTrue(pc[r], req[r])'
<1> DEFINE x == req[r]
           p == x.purchase
           a == row[p].account
<1>0. RowInv /\ ReqsOK /\ UNCHANGED <<clock, play>> /\ pc[r] = "bind"
  BY DEF LogInv, RowInv, Bind
<1>1. x \in Reqs /\ p \in Purchases
  BY <1>0, Writing
<1>2. x.at <= clock[p] /\ x.read <= clock[p] /\ (x.kind = "void" => play[p].state = "void")
  BY <1>0 DEF TruthInv, RequestsTrue, RequestTrue
<1>3. ASSUME NEW step \in {"revoke", "fetch"}, Goto(r, step), step = "revoke" => x.kind = "void",
             req' = [req EXCEPT ![r].account = a]
      PROVE  RequestTrue(pc[r], req[r])'
  <2>1. pc'[r] = step /\ req'[r] = [x EXCEPT !.account = a]
    BY <1>0, <1>3 DEF Goto, ReqsOK
  <2> HIDE DEF x, a
  <2>2. /\ req'[r].at = x.at /\ req'[r].read = x.read /\ req'[r].purchase = p
    BY <1>1, <2>1 DEF Reqs
  <2>3. PICK w : w = req'[r]
    OBVIOUS
  <2>4. RequestTrue(step, w)'
    BY <1>0, <1>2, <1>3, <2>2, <2>3 DEF RequestTrue
  <2> QED
    BY <2>1, <2>3, <2>4, RequestIs
<1>4. CASE Finish(r, "unbound")
  BY <1>0, <1>4, FinishTrue DEF TruthInv, Dealt
<1> QED
  BY <1>3, <1>4 DEF Bind

LEMMA FetchTrue ==
  ASSUME LogInv, TruthInv, NEW r \in Requests, Fetch(r)
  PROVE  RequestTrue(pc[r], req[r])'
<1> DEFINE x == req[r]
           p == x.purchase
           t == play[p].term
           c == clock[p]
           step == IF x.account = None THEN "link" ELSE "judge"
<1>0. RowInv /\ ReqsOK /\ ClocksOK /\ PlayOrder /\ UNCHANGED <<clock, play>> /\ pc[r] = "fetch"
  BY DEF LogInv, RowInv, Fetch, TruthInv
<1>1. x \in Reqs /\ p \in Purchases /\ x.at \in Nat
  BY <1>0, Writing
<1>2. x.at <= c
  BY <1>0 DEF TruthInv, RequestsTrue, RequestTrue
<1>3. PICK v \in Answers(p) :
         IF v = "gone" THEN Finish(r, "rejected")
         ELSE req' = [req EXCEPT ![r].view = v, ![r].term = t, ![r].read = c] /\ Goto(r, step)
  BY DEF Fetch
<1>4. CASE v = "gone"
  BY <1>0, <1>3, <1>4, FinishTrue DEF TruthInv, Dealt
<1>5. CASE v # "gone"
  <2>1. pc'[r] = step /\ req'[r] = [x EXCEPT !.view = v, !.term = t, !.read = c]
    BY <1>0, <1>3, <1>5 DEF Goto, ReqsOK
  <2> HIDE DEF x, t, c, step
  <2>2. /\ req'[r].view = v /\ req'[r].term = t /\ req'[r].read = c
        /\ req'[r].at = x.at /\ req'[r].purchase = p
    BY <1>1, <2>1 DEF Reqs
  <2>3. PICK w, s : w = req'[r] /\ s = step
    OBVIOUS
  <2>4. step \in {"judge", "link"}
    BY DEF step
  <2>5. PICK q \in Purchases : q = p
    BY <1>1
  <2>6. RequestTrue(s, w)'
    <3>1. w.purchase = q /\ w.view = v /\ w.term = play[q].term /\ w.read = clock[q]
      BY <2>2, <2>3, <2>5 DEF t, c
    <3>2. w.at \in Nat /\ w.at <= clock[q] /\ v \in Answers(q)
      BY <1>1, <1>2, <2>2, <2>3, <2>5 DEF c
    <3> QED
      BY <1>0, <2>3, <2>4, <3>1, <3>2, JustSaid
  <2> QED
    BY <2>1, <2>3, <2>6, RequestIs
<1> QED
  BY <1>4, <1>5

\* The stamp of a device is after whatever Play has said.
LEMMA JudgeTrue ==
  ASSUME LogInv, TruthInv, NEW r \in Requests, Judge(r)
  PROVE  RequestTrue(pc[r], req[r])'
<1> DEFINE x == req[r]
           p == x.purchase
           at == IF x.kind = "device" THEN clock'[p] ELSE x.at
           status == StatusOf(x.view, x.term # play[p].term)
           step == IF x.view = "gone" THEN "terminate" ELSE "write"
<1>0. RowInv /\ ReqsOK /\ ClocksOK /\ PlayOrder /\ UNCHANGED play /\ pc[r] = "judge"
  BY DEF LogInv, RowInv, Judge, TruthInv
<1>1. /\ x \in Reqs /\ p \in Purchases /\ x.at \in Nat /\ x.read \in Nat /\ clock[p] \in Nat
      /\ play[p].since \in Nat /\ play[p].since <= clock[p]
  BY <1>0, Writing DEF PlayOrder
<1>2. RequestTrue("judge", x)
  BY <1>0 DEF TruthInv, RequestsTrue
<1>3. CASE ~ (x.kind = "device" \/ IsBuyer(p, x.account))
  BY <1>0, <1>3, FinishTrue DEF Judge, TruthInv, Dealt
<1>4. CASE x.kind = "device" \/ IsBuyer(p, x.account)
  <2>1. /\ clock'[p] \in Nat /\ at <= clock'[p] /\ x.read <= clock'[p]
        /\ at <= x.read \/ at # play[p].since
    <3>1. CASE x.kind = "device"
      <4>1. Ticks(1, {p})
        BY <1>4, <3>1 DEF Judge
      <4>2. clock'[p] = clock[p] + 1
        BY <1>0, <1>1, <4>1, Ticking
      <4> QED
        BY <1>1, <1>2, <3>1, <4>2 DEF RequestTrue
    <3>2. CASE x.kind # "device"
      <4>1. UNCHANGED clock
        BY <1>4, <3>2 DEF Judge
      <4> QED
        BY <1>1, <1>2, <3>2, <4>1 DEF RequestTrue
    <3> QED
      BY <3>1, <3>2
  <2>2. /\ status = "active" <=> x.view = "active" /\ x.term = play[p].term
        /\ status \in {"active", "pending", "expired"}
    BY DEF StatusOf
  <2>3. pc'[r] = step /\ req'[r] = [x EXCEPT !.at = at, !.view = "none", !.status = status]
    BY <1>0, <1>4 DEF Judge, Goto, ReqsOK
  <2>4. /\ step = "terminate" => play[p].state = "void"
        /\ x.view = "active" => Settled(p)
        /\ Current(p, x.read) /\ step = "write" =>
              /\ x.term = play[p].term
              /\ x.view = "active" <=> play[p].state = "active"
    <3>1. play[p].state # "gone"
      BY <1>0, <1>1 DEF ClocksOK, PlayRecords, PlayStates
    <3> QED
      BY <1>2, <3>1 DEF RequestTrue, Answers
  <2>5. step \in {"write", "terminate"}
    OBVIOUS
  <2> HIDE DEF at, status, step
  <2>6. /\ req'[r].at = at /\ req'[r].read = x.read /\ req'[r].purchase = p
        /\ req'[r].status = status /\ req'[r].term = x.term
    <3> HIDE DEF x
    <3> QED
      BY <1>1, <2>3 DEF Reqs
  <2>7. PICK w, s : w = req'[r] /\ s = step
    OBVIOUS
  <2>8. PICK q \in Purchases : q = p
    BY <1>1
  <2>9. /\ w.purchase = q /\ w.at = at /\ w.read = x.read /\ w.status = status
        /\ w.term = x.term
    BY <2>6, <2>7, <2>8
  <2>10. (Settled(q) => Settled(q)') /\ (Current(q, w.read)' => Current(q, w.read))
    BY <1>0 DEF Settled, Over, Current
  <2>11. RequestTrue(s, w)'
    <3>1. /\ w.at <= clock'[q] /\ w.read <= clock'[q] /\ (w.at <= w.read \/ w.at # play'[q].since)
          /\ s = "terminate" => play'[q].state = "void"
      BY <1>0, <2>1, <2>4, <2>7, <2>8, <2>9
    <3>2. /\ w.status = "active" => Settled(q)'
          /\ Current(q, w.read)' /\ s = "write" =>
                /\ w.status = "active" <=> play'[q].state = "active"
                /\ w.term = play'[q].term
      BY <1>0, <2>2, <2>4, <2>7, <2>8, <2>9, <2>10
    <3>3. s \in {"write", "terminate"} /\ w.purchase = q
      BY <2>5, <2>7, <2>9
    <3> QED
      BY <3>1, <3>2, <3>3 DEF RequestTrue
  <2> QED
    BY <2>3, <2>7, <2>11, RequestIs
<1> QED
  BY <1>3, <1>4

LEMMA WriteTrue ==
  ASSUME LogInv, TruthInv, NEW r \in Requests, Write(r), pc'[r] # "idle"
  PROVE  RequestTrue(pc[r], req[r])'
<1> DEFINE w == req[r]
           p == w.purchase
           a == w.account
           q == play[p].link
           fate == IF Elsewhere(p, a) THEN "error"
                   ELSE IF Stale(r) \/ Replaced(r) THEN "stale"
                   ELSE IF q # None /\ Elsewhere(q, a) THEN "error"
                   ELSE IF Conflicts(r) THEN "rejected" ELSE "applied"
<1>0. RowInv /\ ReqsOK /\ pc[r] = "write" /\ UNCHANGED clock
  BY DEF LogInv, RowInv, Write
<1>1. p \in Purchases /\ w.at \in Nat /\ row[p].seen \in Nat
  BY <1>0, Writing
<1>2. /\ row' = IF fate = "applied" THEN [x \in Purchases |-> Written(r, x)] ELSE row
      /\ Refuse(r, fate)
  BY DEF Write
<1>3. fate = "stale" => Stale(r) \/ Replaced(r)
  OBVIOUS
<1>4. fate \in Dealt => fate = "applied" \/ fate = "stale"
  BY DEF Dealt
<1> HIDE DEF fate
<1>5. CASE fate = "applied"
  <2>1. row'[p].seen = w.at
    BY <1>1, <1>2, <1>5 DEF Written
  <2>2. Finish(r, fate)
    BY <1>0, <1>2 DEF Refuse, Reply, Goto, ReqsOK
  <2> QED
    BY <1>0, <1>1, <2>1, <2>2, FinishTrue DEF TruthInv
<1>6. CASE fate # "applied"
  <2>1. fate = "stale" => w.at <= row'[p].seen \/ row'[p].by # None
    BY <1>1, <1>2, <1>3, <1>6 DEF Stale, Replaced
  <2>2. Finish(r, fate)
    BY <1>0, <1>2 DEF Refuse, Reply, Goto, ReqsOK
  <2> QED
    BY <1>0, <1>4, <1>6, <2>1, <2>2, FinishTrue DEF TruthInv
<1> QED
  BY <1>5, <1>6

LEMMA RevokeTrue ==
  ASSUME LogInv, TruthInv, NEW r \in Requests, Revoke(r)
  PROVE  RequestTrue(pc[r], req[r])'
<1> DEFINE w == req[r]
           p == w.purchase
           old == row[p]
           at == w.at
<1>0. RowInv /\ RowsOK /\ pc[r] = "revoke" /\ UNCHANGED clock
  BY DEF LogInv, RowInv, Revoke
<1>1. p \in Purchases /\ at \in Nat /\ old.seen \in Nat /\ old \in Rows
  BY <1>0, Writing
<1>2. CASE Stale(r)
  BY <1>0, <1>1, <1>2, FinishTrue DEF Revoke, TruthInv, Stale
<1>3. CASE ~ Stale(r)
  <2>1. row'[p] = [old EXCEPT !.status = "revoked", !.seen = at, !.read = at]
    BY <1>0, <1>1, <1>3 DEF Revoke, RowsOK
  <2>2. row'[p].seen = at
    <3> HIDE DEF old, at
    <3> QED
      BY <1>1, <2>1 DEF Rows
  <2> QED
    BY <1>0, <1>1, <1>3, <2>2, FinishTrue DEF Revoke, TruthInv
<1> QED
  BY <1>2, <1>3

LEMMA WorksTrue ==
  ASSUME LogInv, TruthInv, NEW r \in Requests, Works(r), pc'[r] # "idle"
  PROVE  RequestTrue(pc[r], req[r])'
<1>0. ReqsOK
  BY DEF LogInv, RowInv
<1>1. CASE Link(r)
  <2> DEFINE x == req[r]
             a == row[play[x.purchase].link].account
  <2>0. UNCHANGED <<clock, play>> /\ pc[r] = "link"
    BY <1>1 DEF Link
  <2>1. RequestTrue("link", x) /\ x \in Reqs
    BY <1>0, <2>0 DEF TruthInv, RequestsTrue, ReqsOK
  <2>2. CASE Finish(r, "unbound")
    BY <2>0, <2>2, FinishTrue DEF TruthInv, Dealt
  <2>3. CASE Goto(r, "judge") /\ req' = [req EXCEPT ![r].account = a]
    <3>1. pc'[r] = "judge" /\ req'[r] = [x EXCEPT !.account = a]
      BY <1>0, <2>3 DEF Goto, ReqsOK
    <3> HIDE DEF a
    <3>2. /\ req'[r].at = x.at /\ req'[r].read = x.read /\ req'[r].purchase = x.purchase
          /\ req'[r].view = x.view /\ req'[r].term = x.term /\ req'[r].kind = x.kind
      <4> HIDE DEF x
      <4> QED
        BY <2>1, <3>1 DEF Reqs
    <3>3. PICK w : w = req'[r]
      OBVIOUS
    <3>4. PICK p : p = x.purchase
      OBVIOUS
    <3>5. (Settled(p) => Settled(p)') /\ (Current(p, w.read)' => Current(p, w.read))
          /\ Answers(p)' = Answers(p)
      BY <2>0 DEF Settled, Over, Current, Answers
    <3>6. RequestTrue("judge", w)'
      BY <2>0, <2>1, <3>2, <3>3, <3>4, <3>5 DEF RequestTrue
    <3> QED
      BY <3>1, <3>3, <3>6, RequestIs
  <2> QED
    BY <1>1, <2>2, <2>3 DEF Link
<1>2. CASE Fail(r)
  <2>1. Finish(r, "error") /\ pc[r] # "idle" /\ UNCHANGED clock
    BY <1>2 DEF Fail
  <2> QED
    BY <2>1, FinishTrue DEF TruthInv, Dealt
<1>3. CASE Terminate(r) \/ Record(r) \/ Crash(r)
  BY <1>0, <1>3 DEF Terminate, Record, Crash, Reply, Goto, ReqsOK
<1> QED
  BY <1>1, <1>2, <1>3, BindTrue, FetchTrue, JudgeTrue, WriteTrue, RevokeTrue DEF Works

LEMMA RequestsNext ==
  ASSUME LogInv, TruthInv, [Next]_vars
  PROVE  RequestsTrue'
<1> SUFFICES ASSUME NEW r \in Requests, pc'[r] # "idle"
             PROVE  RequestTrue(pc[r], req[r])'
  BY DEF RequestsTrue
<1>0. RowInv /\ PlayOrder
  BY DEF LogInv, TruthInv
<1>1. CASE pc'[r] = pc[r] /\ req'[r] = req[r]
  <2>1. PICK w, step : w = req[r] /\ step = pc[r]
    OBVIOUS
  <2>2. w \in Reqs /\ w.purchase \in Purchases
    BY <1>0, <1>1, <2>1, Writing
  <2>3. RequestTrue(step, w)
    BY <1>1, <2>1 DEF TruthInv, RequestsTrue
  <2>4. RequestTrue(step, w)'
    BY <1>0, <2>2, <2>3, RequestKept
  <2> QED
    BY <1>1, <2>1, <2>4, RequestIs
<1>2. CASE Sales \/ UNCHANGED vars
  BY <1>0, <1>1, <1>2, Staying
<1> QED
  BY <1>0, <1>1, <1>2, Others, ReceiveTrue, PresentTrue, WorksTrue, StepSplit

-----------------------------------------------------------------------------
(* Rows. *)

\* Of the next state of a row: what it says, apart from the log.
Says(p) ==
    /\ row[p].seen <= clock[p] /\ row[p].read <= clock[p]
    /\ row[p].by # None => Over(p)
    /\ row[p].read < row[p].seen => row[p].seen # play[p].since
    /\ Bound(p) /\ Current(p, row[p].read) => (Live(p) <=> play[p].state = "active")

\* A row that is not written, whatever Play does.
LEMMA RowKept ==
  ASSUME LogInv, TruthInv, [Next]_vars, NEW p \in Purchases, row'[p] = row[p]
  PROVE  Says(p)'
<1>0. RowInv /\ ClocksOK /\ PlayOrder /\ Forth
  BY Forward DEF LogInv, RowInv, TruthInv
<1>1. row[p].seen \in Nat /\ row[p].read \in Nat
  BY <1>0 DEF RowInv, RowsOK, Rows, Clock
<1>2. Says(p)
  BY DEF TruthInv, RowsTrue, RowTrue, Says
<1>3. /\ row[p].seen <= clock'[p] /\ row[p].read <= clock'[p]
      /\ play'[p].since <= row[p].read => play'[p] = play[p]
      /\ row[p].seen # play[p].since => row[p].seen # play'[p].since
  BY <1>0, <1>1, <1>2, CurrentStays DEF Says
<1>4. row[p].by # None => Over(p)'
  BY <1>0, <1>2, OverStays DEF Says
<1>5. play'[p] = play[p] => /\ Live(p)' <=> Live(p)
                            /\ Current(p, row[p].read)' => Current(p, row[p].read)
  BY DEF Live, Granting, Past, Current
<1>6. Current(p, row[p].read)' => play'[p] = play[p]
  BY <1>3 DEF Current
<1>7. Bound(p)' <=> Bound(p)
  BY DEF Bound
<1> QED
  BY <1>2, <1>3, <1>4, <1>5, <1>6, <1>7 DEF Says

\* A write that takes over a row knows that Play has ended its purchase.
LEMMA TakenOver ==
  ASSUME LogInv, TruthInv, NEW r \in Requests, Write(r), NEW q \in Purchases, TakesOver(r, q)
  PROVE  Over(q)
<1> DEFINE p == req[r].purchase
<1>1. RequestTrue("write", req[r])
  BY DEF Write, TruthInv, RequestsTrue
<1>2. Settled(p)
  BY <1>1 DEF RequestTrue, TakesOver
<1> QED
  BY <1>2 DEF Settled, TakesOver

LEMMA RowWritten ==
  ASSUME LogInv, TruthInv, NEW r \in Requests, Write(r), row' # row, NEW p \in Purchases
  PROVE  Says(p)'
<1> DEFINE w == req[r]
<1>0. RowInv /\ UNCHANGED <<clock, play>> /\ RequestTrue("write", w)
  BY DEF LogInv, Write, TruthInv, RequestsTrue
<1>1. Says(p)
  BY DEF TruthInv, RowsTrue, RowTrue, Says
<1>2. CASE p = w.purchase
  <2>1. /\ row'[p].seen = w.at /\ row'[p].read = w.read /\ row'[p].by = row[p].by
        /\ row'[p].status = w.status /\ row'[p].term = w.term
    BY <1>0, <1>2, WriteTimes
  <2>2. w.at \in Nat /\ w.read \in Nat
    BY <1>0, Writing DEF Write
  <2> QED
    BY <1>0, <1>1, <1>2, <2>1, <2>2
       DEF Says, RequestTrue, Over, Current, Live, Granting, Past
<1>3. CASE p # w.purchase
  <2>1. /\ row'[p].seen = row[p].seen /\ row'[p].read = row[p].read
        /\ row'[p].account = row[p].account /\ row'[p].term = row[p].term
        /\ row'[p].by = row[p].by \/ TakesOver(r, p)
        /\ TakesOver(r, p) => row'[p].status # "active"
        /\ row'[p].status = "active" => row[p].status = "active"
        /\ Live(p) => row'[p].status = "active" \/ TakesOver(r, p)
    BY <1>0, <1>3, WriteTimes
  <2>2. TakesOver(r, p) => Over(p)
    BY TakenOver
  <2>3. Live(p)' <=> Live(p) /\ ~ TakesOver(r, p)
    BY <1>0, <2>1 DEF Live, Granting, Past
  <2>4. (Over(p) <=> Over(p)') /\ (Over(p) => play[p].state # "active")
    BY <1>0 DEF Over
  <2> QED
    BY <1>0, <1>1, <2>1, <2>2, <2>3, <2>4 DEF Says, Bound, Current
<1> QED
  BY <1>2, <1>3

LEMMA RowEnded ==
  ASSUME LogInv, TruthInv, NEW r \in Requests, Revoke(r) \/ Terminate(r), row' # row,
         NEW p \in Purchases, p = req[r].purchase
  PROVE  Says(p)'
<1> DEFINE w == req[r]
<1>0. /\ RowInv /\ UNCHANGED <<clock, play>> /\ RequestTrue(pc[r], w)
      /\ pc[r] \in {"revoke", "terminate"}
  BY DEF LogInv, Revoke, Terminate, TruthInv, RequestsTrue
<1>1. Says(p)
  BY DEF TruthInv, RowsTrue, RowTrue, Says
<1>2. /\ row'[p].seen = w.at /\ row'[p].by = row[p].by /\ row'[p].status # "active"
      /\ row'[p].read = (IF pc[r] = "revoke" THEN w.at ELSE w.read)
  BY <1>0, EndTimes
<1>3. w.at \in Nat /\ w.read \in Nat
  BY <1>0, Writing
<1> QED
  BY <1>0, <1>1, <1>2, <1>3 DEF Says, RequestTrue, Over, Live, Granting

\* What the log says was dealt with, the row has heard of.
LEMMA DealtNext ==
  ASSUME LogInv, TruthInv, [Next]_vars, NEW p \in Purchases, NEW t \in Times,
         log'[p][t] \in Dealt
  PROVE  Heard(p, t)'
<1>0. RowInv /\ LogOK /\ ReqsOK /\ t \in Nat
  BY DEF LogInv, RowInv, Times
<1>1. CASE log'[p][t] = log[p][t]
  <2>1. Heard(p, t)
    BY <1>1 DEF TruthInv, RowsTrue, RowTrue
  <2> QED
    BY <1>0, <2>1, HeardStays
<1>2. ASSUME NEW r \in Requests, Record(r), log'[p][t] # log[p][t]
      PROVE  Heard(p, t)
  <2> DEFINE q == req[r].purchase
             at == req[r].at
             o == req[r].outcome
  <2>1. log' = [log EXCEPT ![q][at] = o] /\ pc[r] = "finish"
    BY <1>2 DEF Record
  <2>2. p = q /\ t = at
    BY <1>0, <1>2, <2>1 DEF LogOK
  <2>3. log'[p][t] = o
    BY <1>0, <2>1, <2>2 DEF LogOK
  <2>4. RequestTrue("finish", req[r])
    BY <2>1 DEF TruthInv, RequestsTrue
  <2> QED
    BY <2>2, <2>3, <2>4 DEF RequestTrue
<1>3. ASSUME NEW r \in Requests, NEW n \in sent, Receive(r, n), log'[p][t] # log[p][t]
      PROVE  FALSE
  <2> DEFINE q == n.purchase
             at == n.at
  <2>1. log' = [log EXCEPT ![q][at] = "processing"]
    BY <1>3 DEF Receive
  <2>2. log'[p][t] = "processing" \/ log'[p][t] = log[p][t]
    <3> HIDE DEF q, at
    <3> QED
      BY <1>0, <2>1 DEF LogOK
  <2> QED
    BY <1>3, <2>2 DEF Dealt
<1>4. ASSUME NEW r \in Requests, Works(r), ~ Record(r)
      PROVE  UNCHANGED log
  BY <1>4 DEF Works, Bind, Fetch, Link, Judge, Write, Revoke, Terminate, Fail, Crash
<1>5. ASSUME NEW r \in Requests, NEW q \in Purchases, NEW a \in Accounts, NEW bulk \in BOOLEAN,
             Present(r, q, a, bulk)
      PROVE  UNCHANGED log
  BY <1>5 DEF Present
<1>6. CASE Sales \/ UNCHANGED vars
  BY <1>0, <1>1, <1>6, Staying
<1>7. Heard(p, t) => Heard(p, t)'
  BY <1>0, HeardStays
<1> QED
  BY <1>1, <1>2, <1>3, <1>4, <1>5, <1>6, <1>7, StepSplit

LEMMA RowsTrueNext ==
  ASSUME LogInv, TruthInv, [Next]_vars
  PROVE  RowsTrue'
<1> SUFFICES ASSUME NEW p \in Purchases
             PROVE  RowTrue(p)'
  BY DEF RowsTrue
<1>0. RowInv
  BY DEF LogInv
<1>1. Says(p)'
  <2>1. CASE row'[p] = row[p]
    BY <2>1, RowKept
  <2>2. ASSUME NEW r \in Requests, Revoke(r) \/ Terminate(r), row' # row
        PROVE  Says(p)'
    <3>1. CASE p = req[r].purchase
      BY <2>2, <3>1, RowEnded
    <3>2. CASE p # req[r].purchase
      BY <1>0, <2>1, <2>2, <3>2, EndTimes
    <3> QED
      BY <3>1, <3>2
  <2> QED
    BY <1>0, <2>1, <2>2, RowWritten, RowSame
<1>2. \A t \in Times : log'[p][t] \in Dealt => Heard(p, t)'
  BY DealtNext
<1> QED
  BY <1>1, <1>2 DEF RowTrue, Says

-----------------------------------------------------------------------------
(* The invariant. *)

LEMMA TruthInit == Init => Truth
<1> SUFFICES ASSUME Init PROVE TruthInv
  BY LogInit DEF Truth
<1>1. PICK b \in Purchases \cup {None} : Bought(b)
  BY DEF Init
<1>2. ASSUME NEW p \in Purchases
      PROVE  /\ clock[p] = 0 /\ play[p].since = 0 /\ play[p].link = None /\ play[p].term = 0
             /\ play[p].state = IF p = b THEN "active" ELSE "none"
  <2>1. play[p] = [state |-> IF p = b THEN "active" ELSE "none", link |-> None,
                   term |-> 0, since |-> 0]
    BY <1>1 DEF Bought
  <2> QED
    BY <2>1 DEF Init
<1>3. ASSUME NEW p \in Purchases
      PROVE  /\ row[p].seen = 0 /\ row[p].read = 0 /\ row[p].by = None /\ row[p].term = 0
             /\ row[p].status = IF p = b THEN "active" ELSE "none"
             /\ p # b => row[p].account = None
  <2>1. row[p] = IF p = b THEN [NoRow EXCEPT !.account = BuyerOf[p], !.status = "active"]
                 ELSE NoRow
    BY <1>1 DEF Bought
  <2>2. CASE p = b
    BY <2>1, <2>2 DEF NoRow
  <2>3. CASE p # b
    BY <2>1, <2>3 DEF NoRow
  <2> QED
    BY <2>2, <2>3
<1>4. PlayOrder /\ VoidsKnown /\ RequestsTrue
  BY <1>2 DEF Init, PlayOrder, VoidsKnown, RequestsTrue, Running, Settled
<1>5. RowsTrue
  <2> SUFFICES ASSUME NEW p \in Purchases PROVE RowTrue(p)
    BY DEF RowsTrue
  <2>1. \A t \in Times : log[p][t] \notin Dealt
    BY DEF Init, Dealt
  <2> QED
    BY <1>2, <1>3, <2>1 DEF RowTrue, Bound, Live, Granting, Past
<1> QED
  BY <1>4, <1>5 DEF TruthInv

LEMMA TruthNext == Truth /\ [Next]_vars => Truth'
<1> SUFFICES ASSUME Truth, [Next]_vars PROVE Truth'
  OBVIOUS
<1>1. LogInv /\ TruthInv /\ RowInv /\ ClocksOK /\ PlayOrder /\ VoidsKnown
  BY DEF Truth, TruthInv, LogInv, RowInv
<1>2. LogInv'
  BY <1>1, DeliveryNext
<1>3. PlayOrder' /\ VoidsKnown'
  BY <1>1, Forward, OrderNext, VoidsNext
<1> QED
  BY <1>1, <1>2, <1>3, RequestsNext, RowsTrueNext DEF Truth, TruthInv

\* What the truth of rows rests on: TruthInv holds in every reachable state.
THEOREM BillingTruth == Spec => []TruthInv
<1>1. Truth => TruthInv
  BY DEF Truth
<1> QED
  BY <1>1, TruthInit, TruthNext, PTL DEF Spec

\* When the notice of the last change has been dealt with, a row grants exactly if
\* Play does, unless that change overtook a later stamp: TrueUnlessOvertaken.
THEOREM RowsAreTrue == Spec => []TrueUnlessOvertaken
<1>1. ASSUME Truth
      PROVE  TrueUnlessOvertaken
  <2> SUFFICES ASSUME NEW p \in Purchases, Bound(p), ~ Overtaken(p), play[p].since > 0,
                      log[p][play[p].since] \in {"applied", "stale"}
               PROVE  Live(p) <=> play[p].state = "active"
    BY DEF TrueUnlessOvertaken
  <2>0. RowInv /\ RowTrue(p)
    BY <1>1 DEF Truth, LogInv, TruthInv, RowsTrue
  <2>1. play[p].since \in Clock /\ row[p].seen \in Nat /\ row[p].read \in Nat
    BY <2>0 DEF RowInv, RowsOK, ClocksOK, PlayRecords, Rows, Clock
  <2>2. play[p].since \in Times /\ play[p].since \in Nat
    BY <2>1 DEF Clock, Times
  <2>3. Heard(p, play[p].since)
    BY <2>0, <2>2 DEF RowTrue, Dealt
  <2>4. CASE row[p].by # None
    BY <2>0, <2>4 DEF RowTrue, Over, RowInv, ReplacedOut, Live, Granting
  <2>5. CASE row[p].by = None
    <3>1. Current(p, row[p].read)
      BY <2>0, <2>1, <2>2, <2>3, <2>5 DEF Heard, Overtaken, RowTrue, Current
    <3> QED
      BY <2>0, <3>1 DEF RowTrue
  <2> QED
    BY <2>4, <2>5
<1> QED
  BY <1>1, TruthInit, TruthNext, PTL DEF Spec

=============================================================================
