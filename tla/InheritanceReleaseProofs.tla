----------------------- MODULE InheritanceReleaseProofs -----------------------
(***************************************************************************)
(* Proofs about InheritanceRelease: the state of a link, its dates, its    *)
(* package and its tokens agree, for any number of vaults, links, tokens   *)
(* and rotations and for any delays; and so ReleasePromise is kept.        *)
(***************************************************************************)
EXTENDS InheritanceRelease, TLAPS

-----------------------------------------------------------------------------
(* The inductive invariant. *)

\* A link that is not there has no package, and an id is handed out once.
LinksFresh == \A l \in Links : /\ l \notin born => link[l] = None
                               /\ link[l] = None => pkg[l] = None

\* Package ids grow.
IdsPast == \A l \in Links : pkg[l] # None => pkg[l].id <= packages

\* A rotation has started only where another key is allowed.
KeyRoom == \A v \in Vaults : rotating[v] # None => key[v] < MaxKey

RowsAgree == StampsAgree /\ EscrowBacksState /\ MirrorLagsRotationOnly

ReleaseInv == TypeOK /\ LinksFresh /\ IdsPast /\ KeyRoom /\ RowsAgree /\ OneLiveToken

-----------------------------------------------------------------------------
(* Which actions there are, and which leave what alone. *)

\* Steps on the rows of a link and its package.
Acts(v, l) == \/ Create(v, l) \/ PairWrite(v, l) \/ Save(v, l) \/ Replace(v, l)
              \/ DeletePackage(v, l) \/ DeleteLink(v, l) \/ Request(v, l)
              \/ Cancel(v, l) \/ Approve(v, l) \/ Reject(v, l)
              \/ Claim(v, l) \/ Retrieve(v, l)

RowStep == \E v \in Vaults, l \in Links : Acts(v, l)

\* The other steps.
SideStep == \/ Tick
            \/ \E v \in Vaults, l \in Links :
                 PairRead(v, l) \/ PairAbort(v, l) \/ FetchKey(v, l)
            \/ \E v \in Vaults : RotateBegin(v) \/ RotateAbort(v)
            \/ \E v \in Vaults, d \in Devices : DeviceStep(v, d)
            \/ \E v \in Vaults, d \in Devices, t \in Tokens : Consume(v, d, t)
            \/ \E v \in Vaults, l \in Links, t \in Tokens, d \in Devices :
                 Authorize(v, l, t, d)
            \/ \E t \in Tokens : ConsumeAbort(t)

LEMMA StepSplit == ASSUME Next PROVE RowStep \/ SideStep \/ \E v \in Vaults : RotateApply(v)
  BY Zenon DEF Next, RowStep, Acts, SideStep, Pair, Escrow, Release, Rotate, Consume

\* A side step leaves links and packages alone, and time does not go back.
LEMMA SideFrame ==
  ASSUME TypeOK, SideStep
  PROVE  UNCHANGED <<born, link, packages, pkg>> /\ now' \in Nat /\ now <= now'
<1>0. now \in Nat
  BY LimitAssumption DEF TypeOK
<1>1. CASE Tick
  BY <1>0, <1>1 DEF Tick, linkVars, escrowVars
<1>2. ASSUME NEW v \in Vaults, NEW l \in Links,
             PairRead(v, l) \/ PairAbort(v, l) \/ FetchKey(v, l)
      PROVE  UNCHANGED <<now, born, link, packages, pkg>>
  BY <1>2 DEF PairRead, PairAbort, FetchKey, linkVars, escrowVars
<1>3. ASSUME NEW v \in Vaults, RotateBegin(v) \/ RotateAbort(v)
      PROVE  UNCHANGED <<now, born, link, packages, pkg>>
  BY <1>3 DEF RotateBegin, RotateAbort, linkVars
<1>4. ASSUME NEW v \in Vaults, NEW d \in Devices, DeviceStep(v, d)
      PROVE  UNCHANGED <<now, born, link, packages, pkg>>
  BY <1>4 DEF DeviceStep, DeviceSeen, DeviceApproved, DeviceRevoked, linkVars, escrowVars
<1>5. ASSUME NEW v \in Vaults, NEW d \in Devices, NEW t \in Tokens, Consume(v, d, t)
      PROVE  UNCHANGED <<now, born, link, packages, pkg>>
  BY <1>5 DEF Consume, ConsumeBegin, ConsumeFinish, linkVars, escrowVars
<1>6. ASSUME NEW v \in Vaults, NEW l \in Links, NEW t \in Tokens, NEW d \in Devices,
             Authorize(v, l, t, d)
      PROVE  UNCHANGED <<now, born, link, packages, pkg>>
  BY <1>6 DEF Authorize, linkVars, escrowVars
<1>7. ASSUME NEW t \in Tokens, ConsumeAbort(t)
      PROVE  UNCHANGED <<now, born, link, packages, pkg>>
  BY <1>7 DEF ConsumeAbort, linkVars, escrowVars
<1> QED
  BY <1>0, <1>1, <1>2, <1>3, <1>4, <1>5, <1>6, <1>7 DEF SideStep

-----------------------------------------------------------------------------
(* Types. *)

\* The token rows a statement that revokes finds.
Alive == {t \in Tokens : auth[t] # None /\ auth[t].status = "live"}

\* What is revoked is live.
LEMMA AreAlive ==
  ASSUME TypeOK
  PROVE  /\ \A l \in Links : LiveTokens(l) \in SUBSET Alive
         /\ \A v \in Vaults : rotating[v] # None => SeenTokens(v) \in SUBSET Alive
<1>1. ASSUME NEW l \in Links PROVE LiveTokens(l) \in SUBSET Alive
  BY DEF LiveTokens, AuthsOf, Alive
<1>2. ASSUME NEW v \in Vaults, rotating[v] # None
      PROVE  SeenTokens(v) \in SUBSET Alive
  BY <1>1 DEF SeenTokens, SeenPackages, SeenLinks
<1> QED
  BY <1>1, <1>2

\* A live token, revoked or not, stays a token row.
LEMMA RevokedTyped ==
  ASSUME TypeOK, NEW T \in SUBSET Alive
  PROVE  Revoked(T) \in [Tokens -> AuthRows \cup {None}]
<1>1. ASSUME NEW t \in T
      PROVE  [auth[t] EXCEPT !.status = "revoked"] \in AuthRows
  <2>1. auth[t] \in AuthRows
    BY DEF TypeOK, Alive
  <2> QED
    BY <2>1 DEF AuthRows
<1> QED
  BY <1>1 DEF Revoked, TypeOK

\* The columns of a link a handler may write keep their types.
LEMMA RowTyped ==
  ASSUME NEW r \in LinkRows
  PROVE  /\ \A s \in PairingStates : [r EXCEPT !.state = s] \in LinkRows
         /\ \A s \in PairingStates, a \in Nat \cup {None}, e \in Nat \cup {None},
               b \in BOOLEAN :
              [r EXCEPT !.state = s, !.asked = a, !.ends = e, !.decided = b] \in LinkRows
         /\ \A s \in PairingStates, b \in BOOLEAN :
              [r EXCEPT !.state = s, !.decided = b] \in LinkRows
         /\ \A v \in Vaults : [r EXCEPT !.ben = v, !.status = "linked"] \in LinkRows
  BY DEF LinkRows

LEMMA MirrorTyped ==
  ASSUME TypeOK, NEW l \in Links, NEW s \in PairingStates
  PROVE  Mirrored(l, s) \in [Links -> PackageRows \cup {None}]
<1>1. CASE pkg[l] = None
  BY <1>1 DEF Mirrored, TypeOK
<1>2. CASE pkg[l] # None
  <2>1. pkg[l] \in PackageRows
    BY <1>2 DEF TypeOK
  <2>2. [pkg[l] EXCEPT !.state = s] \in PackageRows
    BY <2>1 DEF PackageRows
  <2> QED
    BY <1>2, <2>2 DEF Mirrored, TypeOK
<1> QED
  BY <1>1, <1>2

LEMMA ResetTyped ==
  ASSUME TypeOK, NEW l \in Links, Exists(l), NEW s \in PairingStates
  PROVE  Reset(l, s) \in [Links -> LinkRows \cup {None}]
<1>1. link[l] \in LinkRows
  BY DEF TypeOK, Exists
<1>2. [link[l] EXCEPT !.state = s, !.asked = None, !.ends = None, !.decided = FALSE]
        \in LinkRows
  BY <1>1, RowTyped
<1>3. [link[l] EXCEPT !.state = s] \in LinkRows
  BY <1>1, RowTyped
<1> QED
  BY <1>2, <1>3 DEF Reset, TypeOK

LEMMA InsertTyped ==
  ASSUME TypeOK, NEW l \in Links, offer[l] # None, packages < MaxPackages
  PROVE  /\ Inserted(l) \in [Links -> PackageRows \cup {None}]
         /\ packages + 1 \in 0 .. MaxPackages
<1>1. packages + 1 \in 1 .. MaxPackages
  BY LimitAssumption DEF TypeOK
<1>2. [id |-> packages + 1, wrappedFor |-> offer[l], state |-> "credentials_saved"]
        \in PackageRows
  BY <1>1 DEF PackageRows, PairingStates, TypeOK
<1> QED
  BY <1>1, <1>2, LimitAssumption DEF Inserted, TypeOK

\* A step on a row keeps the types of link, package and tokens.
LEMMA TypeRow == ASSUME TypeOK, RowStep PROVE TypeOK'
<1> SUFFICES ASSUME NEW v \in Vaults, NEW l \in Links, Acts(v, l)
             PROVE  TypeOK'
  BY DEF RowStep
<1>s. {"credentials_saved", "paired_no_credentials", "cooldown_active", "approved",
       "claimable", "released"} \subseteq PairingStates
  BY DEF PairingStates
<1>n. now \in Nat
  BY LimitAssumption DEF TypeOK
<1>1. CASE Create(v, l)
  <2>1. [owner |-> v, ben |-> None, status |-> "pairing_pending",
         codeUntil |-> now + PairTTL, state |-> "paired_no_credentials",
         asked |-> None, ends |-> None, decided |-> FALSE] \in LinkRows
    BY <1>n, <1>s, DelayAssumption DEF LinkRows
  <2> QED
    BY <1>1, <2>1 DEF Create, TypeOK, escrowVars, deviceVars, history
<1>2. CASE PairWrite(v, l)
  <2>1. link[l] # None => [link[l] EXCEPT !.ben = v, !.status = "linked"] \in LinkRows
    BY RowTyped DEF TypeOK
  <2>2. link' \in [Links -> LinkRows \cup {None}]
    BY <1>2, <2>1 DEF PairWrite, TypeOK, Exists
  <2> QED
    BY <1>2, <2>2 DEF PairWrite, TypeOK, escrowVars, deviceVars, history
<1>3. CASE Save(v, l)
  <2>1. link' \in [Links -> LinkRows \cup {None}]
    <3>1. link[l] \in LinkRows
      BY <1>3 DEF Save, OwnedBy, Exists, TypeOK
    <3>2. [link[l] EXCEPT !.state = "credentials_saved"] \in LinkRows
      BY <1>s, <3>1, RowTyped
    <3> QED
      BY <1>3, <3>2 DEF Save, TypeOK
  <2>2. pkg' \in [Links -> PackageRows \cup {None}] /\ packages' \in 0 .. MaxPackages
    BY <1>3, InsertTyped DEF Save
  <2> QED
    BY <1>3, <2>1, <2>2 DEF Save, TypeOK, deviceVars, history
<1>4. CASE Replace(v, l)
  <2>1. link' \in [Links -> LinkRows \cup {None}]
    BY <1>4, <1>s, ResetTyped DEF Replace, OwnedBy
  <2>2. pkg' \in [Links -> PackageRows \cup {None}] /\ packages' \in 0 .. MaxPackages
    BY <1>4, InsertTyped DEF Replace
  <2> QED
    BY <1>4, <2>1, <2>2 DEF Replace, TypeOK, deviceVars, history
<1>5. CASE DeletePackage(v, l)
  <2>1. link' \in [Links -> LinkRows \cup {None}]
    BY <1>5, <1>s, ResetTyped DEF DeletePackage, OwnedBy
  <2> QED
    BY <1>5, <2>1 DEF DeletePackage, TypeOK, deviceVars, history
<1>6. CASE DeleteLink(v, l)
  <2>1. ASSUME NEW t \in AuthsOf(l)
        PROVE  [auth[t] EXCEPT !.status = "deleted"] \in AuthRows
    <3>1. auth[t] \in AuthRows
      BY DEF AuthsOf, TypeOK
    <3> QED
      BY <3>1 DEF AuthRows
  <2>2. auth' \in [Tokens -> AuthRows \cup {None}]
    BY <1>6, <2>1 DEF DeleteLink, TypeOK
  <2> QED
    BY <1>6, <2>2 DEF DeleteLink, TypeOK, history
<1>7. CASE Request(v, l)
  <2>1. link[l] \in LinkRows /\ now + Cooldown \in Nat
    BY <1>7, <1>n, DelayAssumption DEF Request, BeneficiaryIs, Exists, TypeOK
  <2>2. [link[l] EXCEPT !.state = "cooldown_active", !.asked = now,
                        !.ends = now + Cooldown, !.decided = FALSE] \in LinkRows
    BY <1>s, <1>n, <2>1, RowTyped
  <2>3. pkg' \in [Links -> PackageRows \cup {None}]
    BY <1>7, <1>s, MirrorTyped DEF Request
  <2> QED
    BY <1>7, <2>2, <2>3 DEF Request, TypeOK, deviceVars, history
<1>8. ASSUME NEW b \in BOOLEAN, Exists(l), Withdrawn(l, b) PROVE TypeOK'
  <2>1. link[l] \in LinkRows
    BY <1>8 DEF Exists, TypeOK
  <2>2. [link[l] EXCEPT !.state = "credentials_saved", !.asked = None,
                        !.ends = None, !.decided = b] \in LinkRows
    BY <1>s, <2>1, RowTyped
  <2>3. pkg' \in [Links -> PackageRows \cup {None}]
    BY <1>8, <1>s, MirrorTyped DEF Withdrawn
  <2>4. auth' \in [Tokens -> AuthRows \cup {None}]
    BY <1>8, AreAlive, RevokedTyped DEF Withdrawn
  <2> QED
    BY <1>8, <2>2, <2>3, <2>4 DEF Withdrawn, TypeOK, history
<1>9. CASE Approve(v, l)
  <2>1. link[l] \in LinkRows
    BY <1>9 DEF Approve, OwnedBy, Exists, TypeOK
  <2>2. [link[l] EXCEPT !.state = "approved", !.decided = TRUE] \in LinkRows
    BY <1>s, <2>1, RowTyped
  <2>3. pkg' \in [Links -> PackageRows \cup {None}]
    BY <1>9, <1>s, MirrorTyped DEF Approve
  <2> QED
    BY <1>9, <2>2, <2>3 DEF Approve, TypeOK, deviceVars, history
<1>10. CASE Claim(v, l)
  <2>1. link[l] \in LinkRows
    BY <1>10 DEF Claim, BeneficiaryIs, Exists, TypeOK
  <2>2. [link[l] EXCEPT !.state = "claimable"] \in LinkRows
    BY <1>s, <2>1, RowTyped
  <2>3. pkg' \in [Links -> PackageRows \cup {None}]
    BY <1>10, <1>s, MirrorTyped DEF Claim
  <2> QED
    BY <1>10, <2>2, <2>3 DEF Claim, TypeOK, deviceVars, history
<1>11. CASE Retrieve(v, l)
  <2>1. link[l] \in LinkRows
    BY <1>11 DEF Retrieve, BeneficiaryIs, Exists, TypeOK
  <2>2. [link[l] EXCEPT !.state = "released"] \in LinkRows
    BY <1>s, <2>1, RowTyped
  <2>3. pkg' \in [Links -> PackageRows \cup {None}]
    BY <1>11, <1>s, MirrorTyped DEF Retrieve
  <2>4. <<l, pkg[l].id>> \in Links \X (1 .. MaxPackages)
    BY <1>11 DEF Retrieve, TypeOK, PackageRows
  <2> QED
    BY <1>11, <2>2, <2>3, <2>4 DEF Retrieve, TypeOK, deviceVars
<1> QED
  BY <1>1, <1>2, <1>3, <1>4, <1>5, <1>6, <1>7, <1>8, <1>9, <1>10, <1>11
     DEF Acts, Cancel, Reject, BeneficiaryIs, OwnedBy

\* A side step keeps the types of the handlers' and the tokens' state.
LEMMA TypeSide == ASSUME TypeOK, OneLiveToken, SideStep PROVE TypeOK'
<1> USE DEF DeviceStatus
<1>1. CASE Tick
  BY <1>1, LimitAssumption DEF Tick, TypeOK, linkVars, escrowVars, deviceVars, history
<1>2. ASSUME NEW v \in Vaults, NEW l \in Links, PairRead(v, l) \/ PairAbort(v, l)
      PROVE  TypeOK'
  BY <1>2 DEF PairRead, PairAbort, TypeOK, escrowVars, deviceVars, history
<1>3. ASSUME NEW v \in Vaults, NEW l \in Links, FetchKey(v, l) PROVE TypeOK'
  <2>1. link[l] \in LinkRows
    BY <1>3 DEF FetchKey, OwnedBy, Exists, TypeOK
  <2>2. link[l].ben \in Vaults
    BY <1>3, <2>1 DEF FetchKey, LinkRows
  <2>3. [vault |-> link[l].ben, key |-> key[link[l].ben]] \in WrapKeys
    BY <2>2 DEF WrapKeys, TypeOK
  <2> QED
    BY <1>3, <2>3 DEF FetchKey, TypeOK, linkVars, deviceVars, history
<1>4. ASSUME NEW v \in Vaults, RotateBegin(v) PROVE TypeOK'
  <2>1. [seen |-> LivePackages(v),
         tokens |-> {t \in Tokens : \E x \in LivePackages(v) : t \in LiveTokens(x[1])}]
            \in Snapshots
    BY DEF Snapshots, LivePackages
  <2> QED
    BY <1>4, <2>1 DEF RotateBegin, TypeOK, linkVars, deviceVars, history
<1>5. ASSUME NEW v \in Vaults, RotateAbort(v) PROVE TypeOK'
  BY <1>5 DEF RotateAbort, TypeOK, linkVars, deviceVars, history
<1>6. ASSUME NEW v \in Vaults, NEW d \in Devices, DeviceStep(v, d) PROVE TypeOK'
  <2>1. \E f \in [Devices -> DeviceStatus] : device' = [device EXCEPT ![v] = f]
    <3>1. CASE DeviceSeen(v, d)
      BY <3>1 DEF DeviceSeen, TypeOK
    <3>2. CASE DeviceApproved(v, d) \/ DeviceRevoked(v, d)
      <4>1. \E s \in DeviceStatus : device' = [device EXCEPT ![v] = [@ EXCEPT ![d] = s]]
        BY <3>2 DEF DeviceApproved, DeviceRevoked
      <4> QED
        BY <4>1 DEF TypeOK
    <3> QED
      BY <1>6, <3>1, <3>2 DEF DeviceStep
  <2>2. device' \in [Vaults -> [Devices -> DeviceStatus]]
    BY <2>1 DEF TypeOK
  <2> QED
    BY <1>6, <2>2 DEF DeviceStep, DeviceSeen, DeviceApproved, DeviceRevoked, TypeOK, linkVars,
                      escrowVars, history
<1>7. ASSUME NEW v \in Vaults, NEW d \in Devices, NEW t \in Tokens, ConsumeBegin(v, d, t)
      PROVE  TypeOK'
  BY <1>7 DEF ConsumeBegin, TypeOK, linkVars, escrowVars, history
<1>8. ASSUME NEW v \in Vaults, NEW d \in Devices, NEW t \in Tokens,
             ConsumeFinish(v, d, t)
      PROVE  TypeOK'
  <2>1. auth[t] \in AuthRows
    BY <1>8 DEF ConsumeFinish, OneLiveToken, TypeOK
  <2>2. [auth[t] EXCEPT !.status = "consumed"] \in AuthRows /\ auth[t].link \in Links
    BY <2>1 DEF AuthRows
  <2>3. auth' \in [Tokens -> AuthRows \cup {None}]
    BY <1>8, <2>2 DEF ConsumeFinish, TypeOK
  <2>4. device' \in [Vaults -> [Devices -> DeviceStatus]]
        /\ trusted' \subseteq Links \X Devices
    <3>1. CASE device[v][d] = "pending"
      <4>1. device' = [device EXCEPT ![v] = [device[v] EXCEPT ![d] = "trusted"]]
            /\ trusted' = trusted \cup {<<auth[t].link, d>>}
        BY <1>8, <3>1 DEF ConsumeFinish
      <4>2. [device[v] EXCEPT ![d] = "trusted"]
              \in [Devices -> DeviceStatus]
        BY DEF TypeOK
      <4> QED
        BY <2>2, <4>1, <4>2 DEF TypeOK
    <3>2. CASE device[v][d] # "pending"
      BY <1>8, <3>2 DEF ConsumeFinish, TypeOK
    <3> QED
      BY <3>1, <3>2
  <2> QED
    BY <1>8, <2>3, <2>4 DEF ConsumeFinish, TypeOK, linkVars, escrowVars
<1>9. ASSUME NEW v \in Vaults, NEW l \in Links, NEW t \in Tokens, NEW d \in Devices,
             Authorize(v, l, t, d)
      PROVE  TypeOK'
  <2>1. link[l] \in LinkRows
    BY <1>9 DEF Authorize, BeneficiaryIs, Exists, TypeOK
  <2>2. now + TokenTTL \in Nat
    BY DelayAssumption, LimitAssumption DEF TypeOK
  <2>3. [link |-> l, owner |-> link[l].owner, device |-> d,
         until |-> now + TokenTTL, status |-> "live"] \in AuthRows
    BY <2>1, <2>2 DEF AuthRows, LinkRows
  <2>4. auth' \in [Tokens -> AuthRows \cup {None}]
    BY <1>9, <2>3, AreAlive, RevokedTyped DEF Authorize, Superseded
  <2> QED
    BY <1>9, <2>4 DEF Authorize, TypeOK, linkVars, escrowVars, history
<1>10. ASSUME NEW t \in Tokens, ConsumeAbort(t) PROVE TypeOK'
  BY <1>10 DEF ConsumeAbort, TypeOK, linkVars, escrowVars, history
<1> QED
  BY <1>1, <1>2, <1>3, <1>4, <1>5, <1>6, <1>7, <1>8, <1>9, <1>10 DEF SideStep, Consume

LEMMA TypeRotate ==
  ASSUME TypeOK, KeyRoom, NEW v \in Vaults, RotateApply(v) PROVE TypeOK'
<1>1. link' \in [Links -> LinkRows \cup {None}]
  <2>1. ASSUME NEW l \in SeenLinks(v)
        PROVE  [link[l] EXCEPT !.state = "needs_reencryption", !.asked = None,
                               !.ends = None, !.decided = FALSE] \in LinkRows
    <3>1. link[l] \in LinkRows
      BY DEF SeenLinks, Exists, TypeOK
    <3> QED
      BY <3>1, RowTyped DEF PairingStates
  <2> QED
    BY <2>1 DEF RotateApply, TypeOK
<1>2. pkg' \in [Links -> PackageRows \cup {None}]
  <2>1. ASSUME NEW l \in SeenPackages(v)
        PROVE  [pkg[l] EXCEPT !.state = "needs_reencryption"] \in PackageRows
    <3>1. pkg[l] \in PackageRows
      BY DEF SeenPackages, SeenLinks, TypeOK
    <3> QED
      BY <3>1 DEF PackageRows, PairingStates
  <2> QED
    BY <2>1 DEF RotateApply, TypeOK
<1>3. auth' \in [Tokens -> AuthRows \cup {None}]
  BY AreAlive, RevokedTyped DEF RotateApply
<1>4. key' \in [Vaults -> 1 .. MaxKey]
  <2>1. key[v] + 1 \in 1 .. MaxKey
    <3>1. key[v] \in 1 .. MaxKey /\ key[v] < MaxKey
      BY DEF RotateApply, TypeOK, KeyRoom
    <3> QED
      BY <3>1, LimitAssumption
  <2> QED
    BY <2>1 DEF RotateApply, TypeOK
<1> QED
  BY <1>1, <1>2, <1>3, <1>4 DEF RotateApply, TypeOK, history

-----------------------------------------------------------------------------
(* The state of a link, its dates and its package. *)

\* What RowsAgree says of one link row r with package p (or None) at time n.
Fit(r, p, n) ==
    /\ IF r.state \in ActiveRequest \cup Readable
       THEN /\ r.asked # None /\ r.ends = r.asked + Cooldown
            /\ r.state \in ActiveRequest => ~r.decided
            /\ r.state \in Readable => r.decided \/ r.ends <= n
       ELSE r.asked = None /\ r.ends = None
    /\ r.state = "paired_no_credentials" => p = None
    /\ p = None => r.state \in {"paired_no_credentials", "needs_reencryption"}
    /\ p # None /\ p.state # r.state => r.state = "needs_reencryption"

LEMMA RowsFit == RowsAgree <=> \A l \in Links : Exists(l) => Fit(link[l], pkg[l], now)
  BY DEF RowsAgree, StampsAgree, EscrowBacksState, MirrorLagsRotationOnly, Fit

LEMMA RowsFitNext ==
  RowsAgree' <=> \A l \in Links : link'[l] # None => Fit(link'[l], pkg'[l], now')
  BY DEF RowsAgree, StampsAgree, EscrowBacksState, MirrorLagsRotationOnly, Fit, Exists

\* Time alone spoils nothing.
LEMMA FitLasts ==
  ASSUME NEW r \in LinkRows, NEW p, NEW n \in Nat, NEW m \in Nat, n <= m, Fit(r, p, n)
  PROVE  Fit(r, p, m)
<1>1. r.ends \in Nat \/ r.ends = None
  BY DEF LinkRows
<1>2. CASE r.state \in ActiveRequest \cup Readable
  <2>1. r.asked \in Nat
    BY <1>2 DEF Fit, LinkRows
  <2>2. r.ends \in Nat
    BY <1>2, <2>1, DelayAssumption DEF Fit
  <2> QED
    BY <1>2, <2>2 DEF Fit
<1>3. CASE r.state \notin ActiveRequest \cup Readable
  BY <1>3 DEF Fit
<1> QED
  BY <1>2, <1>3

\* A step on the rows of link l leaves those of other links alone.
LEMMA RowsApart ==
  ASSUME TypeOK, NEW v \in Vaults, NEW l \in Links, Acts(v, l)
  PROVE  /\ now' = now
         /\ \A k \in Links \ {l} : link'[k] = link[k] /\ pkg'[k] = pkg[k]
<1>1. link \in [Links -> LinkRows \cup {None}] /\ pkg \in [Links -> PackageRows \cup {None}]
  BY DEF TypeOK
<1>2. CASE Create(v, l)
  BY <1>1, <1>2 DEF Create, escrowVars
<1>3. CASE PairWrite(v, l)
  BY <1>1, <1>3 DEF PairWrite, escrowVars
<1>4. CASE Save(v, l) \/ Replace(v, l)
  BY <1>1, <1>4 DEF Save, Replace, Inserted, Reset
<1>5. CASE DeletePackage(v, l) \/ DeleteLink(v, l)
  BY <1>1, <1>5 DEF DeletePackage, DeleteLink, Reset
<1>6. CASE Request(v, l)
  BY <1>1, <1>6 DEF Request, Mirrored
<1>7. CASE Cancel(v, l) \/ Reject(v, l)
  BY <1>1, <1>7 DEF Cancel, Reject, Withdrawn, Mirrored
<1>8. CASE Approve(v, l) \/ Claim(v, l) \/ Retrieve(v, l)
  BY <1>1, <1>8 DEF Approve, Claim, Retrieve, Mirrored
<1> QED
  BY <1>2, <1>3, <1>4, <1>5, <1>6, <1>7, <1>8 DEF Acts

\* The row and the package a handler leaves on its own link.
Marked(p, s) == IF p = None THEN None ELSE [p EXCEPT !.state = s]

LEMMA MirrorAt ==
  ASSUME TypeOK, NEW l \in Links, NEW s
  PROVE  Mirrored(l, s)[l] = Marked(pkg[l], s)
  BY DEF Mirrored, Marked, TypeOK

LEMMA ResetAt ==
  ASSUME TypeOK, NEW l \in Links, Exists(l), NEW s \in PairingStates
  PROVE  /\ Reset(l, s)[l].state = s
         /\ link[l].state \in StaleStamps =>
              Reset(l, s)[l].asked = None /\ Reset(l, s)[l].ends = None
         /\ link[l].state \notin StaleStamps =>
              Reset(l, s)[l].asked = link[l].asked /\ Reset(l, s)[l].ends = link[l].ends
<1>1. link[l] \in LinkRows
  BY DEF TypeOK, Exists
<1> QED
  BY <1>1 DEF Reset, TypeOK, LinkRows

\* Every handler leaves its link in order.
LEMMA RowFits ==
  ASSUME TypeOK, LinksFresh, RowsAgree, NEW v \in Vaults, NEW l \in Links, Acts(v, l),
         link'[l] # None
  PROVE  Fit(link'[l], pkg'[l], now')
<1>n. now \in Nat /\ now' = now
  BY RowsApart, LimitAssumption DEF TypeOK
<1>f. Exists(l) => link[l] \in LinkRows /\ Fit(link[l], pkg[l], now)
  BY RowsFit DEF TypeOK, Exists
<1>p. pkg[l] # None => pkg[l] \in PackageRows
  BY DEF TypeOK
<1>d. \A s \in PairingStates : Marked(pkg[l], s) = None <=> pkg[l] = None
  BY <1>p, NoRowAssumption DEF Marked, PackageRows
<1>m. \A s \in PairingStates : Marked(pkg[l], s) # None => Marked(pkg[l], s).state = s
  BY <1>p DEF Marked, PackageRows
<1>1. CASE Create(v, l)
  <2>1. pkg'[l] = None
    BY <1>1 DEF Create, LinksFresh, escrowVars
  <2>2. link'[l].state = "paired_no_credentials" /\ link'[l].asked = None
        /\ link'[l].ends = None
    BY <1>1 DEF Create, TypeOK
  <2> QED
    BY <2>1, <2>2 DEF Fit, ActiveRequest, Readable
<1>2. CASE PairWrite(v, l)
  <2>1. Exists(l) /\ pkg'[l] = pkg[l]
    BY <1>2 DEF PairWrite, Exists, escrowVars
  <2>2. link'[l] = [link[l] EXCEPT !.ben = v, !.status = "linked"]
    BY <1>2, <2>1 DEF PairWrite, TypeOK
  <2>3. link'[l].state = link[l].state /\ link'[l].asked = link[l].asked
        /\ link'[l].ends = link[l].ends /\ link'[l].decided = link[l].decided
    BY <1>f, <2>1, <2>2 DEF LinkRows
  <2> QED
    BY <1>f, <1>n, <2>1, <2>3 DEF Fit
<1>3. CASE Save(v, l)
  <2>1. Exists(l) /\ link[l].state = "paired_no_credentials"
    BY <1>3 DEF Save, OwnedBy, Saveable
  <2>2. link'[l].state = "credentials_saved" /\ link'[l].asked = link[l].asked
        /\ link'[l].ends = link[l].ends
    BY <1>3, <1>f, <2>1 DEF Save, TypeOK, LinkRows
  <2>3. pkg'[l] # None /\ pkg'[l].state = "credentials_saved"
    <3>1. pkg'[l] \in PackageRows \cup {None}
      BY <1>3, InsertTyped DEF Save
    <3>2. pkg'[l] = [id |-> packages + 1, wrappedFor |-> offer[l],
                     state |-> "credentials_saved"]
      BY <1>3 DEF Save, Inserted, TypeOK
    <3>3. packages + 1 \in 1 .. MaxPackages
      BY <1>3, LimitAssumption DEF Save, TypeOK
    <3>4. pkg'[l] \in PackageRows
      BY <1>3, <3>2, <3>3 DEF Save, TypeOK, PackageRows, PairingStates
    <3> QED
      BY <3>2, <3>4, NoRowAssumption
  <2> QED
    BY <1>f, <2>1, <2>2, <2>3 DEF Fit, ActiveRequest, Readable
<1>4. CASE Replace(v, l)
  <2>1. Exists(l) /\ link[l].state # "cooldown_active" /\ pkg[l] # None
    BY <1>4 DEF Replace, OwnedBy, Replaceable, Mutable
  <2>2. link'[l].state = "credentials_saved" /\ link'[l].asked = None
        /\ link'[l].ends = None
    BY <1>4, <1>f, <2>1, ResetAt
       DEF Replace, Fit, StaleStamps, PairingStates, LinkRows, ActiveRequest, Readable
  <2>3. pkg'[l] # None /\ pkg'[l].state = "credentials_saved"
    <3>2. pkg'[l] = [id |-> packages + 1, wrappedFor |-> offer[l],
                     state |-> "credentials_saved"]
      BY <1>4 DEF Replace, Inserted, TypeOK
    <3>3. packages + 1 \in 1 .. MaxPackages
      BY <1>4, LimitAssumption DEF Replace, TypeOK
    <3>4. pkg'[l] \in PackageRows
      BY <1>4, <3>2, <3>3 DEF Replace, TypeOK, PackageRows, PairingStates
    <3> QED
      BY <3>2, <3>4, NoRowAssumption
  <2> QED
    BY <2>2, <2>3 DEF Fit, ActiveRequest, Readable
<1>5. CASE DeletePackage(v, l)
  <2>1. Exists(l) /\ link[l].state # "cooldown_active"
    BY <1>5 DEF DeletePackage, OwnedBy, Mutable
  <2>2. link'[l].state = "paired_no_credentials" /\ link'[l].asked = None
        /\ link'[l].ends = None
    BY <1>5, <1>f, <2>1, ResetAt
       DEF DeletePackage, Fit, StaleStamps, PairingStates, LinkRows, ActiveRequest, Readable
  <2>3. pkg'[l] = None
    BY <1>5 DEF DeletePackage, TypeOK
  <2> QED
    BY <2>2, <2>3 DEF Fit, ActiveRequest, Readable
<1>6. CASE DeleteLink(v, l)
  BY <1>6 DEF DeleteLink, TypeOK
<1>7. CASE Request(v, l)
  <2>1. Exists(l) /\ pkg[l] # None
    BY <1>7 DEF Request, BeneficiaryIs
  <2>2. link'[l].state = "cooldown_active" /\ link'[l].asked = now
        /\ link'[l].ends = now + Cooldown /\ ~link'[l].decided
    BY <1>7, <1>f, <2>1 DEF Request, TypeOK, LinkRows
  <2>3. pkg'[l] = Marked(pkg[l], "cooldown_active")
    BY <1>7, MirrorAt DEF Request
  <2>4. now # None
    BY <1>n, NoRowAssumption
  <2> QED
    BY <1>d, <1>m, <2>1, <2>2, <2>3, <2>4
       DEF Fit, ActiveRequest, Readable, PairingStates
<1>8. ASSUME NEW b \in BOOLEAN, Exists(l), Withdrawn(l, b)
      PROVE  Fit(link'[l], pkg'[l], now')
  <2>1. pkg[l] # None
    BY <1>8, <1>f DEF Withdrawn, Fit, ActiveRequest
  <2>2. link'[l].state = "credentials_saved" /\ link'[l].asked = None
        /\ link'[l].ends = None
    BY <1>8, <1>f DEF Withdrawn, TypeOK, LinkRows
  <2>3. pkg'[l] = Marked(pkg[l], "credentials_saved")
    BY <1>8, MirrorAt DEF Withdrawn
  <2> QED
    BY <1>d, <1>m, <2>1, <2>2, <2>3 DEF Fit, ActiveRequest, Readable, PairingStates
<1>9. CASE Approve(v, l)
  <2>1. Exists(l) /\ link[l].state \in ActiveRequest
    BY <1>9 DEF Approve, OwnedBy
  <2>2. pkg[l] # None /\ link[l].asked # None /\ link[l].ends = link[l].asked + Cooldown
    BY <1>f, <2>1 DEF Fit, ActiveRequest
  <2>3. link'[l].state = "approved" /\ link'[l].asked = link[l].asked
        /\ link'[l].ends = link[l].ends /\ link'[l].decided
    BY <1>9, <1>f, <2>1 DEF Approve, TypeOK, LinkRows
  <2>4. pkg'[l] = Marked(pkg[l], "approved")
    BY <1>9, MirrorAt DEF Approve
  <2> QED
    BY <1>d, <1>m, <2>2, <2>3, <2>4 DEF Fit, ActiveRequest, Readable, PairingStates
<1>10. CASE Claim(v, l)
  <2>1. Exists(l) /\ link[l].state = "cooldown_active" /\ link[l].ends <= now
    BY <1>10 DEF Claim, BeneficiaryIs, Cooled
  <2>2. pkg[l] # None /\ link[l].asked # None /\ link[l].ends = link[l].asked + Cooldown
        /\ ~link[l].decided
    BY <1>f, <2>1 DEF Fit, ActiveRequest
  <2>3. link'[l].state = "claimable" /\ link'[l].asked = link[l].asked
        /\ link'[l].ends = link[l].ends /\ link'[l].decided = link[l].decided
    BY <1>10, <1>f, <2>1 DEF Claim, TypeOK, LinkRows
  <2>4. pkg'[l] = Marked(pkg[l], "claimable")
    BY <1>10, MirrorAt DEF Claim
  <2> QED
    BY <1>d, <1>m, <1>n, <2>1, <2>2, <2>3, <2>4
       DEF Fit, ActiveRequest, Readable, PairingStates
<1>11. CASE Retrieve(v, l)
  <2>1. Exists(l) /\ link[l].state \in Readable /\ pkg[l] # None
    BY <1>11 DEF Retrieve, BeneficiaryIs, MayRead
  <2>2. link[l].asked # None /\ link[l].ends = link[l].asked + Cooldown
        /\ (link[l].decided \/ link[l].ends <= now)
    BY <1>f, <2>1 DEF Fit
  <2>3. link'[l].state = "released" /\ link'[l].asked = link[l].asked
        /\ link'[l].ends = link[l].ends /\ link'[l].decided = link[l].decided
    BY <1>11, <1>f, <2>1 DEF Retrieve, TypeOK, LinkRows
  <2>4. pkg'[l] = Marked(pkg[l], "released")
    BY <1>11, MirrorAt DEF Retrieve
  <2> QED
    BY <1>d, <1>m, <1>n, <2>1, <2>2, <2>3, <2>4
       DEF Fit, ActiveRequest, Readable, PairingStates
<1> QED
  BY <1>1, <1>2, <1>3, <1>4, <1>5, <1>6, <1>7, <1>8, <1>9, <1>10, <1>11
     DEF Acts, Cancel, Reject, BeneficiaryIs, OwnedBy

LEMMA RotateFits ==
  ASSUME TypeOK, RowsAgree, NEW v \in Vaults, RotateApply(v), NEW l \in Links,
         link'[l] # None
  PROVE  Fit(link'[l], pkg'[l], now')
<1>1. now' = now
  BY DEF RotateApply
<1>2. CASE l \in SeenLinks(v)
  <2>1. link[l] \in LinkRows
    BY <1>2 DEF SeenLinks, Exists, TypeOK
  <2>2. link'[l] = [link[l] EXCEPT !.state = "needs_reencryption", !.asked = None,
                                   !.ends = None, !.decided = FALSE]
    BY <1>2 DEF RotateApply
  <2>3. link'[l].state = "needs_reencryption" /\ link'[l].asked = None
        /\ link'[l].ends = None
    BY <2>1, <2>2 DEF LinkRows
  <2> QED
    BY <2>3 DEF Fit, ActiveRequest, Readable
<1>3. CASE l \notin SeenLinks(v)
  <2>1. link'[l] = link[l] /\ pkg'[l] = pkg[l]
    BY <1>3 DEF RotateApply, SeenPackages
  <2> QED
    BY <1>1, <2>1, RowsFit DEF Exists
<1> QED
  BY <1>2, <1>3

\* The dates, the package and the mirror of every link agree after every step.
LEMMA RowsStep ==
  ASSUME ReleaseInv, [Next]_vars
  PROVE  RowsAgree'
<1> USE DEF ReleaseInv
<1> SUFFICES ASSUME NEW l \in Links, link'[l] # None
             PROVE  Fit(link'[l], pkg'[l], now')
  BY RowsFitNext
<1>1. CASE RowStep
  <2>1. PICK v \in Vaults, k \in Links : Acts(v, k)
    BY <1>1 DEF RowStep
  <2>2. CASE k = l
    BY <2>1, <2>2, RowFits
  <2>3. CASE k # l
    <3>1. link'[l] = link[l] /\ pkg'[l] = pkg[l] /\ now' = now
      BY <2>1, <2>3, RowsApart
    <3> QED
      BY <3>1, RowsFit DEF Exists
  <2> QED
    BY <2>2, <2>3
<1>2. CASE SideStep
  <2>1. link'[l] = link[l] /\ pkg'[l] = pkg[l] /\ now' \in Nat /\ now <= now'
    BY <1>2, SideFrame
  <2>2. link[l] \in LinkRows /\ now \in Nat
    BY <2>1, LimitAssumption DEF TypeOK
  <2>3. Fit(link[l], pkg[l], now)
    BY <2>1, RowsFit DEF Exists
  <2> QED
    BY <2>1, <2>2, <2>3, FitLasts
<1>3. ASSUME NEW v \in Vaults, RotateApply(v) PROVE Fit(link'[l], pkg'[l], now')
  BY <1>3, RotateFits
<1>4. CASE UNCHANGED vars
  BY <1>4, RowsFit DEF vars, linkVars, escrowVars, Exists
<1> QED
  BY <1>1, <1>2, <1>3, <1>4, StepSplit

\* An absent link has no package, and only handed-out ids have links.
LEMMA FreshStep ==
  ASSUME ReleaseInv, [Next]_vars
  PROVE  LinksFresh' /\ IdsPast'
<1> USE DEF ReleaseInv
<1>t. link \in [Links -> LinkRows \cup {None}] /\ pkg \in [Links -> PackageRows \cup {None}]
      /\ packages \in Nat
  BY LimitAssumption DEF TypeOK
<1>r. \A l \in Links : pkg[l] # None => pkg[l] \in PackageRows /\ pkg[l].id \in Nat
  BY <1>t, LimitAssumption DEF PackageRows
<1>1. ASSUME NEW v \in Vaults, NEW l \in Links, Acts(v, l)
      PROVE  LinksFresh' /\ IdsPast'
  <2>m. \A s \in PairingStates :
          /\ Mirrored(l, s)[l] = None <=> pkg[l] = None
          /\ pkg[l] # None => Mirrored(l, s)[l].id = pkg[l].id
    <3> SUFFICES ASSUME NEW s \in PairingStates
                 PROVE  /\ Mirrored(l, s)[l] = None <=> pkg[l] = None
                        /\ pkg[l] # None => Mirrored(l, s)[l].id = pkg[l].id
      OBVIOUS
    <3>1. CASE pkg[l] = None
      BY <3>1 DEF Mirrored
    <3>2. CASE pkg[l] # None
      <4>1. Mirrored(l, s)[l] = [pkg[l] EXCEPT !.state = s]
        BY <1>t, <3>2 DEF Mirrored
      <4>2. [pkg[l] EXCEPT !.state = s] \in PackageRows
        BY <1>r, <3>2 DEF PackageRows
      <4> QED
        BY <1>r, <3>2, <4>1, <4>2, NoRowAssumption DEF PackageRows
    <3> QED
      BY <3>1, <3>2
  <2>s. {"credentials_saved", "cooldown_active", "approved", "claimable", "released"}
          \subseteq PairingStates
    BY DEF PairingStates
  <2>a. \A k \in Links \ {l} : link'[k] = link[k] /\ pkg'[k] = pkg[k]
    BY <1>1, RowsApart
  <2>1. CASE Create(v, l)
    <3>1. link[l] = None /\ pkg[l] = None /\ pkg' = pkg /\ packages' = packages
          /\ born' = born \cup {l}
      BY <2>1 DEF Create, LinksFresh, escrowVars
    <3> QED
      BY <2>a, <3>1 DEF LinksFresh, IdsPast
  <2>2. CASE PairWrite(v, l)
    <3>1. born' = born /\ pkg' = pkg /\ packages' = packages
          /\ (link[l] = None => link'[l] = None)
      BY <2>2 DEF PairWrite, escrowVars, Exists
    <3>2. ASSUME link[l] # None PROVE link'[l] # None
      <4>1. link[l] \in LinkRows /\ [link[l] EXCEPT !.ben = v, !.status = "linked"] \in LinkRows
        BY <1>t, <3>2, RowTyped
      <4>2. link'[l] = [link[l] EXCEPT !.ben = v, !.status = "linked"]
        BY <1>t, <2>2, <3>2 DEF PairWrite, Exists
      <4> QED
        BY <4>1, <4>2, NoRowAssumption
    <3> QED
      BY <2>a, <3>1, <3>2 DEF LinksFresh, IdsPast
  <2>3. CASE Save(v, l) \/ Replace(v, l)
    <3>1. born' = born /\ link[l] # None /\ packages' = packages + 1
          /\ pkg'[l] = [id |-> packages + 1, wrappedFor |-> offer[l],
                        state |-> "credentials_saved"]
      BY <1>t, <2>3 DEF Save, Replace, OwnedBy, Exists, Inserted
    <3>2. l \in born
      BY <3>1 DEF LinksFresh
    <3>3. link'[l] # None
      <4>1. link[l] \in LinkRows
        BY <1>t, <3>1
      <4>2. [link[l] EXCEPT !.state = "credentials_saved"] \in LinkRows
            /\ [link[l] EXCEPT !.state = "credentials_saved", !.asked = None,
                               !.ends = None, !.decided = FALSE] \in LinkRows
        BY <2>s, <4>1, RowTyped
      <4>3. \/ link'[l] = [link[l] EXCEPT !.state = "credentials_saved"]
            \/ link'[l] = [link[l] EXCEPT !.state = "credentials_saved", !.asked = None,
                               !.ends = None, !.decided = FALSE]
        BY <1>t, <2>3 DEF Save, Replace, Reset
      <4> QED
        BY <4>2, <4>3, NoRowAssumption
    <3>4. \A k \in Links : pkg'[k] # None => pkg'[k].id <= packages'
      BY <1>r, <1>t, <2>a, <3>1 DEF IdsPast
    <3> QED
      BY <2>a, <3>1, <3>2, <3>3, <3>4 DEF LinksFresh, IdsPast
  <2>4. CASE DeletePackage(v, l) \/ DeleteLink(v, l)
    <3>1. born' = born /\ link[l] # None /\ pkg'[l] = None /\ packages' = packages
      BY <1>t, <2>4 DEF DeletePackage, DeleteLink, OwnedBy, Exists
    <3>2. l \in born
      BY <3>1 DEF LinksFresh
    <3> QED
      BY <2>a, <3>1, <3>2 DEF LinksFresh, IdsPast
  <2>5. ASSUME NEW s \in PairingStates, born' = born, link[l] # None,
               packages' = packages, pkg' = Mirrored(l, s), link'[l] # None
        PROVE  LinksFresh' /\ IdsPast'
    <3>1. l \in born
      BY <2>5 DEF LinksFresh
    <3> QED
      BY <2>5, <2>a, <2>m, <3>1 DEF LinksFresh, IdsPast
  <2>6. ASSUME NEW r, link[l] \in LinkRows, link'[l] = r, r \in LinkRows
        PROVE  link'[l] # None
    BY <2>6, NoRowAssumption
  <2>7. CASE Request(v, l)
    <3>1. link[l] \in LinkRows /\ now \in Nat /\ now + Cooldown \in Nat
      BY <1>t, <2>7, DelayAssumption, LimitAssumption
         DEF Request, BeneficiaryIs, Exists, TypeOK
    <3>2. link'[l] # None
      BY <1>t, <2>6, <2>7, <2>s, <3>1, RowTyped DEF Request
    <3> QED
      BY <2>5, <2>7, <2>s, <3>2 DEF Request, BeneficiaryIs, Exists
  <2>8. ASSUME NEW b \in BOOLEAN, Exists(l), Withdrawn(l, b)
        PROVE  LinksFresh' /\ IdsPast'
    <3>1. link[l] \in LinkRows
      BY <1>t, <2>8 DEF Exists
    <3>2. link'[l] # None
      BY <1>t, <2>6, <2>8, <2>s, <3>1, RowTyped DEF Withdrawn
    <3> QED
      BY <2>5, <2>8, <2>s, <3>2 DEF Withdrawn, Exists
  <2>9. CASE Approve(v, l) \/ Claim(v, l) \/ Retrieve(v, l)
    <3>1. link[l] \in LinkRows
      BY <1>t, <2>9 DEF Approve, Claim, Retrieve, OwnedBy, BeneficiaryIs, Exists
    <3>2. link'[l] # None
      BY <1>t, <2>6, <2>9, <2>s, <3>1, RowTyped DEF Approve, Claim, Retrieve
    <3> QED
      BY <2>5, <2>9, <2>s, <3>2
         DEF Approve, Claim, Retrieve, OwnedBy, BeneficiaryIs, Exists
  <2> QED
    BY <1>1, <2>1, <2>2, <2>3, <2>4, <2>7, <2>8, <2>9
       DEF Acts, Cancel, Reject, BeneficiaryIs, OwnedBy
<1>2. CASE SideStep
  BY <1>2, SideFrame DEF LinksFresh, IdsPast
<1>3. ASSUME NEW v \in Vaults, RotateApply(v) PROVE LinksFresh' /\ IdsPast'
  <2>1. born' = born /\ packages' = packages
    BY <1>3 DEF RotateApply
  <2>2. ASSUME NEW l \in Links, l \notin born PROVE link'[l] = None
    BY <1>3, <2>2 DEF RotateApply, SeenLinks, Exists, LinksFresh
  <2>3. ASSUME NEW l \in Links, link'[l] = None PROVE pkg'[l] = None
    <3>1. CASE l \in SeenLinks(v)
      <4>1. link[l] \in LinkRows
        BY <1>t, <3>1 DEF SeenLinks, Exists
      <4>2. link'[l] \in LinkRows
        BY <1>3, <3>1, <4>1, RowTyped DEF RotateApply, PairingStates
      <4> QED
        BY <2>3, <4>2, NoRowAssumption
    <3>2. CASE l \notin SeenLinks(v)
      BY <1>3, <2>3, <3>2 DEF RotateApply, SeenPackages, LinksFresh
    <3> QED
      BY <3>1, <3>2
  <2>4. ASSUME NEW l \in Links, pkg'[l] # None PROVE pkg'[l].id <= packages
    <3>1. pkg[l] # None
      BY <1>3, <2>4 DEF RotateApply, SeenPackages
    <3>2. pkg'[l].id = pkg[l].id
      BY <1>3, <1>r, <3>1 DEF RotateApply, PackageRows
    <3> QED
      BY <3>1, <3>2 DEF IdsPast
  <2> QED
    BY <2>1, <2>2, <2>3, <2>4 DEF LinksFresh, IdsPast
<1>4. CASE UNCHANGED vars
  BY <1>4 DEF vars, linkVars, escrowVars, LinksFresh, IdsPast
<1> QED
  BY <1>1, <1>2, <1>3, <1>4, StepSplit DEF RowStep

-----------------------------------------------------------------------------
(* Tokens and rotations. *)

\* A token may stop being live where no consume handler holds it.
LEMMA TokensSettle ==
  ASSUME OneLiveToken, consuming' \subseteq consuming, consuming \subseteq Tokens,
         \A t \in Tokens :
           \/ auth'[t] = auth[t]
           \/ auth'[t] # None /\ auth'[t].status # "live" /\ t \notin consuming'
  PROVE  OneLiveToken'
<1>1. ASSUME NEW t \in Tokens, NEW u \in Tokens, NEW l \in Links,
             (t \in LiveTokens(l))', (u \in LiveTokens(l))'
      PROVE  t = u
  <2>1. t \in LiveTokens(l) /\ u \in LiveTokens(l)
    BY <1>1 DEF LiveTokens, AuthsOf
  <2> QED
    BY <2>1 DEF OneLiveToken
<1>2. ASSUME NEW t \in consuming' PROVE auth'[t] # None /\ auth'[t].status = "live"
  BY <1>2 DEF OneLiveToken
<1> QED
  BY <1>1, <1>2 DEF OneLiveToken

\* Revoking live tokens leaves those a handler holds alone.
LEMMA RevokeSettles ==
  ASSUME TypeOK, NEW T \in SUBSET Alive, MayRevoke(T), NEW t \in Tokens
  PROVE  \/ Revoked(T)[t] = auth[t] /\ t \notin T
         \/ Revoked(T)[t] # None /\ Revoked(T)[t].status # "live" /\ t \notin consuming
<1>1. CASE t \notin T
  BY <1>1 DEF Revoked
<1>2. CASE t \in T
  <2>1. Revoked(T)[t] = [auth[t] EXCEPT !.status = "revoked"]
    BY <1>2 DEF Revoked
  <2>2. auth[t] \in AuthRows
    BY <1>2 DEF TypeOK, Alive
  <2>3. [auth[t] EXCEPT !.status = "revoked"] \in AuthRows
    BY <2>2 DEF AuthRows
  <2>4. Revoked(T)[t] # None
    BY <2>1, <2>3, NoRowAssumption
  <2>5. Revoked(T)[t].status # "live"
    BY <2>1, <2>2 DEF AuthRows
  <2> QED
    BY <1>2, <2>4, <2>5 DEF MayRevoke
<1> QED
  BY <1>1, <1>2

\* There is one live token of a link after every step, and the locked ones live.
LEMMA TokensStep ==
  ASSUME TypeOK, OneLiveToken, [Next]_vars
  PROVE  OneLiveToken'
<1>t. auth \in [Tokens -> AuthRows \cup {None}] /\ consuming \subseteq Tokens
  BY DEF TypeOK
<1>k. ASSUME UNCHANGED auth, consuming' \subseteq consuming PROVE OneLiveToken'
  BY <1>k, <1>t, TokensSettle
<1>v. ASSUME NEW T \in SUBSET Alive, MayRevoke(T), auth' = Revoked(T), UNCHANGED consuming
      PROVE  OneLiveToken'
  BY <1>v, <1>t, RevokeSettles, TokensSettle
<1>1. ASSUME NEW v \in Vaults, NEW l \in Links, Acts(v, l) PROVE OneLiveToken'
  <2>1. CASE Create(v, l) \/ PairWrite(v, l) \/ Save(v, l) \/ Replace(v, l)
             \/ DeletePackage(v, l) \/ Request(v, l) \/ Approve(v, l)
             \/ Claim(v, l) \/ Retrieve(v, l)
    BY <1>k, <2>1 DEF Create, PairWrite, Save, Replace, DeletePackage, Request, Approve,
                      Claim, Retrieve, deviceVars
  <2>2. ASSUME NEW b \in BOOLEAN, Withdrawn(l, b) PROVE OneLiveToken'
    BY <1>v, <2>2, AreAlive DEF Withdrawn
  <2>3. CASE DeleteLink(v, l)
    <3>1. ASSUME NEW t \in Tokens
          PROVE  \/ auth'[t] = auth[t]
                 \/ auth'[t] # None /\ auth'[t].status # "live" /\ t \notin consuming'
      <4>1. CASE t \notin AuthsOf(l)
        BY <2>3, <4>1 DEF DeleteLink
      <4>2. CASE t \in AuthsOf(l)
        <5>1. auth[t] \in AuthRows
          BY <1>t, <4>2 DEF AuthsOf
        <5>2. auth'[t] = [auth[t] EXCEPT !.status = "deleted"] /\ t \notin consuming'
          BY <2>3, <4>2 DEF DeleteLink
        <5>3. auth'[t] \in AuthRows /\ auth'[t].status # "live"
          BY <5>1, <5>2 DEF AuthRows
        <5> QED
          BY <5>2, <5>3, NoRowAssumption
      <4> QED
        BY <4>1, <4>2
    <3> QED
      BY <1>t, <2>3, <3>1, TokensSettle DEF DeleteLink
  <2> QED
    BY <1>1, <2>1, <2>2, <2>3 DEF Acts, Cancel, Reject
<1>2. CASE SideStep
  <2>1. CASE Tick
    BY <1>k, <2>1 DEF Tick, deviceVars
  <2>2. ASSUME NEW v \in Vaults, NEW l \in Links,
               PairRead(v, l) \/ PairAbort(v, l) \/ FetchKey(v, l)
        PROVE  OneLiveToken'
    BY <1>k, <2>2 DEF PairRead, PairAbort, FetchKey, deviceVars
  <2>3. ASSUME NEW v \in Vaults, RotateBegin(v) \/ RotateAbort(v) PROVE OneLiveToken'
    BY <1>k, <2>3 DEF RotateBegin, RotateAbort, deviceVars
  <2>4. ASSUME NEW v \in Vaults, NEW d \in Devices, DeviceStep(v, d) PROVE OneLiveToken'
    BY <1>k, <2>4 DEF DeviceStep, DeviceSeen, DeviceApproved, DeviceRevoked
  <2>5. ASSUME NEW t \in Tokens, ConsumeAbort(t) PROVE OneLiveToken'
    BY <1>k, <2>5 DEF ConsumeAbort
  <2>6. ASSUME NEW v \in Vaults, NEW d \in Devices, NEW t \in Tokens, ConsumeBegin(v, d, t)
        PROVE  OneLiveToken'
    BY <2>6 DEF ConsumeBegin, OneLiveToken, LiveTokens, AuthsOf
  <2>7. ASSUME NEW v \in Vaults, NEW d \in Devices, NEW t \in Tokens, ConsumeFinish(v, d, t)
        PROVE  OneLiveToken'
    <3>1. auth[t] \in AuthRows
      BY <1>t, <2>7 DEF ConsumeFinish, OneLiveToken
    <3>2. auth'[t] = [auth[t] EXCEPT !.status = "consumed"] /\ t \notin consuming'
          /\ consuming' \subseteq consuming
          /\ \A u \in Tokens \ {t} : auth'[u] = auth[u]
      BY <1>t, <2>7 DEF ConsumeFinish
    <3>3. auth'[t] \in AuthRows /\ auth'[t].status # "live"
      BY <3>1, <3>2 DEF AuthRows
    <3>4. auth'[t] # None
      BY <3>3, NoRowAssumption
    <3> QED
      BY <1>t, <3>2, <3>3, <3>4, TokensSettle
  <2>8. ASSUME NEW v \in Vaults, NEW l \in Links, NEW t \in Tokens, NEW d \in Devices,
               Authorize(v, l, t, d)
        PROVE  OneLiveToken'
    <3>1. auth' = [Revoked(LiveTokens(l)) EXCEPT ![t] =
                     [link |-> l, owner |-> link[l].owner, device |-> d,
                      until |-> now + TokenTTL, status |-> "live"]]
          /\ MayRevoke(LiveTokens(l)) /\ UNCHANGED consuming /\ auth[t] = None
      BY <2>8 DEF Authorize, Superseded
    <3>2. Revoked(LiveTokens(l)) \in [Tokens -> AuthRows \cup {None}]
      BY AreAlive, RevokedTyped
    <3>3. auth'[t] = [link |-> l, owner |-> link[l].owner, device |-> d,
                      until |-> now + TokenTTL, status |-> "live"]
          /\ \A u \in Tokens \ {t} : auth'[u] = Revoked(LiveTokens(l))[u]
      BY <3>1, <3>2
    <3>4. t \notin consuming
      BY <3>1 DEF OneLiveToken
    <3>5. ASSUME NEW u \in Tokens \ {t}
          PROVE  \/ auth'[u] = auth[u] /\ u \notin LiveTokens(l)
                 \/ auth'[u] # None /\ auth'[u].status # "live" /\ u \notin consuming
      BY <3>1, <3>3, AreAlive, RevokeSettles
    <3>6. ASSUME NEW a \in Tokens, NEW b \in Tokens, NEW m \in Links,
                 (a \in LiveTokens(m))', (b \in LiveTokens(m))'
          PROVE  a = b
      <4>1. ASSUME NEW u \in Tokens \ {t}, (u \in LiveTokens(m))'
            PROVE  u \in LiveTokens(m) /\ m # l
        BY <3>5, <4>1 DEF LiveTokens, AuthsOf
      <4>2. ASSUME (t \in LiveTokens(m))' PROVE m = l
        BY <3>3, <4>2 DEF LiveTokens, AuthsOf
      <4> QED
        BY <3>6, <4>1, <4>2 DEF OneLiveToken
    <3>7. ASSUME NEW u \in consuming'
          PROVE  auth'[u] # None /\ auth'[u].status = "live"
      <4>1. u \in Tokens \ {t} /\ u \in consuming
        BY <1>t, <3>1, <3>4, <3>7
      <4> QED
        BY <3>5, <4>1 DEF OneLiveToken
    <3> QED
      BY <3>6, <3>7 DEF OneLiveToken
  <2> QED
    BY <1>2, <2>1, <2>2, <2>3, <2>4, <2>5, <2>6, <2>7, <2>8 DEF SideStep, Consume
<1>3. ASSUME NEW v \in Vaults, RotateApply(v) PROVE OneLiveToken'
  BY <1>3, <1>v, AreAlive DEF RotateApply
<1>4. CASE UNCHANGED vars
  BY <1>4, <1>k DEF vars, deviceVars
<1> QED
  BY <1>1, <1>2, <1>3, <1>4, StepSplit DEF RowStep

\* A rotation starts below the last key and nothing else moves the key meanwhile.
LEMMA RoomStep ==
  ASSUME TypeOK, KeyRoom, [Next]_vars
  PROVE  KeyRoom'
<1>1. CASE UNCHANGED <<key, rotating>>
  BY <1>1 DEF KeyRoom
<1>2. ASSUME NEW v \in Vaults, Rotate(v) PROVE KeyRoom'
  BY <1>2 DEF Rotate, RotateBegin, RotateApply, RotateAbort, KeyRoom, TypeOK
<1>3. CASE RowStep
  BY <1>1, <1>3 DEF RowStep, Acts, Create, PairWrite, Save, Replace, DeletePackage, DeleteLink,
     Request, Cancel, Reject, Withdrawn, Approve, Claim, Retrieve, escrowVars
<1>4. CASE SideStep
  <2>1. CASE Tick
    BY <1>1, <2>1 DEF Tick, escrowVars
  <2>2. ASSUME NEW v \in Vaults, NEW l \in Links,
               PairRead(v, l) \/ PairAbort(v, l) \/ FetchKey(v, l)
        PROVE  KeyRoom'
    BY <1>1, <2>2 DEF PairRead, PairAbort, FetchKey, escrowVars
  <2>3. ASSUME NEW v \in Vaults, RotateBegin(v) \/ RotateAbort(v) PROVE KeyRoom'
    BY <1>2, <2>3 DEF Rotate
  <2>4. ASSUME NEW v \in Vaults, NEW d \in Devices, DeviceStep(v, d) PROVE KeyRoom'
    BY <1>1, <2>4 DEF DeviceStep, DeviceSeen, DeviceApproved, DeviceRevoked, escrowVars
  <2>5. ASSUME NEW v \in Vaults, NEW d \in Devices, NEW t \in Tokens, Consume(v, d, t)
        PROVE  KeyRoom'
    BY <1>1, <2>5 DEF Consume, ConsumeBegin, ConsumeFinish, escrowVars
  <2>6. ASSUME NEW v \in Vaults, NEW l \in Links, NEW t \in Tokens, NEW d \in Devices,
               Authorize(v, l, t, d)
        PROVE  KeyRoom'
    BY <1>1, <2>6 DEF Authorize, escrowVars
  <2>7. ASSUME NEW t \in Tokens, ConsumeAbort(t) PROVE KeyRoom'
    BY <1>1, <2>7 DEF ConsumeAbort, escrowVars
  <2> QED
    BY <1>4, <2>1, <2>2, <2>3, <2>4, <2>5, <2>6, <2>7 DEF SideStep
<1> QED
  BY <1>1, <1>2, <1>3, <1>4, StepSplit DEF vars, escrowVars, Rotate

-----------------------------------------------------------------------------
(* The theorems. *)

LEMMA InvInit == Init => ReleaseInv
<1> SUFFICES ASSUME Init PROVE ReleaseInv
  OBVIOUS
<1>1. TypeOK
  BY LimitAssumption DEF Init, TypeOK, DeviceStatus
<1>2. LinksFresh /\ IdsPast /\ KeyRoom
  BY DEF Init, LinksFresh, IdsPast, KeyRoom
<1>3. RowsAgree
  BY DEF Init, RowsAgree, StampsAgree, EscrowBacksState, MirrorLagsRotationOnly, Exists
<1>4. OneLiveToken
  BY DEF Init, OneLiveToken, LiveTokens, AuthsOf
<1> QED
  BY <1>1, <1>2, <1>3, <1>4 DEF ReleaseInv

LEMMA InvNext == ReleaseInv /\ [Next]_vars => ReleaseInv'
<1> SUFFICES ASSUME ReleaseInv, [Next]_vars PROVE ReleaseInv'
  OBVIOUS
<1>0. TypeOK /\ OneLiveToken /\ KeyRoom
  BY DEF ReleaseInv
<1>1. TypeOK'
  <2>1. CASE RowStep
    BY <1>0, <2>1, TypeRow DEF RowStep
  <2>2. CASE SideStep
    BY <1>0, <2>2, TypeSide
  <2>3. ASSUME NEW v \in Vaults, RotateApply(v) PROVE TypeOK'
    BY <1>0, <2>3, TypeRotate
  <2>4. CASE UNCHANGED vars
    BY <1>0, <2>4 DEF vars, linkVars, escrowVars, deviceVars, history, TypeOK
  <2> QED
    BY <2>1, <2>2, <2>3, <2>4, StepSplit
<1>2. OneLiveToken' /\ KeyRoom'
  BY <1>0, TokensStep, RoomStep
<1>3. RowsAgree' /\ LinksFresh' /\ IdsPast'
  BY RowsStep, FreshStep
<1> QED
  BY <1>1, <1>2, <1>3 DEF ReleaseInv

\* Rows, dates, packages, mirrors and tokens agree in every state the program
\* reaches, with any number of accounts, links, devices and rotations.
THEOREM ReleaseInvariant == Spec => []ReleaseInv
  BY InvInit, InvNext, PTL DEF Spec

\* Every row and every set of running handlers keeps its type.
THEOREM RowsTyped == Spec => []TypeOK
<1>1. ReleaseInv => TypeOK
  BY DEF ReleaseInv
<1> QED
  BY <1>1, ReleaseInvariant, PTL

\* No request leaves its dates behind, and none is readable before its time.
THEOREM StampsTheorem == Spec => []StampsAgree
<1>1. ReleaseInv => StampsAgree
  BY DEF ReleaseInv, RowsAgree
<1> QED
  BY <1>1, ReleaseInvariant, PTL

\* A link that says it has a package has one, and only a rotation makes the mirrored
\* state lag: EscrowAgrees.
THEOREM EscrowTheorem == Spec => []EscrowAgrees
<1>1. ReleaseInv => EscrowAgrees
  BY DEF ReleaseInv, RowsAgree, EscrowAgrees
<1> QED
  BY <1>1, ReleaseInvariant, PTL

\* There is never a second live token of a link, nor a revoked one being consumed.
THEOREM TokenTheorem == Spec => []OneLiveToken
<1>1. ReleaseInv => OneLiveToken
  BY DEF ReleaseInv
<1> QED
  BY <1>1, ReleaseInvariant, PTL

\* What keeps a stale package from being handed out is that ids grow.
THEOREM StaleTheorem == Spec => StaleStaysMarked
<1>1. ReleaseInv /\ [Next]_vars =>
        [\A l \in Links :
           /\ Exists(l) /\ link[l].state = "needs_reencryption" /\ pkg[l] # None
           /\ Exists(l)' /\ link'[l].state # "needs_reencryption"
           => pkg'[l] = None \/ pkg'[l].id # pkg[l].id]_vars
  <2> SUFFICES ASSUME ReleaseInv, Next, NEW l \in Links, Exists(l),
                      link[l].state = "needs_reencryption", pkg[l] # None, Exists(l)',
                      link'[l].state # "needs_reencryption"
               PROVE  pkg'[l] = None \/ pkg'[l].id # pkg[l].id
    BY DEF vars
  <2>t. /\ link \in [Links -> LinkRows \cup {None}]
        /\ pkg \in [Links -> PackageRows \cup {None}] /\ packages \in Nat
        /\ pkg[l].id \in Nat /\ pkg[l].id <= packages
    <3>1. TypeOK /\ IdsPast
      BY DEF ReleaseInv
    <3>2. pkg[l] \in PackageRows
      BY <3>1 DEF TypeOK
    <3>3. pkg[l].id \in 1 .. MaxPackages /\ packages \in 0 .. MaxPackages
      BY <3>1, <3>2 DEF TypeOK, PackageRows
    <3> QED
      BY <3>1, <3>3, LimitAssumption DEF TypeOK, IdsPast
  <2>0. link[l] \in LinkRows
    BY <2>t DEF Exists
  <2>1. ASSUME NEW v \in Vaults, NEW k \in Links, Acts(v, k)
        PROVE  pkg'[l] = None \/ pkg'[l].id # pkg[l].id
    <3>1. k = l
      BY <2>1, RowsApart DEF ReleaseInv
    <3>2. CASE Save(v, l) \/ Replace(v, l)
      <4>1. pkg'[l] = [id |-> packages + 1, wrappedFor |-> offer[l],
                       state |-> "credentials_saved"]
        BY <2>t, <3>2 DEF Save, Replace, Inserted
      <4>2. pkg'[l].id = packages + 1
        BY <4>1
      <4> QED
        BY <2>t, <4>2
    <3>3. CASE DeletePackage(v, l) \/ DeleteLink(v, l)
      BY <2>t, <3>3 DEF DeletePackage, DeleteLink
    <3>4. ~Create(v, l)
      BY DEF Create, ReleaseInv, LinksFresh, Exists
    <3>5. ~PairWrite(v, l)
      <4> SUFFICES ASSUME PairWrite(v, l) PROVE FALSE
        OBVIOUS
      <4>1. link'[l] = [link[l] EXCEPT !.ben = v, !.status = "linked"]
        BY <2>t DEF PairWrite, Exists
      <4> QED
        BY <2>0, <4>1 DEF LinkRows
    <3>6. ~(Request(v, l) \/ Cancel(v, l) \/ Approve(v, l) \/ Reject(v, l)
            \/ Claim(v, l) \/ Retrieve(v, l))
      BY DEF Request, Requestable, Cancel, Reject, Withdrawn, Approve, Claim, Retrieve,
             MayRead, Readable, ActiveRequest
    <3> QED
      BY <2>1, <3>1, <3>2, <3>3, <3>4, <3>5, <3>6 DEF Acts
  <2>2. ~SideStep
    BY SideFrame DEF ReleaseInv
  <2>3. ASSUME NEW v \in Vaults, RotateApply(v) PROVE FALSE
    <3>1. link'[l] = link[l]
          \/ link'[l] = [link[l] EXCEPT !.state = "needs_reencryption", !.asked = None,
                                        !.ends = None, !.decided = FALSE]
      BY <2>3 DEF RotateApply
    <3> QED
      BY <2>0, <3>1 DEF LinkRows
  <2> QED
    BY <2>1, <2>2, <2>3, StepSplit DEF RowStep
<1> QED
  BY <1>1, ReleaseInvariant, PTL DEF Spec, StaleStaysMarked

-----------------------------------------------------------------------------
(* The promise. *)

Asked   == [l \in Links |-> IF InFlight(l) THEN link[l].asked ELSE None]
Granted == [l \in Links |-> InFlight(l) /\ link[l].decided]

\* What the promise sees beside the links.
Rest == <<now, shown, trusted, Admitted>>

PromiseStep == [Promise!Next]_(Promise!vars)

\* Tokens that stay the tokens of their link and device admit nobody new.
LEMMA AdmittedLasts ==
  ASSUME \A t \in Tokens :
           \/ auth'[t] = auth[t]
           \/ /\ auth[t] # None /\ auth'[t] # None
              /\ auth'[t].link = auth[t].link /\ auth'[t].device = auth[t].device
  PROVE  Admitted' = Admitted
  BY DEF Admitted

LEMMA RevokedAdmits ==
  ASSUME TypeOK, NEW T \in SUBSET Alive, auth' = Revoked(T)
  PROVE  Admitted' = Admitted
<1> SUFFICES ASSUME NEW t \in Tokens, auth'[t] # auth[t]
             PROVE  /\ auth[t] # None /\ auth'[t] # None
                    /\ auth'[t].link = auth[t].link /\ auth'[t].device = auth[t].device
  BY AdmittedLasts
<1>1. auth'[t] = [auth[t] EXCEPT !.status = "revoked"] /\ auth[t] # None
  BY DEF Revoked, Alive
<1>2. auth[t] \in AuthRows
  BY <1>1 DEF TypeOK
<1>3. [auth[t] EXCEPT !.status = "revoked"] \in AuthRows
  BY <1>2 DEF AuthRows
<1> QED
  BY <1>1, <1>2, <1>3, NoRowAssumption DEF AuthRows

\* Links change only by losing their request.
LEMMA VoidStep ==
  ASSUME UNCHANGED Rest, NEW S \in SUBSET Links,
         \A l \in S : ~InFlight(l)',
         \A l \in Links \ S : link'[l] = link[l]
  PROVE  PromiseStep
<1>1. Asked' = [l \in Links |-> IF l \in S THEN None ELSE Asked[l]]
  BY DEF Asked, InFlight, Exists
<1>2. Granted' = [l \in Links |-> IF l \in S THEN FALSE ELSE Granted[l]]
  BY DEF Granted, InFlight, Exists
<1>3. Promise!Void(S)
  BY <1>1, <1>2 DEF Promise!Void, Asked, Granted, Rest
<1> QED
  BY <1>3 DEF PromiseStep, Promise!Next

\* Links keep what the promise sees of them.
LEMMA SameStep ==
  ASSUME UNCHANGED Rest,
         \A l \in Links : \/ link'[l] = link[l]
                          \/ ~InFlight(l) /\ ~InFlight(l)'
                          \/ /\ InFlight(l) /\ InFlight(l)'
                             /\ link'[l].asked = link[l].asked
                             /\ link'[l].decided = link[l].decided
  PROVE  UNCHANGED <<Rest, Asked, Granted>>
<1>1. Asked' = Asked
  BY DEF Asked, InFlight, Exists
<1>2. Granted' = Granted
  BY DEF Granted, InFlight, Exists
<1> QED
  BY <1>1, <1>2

LEMMA Stutters == ASSUME UNCHANGED <<Rest, Asked, Granted>> PROVE PromiseStep
  BY DEF PromiseStep, Promise!vars, Rest, Asked, Granted

\* A readable link is open in the sense of the promise.
LEMMA ReadableIsOpen ==
  ASSUME TypeOK, StampsAgree, NEW l \in Links, Exists(l), MayRead(l)
  PROVE  Asked[l] # None /\ (Granted[l] \/ Asked[l] + Cooldown <= now)
<1>1. InFlight(l)
  BY DEF InFlight, MayRead
<1>2. link[l].asked # None /\ link[l].ends = link[l].asked + Cooldown
      /\ (link[l].decided \/ link[l].ends <= now)
  BY DEF MayRead, StampsAgree
<1>3. Asked[l] = link[l].asked
  BY <1>1 DEF Asked
<1>4. Granted[l] <=> link[l].decided
  BY <1>1 DEF Granted
<1> QED
  BY <1>2, <1>3, <1>4

\* Steps on a link ask, grant, show, withdraw or change nothing in the promise.
LEMMA RowKeeps ==
  ASSUME ReleaseInv, NEW v \in Vaults, NEW l \in Links, Acts(v, l)
  PROVE  PromiseStep
<1> USE DEF ReleaseInv, RowsAgree
<1>t. link \in [Links -> LinkRows \cup {None}] /\ pkg \in [Links -> PackageRows \cup {None}]
  BY DEF TypeOK
<1>a. \A k \in Links \ {l} : link'[k] = link[k]
  BY RowsApart
<1>s. {"credentials_saved", "paired_no_credentials"} \cap (ActiveRequest \cup Readable) = {}
  BY DEF ActiveRequest, Readable
<1>1. CASE Create(v, l)
  <2>1. UNCHANGED Rest /\ ~InFlight(l) /\ link'[l].state = "paired_no_credentials"
    BY <1>t, <1>1 DEF Create, LinksFresh, InFlight, Exists, Rest, deviceVars, history,
                      Admitted
  <2>2. ~InFlight(l)'
    BY <1>s, <2>1 DEF InFlight
  <2> QED
    BY <1>a, <2>1, <2>2, SameStep, Stutters
<1>2. CASE PairWrite(v, l)
  <2>1. UNCHANGED Rest
    BY <1>2 DEF PairWrite, Rest, deviceVars, history, Admitted
  <2>2. CASE ~Exists(l)
    BY <1>2, <2>1, <2>2, <1>a, SameStep, Stutters DEF PairWrite
  <2>3. CASE Exists(l)
    <3>1. link[l] \in LinkRows
      BY <1>t, <2>3 DEF Exists
    <3>2. link'[l] = [link[l] EXCEPT !.ben = v, !.status = "linked"]
      BY <1>t, <1>2, <2>3 DEF PairWrite
    <3>0. [link[l] EXCEPT !.ben = v, !.status = "linked"] \in LinkRows
      BY <3>1, RowTyped
    <3>3. link'[l] \in LinkRows
      BY <3>0, <3>2
    <3>4. link'[l].state = link[l].state /\ link'[l].asked = link[l].asked
          /\ link'[l].decided = link[l].decided
      BY <3>1, <3>2 DEF LinkRows
    <3>5. InFlight(l)' <=> InFlight(l)
      BY <2>3, <3>3, <3>4, NoRowAssumption DEF InFlight, Exists
    <3> QED
      BY <1>a, <2>1, <3>4, <3>5, SameStep, Stutters
  <2> QED
    BY <2>2, <2>3
<1>3. ASSUME UNCHANGED Rest,
             link'[l] = None \/ link'[l].state \in {"credentials_saved", "paired_no_credentials"}
      PROVE  PromiseStep
  <2>1. ~InFlight(l)'
    BY <1>s, <1>3 DEF InFlight, Exists
  <2>2. {l} \in SUBSET Links /\ (\A k \in {l} : ~InFlight(k)')
    BY <2>1
  <2> QED
    BY <1>a, <1>3, <2>2, VoidStep
<1>4. CASE Save(v, l) \/ Replace(v, l) \/ DeletePackage(v, l)
  <2>1. UNCHANGED Rest /\ link[l] \in LinkRows
    BY <1>t, <1>4 DEF Save, Replace, DeletePackage, Rest, deviceVars, history, Admitted,
                      OwnedBy, Exists
  <2>2. \E s \in {"credentials_saved", "paired_no_credentials"} :
          \/ link'[l] = [link[l] EXCEPT !.state = s]
          \/ link'[l] = [link[l] EXCEPT !.state = s, !.asked = None, !.ends = None,
                                        !.decided = FALSE]
    BY <1>t, <1>4 DEF Save, Replace, DeletePackage, Reset
  <2>3. link'[l].state \in {"credentials_saved", "paired_no_credentials"}
    BY <2>1, <2>2 DEF LinkRows
  <2> QED
    BY <1>3, <2>1, <2>3
<1>5. CASE DeleteLink(v, l)
  <2>1. Admitted' = Admitted
    <3> SUFFICES ASSUME NEW t \in Tokens, auth'[t] # auth[t]
                 PROVE  /\ auth[t] # None /\ auth'[t] # None
                        /\ auth'[t].link = auth[t].link /\ auth'[t].device = auth[t].device
      BY AdmittedLasts
    <3>1. auth'[t] = [auth[t] EXCEPT !.status = "deleted"] /\ auth[t] # None
      BY <1>5 DEF DeleteLink, AuthsOf
    <3>2. auth[t] \in AuthRows
      BY <3>1 DEF TypeOK
    <3>3. [auth[t] EXCEPT !.status = "deleted"] \in AuthRows
      BY <3>2 DEF AuthRows
    <3> QED
      BY <3>1, <3>2, <3>3, NoRowAssumption DEF AuthRows
  <2>2. UNCHANGED Rest /\ link'[l] = None
    BY <1>t, <1>5, <2>1 DEF DeleteLink, Rest, history
  <2> QED
    BY <1>3, <2>2
<1>6. ASSUME NEW b \in BOOLEAN, Exists(l), Withdrawn(l, b)
      PROVE  PromiseStep
  <2>1. Admitted' = Admitted
    BY <1>6, AreAlive, RevokedAdmits DEF Withdrawn
  <2>2. link[l] \in LinkRows
    BY <1>t, <1>6 DEF Exists
  <2>3. UNCHANGED Rest /\ link'[l].state = "credentials_saved"
    BY <1>t, <1>6, <2>1, <2>2 DEF Withdrawn, Rest, history, LinkRows
  <2> QED
    BY <1>3, <2>3
<1>7. CASE Request(v, l)
  <2>1. link[l] \in LinkRows /\ Exists(l) /\ now \in Nat /\ now + Cooldown \in Nat
    BY <1>t, <1>7, LimitAssumption, DelayAssumption
       DEF Request, BeneficiaryIs, Exists, TypeOK
  <2>2. link'[l] = [link[l] EXCEPT !.state = "cooldown_active", !.asked = now,
                                   !.ends = now + Cooldown, !.decided = FALSE]
    BY <1>t, <1>7 DEF Request
  <2>0. "cooldown_active" \in PairingStates /\ now \in Nat \cup {None}
        /\ now + Cooldown \in Nat \cup {None}
    BY <2>1 DEF PairingStates
  <2>r. [link[l] EXCEPT !.state = "cooldown_active", !.asked = now,
                        !.ends = now + Cooldown, !.decided = FALSE] \in LinkRows
    <3> DEFINE e == now + Cooldown
    <3>1. e \in Nat \cup {None} /\ FALSE \in BOOLEAN
      BY <2>0
    <3> HIDE DEF e
    <3>2. [link[l] EXCEPT !.state = "cooldown_active", !.asked = now,
                          !.ends = e, !.decided = FALSE] \in LinkRows
      BY <2>0, <2>1, <3>1, RowTyped
    <3> QED
      BY <3>2 DEF e
  <2>3. link'[l] \in LinkRows
    BY <2>r, <2>2
  <2>4. link'[l].state = "cooldown_active" /\ link'[l].asked = now /\ link'[l].decided = FALSE
    BY <2>1, <2>2 DEF LinkRows
  <2>5. ~InFlight(l) /\ InFlight(l)'
    BY <1>s, <1>7, <2>3, <2>4, NoRowAssumption
       DEF Request, Requestable, InFlight, Exists, ActiveRequest
  <2>6. Asked[l] = None /\ Asked' = [Asked EXCEPT ![l] = now]
    BY <1>a, <2>4, <2>5 DEF Asked, InFlight, Exists
  <2>7. Granted' = Granted
    BY <1>a, <2>4, <2>5 DEF Granted, InFlight, Exists
  <2>8. UNCHANGED Rest
    BY <1>7 DEF Request, Rest, deviceVars, history, Admitted
  <2>9. Promise!Ask(l)
    BY <2>6, <2>7, <2>8 DEF Promise!Ask, Asked, Granted, Rest
  <2> QED
    BY <2>9 DEF PromiseStep, Promise!Next
<1>8. CASE Approve(v, l)
  <2>1. link[l] \in LinkRows /\ Exists(l)
    BY <1>t, <1>8 DEF Approve, OwnedBy, Exists
  <2>2. link'[l] = [link[l] EXCEPT !.state = "approved", !.decided = TRUE]
    BY <1>t, <1>8 DEF Approve
  <2>3. link'[l] \in LinkRows
    BY <2>1, <2>2, RowTyped DEF PairingStates
  <2>4. link'[l].state = "approved" /\ link'[l].asked = link[l].asked
        /\ link'[l].decided = TRUE
    BY <2>1, <2>2 DEF LinkRows
  <2>5. InFlight(l) /\ InFlight(l)' /\ link[l].asked # None
    BY <1>8, <2>1, <2>3, <2>4, NoRowAssumption
       DEF Approve, InFlight, Exists, Readable, StampsAgree
  <2>6. Asked[l] # None /\ Asked' = Asked
    BY <1>a, <2>4, <2>5 DEF Asked, InFlight, Exists
  <2>7. Granted' = [Granted EXCEPT ![l] = TRUE]
    BY <1>a, <2>4, <2>5 DEF Granted, InFlight, Exists
  <2>8. UNCHANGED Rest
    BY <1>8 DEF Approve, Rest, deviceVars, history, Admitted
  <2>9. Promise!Grant(l)
    BY <2>6, <2>7, <2>8 DEF Promise!Grant, Asked, Granted, Rest
  <2> QED
    BY <2>9 DEF PromiseStep, Promise!Next
<1>9. ASSUME NEW s \in ActiveRequest \cup Readable, link[l] \in LinkRows, InFlight(l),
             link' = [link EXCEPT ![l].state = s], UNCHANGED <<now, auth, trusted>>
      PROVE  UNCHANGED <<now, trusted, Admitted, Asked, Granted>>
  <2>1. link'[l] = [link[l] EXCEPT !.state = s]
    BY <1>t, <1>9
  <2>0. s \in PairingStates
    BY <1>9 DEF PairingStates, ActiveRequest, Readable
  <2>2. link'[l] \in LinkRows
    BY <1>9, <2>0, <2>1, RowTyped
  <2>3. link'[l].state = s /\ link'[l].asked = link[l].asked
        /\ link'[l].decided = link[l].decided
    BY <1>9, <2>1 DEF LinkRows
  <2>4. InFlight(l)'
    BY <1>9, <2>2, <2>3, NoRowAssumption DEF InFlight, Exists
  <2>5. Asked' = Asked
    BY <1>a, <1>9, <2>3, <2>4 DEF Asked, InFlight, Exists
  <2>6. Granted' = Granted
    BY <1>a, <1>9, <2>3, <2>4 DEF Granted, InFlight, Exists
  <2>7. Admitted' = Admitted
    BY <1>9 DEF Admitted
  <2> QED
    BY <1>9, <2>5, <2>6, <2>7
<1>10. CASE Claim(v, l)
  <2>1. link[l] \in LinkRows /\ InFlight(l) /\ link' = [link EXCEPT ![l].state = "claimable"]
        /\ UNCHANGED <<now, auth, trusted, shown>> /\ "claimable" \in ActiveRequest
    BY <1>t, <1>10 DEF Claim, BeneficiaryIs, InFlight, Exists, ActiveRequest, deviceVars,
                       history
  <2> QED
    BY <1>9, <2>1, Stutters DEF Rest
<1>11. CASE Retrieve(v, l)
  <2>1. link[l] \in LinkRows /\ InFlight(l) /\ link' = [link EXCEPT ![l].state = "released"]
        /\ UNCHANGED <<now, auth, trusted>> /\ "released" \in Readable /\ Exists(l)
        /\ MayRead(l) /\ pkg[l] \in PackageRows /\ shown' = shown \cup {<<l, pkg[l].id>>}
    BY <1>t, <1>11 DEF Retrieve, BeneficiaryIs, InFlight, Exists, MayRead, Readable,
                       deviceVars
  <2>2. UNCHANGED <<now, trusted, Admitted, Asked, Granted>>
    BY <1>9, <2>1
  <2>3. Asked[l] # None /\ (Granted[l] \/ Asked[l] + Cooldown <= now)
    BY <2>1, ReadableIsOpen
  <2>4. Promise!Open(l)
    BY <2>3 DEF Promise!Open, Asked, Granted
  <2>5. Promise!Show(l, pkg[l].id) /\ pkg[l].id \in 1 .. MaxPackages
    BY <2>1, <2>2, <2>4 DEF Promise!Show, Asked, Granted, PackageRows
  <2> QED
    BY <2>5 DEF PromiseStep, Promise!Next
<1> QED
  BY <1>1, <1>2, <1>4, <1>5, <1>6, <1>7, <1>8, <1>10, <1>11
     DEF Acts, Cancel, Reject, OwnedBy, BeneficiaryIs

\* The clock passes, a device is admitted or trusted, or nothing changes.
LEMMA SideKeeps ==
  ASSUME ReleaseInv, SideStep
  PROVE  PromiseStep
<1> USE DEF ReleaseInv, RowsAgree
<1>0. link' = link
  BY SideFrame
<1>k. ASSUME UNCHANGED <<now, shown, trusted, auth>> PROVE PromiseStep
  BY <1>0, <1>k, SameStep, Stutters DEF Rest, Admitted
<1>1. CASE Tick
  <2>1. UNCHANGED <<shown, trusted, Asked, Granted, Admitted>> /\ now' = now + 1
    BY <1>1 DEF Tick, linkVars, deviceVars, history, Asked, Granted, Admitted, InFlight, Exists
  <2>2. Promise!Pass
    BY <2>1 DEF Promise!Pass, Asked, Granted
  <2> QED
    BY <2>2 DEF PromiseStep, Promise!Next
<1>2. ASSUME NEW v \in Vaults, NEW l \in Links,
             PairRead(v, l) \/ PairAbort(v, l) \/ FetchKey(v, l)
      PROVE  PromiseStep
  BY <1>k, <1>2 DEF PairRead, PairAbort, FetchKey, linkVars, deviceVars, history
<1>3. ASSUME NEW v \in Vaults, RotateBegin(v) \/ RotateAbort(v) PROVE PromiseStep
  BY <1>k, <1>3 DEF RotateBegin, RotateAbort, deviceVars, history
<1>4. ASSUME NEW v \in Vaults, NEW d \in Devices, DeviceStep(v, d) PROVE PromiseStep
  BY <1>k, <1>4 DEF DeviceStep, DeviceSeen, DeviceApproved, DeviceRevoked, history
<1>5. ASSUME NEW t \in Tokens, ConsumeAbort(t) PROVE PromiseStep
  BY <1>k, <1>5 DEF ConsumeAbort, history
<1>6. ASSUME NEW v \in Vaults, NEW d \in Devices, NEW t \in Tokens, ConsumeBegin(v, d, t)
      PROVE  PromiseStep
  BY <1>k, <1>6 DEF ConsumeBegin, history
<1>7. ASSUME NEW v \in Vaults, NEW d \in Devices, NEW t \in Tokens, ConsumeFinish(v, d, t)
      PROVE  PromiseStep
  <2>1. auth[t] \in AuthRows /\ auth[t].device = d
    BY <1>7 DEF ConsumeFinish, Presented, OneLiveToken, TypeOK
  <2>2. UNCHANGED <<now, shown, link>> /\ auth' = [auth EXCEPT ![t].status = "consumed"]
    BY <1>0, <1>7 DEF ConsumeFinish
  <2>3. Admitted' = Admitted
    <3>1. auth'[t] = [auth[t] EXCEPT !.status = "consumed"]
          /\ \A u \in Tokens \ {t} : auth'[u] = auth[u]
      BY <2>2 DEF TypeOK
    <3>2. auth'[t] \in AuthRows
      BY <2>1, <3>1 DEF AuthRows
    <3>3. auth[t] # None /\ auth'[t] # None
          /\ auth'[t].link = auth[t].link /\ auth'[t].device = auth[t].device
      BY <2>1, <3>1, <3>2, NoRowAssumption DEF AuthRows
    <3> QED
      BY <3>1, <3>3, AdmittedLasts
  <2>4. UNCHANGED <<Asked, Granted>>
    BY <2>2 DEF Asked, Granted, InFlight, Exists
  <2>5. CASE trusted' = trusted
    BY <2>2, <2>3, <2>4, <2>5, Stutters DEF Rest
  <2>6. CASE trusted' = trusted \cup {<<auth[t].link, d>>}
    <3>1. auth[t] # None
      BY <2>1, NoRowAssumption
    <3>2. <<auth[t].link, d>> \in Admitted
      BY <2>1, <3>1 DEF Admitted
    <3>3. Promise!Trust(auth[t].link, d) /\ auth[t].link \in Links
      BY <2>1, <2>2, <2>3, <2>4, <2>6, <3>2 DEF Promise!Trust, Asked, Granted, AuthRows
    <3> QED
      BY <3>3 DEF PromiseStep, Promise!Next
  <2> QED
    BY <1>7, <2>5, <2>6 DEF ConsumeFinish
<1>8. ASSUME NEW v \in Vaults, NEW l \in Links, NEW t \in Tokens, NEW d \in Devices,
             Authorize(v, l, t, d)
      PROVE  PromiseStep
  <2>1. Exists(l) /\ MayRead(l) /\ auth[t] = None /\ UNCHANGED <<now, shown, trusted>>
    BY <1>8 DEF Authorize, BeneficiaryIs, history
  <2>2. UNCHANGED <<Asked, Granted>>
    BY <1>0 DEF Asked, Granted, InFlight, Exists
  <2>3. Revoked(LiveTokens(l)) \in [Tokens -> AuthRows \cup {None}]
    BY AreAlive, RevokedTyped
  <2>4. auth'[t] = [link |-> l, owner |-> link[l].owner, device |-> d,
                    until |-> now + TokenTTL, status |-> "live"]
        /\ \A u \in Tokens \ {t} : auth'[u] = Revoked(LiveTokens(l))[u]
    BY <1>8, <2>3 DEF Authorize, Superseded
  <2>5. auth'[t] \in AuthRows /\ auth'[t].link = l /\ auth'[t].device = d
    <3>1. link[l] \in LinkRows
      BY <2>1 DEF Exists, TypeOK
    <3>2. link[l].owner \in Vaults
      BY <3>1 DEF LinkRows
    <3>3. now + TokenTTL \in Nat
      BY LimitAssumption, DelayAssumption DEF TypeOK
    <3> QED
      BY <2>4, <3>2, <3>3 DEF AuthRows
  <2>6. auth'[t] # None
    BY <2>5, NoRowAssumption
  <2>7. ASSUME NEW u \in Tokens \ {t}
        PROVE  \/ auth'[u] = auth[u]
               \/ /\ auth[u] # None /\ auth'[u] # None
                  /\ auth'[u].link = auth[u].link /\ auth'[u].device = auth[u].device
    <3> SUFFICES ASSUME auth'[u] # auth[u]
                 PROVE  /\ auth[u] # None /\ auth'[u] # None
                        /\ auth'[u].link = auth[u].link /\ auth'[u].device = auth[u].device
      OBVIOUS
    <3>1. auth'[u] = [auth[u] EXCEPT !.status = "revoked"] /\ auth[u] # None
      BY <2>4 DEF Revoked, LiveTokens, AuthsOf
    <3>2. auth[u] \in AuthRows
      BY <3>1 DEF TypeOK
    <3>3. auth'[u] \in AuthRows
      BY <3>1, <3>2 DEF AuthRows
    <3> QED
      BY <3>1, <3>2, <3>3, NoRowAssumption DEF AuthRows
  <2>8. Admitted' = Admitted \cup {<<l, d>>}
    BY <2>1, <2>5, <2>6, <2>7 DEF Admitted
  <2>9. Asked[l] # None /\ (Granted[l] \/ Asked[l] + Cooldown <= now)
    BY <2>1, ReadableIsOpen
  <2>10. Promise!Open(l)
    BY <2>9 DEF Promise!Open, Asked, Granted
  <2>11. Promise!Admit(l, d)
    BY <2>1, <2>2, <2>8, <2>10 DEF Promise!Admit, Asked, Granted
  <2> QED
    BY <2>11 DEF PromiseStep, Promise!Next
<1> QED
  BY <1>1, <1>2, <1>3, <1>4, <1>5, <1>6, <1>7, <1>8 DEF SideStep, Consume

\* A rotation voids the requests of the links it has seen.
LEMMA RotateKeeps ==
  ASSUME ReleaseInv, NEW v \in Vaults, RotateApply(v)
  PROVE  PromiseStep
<1>0. TypeOK
  BY DEF ReleaseInv
<1>1. SeenPackages(v) \in SUBSET Links /\ SeenLinks(v) \in SUBSET Links
  BY DEF SeenPackages, SeenLinks
<1>2. Admitted' = Admitted
  BY <1>0, AreAlive, RevokedAdmits DEF RotateApply
<1>3. UNCHANGED Rest
  BY <1>2 DEF RotateApply, Rest, history
<1>4. ASSUME NEW l \in SeenLinks(v) PROVE ~InFlight(l)'
  <2>1. link[l] \in LinkRows
    BY <1>0 DEF SeenLinks, Exists, TypeOK
  <2>2. link'[l] = [link[l] EXCEPT !.state = "needs_reencryption", !.asked = None,
                                   !.ends = None, !.decided = FALSE]
    BY <1>1 DEF RotateApply
  <2>3. link'[l].state = "needs_reencryption"
    BY <2>1, <2>2 DEF LinkRows
  <2> QED
    BY <2>3 DEF InFlight, ActiveRequest, Readable
<1>5. \A l \in Links \ SeenLinks(v) : link'[l] = link[l]
  BY DEF RotateApply
<1> QED
  BY <1>1, <1>3, <1>4, <1>5, VoidStep

\* Nobody sees a package or gets a device in but as ReleasePromise allows: after
\* a request of which the owner approved or the cooldown ended.
THEOREM PromiseTheorem == Spec => KeepsPromise
<1>1. Init => Promise!Init
  BY DEF Init, Promise!Init, InFlight, Exists, Admitted
<1>2. ReleaseInv /\ [Next]_vars => [Promise!Next]_(Promise!vars)
  <2> SUFFICES ASSUME ReleaseInv, [Next]_vars PROVE PromiseStep
    BY DEF PromiseStep
  <2>1. CASE RowStep
    BY <2>1, RowKeeps DEF RowStep
  <2>2. CASE SideStep
    BY <2>2, SideKeeps
  <2>3. ASSUME NEW v \in Vaults, RotateApply(v) PROVE PromiseStep
    BY <2>3, RotateKeeps
  <2>4. CASE UNCHANGED vars
    BY <2>4, Stutters DEF vars, linkVars, deviceVars, history, Rest, Asked, Granted,
                          Admitted, InFlight, Exists
  <2> QED
    BY <2>1, <2>2, <2>3, <2>4, StepSplit
<1> QED
  BY <1>1, <1>2, ReleaseInvariant, PTL DEF Spec, KeepsPromise, Promise!Spec
=============================================================================
