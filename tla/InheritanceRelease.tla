------------------------- MODULE InheritanceRelease -------------------------
(***************************************************************************)
(* Inheritance: pairing (main.py), the escrowed credential package         *)
(* (routes/inheritance_credential_routes.py), its release and the device   *)
(* tokens (routes/inheritance_release_routes.py), and what a key rotation  *)
(* of the beneficiary does to them (routes/auth_zk_routes.py).             *)
(*                                                                         *)
(* Every handler on a link starts with SELECT ... FOR UPDATE on its row    *)
(* and commits at its end: it is one step.  Four are more than one: the    *)
(* pairing handler reads without a lock; device consumption locks the      *)
(* token row before the link row; a key rotation is one SQL statement that *)
(* waits for link rows under a snapshot taken before the wait; and the     *)
(* owner's client fetches the key it wraps for in an earlier request.      *)
(* Where two transactions wait for each other Postgres aborts one, so a    *)
(* handler that would close such a circle does not happen here, or the     *)
(* other one does not (ConsumeAbort, RotateAbort).                         *)
(***************************************************************************)
EXTENDS Integers

CONSTANTS
    Vaults,         \* the accounts
    Links,          \* ids of beneficiary_links rows
    Tokens,         \* device authorizations that may be minted
    Devices,        \* device ids
    Cooldown,       \* 30 days in the code; 0 is a permitted override
    TokenTTL,       \* 72 hours
    PairTTL,        \* lifetime of a pairing code
    MaxTime,        \* bound: the clock stops here
    MaxPackages,    \* bound: package rows ever inserted
    MaxKey,         \* bound: a vault has the keys 1..MaxKey, one after the other
    None            \* SQL NULL, or no such row

ASSUME DelayAssumption == Cooldown \in Nat /\ TokenTTL \in Nat \ {0} /\ PairTTL \in Nat
ASSUME LimitAssumption == /\ MaxTime \in Nat /\ MaxPackages \in Nat
                          /\ MaxKey \in Nat \ {0}

VARIABLES
    now,        \* the clock of the servers
    born,       \* the link ids handed out
    link,       \* beneficiary_links
    pairing,    \* <<v, l>>: a pairing handler of v has read link l
    key,        \* pk_vault_public of each vault
    offer,      \* per link, the key its owner's client has fetched
    packages,   \* how many inheritance_credentials rows there ever were
    pkg,        \* per link, its row with deleted_at IS NULL
    rotating,   \* per vault, what its running rotation has seen
    auth,       \* inheritance_device_authorizations
    consuming,  \* tokens whose row a consume handler has locked
    device,     \* trusted_devices: status by vault and device
    shown,      \* history: packages handed to a beneficiary
    trusted     \* history: <<l, d>>: a token of link l made device d trusted

linkVars   == <<born, link, pairing>>
escrowVars == <<key, offer, packages, pkg, rotating>>
deviceVars == <<auth, consuming, device>>
history    == <<shown, trusted>>
vars == <<now, linkVars, escrowVars, deviceVars, history>>

PairingStates == {"paired_no_credentials", "credentials_saved",
                  "cooldown_active", "approved", "claimable", "released",
                  "needs_reencryption"}

\* _STATES_WITH_ACTIVE_REQUEST and _STATES_RELEASE_READABLE
ActiveRequest == {"cooldown_active", "claimable"}
Readable      == {"approved", "claimable", "released"}

\* _STATES_WITH_STALE_RELEASE_TIMESTAMPS
StaleStamps == {"approved", "claimable", "released", "needs_reencryption"}

WrapKeys == [vault : Vaults, key : 1 .. MaxKey]

LinkRows == [owner : Vaults, ben : Vaults \cup {None},
             status : {"pairing_pending", "linked"}, codeUntil : Nat,
             state : PairingStates,
             asked : Nat \cup {None},       \* access_requested_at
             ends : Nat \cup {None},        \* cooldown_ends_at
             decided : BOOLEAN]             \* decision_at IS NOT NULL

PackageRows == [id : 1 .. MaxPackages, wrappedFor : WrapKeys, state : PairingStates]

AuthRows == [link : Links, owner : Vaults, device : Devices, until : Nat,
             status : {"live", "consumed", "revoked", "deleted"}]

DeviceStatus == {"none", "pending", "trusted", "revoked"}

\* The packages, with their links, that the statement of a rotation has seen,
\* and the live tokens of those links.
Snapshots == [seen : SUBSET (Links \X (1 .. MaxPackages)), tokens : SUBSET Tokens]

ASSUME NoRowAssumption ==
    None \notin Vaults \cup WrapKeys \cup LinkRows \cup PackageRows \cup AuthRows
                \cup Snapshots \cup Nat

-----------------------------------------------------------------------------
Init == /\ now = 0
        /\ born = {} /\ link = [l \in Links |-> None] /\ pairing = {}
        /\ key = [v \in Vaults |-> 1]
        /\ offer = [l \in Links |-> None]
        /\ packages = 0 /\ pkg = [l \in Links |-> None]
        /\ rotating = [v \in Vaults |-> None]
        /\ auth = [t \in Tokens |-> None] /\ consuming = {}
        /\ device \in [Vaults -> [Devices -> {"none", "pending"}]]
        /\ shown = {} /\ trusted = {}

Tick == /\ now < MaxTime
        /\ now' = now + 1
        /\ UNCHANGED <<linkVars, escrowVars, deviceVars, history>>

-----------------------------------------------------------------------------
(* Rows. *)

Exists(l) == link[l] # None
OwnedBy(v, l) == Exists(l) /\ link[l].owner = v

BeneficiaryIs(v, l) == Exists(l) /\ link[l].ben = v

\* A rotation holds the row of its vault, which an INSERT or UPDATE that refers
\* to the vault must share (foreign keys of migrations 0027 to 0029).
VaultFree(v) == rotating[v] = None

AuthsOf(l)    == {t \in Tokens : auth[t] # None /\ auth[t].link = l}
LiveTokens(l) == {t \in AuthsOf(l) : auth[t].status = "live"}

\* What becomes of the token rows when those in T, live ones, are revoked.
Revoked(T) == [t \in Tokens |-> IF t \in T THEN [auth[t] EXCEPT !.status = "revoked"]
                                ELSE auth[t]]

\* Revoking waits for a consume handler that holds the row, and that one waits
\* for the link.
MayRevoke(T) == T \cap consuming = {}

\* Mutant: the endpoints leave the escrow row alone.
MirroredNever(l, s) == pkg

\* _write_state: the mirror of the new state on the live escrow row.
Mirrored(l, s) ==
    IF pkg[l] = None THEN pkg ELSE [pkg EXCEPT ![l].state = s]

\* Mutant: the stamps stay behind.
ResetStateOnly(l, s) == [link EXCEPT ![l].state = s]

\* _clear_release_timestamps_if_stale, and the new state.
Reset(l, s) ==
    [link EXCEPT ![l] =
        IF @.state \in StaleStamps
        THEN [@ EXCEPT !.state = s, !.asked = None, !.ends = None, !.decided = FALSE]
        ELSE [@ EXCEPT !.state = s]]

-----------------------------------------------------------------------------
(* Pairing. *)

\* /beneficiary/create
Create(v, l) ==
    /\ l \notin born /\ VaultFree(v)
    /\ born' = born \cup {l}
    /\ link' = [link EXCEPT ![l] =
                  [owner |-> v, ben |-> None, status |-> "pairing_pending",
                   codeUntil |-> now + PairTTL, state |-> "paired_no_credentials",
                   asked |-> None, ends |-> None, decided |-> FALSE]]
    /\ UNCHANGED <<now, pairing, escrowVars, deviceVars, history>>

\* /beneficiary/link looks the code up without a lock and checks the row ...
PairRead(v, l) ==
    /\ Exists(l) /\ <<v, l>> \notin pairing
    /\ link[l].status = "pairing_pending"
    /\ link[l].codeUntil >= now
    /\ link[l].owner # v
    /\ pairing' = pairing \cup {<<v, l>>}
    /\ UNCHANGED <<now, born, link, escrowVars, deviceVars, history>>

\* ... and writes it, WHERE id only.  A row that is gone is not missed.
PairWrite(v, l) ==
    /\ <<v, l>> \in pairing /\ VaultFree(v)
    /\ pairing' = pairing \ {<<v, l>>}
    /\ link' = IF Exists(l)
               THEN [link EXCEPT ![l].ben = v, ![l].status = "linked"]
               ELSE link
    /\ UNCHANGED <<now, born, escrowVars, deviceVars, history>>

\* The handler raises or its process dies.
PairAbort(v, l) ==
    /\ <<v, l>> \in pairing
    /\ pairing' = pairing \ {<<v, l>>}
    /\ UNCHANGED <<now, born, link, escrowVars, deviceVars, history>>

\* /beneficiary/delete: package and token rows go with the link (ON DELETE CASCADE).
DeleteLink(v, l) ==
    /\ OwnedBy(v, l)
    /\ AuthsOf(l) \cap consuming = {}
    /\ link' = [link EXCEPT ![l] = None]
    /\ pkg' = [pkg EXCEPT ![l] = None]
    /\ auth' = [t \in Tokens |-> IF t \in AuthsOf(l)
                                 THEN [auth[t] EXCEPT !.status = "deleted"] ELSE auth[t]]
    /\ UNCHANGED <<now, born, pairing, key, offer, packages, rotating, consuming,
                   device, history>>

-----------------------------------------------------------------------------
(* The owner's package. *)

\* GET .../pubkey: from here on the owner's client can wrap for this key.
FetchKey(v, l) ==
    /\ OwnedBy(v, l) /\ link[l].ben # None
    /\ offer' = [offer EXCEPT ![l] =
                   [vault |-> link[l].ben, key |-> key[link[l].ben]]]
    /\ UNCHANGED <<now, linkVars, key, packages, pkg, rotating, deviceVars, history>>

\* _refuse_if_access_in_flight
Mutable(l) == link[l].state # "cooldown_active"

\* _insert_credential_row: a new escrow row, wrapped by the client.
Inserted(l) == [pkg EXCEPT ![l] = [id |-> packages + 1, wrappedFor |-> offer[l],
                                   state |-> "credentials_saved"]]

\* /inheritance/credentials/save.  A link that is paired has status "linked"
\* here: the legacy transfer, which has further states, is not this module's.
Saveable(l) == /\ link[l].ben # None /\ Mutable(l)
               /\ pkg[l] = None
               /\ link[l].state = "paired_no_credentials"

Save(v, l) ==
    /\ OwnedBy(v, l) /\ Saveable(l) /\ VaultFree(v)
    /\ offer[l] # None /\ packages < MaxPackages
    /\ packages' = packages + 1
    /\ pkg' = Inserted(l)
    /\ link' = [link EXCEPT ![l].state = "credentials_saved"]
    /\ offer' = [offer EXCEPT ![l] = None]
    /\ UNCHANGED <<now, born, pairing, key, rotating, deviceVars, history>>

\* /inheritance/credentials/replace: soft delete and insert.
Replaceable(l) == link[l].ben # None /\ Mutable(l) /\ pkg[l] # None

Replace(v, l) ==
    /\ OwnedBy(v, l) /\ Replaceable(l) /\ VaultFree(v)
    /\ offer[l] # None /\ packages < MaxPackages
    /\ packages' = packages + 1
    /\ pkg' = Inserted(l)
    /\ link' = Reset(l, "credentials_saved")
    /\ offer' = [offer EXCEPT ![l] = None]
    /\ UNCHANGED <<now, born, pairing, key, rotating, deviceVars, history>>

\* /inheritance/credentials/delete, with or without a row to delete.
DeletePackage(v, l) ==
    /\ OwnedBy(v, l) /\ Mutable(l)
    /\ pkg' = [pkg EXCEPT ![l] = None]
    /\ link' = Reset(l, "paired_no_credentials")
    /\ UNCHANGED <<now, born, pairing, key, offer, packages, rotating, deviceVars,
                   history>>

-----------------------------------------------------------------------------
(* The release. *)

\* Mutant: a stale package may be asked for.
RequestableStale(l) == link[l].state \in {"credentials_saved", "needs_reencryption"}

Requestable(l) == link[l].state = "credentials_saved"

\* /inheritance/access/request
Request(v, l) ==
    /\ BeneficiaryIs(v, l) /\ Requestable(l) /\ pkg[l] # None
    /\ link' = [link EXCEPT ![l] =
                  [@ EXCEPT !.state = "cooldown_active", !.asked = now,
                            !.ends = now + Cooldown, !.decided = FALSE]]
    /\ pkg' = Mirrored(l, "cooldown_active")
    /\ UNCHANGED <<now, born, pairing, key, offer, packages, rotating, deviceVars,
                   history>>

\* Back to credentials_saved without a request; a refusal is dated.
Withdrawn(l, refused) ==
    /\ link[l].state \in ActiveRequest
    /\ MayRevoke(LiveTokens(l))
    /\ link' = [link EXCEPT ![l] =
                  [@ EXCEPT !.state = "credentials_saved", !.asked = None,
                            !.ends = None, !.decided = refused]]
    /\ pkg' = Mirrored(l, "credentials_saved")
    /\ auth' = Revoked(LiveTokens(l))
    /\ UNCHANGED <<now, born, pairing, key, offer, packages, rotating, consuming,
                   device, history>>

\* /inheritance/access/cancel and /inheritance/access/reject
Cancel(v, l) == BeneficiaryIs(v, l) /\ Withdrawn(l, FALSE)
Reject(v, l) == OwnedBy(v, l) /\ Withdrawn(l, TRUE)

\* /inheritance/access/approve
Approve(v, l) ==
    /\ OwnedBy(v, l)
    /\ link[l].state \in ActiveRequest
    /\ link' = [link EXCEPT ![l] = [@ EXCEPT !.state = "approved", !.decided = TRUE]]
    /\ pkg' = Mirrored(l, "approved")
    /\ UNCHANGED <<now, born, pairing, key, offer, packages, rotating, deviceVars,
                   history>>

\* Mutant: the last moment of the cooldown does not count.
CooledEarly(l) == link[l].ends # None /\ link[l].ends <= now + 1

Cooled(l) == link[l].ends # None /\ link[l].ends <= now

\* /inheritance/access/claim; in any other state it changes nothing or refuses.
Claim(v, l) ==
    /\ BeneficiaryIs(v, l)
    /\ link[l].state = "cooldown_active" /\ Cooled(l)
    /\ link' = [link EXCEPT ![l].state = "claimable"]
    /\ pkg' = Mirrored(l, "claimable")
    /\ UNCHANGED <<now, born, pairing, key, offer, packages, rotating, deviceVars,
                   history>>

\* Mutant: a running request is enough.
MayReadInFlight(l) == link[l].state \in ActiveRequest \cup Readable

MayRead(l) == link[l].state \in Readable

\* /inheritance/credentials/retrieve
Retrieve(v, l) ==
    /\ BeneficiaryIs(v, l) /\ MayRead(l) /\ pkg[l] # None
    /\ link' = [link EXCEPT ![l].state = "released"]
    /\ pkg' = Mirrored(l, "released")
    /\ shown' = shown \cup {<<l, pkg[l].id>>}
    /\ UNCHANGED <<now, born, pairing, key, offer, packages, rotating, deviceVars,
                   trusted>>

-----------------------------------------------------------------------------
(* Devices. *)

\* Mutant: an older token stays alive beside the new one.
SupersededNever(l) == auth

\* Older unconsumed tokens of the link are revoked before a new one is inserted.
Superseded(l) == Revoked(LiveTokens(l))

\* /inheritance/device/authorize: d is the device the beneficiary asks from.
Authorize(v, l, t, d) ==
    /\ BeneficiaryIs(v, l) /\ MayRead(l)
    /\ auth[t] = None
    /\ MayRevoke(LiveTokens(l)) /\ VaultFree(v) /\ VaultFree(link[l].owner)
    /\ auth' = [Superseded(l) EXCEPT ![t] =
                  [link |-> l, owner |-> link[l].owner, device |-> d,
                   until |-> now + TokenTTL, status |-> "live"]]
    /\ UNCHANGED <<now, linkVars, escrowVars, consuming, device, history>>

\* trust_current_and_revoke_others: device d of account v signs in or, now and
\* then, sends a request.  Nothing inserts "pending" any more; rows of earlier
\* releases may have it (Init).
DeviceSeen(v, d) ==
    /\ device' = [device EXCEPT ![v] =
                     [e \in Devices |-> IF e = d THEN "trusted"
                                        ELSE IF @[e] = "none" THEN "none" ELSE "revoked"]]
    /\ UNCHANGED <<now, linkVars, escrowVars, auth, consuming, history>>

\* /devices/approve, and self-approval by PIN and delay
DeviceApproved(v, d) ==
    /\ device[v][d] = "pending"
    /\ device' = [device EXCEPT ![v][d] = "trusted"]
    /\ UNCHANGED <<now, linkVars, escrowVars, auth, consuming, history>>

\* /devices/revoke
DeviceRevoked(v, d) ==
    /\ device[v][d] \in {"pending", "trusted"}
    /\ device' = [device EXCEPT ![v][d] = "revoked"]
    /\ UNCHANGED <<now, linkVars, escrowVars, auth, consuming, history>>

DeviceStep(v, d) == DeviceSeen(v, d) \/ DeviceApproved(v, d) \/ DeviceRevoked(v, d)

\* A session of the inherited account v on device d presents the token.
Presented(t, v, d) == auth[t].owner = v /\ auth[t].device = d

\* /inheritance/device/consume locks the token row and validates it ...
ConsumeBegin(v, d, t) ==
    /\ auth[t] # None /\ t \notin consuming
    /\ auth[t].status = "live" /\ auth[t].until > now
    /\ Presented(t, v, d)
    /\ consuming' = consuming \cup {t}
    /\ UNCHANGED <<now, linkVars, escrowVars, auth, device, history>>

\* ... then gets the link row, which must not be "revoked" (no code writes
\* that state), marks the token consumed and turns the device from pending to
\* trusted.
ConsumeFinish(v, d, t) ==
    /\ t \in consuming /\ Presented(t, v, d)
    /\ auth' = [auth EXCEPT ![t].status = "consumed"]
    /\ IF device[v][d] = "pending"
       THEN /\ device' = [device EXCEPT ![v][d] = "trusted"]
            /\ trusted' = trusted \cup {<<auth[t].link, d>>}
       ELSE UNCHANGED <<device, trusted>>
    /\ consuming' = consuming \ {t}
    /\ UNCHANGED <<now, linkVars, escrowVars, shown>>

\* The handler loses a deadlock, raises or dies.
ConsumeAbort(t) ==
    /\ t \in consuming
    /\ consuming' = consuming \ {t}
    /\ UNCHANGED <<now, linkVars, escrowVars, auth, device, history>>

-----------------------------------------------------------------------------
(* Rotation of a beneficiary's key: zk_repair_finalize, branch rotate. *)

\* Mutant: links without a package are taken along (an outer join).
LivePackagesOuter(v) ==
    {x \in Links \X (0 .. MaxPackages) :
        BeneficiaryIs(v, x[1]) /\ x[2] = IF pkg[x[1]] = None THEN 0 ELSE pkg[x[1]].id}

\* Links the vault is the beneficiary of, with their live packages.
LivePackages(v) ==
    {x \in Links \X (1 .. MaxPackages) :
        BeneficiaryIs(v, x[1]) /\ pkg[x[1]] # None /\ pkg[x[1]].id = x[2]}

\* The new key is written, not yet committed, and the snapshot of the statement
\* that marks the packages is taken.
RotateBegin(v) ==
    /\ rotating[v] = None /\ key[v] < MaxKey
    /\ rotating' = [rotating EXCEPT ![v] =
                    [seen |-> LivePackages(v),
                     tokens |-> {t \in Tokens : \E x \in LivePackages(v) :
                                                   t \in LiveTokens(x[1])}]]
    /\ UNCHANGED <<now, linkVars, key, offer, packages, pkg, deviceVars, history>>

\* The statement got the link rows.  Links of the snapshot that still exist are
\* updated; a package row only if it is still the live one, for a row inserted
\* since is not in the snapshot; the tokens of the snapshot that are still live go
\* with the package rows updated.
SeenLinks(v)    == {l \in Links : /\ Exists(l)
                                  /\ \E i \in 1 .. MaxPackages : <<l, i>> \in rotating[v].seen}
SeenPackages(v) == {l \in SeenLinks(v) : /\ pkg[l] # None
                                         /\ <<l, pkg[l].id>> \in rotating[v].seen}
SeenTokens(v)   == {t \in rotating[v].tokens :
                         \E l \in SeenPackages(v) : t \in LiveTokens(l)}

RotateApply(v) ==
    /\ rotating[v] # None
    /\ MayRevoke(SeenTokens(v))
    /\ link' = [l \in Links |->
                  IF l \in SeenLinks(v)
                  THEN [link[l] EXCEPT !.state = "needs_reencryption", !.asked = None,
                                       !.ends = None, !.decided = FALSE]
                  ELSE link[l]]
    /\ pkg' = [l \in Links |->
                 IF l \in SeenPackages(v)
                 THEN [pkg[l] EXCEPT !.state = "needs_reencryption"] ELSE pkg[l]]
    /\ auth' = Revoked(SeenTokens(v))
    /\ key' = [key EXCEPT ![v] = @ + 1]
    /\ rotating' = [rotating EXCEPT ![v] = None]
    /\ UNCHANGED <<now, born, pairing, offer, packages, consuming, device, history>>

\* The transaction loses a deadlock, raises or its process dies.
RotateAbort(v) ==
    /\ rotating[v] # None
    /\ rotating' = [rotating EXCEPT ![v] = None]
    /\ UNCHANGED <<now, linkVars, key, offer, packages, pkg, deviceVars, history>>

-----------------------------------------------------------------------------
Pair(v, l)    == Create(v, l) \/ PairRead(v, l) \/ PairWrite(v, l) \/ PairAbort(v, l)
Escrow(v, l)  == FetchKey(v, l) \/ Save(v, l) \/ Replace(v, l)
                 \/ DeletePackage(v, l) \/ DeleteLink(v, l)
Release(v, l) == Request(v, l) \/ Cancel(v, l) \/ Approve(v, l) \/ Reject(v, l)
                 \/ Claim(v, l) \/ Retrieve(v, l)
Rotate(v)     == RotateBegin(v) \/ RotateApply(v) \/ RotateAbort(v)
Consume(v, d, t) == ConsumeBegin(v, d, t) \/ ConsumeFinish(v, d, t)

Next == \/ Tick
        \/ \E v \in Vaults :
             \/ \E l \in Links : Pair(v, l) \/ Escrow(v, l) \/ Release(v, l)
             \/ Rotate(v)
             \/ \E d \in Devices :
                  \/ DeviceStep(v, d)
                  \/ \E t \in Tokens : Consume(v, d, t)
                                       \/ \E l \in Links : Authorize(v, l, t, d)
        \/ \E t \in Tokens : ConsumeAbort(t)

Spec == Init /\ [][Next]_vars

-----------------------------------------------------------------------------
(* Properties. *)

\* Every row and every set of running handlers has its type.
TypeOK ==
    /\ now \in 0 .. MaxTime
    /\ born \subseteq Links /\ pairing \subseteq Vaults \X Links
    /\ link \in [Links -> LinkRows \cup {None}]
    /\ key \in [Vaults -> 1 .. MaxKey]
    /\ offer \in [Links -> WrapKeys \cup {None}]
    /\ packages \in 0 .. MaxPackages
    /\ pkg \in [Links -> PackageRows \cup {None}]
    /\ rotating \in [Vaults -> Snapshots \cup {None}]
    /\ auth \in [Tokens -> AuthRows \cup {None}]
    /\ consuming \subseteq Tokens
    /\ device \in [Vaults -> [Devices -> DeviceStatus]]
    /\ shown \subseteq Links \X (1 .. MaxPackages)
    /\ trusted \subseteq Links \X Devices

\* The release columns of a link agree with its state however requests,
\* withdrawals, package changes and rotations interleave: a request in flight or
\* granted has its date and its deadline, one that can be read has been approved
\* or has cooled down, and no date of an earlier request is left in any other
\* state (the owner's page would show it as a running countdown).
StampsAgree ==
    \A l \in Links : Exists(l) =>
        LET r == link[l]
        IN  IF r.state \in ActiveRequest \cup Readable
            THEN /\ r.asked # None /\ r.ends = r.asked + Cooldown
                 /\ r.state \in ActiveRequest => ~r.decided
                 /\ r.state \in Readable => r.decided \/ r.ends <= now
            ELSE r.asked = None /\ r.ends = None

\* A link says there is a package exactly when there is one; only a rotation
\* that overtook a deletion leaves needs_reencryption on an empty link.
EscrowBacksState ==
    \A l \in Links : Exists(l) =>
        /\ link[l].state = "paired_no_credentials" => pkg[l] = None
        /\ pkg[l] = None => link[l].state \in {"paired_no_credentials",
                                               "needs_reencryption"}

\* The state mirrored on the escrow row lags behind the link only where a
\* rotation overtook a replacement.
MirrorLagsRotationOnly ==
    \A l \in Links : Exists(l) /\ pkg[l] # None /\ pkg[l].state # link[l].state =>
        link[l].state = "needs_reencryption"

\* Link and escrow row tell the same story, however owner, beneficiary and rotations
\* interleave: both of the above.
EscrowAgrees == EscrowBacksState /\ MirrorLagsRotationOnly

\* There is at most one token of a link that can still be consumed, and the
\* token a consume handler has locked stays live until it is done, whatever
\* withdrawals, deletions and rotations want to revoke it.
OneLiveToken ==
    /\ \A t, u \in Tokens : \A l \in Links :
         t \in LiveTokens(l) /\ u \in LiveTokens(l) => t = u
    /\ \A t \in consuming : auth[t] # None /\ auth[t].status = "live"

\* A package that a rotation marked is never handed out again: the link leaves
\* needs_reencryption only with another package, with none, or with the link.
StaleStaysMarked ==
    [][\A l \in Links :
         /\ Exists(l) /\ link[l].state = "needs_reencryption" /\ pkg[l] # None
         /\ Exists(l)' /\ link'[l].state # "needs_reencryption"
         => pkg'[l] = None \/ pkg'[l].id # pkg[l].id]_vars

\* A package is shown, a token minted and a device trusted only on a link whose
\* running request was approved or outlived its cooldown (ReleasePromise).
Admitted == {<<auth[t].link, auth[t].device>> : t \in {u \in Tokens : auth[u] # None}}

InFlight(l) == Exists(l) /\ link[l].state \in ActiveRequest \cup Readable

Promise == INSTANCE ReleasePromise WITH
    Packages <- 1 .. MaxPackages,
    clock    <- now,
    asked    <- [l \in Links |-> IF InFlight(l) THEN link[l].asked ELSE None],
    granted  <- [l \in Links |-> InFlight(l) /\ link[l].decided],
    admitted <- Admitted
KeepsPromise == Promise!Spec
=============================================================================
