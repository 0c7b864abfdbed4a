---------------------------- MODULE SendPromise ----------------------------
(***************************************************************************)
(* What a mainnet send promises, whatever happens to workers, leases and   *)
(* answers: a draft is spent on one signed transaction, whose hash is on   *)
(* record before the network can learn of it; the network is called once   *)
(* for it; and the outcome is settled once, after the call, and truthfully.*)
(***************************************************************************)
EXTENDS Naturals

CONSTANTS Drafts, Tx, Outcomes, None

VARIABLES
    spentOn,    \* the transaction a draft was spent on
    calls,      \* broadcasts made for the draft
    settled,    \* its final outcome
    known,      \* transactions some node may hold
    accepted    \* transactions the network has accepted

pvars == <<spentOn, calls, settled, known, accepted>>

Init == /\ spentOn = [d \in Drafts |-> None]
        /\ calls = [d \in Drafts |-> 0]
        /\ settled = [d \in Drafts |-> None]
        /\ known = {} /\ accepted = {}

Spend(d, t) == /\ spentOn[d] = None
               /\ spentOn' = [spentOn EXCEPT ![d] = t]
               /\ UNCHANGED <<calls, settled, known, accepted>>

Call(d) == /\ spentOn[d] # None
           /\ calls[d] = 0
           /\ calls' = [calls EXCEPT ![d] = 1]
           /\ known' \in {known, known \cup {spentOn[d]}}
           /\ UNCHANGED <<spentOn, settled, accepted>>

TakeUp(t) == /\ t \in known
             /\ accepted' = accepted \cup {t}
             /\ UNCHANGED <<spentOn, calls, settled, known>>

\* The evidence an outcome needs.
Justified(d, o) ==
    \/ o = "submission_uncertain"
    \/ o \in {"submitted", "already_known"} /\ spentOn[d] \in accepted
    \/ o = "explicitly_rejected"

Settle(d, o) == /\ calls[d] = 1
                /\ settled[d] = None
                /\ Justified(d, o)
                /\ settled' = [settled EXCEPT ![d] = o]
                /\ UNCHANGED <<spentOn, calls, known, accepted>>

Next == \/ \E d \in Drafts : \/ Call(d)
                             \/ \E t \in Tx : Spend(d, t)
                             \/ \E o \in Outcomes : Settle(d, o)
        \/ \E t \in Tx : TakeUp(t)

Spec == Init /\ [][Next]_pvars
=============================================================================
