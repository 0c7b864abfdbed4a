--------------------------- MODULE ReleasePromise ---------------------------
(***************************************************************************)
(* What inheritance promises the owner of a link: a package is shown, and  *)
(* a device let in, only after a request that the owner approved or that   *)
(* outlived the cooldown without being withdrawn; a device only if it was  *)
(* admitted while that was so.                                             *)
(***************************************************************************)
EXTENDS Integers

CONSTANTS Links, Devices, Packages, Cooldown, None

VARIABLES clock,
          asked,     \* when the running request of a link was made
          granted,   \* whether the owner approved it
          shown,     \* packages a beneficiary has seen, with their links
          admitted,  \* <<l, d>>: link l, being open, admitted device d
          trusted    \* <<l, d>>: device d was let in on the strength of link l

vars == <<clock, asked, granted, shown, admitted, trusted>>

Open(l) == asked[l] # None /\ (granted[l] \/ asked[l] + Cooldown <= clock)

Init == /\ clock = 0
        /\ asked = [l \in Links |-> None] /\ granted = [l \in Links |-> FALSE]
        /\ shown = {} /\ admitted = {} /\ trusted = {}

Pass == clock' = clock + 1 /\ UNCHANGED <<asked, granted, shown, admitted, trusted>>

\* The beneficiary asks, the owner grants; a request may become void at any time.
Ask(l) == /\ asked[l] = None
          /\ asked' = [asked EXCEPT ![l] = clock]
          /\ UNCHANGED <<clock, granted, shown, admitted, trusted>>

Grant(l) == /\ asked[l] # None
            /\ granted' = [granted EXCEPT ![l] = TRUE]
            /\ UNCHANGED <<clock, asked, shown, admitted, trusted>>

Void(S) == /\ asked' = [l \in Links |-> IF l \in S THEN None ELSE asked[l]]
           /\ granted' = [l \in Links |-> IF l \in S THEN FALSE ELSE granted[l]]
           /\ UNCHANGED <<clock, shown, admitted, trusted>>

Show(l, p) == /\ Open(l)
              /\ shown' = shown \cup {<<l, p>>}
              /\ UNCHANGED <<clock, asked, granted, admitted, trusted>>

Admit(l, d) == /\ Open(l)
               /\ admitted' = admitted \cup {<<l, d>>}
               /\ UNCHANGED <<clock, asked, granted, shown, trusted>>

Trust(l, d) == /\ <<l, d>> \in admitted
               /\ trusted' = trusted \cup {<<l, d>>}
               /\ UNCHANGED <<clock, asked, granted, shown, admitted>>

Next == \/ Pass
        \/ \E S \in SUBSET Links : Void(S)
        \/ \E l \in Links :
             \/ Ask(l) \/ Grant(l)
             \/ \E p \in Packages : Show(l, p)
             \/ \E d \in Devices : Admit(l, d) \/ Trust(l, d)

Spec == Init /\ [][Next]_vars
=============================================================================
