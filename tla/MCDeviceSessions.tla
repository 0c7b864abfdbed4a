--------------------------- MODULE MCDeviceSessions ---------------------------
(* Instances of DeviceSessions for TLC. *)
EXTENDS DeviceSessions, TLC

\* Each handler runs in a process of its own, named after it.
OwnProcess == [h \in Handlers |-> h]

\* Devices and sessions are only compared, and so are handlers with their processes.
Interchangeable == Permutations(Devices) \cup Permutations(Sessions)
                     \cup Permutations(Handlers)
=============================================================================
