SPECIFICATION Spec
CONSTANTS
    d1 = d1
    d2 = d2
    s1 = s1
    s2 = s2
    h1 = h1
    h2 = h2
    None = None
    Devices = {d1, d2}
    Sessions = {s1, s2}
    Handlers = {h1, h2}
    Procs = {h1, h2}
    ProcOf <- OwnProcess
    Logins = {"login", "pin"}
    Legacy = {"none", "pending", "trusted", "revoked"}
    MaxFails = 1
CHECK_DEADLOCK FALSE
SYMMETRY Interchangeable
INVARIANTS TypeOK OneLiveSession
PROPERTIES EndedOnce OnlyLeftoversDisplace
