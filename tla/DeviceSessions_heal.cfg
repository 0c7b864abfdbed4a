SPECIFICATION FairSpec
CONSTANTS
    d1 = d1
    d2 = d2
    s1 = s1
    s2 = s2
    h1 = h1
    h2 = h2
    None = None
    Devices = {d1, d2}
    Sessions = {s1, s2}
    Handlers = {h1, h2}
    Procs = {h1, h2}
    ProcOf <- OwnProcess
    Logins = {"login"}
    Legacy = {"revoked"}
    MaxFails = 0
CHECK_DEADLOCK FALSE
PROPERTIES LiveDeviceHeals
