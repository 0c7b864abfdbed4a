SPECIFICATION Spec
CONSTANTS
    v1 = v1
    v2 = v2
    l1 = l1
    t1 = t1
    t2 = t2
    d1 = d1
    None = None
    Vaults = {v1, v2}
    Links = {l1}
    Tokens = {t1, t2}
    Devices = {d1}
    Cooldown = 1
    TokenTTL = 1
    PairTTL = 0
    MaxTime = 2
    MaxPackages = 1
    MaxKey = 2
SYMMETRY Interchangeable
CHECK_DEADLOCK FALSE
INVARIANTS OneLiveToken
PROPERTIES KeepsPromise
