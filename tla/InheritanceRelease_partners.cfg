SPECIFICATION Spec
CONSTANTS
    v1 = v1
    v2 = v2
    v3 = v3
    l1 = l1
    None = None
    Vaults = {v1, v2, v3}
    Links = {l1}
    Tokens = {}
    Devices = {}
    Cooldown = 2
    TokenTTL = 1
    PairTTL = 0
    MaxTime = 3
    MaxPackages = 2
    MaxKey = 2
SYMMETRY Interchangeable
CHECK_DEADLOCK FALSE
INVARIANTS TypeOK StampsAgree EscrowAgrees
PROPERTIES StaleStaysMarked KeepsPromise
