SPECIFICATION Spec
CONSTANTS
    v1 = v1
    v2 = v2
    a1 = a1
    a2 = a2
    u1 = u1
    u2 = u2
    f1 = f1
    h1 = h1
    h2 = h2
    i1 = i1
    i2 = i2
    c1 = c1
    c2 = c2
    None = None
    Vaults = {v1, v2}
    Accounts = {a1, a2}
    Joined <- FirstHasAccount
    Counted = {}
    Mixed = {v1}
    Uploads = {u1, u2}
    Files = {f1}
    Size <- Sizes
    Chunks = {i1, i2}
    Contents = {c1, c2}
    Handlers = {h1, h2}
    VaultLimit = 3
    Included = 4
    MaxFails = 1
CHECK_DEADLOCK FALSE
SYMMETRY Interchangeable
INVARIANTS TypeOK CounterFollows UnbilledStaysUnder
PROPERTY FinalIsFinal
