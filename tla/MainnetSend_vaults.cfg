SPECIFICATION FairSpec
CONSTANTS
    c1 = c1
    d1 = d1
    d2 = d2
    g1 = g1
    s1 = s1
    v1 = v1
    v2 = v2
    w1 = w1
    None = None
    Vaults = {v1, v2}
    Wallets = {s1}
    Holds <- Everybody
    Drafts = {d1, d2}
    Workers = {w1}
    Procs = {w1}
    ProcOf <- OwnProcess
    Keys = {}
    Forms = {"plain", "sealed"}
    Terms = {c1}
    Sigs = {g1}
    MaxNonce = 0
    DraftTTL = 2
    ClaimLease = 1
    LockLease = 1
    MaxTime = 2
    MaxFlips = 1
PROPERTIES OwnVaultOnly KeepsPromise RequestsEnd
