SPECIFICATION Spec
CONSTANTS
    c1 = c1
    d1 = d1
    g1 = g1
    k1 = k1
    g2 = g2
    s1 = s1
    v1 = v1
    w1 = w1
    w2 = w2
    None = None
    Vaults = {v1}
    Wallets = {s1}
    Holds <- Everybody
    Drafts = {d1}
    Workers = {w1, w2}
    Procs = {w1, w2}
    ProcOf <- OwnProcess
    Keys = {k1}
    Forms = {"plain"}
    Terms = {c1}
    Sigs = {g1, g2}
    MaxNonce = 0
    DraftTTL = 3
    ClaimLease = 1
    LockLease = 1
    MaxTime = 3
    MaxFlips = 1
SYMMETRY Interchangeable
INVARIANTS AtMostOneBroadcast RepliesAgree CacheTruthful
PROPERTIES LeasesRespected
