SPECIFICATION Spec
CONSTANTS
    c1 = c1
    d1 = d1
    d2 = d2
    g1 = g1
    s1 = s1
    v1 = v1
    w1 = w1
    w2 = w2
    None = None
    Vaults = {v1}
    Wallets = {s1}
    Holds <- Everybody
    Drafts = {d1, d2}
    Workers = {w1, w2}
    Procs = {w1, w2}
    ProcOf <- OwnProcess
    Keys = {}
    Forms = {"plain"}
    Terms = {c1}
    Sigs = {g1}
    MaxNonce = 0
    DraftTTL = 2
    ClaimLease = 1
    LockLease = 1
    MaxTime = 2
    MaxFlips = 1
SYMMETRY Interchangeable
INVARIANTS TypeOK SentIsOnRecord OutcomeTruthful OneSenderPerWallet
PROPERTIES OnlyFreedSlipThrough
