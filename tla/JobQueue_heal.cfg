SPECIFICATION FairSpec
CONSTANTS
    f1 = f1
    w1 = w1
    w2 = w2
    j1 = j1
    j2 = j2
    j3 = j3
    None = None
    Files = {f1}
    FirstStage <- TextFile
    FollowUp = "understanding"
    Stages = {"text", "understanding"}
    Jobs = {j1, j2}
    Workers = {w1, w2}
    MaxAttempts = 2
    MaxSlow = 0
    MaxFails = 1
CHECK_DEADLOCK FALSE

PROPERTIES LeaseReturned WaitingEnds
