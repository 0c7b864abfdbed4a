SPECIFICATION Spec
CONSTANTS
    f1 = f1
    w1 = w1
    w2 = w2
    j1 = j1
    j2 = j2
    j3 = j3
    None = None
    Files = {f1}
    FirstStage <- TextFile
    FollowUp = "understanding"
    Stages = {"text", "understanding"}
    Jobs = {j1, j2, j3}
    Workers = {w1, w2}
    MaxAttempts = 2
    MaxSlow = 1
    MaxFails = 1
CHECK_DEADLOCK FALSE
SYMMETRY Interchangeable
INVARIANTS TypeOK DoneMeansText SoleWorker
PROPERTY DoneStaysDone
