SPECIFICATION Spec
CONSTANTS
    t1 = t1
    t2 = t2
    Threads <- TwoThreads
    Requests = {"async", "sync", "plain", "poll"}
    MaxRuns = 2
    PaperRuns = 1
    Faults = {"expiry", "error"}
SYMMETRY ThreadSymmetry
INVARIANTS
    TypeOK
    ReadyMeansEnded
    AllowedOnlyByPyramid
PROPERTIES
    SimStopKeepsAuth
