SPECIFICATION FairSpec
CONSTANTS
    t1 = t1
    t2 = t2
    Threads <- OneThread
    Requests = {"async", "sync", "plain", "poll"}
    MaxRuns = 1
    PaperRuns = 1
    Faults = {"outage", "expiry", "error", "hang", "crash"}
PROPERTIES
    StopEnds
