SPECIFICATION Spec
CONSTANTS
    t1 = t1
    t2 = t2
    Threads <- TwoThreads
    Requests = {"sync"}
    MaxRuns = 2
    PaperRuns = 1
    Faults = {}
PROPERTIES
    LiveKeepsTrading
