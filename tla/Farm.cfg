CONSTANTS
    j1 = j1
    j2 = j2
    w1 = w1
    w2 = w2
    Jobs = {j1}
    Workers = {w1}
    NoWorker = NoWorker
    Ways <- EveryWay
    MAX_ATTEMPTS = 2
    MaxDowns = 1
    MaxCrashes = 1
    MaxCancels = 1
    MaxRetries = 0
SPECIFICATION FairSpec
CHECK_DEADLOCK FALSE
INVARIANTS DoneWasDone EncodingsBounded
PROPERTIES KeepsPromise EveryJobEnds
