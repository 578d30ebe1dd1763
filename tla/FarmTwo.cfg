CONSTANTS
    j1 = j1
    j2 = j2
    w1 = w1
    w2 = w2
    Jobs = {j1, j2}
    Workers = {w1, w2}
    NoWorker = NoWorker
    Ways <- Both
    MAX_ATTEMPTS = 1
    MaxDowns = 0
    MaxCrashes = 0
    MaxCancels = 1
    MaxRetries = 1
SYMMETRY Symmetry
SPECIFICATION Spec
CHECK_DEADLOCK FALSE
 
PROPERTY EndIsFinal
