CONSTANTS
    a = a
    u = u
    r = r
    NoOne = NoOne
    Inside = {a}
    Outside = {u}
    Repair = r
    Version <- VersionOf
    Bad <- BadOnes
    Quarantine = 2
    MaxFaults = 1
SPECIFICATION FairSpec
INVARIANTS SerialIsSound
PROPERTIES  OperationsEnd 
CHECK_DEADLOCK FALSE
