CONSTANTS
    c1 = c1
    c2 = c2
    Controllers = {c1, c2}
    NoOne = NoOne
    FirstActive = c1
    Changes <- TwoChanges
    MaxEvents = 4
    Rule = "stopped"
SPECIFICATION FairSpec
CHECK_DEADLOCK FALSE
INVARIANTS TypeOK OneDriver NothingErased
 
