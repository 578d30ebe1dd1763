CONSTANTS
    u1 = u1
    u2 = u2
    u3 = u3
    People = {u1, u2, u3}
    NoOne = NoOne
    TTL_S = 4
    Delay = 4
SPECIFICATION FairLockSpec
INVARIANTS OneIsTold
PROPERTIES KeptWhileOpen AbandonedIsFreed
