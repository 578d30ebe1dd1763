CONSTANTS
    Cores <- FourCores
    Phys <- Siblings
    Pool0 <- FourCores
    b1 = b1
    b2 = b2
    Boxes = {b1, b2}
    Engine = Engine
    Pin <- FirstCore
    Reconciler = Reconciler
    Free = Free
    Wishes = {0, 1, 2}
    ReservePhysical = FALSE
    t1 = t1
    t2 = t2
    Threads = {t1, t2}
    MaxOperations = 3
SPECIFICATION Spec
SYMMETRY Symmetry
CHECK_DEADLOCK FALSE
INVARIANTS OnePhysicalOwner TableIsTruth DedicatedIsDedicated
