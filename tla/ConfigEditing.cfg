CONSTANTS
    u1 = u1
    u2 = u2
    u3 = u3
    Users = {u1, u2, u3}
    Machine = Machine
    MaxGestures = 3
    MaxOthers = 1
    Authors = {u1, Machine}
    InFlight = 2
SYMMETRY Symmetry
SPECIFICATION Spec
CHECK_DEADLOCK FALSE
INVARIANTS ShownIsCurrent
 
