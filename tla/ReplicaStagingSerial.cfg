CONSTANTS
    h1 = h1
    h2 = h2
    i1 = i1
    i2 = i2
    i3 = i3
    i4 = i4
    Handlers = {h1, h2}
    Inodes = {i1, i2, i3, i4}
    NoFile = NoFile
    MaxPushes = 4
    Concurrent = 1
SYMMETRY Symmetry
SPECIFICATION Spec
INVARIANTS StagedIsComplete LiveIsComplete AckedIsStaged
