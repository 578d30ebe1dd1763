CONSTANTS
    a = a
    b = b
    c = c
    Unseen = Unseen
    NoItem = 0
    NoOutput = NoOutput
    OutputLists <- ThreeOrTwo
    FirstOutputs <- Three
    Settings <- ThreeSettings
    Shown <- OneOrNone
    MaxItems = 3
    MaxEvents = 2
SPECIFICATION Spec
INVARIANTS AirPlaysCursor PlaylistIsSplit
 
