SPECIFICATION Spec
CONSTANTS
    Cells <- TwoDevices
    Ops <- ReadSequence
    Writable = {"holding"}
    Values = {0, 1}
    Initial = 0
    Nothing = Nothing
    Tcp = TRUE
INVARIANT WritesReachTheirUnit
