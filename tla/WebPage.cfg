SPECIFICATION Spec
CONSTANTS
    Byte = 2
    Size = 16
    Pages <- MCPages
    Words = {2}
    Texts <- MCTexts
    ByteBits = 1
    NaN <- MCNaN
    MaxAddress = 2
    MaxSteps = 2
INVARIANTS
    ShowsWhatItHolds
    EditsMeanWhatIsTyped
    FindsOverlapping
    StaysSearchable
    EarlierEditsStand
\* The bounds stop the messages and the edits.
CHECK_DEADLOCK FALSE
