SPECIFICATION Spec
CONSTANTS
    Byte = 4
    Size = 8
    Files <- MCFiles
    Options <- MCOptions
INVARIANT DuplicatesAreRejected
