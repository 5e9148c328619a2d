SPECIFICATION Spec
CONSTANTS
    Byte = 4
    Size = 8
    Files <- MCFiles
    Options <- MCOptions
INVARIANTS
    ReadsTheDocument
    InitialValuesAreStored
    PanicsAreKnown
    PageNamesEveryTag
PROPERTIES EndsWithModbus
