SPECIFICATION Spec
CONSTANTS
    Connections = {c1, c2}
    Others = {b1}
    Width = 2
    Size = 4
    Counts = {0, 1, 2}
    Wraps = TRUE
INVARIANTS TypeOK AnswersAreRight PanicsAreKnown AbortsAreKnown OnlyNestedReadsBlock
\* The tasks may wait for each other (OnlyNestedReadsBlock), or the process abort.
CHECK_DEADLOCK FALSE
