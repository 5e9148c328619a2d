SPECIFICATION Spec
CONSTANTS
    Sessions = {s1, s2}
    Units = {1}
    Unknown = 9
    Size = 1
    MaxWire = 1
INVARIANT TypeOK
PROPERTY StaleTasksEnd
\* The process may abort.
CHECK_DEADLOCK FALSE
