SPECIFICATION Spec
CONSTANTS
    Sessions = {s1}
    Units = {1}
    Unknown = 9
    Size = 1
    MaxWire = 1
PROPERTY PageReceivesUpdates
\* The process may abort.
CHECK_DEADLOCK FALSE
