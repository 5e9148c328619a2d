SPECIFICATION Spec
CONSTANTS
    Handles = {h1, h2}
    Length = 3
    Values = {v0}
    Zero = v0
    Lengths = {1, 2}
    NoObserver = NoObserver
INVARIANTS TypeOK SlotOwnership NoLostWakeup
PROPERTIES KeepsFeedSafety Delivery
\* The last handle may be dropped, and the array with it.
CHECK_DEADLOCK FALSE
