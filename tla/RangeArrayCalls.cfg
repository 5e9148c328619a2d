SPECIFICATION Calls
CONSTANT MaxAddress = 6
INVARIANTS HoldsMaximalRuns StaysWellFormed
CHECK_DEADLOCK TRUE
