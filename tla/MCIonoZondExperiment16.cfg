\* Lines of three values from a ring of eight.
SPECIFICATION WorkerSpec
CHECK_DEADLOCK FALSE
CONSTANTS
    Capacity = 8
    MaxPushes = 7
    SizeOfMlVector = 3
INVARIANT
    PredictsFromPrevious
