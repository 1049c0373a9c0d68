\* The first second of GPS weeks before, in and after 2014.
SPECIFICATION Spec
CONSTANT
    StartSeconds = {1028160000, 1079568000, 1120694400}
INVARIANT
    UtcKeepsSteps
CHECK_DEADLOCK FALSE
