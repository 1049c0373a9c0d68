\* Pushes overwrite published elements before the ring counts as full.
SPECIFICATION Spec
CONSTANTS
    Capacity = 4
    MaxPushes = 12
INVARIANT
    StopsBeforeOverwriting
