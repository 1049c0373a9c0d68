\* Windows of three elements over every sequence of up to eight good and bad ones.
SPECIFICATION FairSpec
CONSTANTS
    Window = 3
    MaxElements = 8
INVARIANTS
    TypeOK
    ValuesAreWindows
    EveryWindowHasValue
    SumsFollowMarks
PROPERTY
    WindowsComeOut
