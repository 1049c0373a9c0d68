\* Three rings of three elements, every way of feeding them three time stamps.
SPECIFICATION FairSpec
CONSTANTS
    NumStreams = 3
    Capacity = 3
    MaxTime = 3
INVARIANTS
    TypeOK
    JoinsInOrder
    NoMatchLost
    NoMatchLeft
PROPERTY
    MatchesComeOut
