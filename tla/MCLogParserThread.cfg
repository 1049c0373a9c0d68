\* Streams of three pieces, read in pieces of any size.
SPECIFICATION FairSpec
CHECK_DEADLOCK FALSE
CONSTANTS
    HeaderLength = 3
    MaxRead = 4
    RingSize = 4
    Streams <- MCStreams
    NoHeader = NoHeader
    MaxThrows = 1
    MaxOutputs = 1
INVARIANTS
    CutsDoNotMatter
    GroupsHaveNoGaps
    StopsOnlyWhenStuck
PROPERTY
    InputIsRead
