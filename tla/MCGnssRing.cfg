\* A ring of four elements, as the raw-data ring of the parser has, more than twice around.
SPECIFICATION Spec
CONSTANTS
    Capacity = 4
    MaxPushes = 12
INVARIANTS
    TypeOK
    ReadsInOrder
    ReadsAll
PROPERTY
    ErasesWhatWasRead
