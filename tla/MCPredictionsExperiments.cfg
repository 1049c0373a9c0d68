\* Every experiment over every history of up to five time stamps.
SPECIFICATION Spec
CONSTANTS
    numberOfElementsInExperiment <- Sizes
    One = 4
    intervalCount <- Counts18And19
    stepOfCounter <- Steps18And19
    Elements <- Kinds
    Configurations <- Cases
    MaxTime = 5
INVARIANTS
    TypeOK
    LinesAreTheWindows
    SumsAreOfTheWindow
    HistogramsAreComplete
    OnlySigmaPhiTerminates
\* The object is deleted, or the program terminated.
CHECK_DEADLOCK FALSE
