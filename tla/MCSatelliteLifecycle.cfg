\* A GPS and a GLONASS satellite that rise and set, one worker, signals at any step of main.
SPECIFICATION FairSpec
CONSTANTS
    Satellites = {G, R}
    Gps = {G}
    ChannelKinds = {"s4"}
    Workers = {w1}
    MaySignal = TRUE
INVARIANTS
    TypeOK
    PushFindsExperiment
    SchedulerKnowsTheLiving
    NothingLeaks
    CircularWaitOnlyOnSet
PROPERTIES
    
    EndingFinishes
\* The code really may stop here: see ReadingGoesOn and HandlerReturns.
CHECK_DEADLOCK FALSE
