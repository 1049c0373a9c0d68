\* A satellite that sets stops the program for good when another one is being calculated.
SPECIFICATION FairSpec
CONSTANTS
    Satellites = {G, R}
    Gps = {G}
    ChannelKinds = {"s4"}
    Workers = {w1}
    MaySignal = FALSE
PROPERTY
    ReadingGoesOn
\* The code really may stop here: see ReadingGoesOn and HandlerReturns.
CHECK_DEADLOCK FALSE
