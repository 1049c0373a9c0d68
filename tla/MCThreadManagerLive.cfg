\* No signals.  Fairness: progress of main's operations, of stop() and of the passes.
SPECIFICATION LiveSpec
CONSTANTS
    NumThreads = 2
    Calcs = {c1, c2}
    NoCalc = NoCalc
    Signals = FALSE
INVARIANT
    MainFindsLiveOrders
PROPERTIES
    OperationReturns
    StopReturns
    KeepsServing
