\* Two workers, one of each kind, two addresses, SIGINT or SIGTERM at any step of
\* main.  The program can really get stuck (join_all under a held lockOrder), so
\* deadlock is not an error here; MCThreadManagerLive.cfg checks it without signals.
SPECIFICATION FairSpec
CHECK_DEADLOCK FALSE
CONSTANTS
    NumThreads = 2
    Calcs = {c1, c2}
    NoCalc = NoCalc
    Signals = TRUE
INVARIANTS
    NoUseAfterFree
    ReleaseIsComplete
    PassFollowsRegistry
    OneThreadPerMethod
PROPERTIES
    ImplementsRegistry
    SignalStopsThreads
