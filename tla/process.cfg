CONSTANTS
    Requests = {r1, r2}
    Stoppers = {s1}
    MaxStarts = 2
    ConcurrencyLimit = 2
    CheckHealth = TRUE
    HasTTL = TRUE
SPECIFICATION FairSpec
INVARIANTS AtMostOneUpstream StoppedMeansExited
PROPERTIES ShutdownSticks TransientStatesEnd StopCommandReturns
CHECK_DEADLOCK FALSE
