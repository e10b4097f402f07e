CONSTANTS
    Requests = {r1, r2}
    Stoppers = {s1}
    MaxStarts = 2
    ConcurrencyLimit = 2
    CheckHealth = TRUE
    HasTTL = FALSE
SPECIFICATION Spec
INVARIANTS WaitChanMeansExited
CHECK_DEADLOCK FALSE
