CONSTANTS
    Inferences = {e1, e2, e3}
    BufSize = 2
    Faults = {"write", "sync", "kill", "power"}
    MaxCrashes = 2
    MaxCloses = 1
SPECIFICATION FairSpec
INVARIANTS AppendedSurvives SeqNeverReused NothingSkipped CleanShutdownPersists
PROPERTIES EmitterProgresses
CHECK_DEADLOCK FALSE
