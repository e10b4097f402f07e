CONSTANTS
    Inferences = {e1, e2, e3}
    BufSize = 2
    Faults = {"write", "kill"}
    MaxCrashes = 1
    MaxCloses = 0
SPECIFICATION Spec
INVARIANTS DebitSurvivesRestart
CHECK_DEADLOCK FALSE
SYMMETRY Symmetry
