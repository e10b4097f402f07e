\* Two requests, one reset, up to three proxy managers, one of them after a kill.
SPECIFICATION MeterFairSpec
CONSTANTS
    Requests = {r1, r2}
    Resets = {t1}
    MaxGens = 3
    MaxCrashes = 1
    WriteFails = TRUE
    NoFile = NoFile
INVARIANTS FileIsWhole ResetSurvives SavedStays
PROPERTIES RecordsArePersisted
CHECK_DEADLOCK FALSE
