CONSTANTS
    NumModels = 2
    Consumers = {c1, c2}
    Readers = {c1}
    MaxQueue = 2
SPECIFICATION FairSpec
INVARIANTS NoLostWakeup
PROPERTIES ImplementsBus BusProgresses
CHECK_DEADLOCK FALSE
