CONSTANTS
    ModelOrder <- TheOrder
    MacroNames = {"A", "B", "C", "PID"}
    Environment = {"SET"}
    Docs <- AllDocs
    EditDocs <- EditedDocs
    LoadSucceeds <- Verdict
    ReloadSlots = {1, 2}
    MaxEdits = 3
    MaxManagers = 4
    None = None
SPECIFICATION FairSpec
INVARIANTS ServesALoadedConfig NoManagerLeftBehind ExpansionIsFull ModelsAreReachable
PROPERTIES ServesTheLastDocument
CHECK_DEADLOCK FALSE
