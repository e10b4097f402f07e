CONSTANTS
    MaxInt = 1000000
    Requests = {r1, r2}
    Rates <- MCRates
    PromptBounds = {1}
    RequestedMaxes = {0, 1}
    Tokens = {0, 1, 3}
    Grants <- MCGrants
    MaxVer = 2
    Faults = {"admit", "resolve", "release"}
    FailOpen = TRUE
    Drops = TRUE
SPECIFICATION Spec
INVARIANTS NoOverspend BalanceIsHonest ReservedIsHeld HoldCoversBill
SYMMETRY Symmetry
CHECK_DEADLOCK FALSE
