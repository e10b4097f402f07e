SPECIFICATION Spec
CONSTANTS
    r1 = r1
    r2 = r2
    None = None
    Requests <- MCRequests
    NumPeers = 2
    NumModels = 2
    Serves <- MCServes
    Resident <- MCResident
    Declared <- MCDeclared
    Advertising = {2}
    Capable = {2}
    DeclaredCapable <- MCDeclaredCapable
    Named = {1}
    TTL = 1
    Timeout = 1
    Horizon = 4
    MaxChanges = 1
    MaxFails = 1
SYMMETRY RequestSymmetry
INVARIANTS WarmIsRecent LoadedIsRecent RefusalIsJustified UnreachableIsEarned
