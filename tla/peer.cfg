CONSTANTS
    k1 = k1
    NumPeers = 2
    Requests = {r1, r2, r3}
    Keys = {k1}
    Score <- MCScore
    AffinityEnabled = TRUE
    Bonus = 2
    MaxInflight = 1
    QueueWait = TRUE
    Biases = {0, 3}
    MaxPins = 2
SPECIFICATION Spec
INVARIANTS CountsAreExact CapHolds AffinityIsBounded
SYMMETRY Symmetry
