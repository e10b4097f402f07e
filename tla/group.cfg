CONSTANTS
    a = a
    b = b
    c = c
    d = d
    main = main
    other = other
    keep = keep
    Models = {a, b, c, d}
    Groups = {main, other, keep}
    GroupOf <- MCGroupOf
    Swap = {main}
    Exclusive = {main, other}
    Persistent = {keep}
    Requests = {r1, r2}
    Unloaders = {u1}
    WithTTL = {b}
    ConcurrencyLimit <- MCLimit
    None = None
SPECIFICATION MCSpec
INVARIANTS OneModelUnlessRaced ExclusiveUnlessRaced
PROPERTIES CallsReturn
CHECK_DEADLOCK FALSE
