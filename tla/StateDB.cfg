SPECIFICATION Spec
CONSTANTS
    a1 = a1
    s1 = s1
    Addrs = {a1}
    Slots = {s1}
    MaxBalance = 1
    MaxValue = 1
    Genesis <- AnyAccount
    Forks = {"Frontier", "SpuriousDragon", "Cancun"}
    Unwinding = {"Cancun"}
    MaxBlocks = 2
    MaxTxs = 2
    MaxStates = 3
INVARIANTS
    NoPanic
    StateIsCurrent
    RevertsRestore
PROPERTIES
    ImplementsHistory
CHECK_DEADLOCK FALSE
