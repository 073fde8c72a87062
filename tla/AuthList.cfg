SPECIFICATION FairSpec
CONSTANTS
    a1 = a1
    a2 = a2
    empty = empty
    d1 = d1
    Accounts = {a1, a2}
    Targets = {empty, d1}
    Legacy = Legacy
    NotRecovered = NotRecovered
    MaxNonce = 3
    Lists <- AllLists
    Genesis <- SomeGenesis
INVARIANTS
    MatchesListOrder
PROPERTIES
    Terminates
CHECK_DEADLOCK FALSE
