SPECIFICATION FairSpec
CONSTANTS
    Readers = {t1, t2}
    Accounts = {a1}
    Slots = {s1}
    Codes = {c1}
    Values = {v1}
    Missing = Missing
    MaxLayers = 2
    MaxChunks = 3
INVARIANTS
    AnswersMatchDatabase

    
CHECK_DEADLOCK FALSE
