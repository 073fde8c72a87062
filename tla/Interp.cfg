SPECIFICATION Spec
CONSTANTS
    WordBytes = 2
    UsizeMax = 30
    Ranges <- MCRanges
    Moves <- MCMoves
    CallRanges <- MCCallRanges
    MEMORY = 1
    Quad = 2
    Fraction = 4
    StaticGas = 1
    COPY = 1
    Accesses = {1}
    CALLVALUE = 2
    CALL_STIPEND = 2
    CREATE = 2
    CODEDEPOSIT = 1
    CLEARS = 2
    Requests = {2, 20}
    CALL_STACK_LIMIT = 2
    FrameReserve = 1
    MaxCodeSize = 1
    Transactions <- MCTransactions
    MaxTxs = 2
INVARIANTS
    FramesConsistent
PROPERTIES
    GasConserved
    ImplementsFrameMemory
    Terminates
CHECK_DEADLOCK FALSE
