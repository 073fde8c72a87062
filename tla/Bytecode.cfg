CONSTANTS
    Codes <- MCCodes
    SpecIds <- MCForks
    DelegationLen = 4
    STACK_LIMIT = 3
    GasLimit = 40
    LimbBytes = 2
    Limbs = 2
SPECIFICATION Spec
CHECK_DEADLOCK FALSE
INVARIANTS OriginalKept PointerInBytes
PROPERTIES StepMatchesTable
