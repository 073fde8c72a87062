CONSTANTS
    ByteBits = 2
    NumBytes = 3
    WordBits = 8
    Rounds = 12
    Order = 3
    Cofactor1 = 2
    Cofactor2 = 4
    MaxScalar = 4
    Tau = 2
    HeadBytes = 2
    MaxWrites = 6
SPECIFICATION Spec
CHECK_DEADLOCK FALSE
INVARIANTS WordsCompute PricesAgree PrecompilesAgree BackendsAgree
