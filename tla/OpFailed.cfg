CONSTANTS
    MaxU128 = 1000000000
    MaxU256 = 1500000000
    SCALE = 1000
    ByteBase = 8
    Envelopes <- MCEnvelopes
    Envs <- OpEnv
    Txs <- MCTxs
    Batches <- MCBatches
    Setters <- MCSetters
    Genesis <- MCGenesis
    Attributes <- MCAttributes
    LastBlock = 3
    OpDbErrors = TRUE
SPECIFICATION Spec
CHECK_DEADLOCK FALSE
INVARIANT FailedLeavesNothing
