CONSTANTS
    MaxU128 = 1000000000
    MaxU256 = 1500000000
    SCALE = 1000
    ByteBase = 8
    Envelopes <- MCEnvelopes
    Envs <- MCEnvs
    Txs <- MCTxs
    Batches <- MCBatches
    Setters <- MCSetters
    Genesis <- MCGenesis
    Attributes <- MCAttributes
    LastBlock = 3
    OpDbErrors = FALSE
SPECIFICATION Spec
CHECK_DEADLOCK FALSE
INVARIANTS DepositsStay AllOrNothing CallerPays Conserved BuildersAgree SpendingFits
 
