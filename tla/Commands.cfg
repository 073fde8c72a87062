CONSTANTS
    Threads = 3
    Readers = {r1, r2}
    Database <- MCDatabase
    Parallelism = 3
    Source <- MCSource
    BatchSize = 2
    MaxCrashes = 1
    Jobs <- MCJobs
    Reads <- MCReads
    Faults <- MCFaults
    Flags <- MCFlags
    PathLists <- MCPathLists
    Nothing = Nothing
    History = "history"
    Beacon = "beacon"
    ChainPaths <- MCChainPaths
    InitialGas = 1
    DepositGas = 1
    MaxFrames = 2
    Sessions <- MCSessions
SPECIFICATION Spec
CHECK_DEADLOCK FALSE
INVARIANTS WorkOnce OutcomeIsTrue TraceIsTrue
PROPERTIES CommandsEnd
