SPECIFICATION Spec
CONSTANTS
    eoa = eoa
    contract = contract
    fresh = fresh
    s1 = s1
    Addrs = {eoa, contract, fresh}
    Slots = {s1}
    MaxValue = 1
    MaxBalance = 4
    MaxNonce = 3
    Precompile3 = fresh
    Callers = {eoa}
    CallStackLimit = 1
    MaxBatches = 1
    Genesis <- MCGenesis
    Setups <- RedelegationSetups
INVARIANTS
    DiscardRestores
