SPECIFICATION Spec
CONSTANTS
    Addrs = {a1}
    Slots = {k1}
    Fields <- MCFields
    LinearLimit = 3
    MaxValue = 1
    Genesis <- MCGenesis
    Shapes <- MCShapes
    Batches = {1, 2}
    Backends = {"mdbx", "rocksdb"}
    MaxCommits = 1
    MaxCrashes = 1
INVARIANTS
    ListsFaithful
    DbIsCurrent
    ReadsAreSequential
