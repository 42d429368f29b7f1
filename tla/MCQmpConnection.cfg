CONSTANTS
    Callers = {"a", "b"}
    Snapshotters = {"a"}
    Owner = "b"
    MaxCalls = 2
SPECIFICATION FairSpec
INVARIANTS
    SnapshotIsWhole
PROPERTIES
    KeepsContract
    CallReturns
