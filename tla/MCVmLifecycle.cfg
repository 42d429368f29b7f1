\* A solo VM, the two watchdogs, and three disks for two ports
SPECIFICATION DiskFairSpec
CONSTANTS
    d1 = d1
    d2 = d2
    a = a
    b = b
    c = c
    Dogs = {d1, d2}
    Pooled = TRUE
    MaxCalls = 6
    Disks = {a, b, c}
    NoDisk = NoDisk
    PortCount = 2
INVARIANTS
    NoOrphan
    PortsOwnDisks
PROPERTIES
    NoResurrection
    
