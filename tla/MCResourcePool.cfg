\* Three files, one of them watched, and an anonymous caller
SPECIFICATION FairSpec
CONSTANTS
    f1 = f1
    f2 = f2
    f3 = f3
    a1 = a1
    s1 = s1
    s2 = s2
    Files = {f1, f2, f3}
    Strays = {a1}
    Slots = {s1, s2}
    Watched = {f1}
    Limit <- MCLimit
    Total <- MCTotal
    Requests <- MCRequests
INVARIANTS
    Conservation
    NoLostWakeup
    VerdictIsExact
    NoSilentWedge
PROPERTIES
    EveryFileEnds
