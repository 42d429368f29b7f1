\* Two callers, a vm fixture and a lab fixture built from it
SPECIFICATION MCSpec
CONSTANTS
    c1 = c1
    c2 = c2
    base = base
    net = net
    Callers = {c1, c2}
    Keys = {base, net}
    LabKeys = {net}
    Deps <- MCDeps
    g = g
    h = h
    tool = tool
    Refs = {g, h}
    Bodies <- MCBodies
    HostFiles = {tool}
    Stats = {1, 2}
    Missing = Missing
    Samples <- MCSamples
SYMMETRY Symmetry
INVARIANTS
    NoTornEntry
    DoneIsPaired
    NoStuckWaiter
PROPERTIES
    EditRekeys
