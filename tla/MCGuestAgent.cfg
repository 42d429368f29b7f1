SPECIFICATION Spec
CONSTANTS
    Conns = {c1, c2}
    Workers = {w}
    Procs = {p}
    MaxOut = 2
    Root = root
    None = none
SYMMETRY Symmetry
INVARIANTS WaitIsWhole AnswerIsOwn  NoStuckWait
CHECK_DEADLOCK FALSE
