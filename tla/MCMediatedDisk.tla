--------------------------- MODULE MCMediatedDisk ---------------------------
EXTENDS MediatedDisk

Command(op, at, durable) == [op |-> op, at |-> at, value |-> 1, durable |-> durable]

\* Within a sector, across two, into the sector the image ends in, past the end
MCCommands ==
    {Command("write", {1}, FALSE), Command("write", {1, 2}, FALSE),
     Command("write", {2}, TRUE), Command("write", {3, 4}, FALSE),
     Command("write", {4}, FALSE), Command("read", {0, 1, 2}, FALSE),
     Command("read", {4, 5}, FALSE), Command("flush", {}, FALSE),
     Command("disconnect", {}, FALSE), Command("other", {}, FALSE)}

MCImages == {[a \in Addrs |-> 0]}

Policy(r, w, n, R, d) ==
    [reads |-> r, writes |-> w, after |-> n, range |-> R, delay |-> d]

MCPolicies ==
    {Policy(FALSE, TRUE, 2, {}, FALSE), Policy(TRUE, FALSE, 0, {0}, TRUE)}

=============================================================================
