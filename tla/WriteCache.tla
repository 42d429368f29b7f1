----------------------------- MODULE WriteCache -----------------------------
(***************************************************************************)
(* What a disk with a volatile write cache promises its guest.  A read     *)
(* shows every write the disk has taken; a flush, or a write marked        *)
(* durable, that succeeds leaves everything taken so far durable; a power  *)
(* cut leaves what is durable.  Under pressure the cache may make its      *)
(* contents durable early.  A command answered with an error may have gone *)
(* through for some sectors only, and a write-back that fails may lose     *)
(* what the cache held.                                                    *)
(***************************************************************************)
CONSTANTS
    Addrs,          \* the units of the disk
    SectorOf(_),    \* the sector a unit lies in
    Values,
    Commands        \* [op, at: the units addressed, value, durable]

VARIABLES
    view,           \* what the guest reads
    durable,        \* what a power cut leaves
    command,        \* what the guest waits for
    answer          \* the answer on its way; Error while there is none

vars == <<view, durable, command, answer>>

Nothing == [op |-> "none"]
Ok(data) == [ok |-> TRUE, data |-> data]
Error == [ok |-> FALSE, data |-> <<>>]

\* The disk once the command has gone through
After(c) ==
    [a \in Addrs |-> IF c.op = "write" /\ a \in c.at THEN c.value ELSE view[a]]

\* One image in the sectors W, the other elsewhere
Mix(W, new, old) == [a \in Addrs |-> IF SectorOf(a) \in W THEN new[a] ELSE old[a]]

Init ==
    /\ view \in [Addrs -> Values] /\ durable = view
    /\ command = Nothing /\ answer = Error

Ask(c) ==
    /\ command = Nothing
    /\ command' = c /\ answer' = Error
    /\ UNCHANGED <<view, durable>>

Answer(a) ==
    /\ command # Nothing
    /\ command' = Nothing /\ answer' = a

Read ==
    /\ command.op = "read" /\ command.at \subseteq Addrs
    /\ Answer(Ok([a \in command.at |-> view[a]]))
    /\ UNCHANGED <<view, durable>>

\* A write is taken into the cache
Hold ==
    /\ command.op = "write" /\ ~command.durable /\ command.at \subseteq Addrs
    /\ Answer(Ok(<<>>))
    /\ view' = After(command) /\ UNCHANGED durable

\* A flush, a write to be durable, or one the cache has no room for
Commit ==
    /\ command.op \in {"write", "flush"} /\ command.at \subseteq Addrs
    /\ Answer(Ok(<<>>))
    /\ view' = After(command) /\ durable' = view'

\* An error: part of a write is held, or part of the cache is written back
Fail ==
    /\ Answer(Error)
    /\ \/ UNCHANGED <<view, durable>>
       \/ /\ command.op \in {"write", "flush"} /\ command.at \subseteq Addrs
          /\ \E W \in SUBSET {SectorOf(a) : a \in Addrs} :
                \/ view' = Mix(W, After(command), view) /\ UNCHANGED durable
                \/ durable' = Mix(W, After(command), durable) /\ view' = durable'

\* The guest goes away with its command
Abandon ==
    /\ command' = Nothing
    /\ UNCHANGED <<view, durable, answer>>

PowerCut ==
    /\ view' = durable
    /\ UNCHANGED <<durable, command, answer>>

Next ==
    \/ \E c \in Commands : Ask(c)
    \/ Read \/ Hold \/ Commit \/ Fail \/ Abandon \/ PowerCut

Spec == Init /\ [][Next]_vars

=============================================================================
