---------------------------- MODULE MonitorCalls ----------------------------
(***************************************************************************)
(* What a QMP connection promises of its commands, whatever its threads    *)
(* do: QEMU carries a command out at most once; an answer handed to the    *)
(* caller is what QEMU did with that very command; a call that fails       *)
(* says nothing of whether its command was, or will be, carried out.       *)
(***************************************************************************)
EXTENDS Naturals

CONSTANT Calls          \* the command ids of the connection's life

VARIABLES
    status,             \* what the caller of each command knows
    did                 \* what QEMU has done with it

vars == <<status, did>>

Answers == {"return", "error"}

Init ==
    /\ status = [i \in Calls |-> "new"]
    /\ did = [i \in Calls |-> "no"]

Open(i) ==
    /\ status[i] = "new"
    /\ status' = [status EXCEPT ![i] = "open"]
    /\ UNCHANGED did

\* QEMU carries the command out, perhaps after its caller has given up
CarryOut(i) ==
    /\ status[i] # "new" /\ did[i] = "no"
    /\ \E r \in Answers : did' = [did EXCEPT ![i] = r]
    /\ UNCHANGED status

Answer(i) ==
    /\ status[i] = "open" /\ did[i] # "no"
    /\ status' = [status EXCEPT ![i] = did[i]]
    /\ UNCHANGED did

Fail(i) ==
    /\ status[i] = "open"
    /\ status' = [status EXCEPT ![i] = "failed"]
    /\ UNCHANGED did

Next == \E i \in Calls : Open(i) \/ CarryOut(i) \/ Answer(i) \/ Fail(i)

Spec == Init /\ [][Next]_vars

=============================================================================
