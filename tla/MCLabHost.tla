----------------------------- MODULE MCLabHost -----------------------------
(* Two VMs on one bridge, one latency setting; the first CID may be taken. *)
EXTENDS LabHost, TLC

CONSTANTS a, b

MCVms == {a, b}
MCNetems == {"50ms"}
Symmetric == Permutations({a, b})
=============================================================================
