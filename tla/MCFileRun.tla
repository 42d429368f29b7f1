----------------------------- MODULE MCFileRun -----------------------------
(***************************************************************************)
(* Instance of FileRun for TLC: two VMs in the root lab and one in its     *)
(* sub-lab.  A claim of 1 fits a small VM, one of 3 the root lab's two.    *)
(***************************************************************************)
EXTENDS FileRun

CONSTANTS v1, v2, v3

MCHome == [v \in Vms |-> IF v = v3 THEN "sub" ELSE "root"]

MCCost == [v \in Vms |-> IF v = v1 THEN 2 ELSE 1]

=============================================================================
