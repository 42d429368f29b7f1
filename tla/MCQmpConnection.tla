-------------------------- MODULE MCQmpConnection --------------------------
(***************************************************************************)
(* Instance of QmpConnection for TLC: two callers, one of which takes      *)
(* snapshots; the bounds are in the configurations.                        *)
(***************************************************************************)
EXTENDS QmpConnection

=============================================================================
