---------------------------- MODULE MCWatchdogs ----------------------------
(***************************************************************************)
(* Instance of Watchdogs for TLC; the bounds are in the configurations.    *)
(***************************************************************************)
EXTENDS Watchdogs

=============================================================================
