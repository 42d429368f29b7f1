--------------------------- MODULE MCVmLifecycle ---------------------------
(***************************************************************************)
(* Instance of VmLifecycle with its disk ports for TLC.  The two watchdogs *)
(* are the file's and the test's.                                          *)
(***************************************************************************)
EXTENDS DiskPorts

CONSTANTS d1, d2, a, b, c

=============================================================================
