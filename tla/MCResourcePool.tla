--------------------------- MODULE MCResourcePool ---------------------------
(***************************************************************************)
(* Instances of ResourcePool for TLC.                                      *)
(***************************************************************************)
EXTENDS ResourcePool

CONSTANTS f1, f2, f3, a1, s1, s2

\* Two units of memory and two cpus; a request is a VM, a VM that needs no
\* memory and both cpus, or more than the pool
MCLimit == [memory_bytes |-> 4, cpus |-> 4]
MCTotal == [memory_bytes |-> 2, cpus |-> 2]
SmallVm == [memory_bytes |-> 1, cpus |-> 1]
WideVm == [memory_bytes |-> 0, cpus |-> 2]
TooBig == [memory_bytes |-> 1, cpus |-> 3]
MCRequests == {SmallVm, WideVm, TooBig}

=============================================================================
