------------------------------ MODULE VmHandles ------------------------------
(***************************************************************************)
(* The host's record of what a test holds on a VM (provium-host/src/vm.rs):*)
(* the resource registry that decides whether a snapshot may be taken, and *)
(* the handles a test was given: open files, processes, workers.           *)
(*                                                                         *)
(* Every operation on a handle is a call to the agent through with_client, *)
(* which lets it through only on a Booted VM; a call that finds nobody at  *)
(* the other end marks the VM Dead.  A handle remembers in `boot' during   *)
(* which boot of the guest it was made, and in `serial' by which call: the *)
(* code keeps neither, they serve the properties.                          *)
(***************************************************************************)
EXTENDS AgentCalls

-----------------------------------------------------------------------------
(* The registry.  A behaviour has one stream at most, so that the table of *)
(* open streams and a bridge's count of captures are yes or no.            *)

EmptyRegistry == [files |-> {}, streams |-> FALSE, captures |-> FALSE]

is_quiescent(reg) == reg.files = {} /\ ~reg.streams

(* snapshot asks the registry first, then the VM's state.                  *)
SnapshotAllowed(reg, vm) == is_quiescent(reg) /\ vm \in {"Booted", "Paused"}

(* open_file registers the handle once the agent has given it out.         *)
FileOpened(reg, h) == [reg EXCEPT !.files = @ \cup {h}]

(* A plausible slip: forget it only when the agent has answered.           *)
FileClosedIfTold(reg, h, reached) == IF reached THEN [reg EXCEPT !.files = @ \ {h}] ELSE reg

(* close forgets the handle whether or not the agent could be told.        *)
FileClosed(reg, h, reached) == [reg EXCEPT !.files = @ \ {h}]

(* wrap_tail_session_with_meta: every stream of the agent is registered.   *)
wrap_tail_session(reg) == [reg EXCEPT !.streams = TRUE]

register_console_stream(reg) == [reg EXCEPT !.streams = TRUE]

register_capture(reg) == [reg EXCEPT !.captures = TRUE]

(* StreamGuard, CaptureGuard: dropping one takes the stream off the books. *)
GuardDropped(reg) == [reg EXCEPT !.streams = FALSE, !.captures = FALSE]

-----------------------------------------------------------------------------
(* Handles.                                                                *)

NewFile(h, serial, boot) ==
    [h |-> h, serial |-> serial, boot |-> boot, open |-> TRUE, cursor |-> 0]

(* `via' is the serial of the worker that runs the process, 0 for none.    *)
NewProcess(h, serial, boot, via) ==
    [h |-> h, serial |-> serial, boot |-> boot, via |-> via, consumed |-> FALSE, held |-> TRUE]

(* A worker has no flag of its own; `consumed' records that it was joined. *)
NewWorker(h, serial, boot) ==
    [h |-> h, serial |-> serial, boot |-> boot, consumed |-> FALSE, held |-> TRUE]

(* wait_with_timeout: one wait per handle, used up by the agent's answer,  *)
(* but neither by a call that did not reach the agent nor by one that      *)
(* named a handle the agent does not know.                                 *)
WaitAllowed(p) == ~p.consumed

WaitEnds(p, answered) == [p EXCEPT !.consumed = @ \/ answered]

(* ProcessDropGuard: the last reference kills and waits for a process      *)
(* nobody waited for, and does not care whether that worked.               *)
DropReaps(p) == ~p.consumed

(* WorkerDropGuard joins a worker that has files registered, and a worker  *)
(* can open none: dropping one joins nothing.                              *)
DropJoins(w) == FALSE
==============================================================================
