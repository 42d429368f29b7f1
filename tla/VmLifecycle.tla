---------------------------- MODULE VmLifecycle ----------------------------
(***************************************************************************)
(* One VM of a lab (vm.rs): the state machine behind VmInner's mutex, its  *)
(* QEMU process and its pool reservation.                                  *)
(*                                                                         *)
(* The file's Lua thread calls the operations one after another; the       *)
(* watchdogs of the file and of its test call Vm::shutdown from threads of *)
(* their own, at any moment.  An operation is split where it releases the  *)
(* mutex: boot and restore launch with it released, reset polls with it    *)
(* released, and a failed call is classified after releasing it.  An agent *)
(* call holds the mutex until the guest answers (with_client).             *)
(*                                                                         *)
(* A call that the state refuses returns WrongState and changes nothing;   *)
(* it is not a step.                                                       *)
(***************************************************************************)
EXTENDS Naturals

CONSTANTS
    Dogs,           \* the watchdog threads
    Pooled,         \* Vm::pool is Some: a solo boot; FALSE: a member of lab:boot
    MaxCalls        \* bound on the calls the Lua thread makes

ASSUME CallAssumption == Pooled \in BOOLEAN /\ MaxCalls \in Nat

States == {"Created", "Booted", "Paused", "Shutdown", "Dead"}

Launching == {"boot", "restore"}

VARIABLES
    state,          \* VmInner.state
    running,        \* VmInner.running is Some
    instance,       \* running.instance is Some
    reservation,    \* the boot's Hold is alive, in boot's local or in VmInner
    qemu,           \* the process: "none", "up", "gone", or "unreaped" when the
                    \* reaping of a process told to quit failed
    window,         \* set-action reboot=reset was sent, and not put back
    lock,           \* the mutex is held across an agent call
    poisoned,       \* a thread panicked holding the mutex
    pc,             \* where the Lua thread is
    origin,         \* the call that launched: "none", "boot" or "restore"
    dog,            \* each watchdog: "armed", "shutdown" (calling), "done"
    calls           \* calls made so far

vmm == <<running, instance, reservation, qemu, window, origin>>
vars == <<state, vmm, lock, poisoned, pc, dog, calls>>

PCs == {"idle", "reserve", "launch", "recheck", "op", "mark_client", "mark_vmm",
        "poll", "end_window", "panicked", "dropped"}

Init ==
    /\ state = "Created" /\ origin = "none" /\ qemu = "none" /\ pc = "idle"
    /\ running = FALSE /\ instance = FALSE /\ reservation = FALSE
    /\ window = FALSE /\ lock = FALSE /\ poisoned = FALSE
    /\ dog = [d \in Dogs |-> "armed"]
    /\ calls = 0

\* self.inner.lock().unwrap() succeeds
Lockable == ~lock /\ ~poisoned

\* The Lua thread makes another call
Call ==
    /\ pc = "idle" /\ calls < MaxCalls
    /\ calls' = calls + 1

-----------------------------------------------------------------------------
\* Vm::boot and Vm::restore up to their first unlock; only boot reserves
Begin(how) ==
    /\ Call /\ Lockable /\ state = "Created"
    /\ origin' = how
    /\ pc' = IF how = "boot" /\ Pooled THEN "reserve" ELSE "launch"
    /\ UNCHANGED <<state, running, instance, reservation, qemu, window, lock, poisoned, dog>>

\* crate::scheduler::reserve grants, refuses, or keeps the thread waiting
Reserve ==
    /\ pc = "reserve"
    /\ \/ reservation' = TRUE /\ pc' = "launch"
       \/ reservation' = FALSE /\ pc' = "idle"
    /\ UNCHANGED <<state, running, instance, qemu, window, origin, lock, poisoned, dog, calls>>

\* Vmm::launch or Vmm::restore; on an error boot's local Hold is dropped
Launch ==
    /\ pc = "launch"
    /\ \/ qemu' = "up" /\ pc' = "recheck" /\ UNCHANGED reservation
       \/ qemu' = "none" /\ pc' = "idle" /\ reservation' = FALSE
    /\ UNCHANGED <<state, running, instance, window, origin, lock, poisoned, dog, calls>>

\* Mutation of Recheck: a lost race returns without shutting the launched VM down
RecheckAbandons ==
    /\ pc = "recheck" /\ Lockable /\ pc' = "idle"
    /\ IF state = "Created"
       THEN state' = "Booted" /\ running' = TRUE /\ instance' = TRUE /\ UNCHANGED reservation
       ELSE reservation' = FALSE /\ UNCHANGED <<state, running, instance>>
    /\ UNCHANGED <<qemu, window, origin, lock, poisoned, dog, calls>>

\* The second lock of boot and restore: install the launched VM, or shut it
\* down when another thread has taken the state away from Created meanwhile
Recheck ==
    /\ pc = "recheck" /\ Lockable /\ pc' = "idle"
    /\ IF state = "Created"
       THEN /\ state' = "Booted" /\ running' = TRUE /\ instance' = TRUE
            /\ UNCHANGED <<reservation, qemu>>
       ELSE /\ qemu' = "gone" /\ reservation' = FALSE
            /\ UNCHANGED <<state, running, instance>>
    /\ UNCHANGED <<window, origin, lock, poisoned, dog, calls>>

-----------------------------------------------------------------------------
(***************************************************************************)
(* Calls to the guest's agent: with_client.                                *)
(***************************************************************************)
OpBegin ==
    /\ Call /\ Lockable /\ state = "Booted"
    /\ pc' = "op" /\ lock' = TRUE
    /\ UNCHANGED <<state, vmm, poisoned, dog>>

OpAnswered ==
    /\ pc = "op" /\ qemu = "up"
    /\ pc' = "idle" /\ lock' = FALSE
    /\ UNCHANGED <<state, vmm, poisoned, dog, calls>>

\* is_dead_signal: the connection cannot be made, or ends
OpSevered ==
    /\ pc = "op"
    /\ pc' = "mark_client" /\ lock' = FALSE
    /\ UNCHANGED <<state, vmm, poisoned, dog, calls>>

\* Mutation of MarkClient: Dead is latched whatever happened since the unlock
MarkClientBlind ==
    /\ pc = "mark_client" /\ Lockable /\ pc' = "idle"
    /\ state' = "Dead"
    /\ UNCHANGED <<vmm, lock, poisoned, dog, calls>>

MarkClient ==
    /\ pc = "mark_client" /\ Lockable /\ pc' = "idle"
    /\ state' = IF state = "Booted" THEN "Dead" ELSE state
    /\ UNCHANGED <<vmm, lock, poisoned, dog, calls>>

-----------------------------------------------------------------------------
(***************************************************************************)
(* Calls to the VMM.  QMP bounds each of them with a timeout, so they are  *)
(* one step under the mutex; is_qmp_dead_signal classifies their errors.   *)
(***************************************************************************)
\* pause and resume: done, or a QMP dead signal
PauseResume(from, to) ==
    /\ Call /\ Lockable /\ state = from /\ instance
    /\ \/ qemu = "up" /\ state' = to
       \/ state' = "Dead"
    /\ UNCHANGED <<vmm, lock, poisoned, pc, dog>>

\* pause, resume and snapshot `expect` the instance in these states
ExpectPanics ==
    /\ Call /\ Lockable /\ state \in {"Booted", "Paused"} /\ ~instance
    /\ pc' = "panicked" /\ poisoned' = TRUE
    /\ UNCHANGED <<state, vmm, lock, dog>>

\* The calls that only use the machine: snapshot (Booted or Paused), wakeup,
\* is_suspended (Booted), set_link, attach_disk, detach_disk and the ones of a
\* mediated disk.  On a dead signal the mutex is released before
\* maybe_mark_dead_on_vmm_err takes it; another error changes nothing.
VmmCall ==
    /\ Call /\ Lockable /\ state \in {"Booted", "Paused"} /\ instance
    /\ pc' \in {"idle", "mark_vmm"}
    /\ UNCHANGED <<state, vmm, lock, poisoned, dog>>

MarkVmm ==
    /\ pc = "mark_vmm" /\ Lockable /\ pc' = "idle"
    /\ state' = IF state \in {"Booted", "Paused"} THEN "Dead" ELSE state
    /\ UNCHANGED <<vmm, lock, poisoned, dog, calls>>

\* reset: set-action, system_reset and the wait for RESET.  An error returns
\* from reset, through the marking when it is a dead signal.
Reset ==
    /\ Call /\ Lockable /\ state = "Booted" /\ instance
    /\ \/ qemu = "up" /\ window' = TRUE /\ pc' = "poll"
       \/ qemu = "up" /\ window' = TRUE /\ pc' \in {"idle", "mark_vmm"}
       \/ UNCHANGED window /\ pc' \in {"idle", "mark_vmm"}
    /\ UNCHANGED <<state, running, instance, reservation, qemu, origin, lock, poisoned, dog>>

\* The polling loop ends: the agent answers, or RESET_AGENT_TIMEOUT has passed
\* (`running` is Some, so the loop never ends on None)
PollEnds ==
    /\ pc = "poll" /\ Lockable
    /\ pc' = "end_window"
    /\ UNCHANGED <<state, vmm, lock, poisoned, dog, calls>>

EndResetWindow ==
    /\ pc = "end_window" /\ Lockable /\ pc' = "idle"
    /\ window' = (window /\ ~instance)
    /\ UNCHANGED <<state, running, instance, reservation, qemu, origin, lock, poisoned, dog, calls>>

\* power_button: the guest shut down, or a QMP dead signal (a guest that ignores
\* the request leaves everything as it was).  The instance is retained.
PowerButton ==
    /\ Call /\ Lockable /\ state = "Booted" /\ instance
    /\ \/ qemu = "up" /\ qemu' = "gone" /\ state' = "Shutdown" /\ reservation' = FALSE
       \/ state' = "Dead" /\ UNCHANGED <<qemu, reservation>>
    /\ UNCHANGED <<running, instance, window, origin, lock, poisoned, pc, dog>>

-----------------------------------------------------------------------------
\* QemuBackend::shutdown: quit, then reap or kill; only try_wait can fail
Reaped == IF qemu = "up" THEN "gone" ELSE qemu

\* The body of Vm::shutdown.  In Created a launch may be under way, whose Hold
\* is still boot's own; when the instance's shutdown fails, `?` returns with the
\* instance taken and dropped and everything else as it was.
Teardown ==
    \/ /\ state = "Shutdown"
       /\ UNCHANGED <<state, instance, reservation, qemu>>
    \/ /\ state = "Created"
       /\ state' = "Shutdown"
       /\ UNCHANGED <<instance, reservation, qemu>>
    \/ /\ state \in {"Booted", "Paused", "Dead"}
       /\ instance' = FALSE
       /\ \/ /\ state' = "Shutdown" /\ reservation' = FALSE
             /\ qemu' = (IF instance THEN Reaped ELSE qemu)
          \/ /\ instance /\ qemu = "up" /\ qemu' = "unreaped"
             /\ UNCHANGED <<state, reservation>>

\* vm:shutdown() and vm:close()
Shutdown ==
    /\ Call /\ Lockable
    /\ Teardown
    /\ UNCHANGED <<running, window, origin, lock, poisoned, pc, dog>>

\* A watchdog fires: lab.shutdown() calls Vm::shutdown, which waits for the mutex
DogFires(d) ==
    /\ dog[d] = "armed" /\ pc # "dropped"
    /\ dog' = [dog EXCEPT ![d] = "shutdown"]
    /\ UNCHANGED <<state, vmm, lock, poisoned, pc, calls>>

\* Mutation of DogShutdown: a VM whose mutex is held is passed over
DogShutdownTries(d) ==
    /\ dog[d] = "shutdown" /\ ~poisoned
    /\ IF lock THEN UNCHANGED <<state, instance, reservation, qemu>> ELSE Teardown
    /\ dog' = [dog EXCEPT ![d] = "done"]
    /\ UNCHANGED <<running, window, origin, lock, poisoned, pc, calls>>

DogShutdown(d) ==
    /\ dog[d] = "shutdown" /\ Lockable
    /\ Teardown
    /\ dog' = [dog EXCEPT ![d] = "done"]
    /\ UNCHANGED <<running, window, origin, lock, poisoned, pc, calls>>

\* The guest powers off, panics (-no-reboot) or QEMU dies by itself
QemuExits ==
    /\ qemu = "up" /\ qemu' = "gone"
    /\ UNCHANGED <<state, running, instance, reservation, window, origin, lock, poisoned, pc,
                   dog, calls>>

\* The last handle goes: Vm::drop, then VmInner's own fields (a Dead VM's
\* instance is shut down by VmInstance::drop)
Drop ==
    /\ pc = "idle" /\ ~poisoned /\ (\A d \in Dogs : dog[d] # "shutdown")
    /\ pc' = "dropped"
    /\ state' = IF state \in {"Booted", "Paused"} THEN "Shutdown" ELSE state
    /\ instance' = FALSE /\ reservation' = FALSE
    /\ qemu' = IF instance THEN Reaped ELSE qemu
    /\ UNCHANGED <<running, window, origin, lock, poisoned, dog, calls>>

-----------------------------------------------------------------------------
\* What the Lua thread does by itself once a call is made
LuaReturns ==
    \/ Reserve \/ Launch \/ Recheck \/ MarkClient \/ MarkVmm \/ PollEnds \/ EndResetWindow

LuaCalls ==
    \/ \E how \in Launching : Begin(how)
    \/ OpBegin \/ PauseResume("Booted", "Paused") \/ PauseResume("Paused", "Booted")
    \/ ExpectPanics \/ VmmCall \/ Reset \/ PowerButton \/ Shutdown

Agent == OpAnswered \/ OpSevered

\* The VM is gone, or its mutex is poisoned and every later call panics
Ended == pc \in {"dropped", "panicked"} /\ UNCHANGED vars

Next ==
    \/ LuaCalls \/ LuaReturns \/ Agent \/ QemuExits \/ Drop \/ Ended
    \/ \E d \in Dogs : DogFires(d) \/ DogShutdown(d)

Spec == Init /\ [][Next]_vars

\* The threads are scheduled, the VMM's calls return (each has a timeout), and a
\* connection whose peer is gone breaks
ThreadFairness ==
    /\ WF_vars(LuaReturns)
    /\ WF_vars(qemu # "up" /\ OpSevered)
    /\ \A d \in Dogs : WF_vars(DogShutdown(d))

\* Every agent call ends in an answer or a broken connection
FairSpec == Spec /\ ThreadFairness /\ WF_vars(Agent)

-----------------------------------------------------------------------------
\* Every variable has its type; the mutex is held across a call exactly while
\* the Lua thread is in it, and a panic holding it poisons it.
TypeOK ==
    /\ state \in States
    /\ running \in BOOLEAN /\ instance \in BOOLEAN /\ reservation \in BOOLEAN
    /\ window \in BOOLEAN /\ lock \in BOOLEAN /\ poisoned \in BOOLEAN
    /\ qemu \in {"none", "up", "gone", "unreaped"}
    /\ pc \in PCs
    /\ origin \in {"none"} \cup Launching
    /\ dog \in [Dogs -> {"armed", "shutdown", "done"}]
    /\ calls \in 0..MaxCalls
    /\ lock <=> pc = "op"
    /\ poisoned <=> pc = "panicked"

\* No QEMU process is ever without an owner: a live one is in VmInner's instance
\* or in the hands of a boot or restore about to install it or to shut it down.
\* A watchdog's shutdown that races a launch cannot strand the VM.
NoOrphan ==
    qemu = "up" => \/ instance /\ state \in {"Booted", "Paused", "Dead", "Shutdown"}
                   \/ pc = "recheck"

\* A VM whose state says Shutdown runs nothing, unless a launch is still to be
\* undone: what lab:shutdown() and a fired watchdog rely on.
ShutdownIsOff == state = "Shutdown" /\ pc # "recheck" => qemu # "up"

\* The pool is never under-booked by a booted VM: while its process lives the
\* boot's reservation is held, and the reservation goes only after the process.
BootIsCharged == Pooled /\ origin = "boot" /\ qemu = "up" => reservation

\* The reservation goes with the VM: once the state is Shutdown nothing is held,
\* except by a boot that has yet to find out.
HoldIsReturned ==
    state = "Shutdown" /\ pc \notin {"launch", "recheck"} => ~reservation

\* Shutdown is final and Dead leads nowhere else: no late classification of a
\* failed call and no late boot brings a VM back (the rechecks under the lock).
NoResurrection ==
    [][/\ state = "Shutdown" => state' = "Shutdown"
       /\ state = "Dead" => state' \in {"Dead", "Shutdown"}]_vars

\* A watchdog that fires takes the VM down for good, whatever call it meets,
\* provided the guest's agent answers or breaks off the call under way.
FiredIsFinal ==
    \A d \in Dogs : dog[d] = "shutdown" ~> (poisoned \/ [](qemu # "up"))

-----------------------------------------------------------------------------
=============================================================================
