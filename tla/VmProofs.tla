------------------------------ MODULE VmProofs ------------------------------
(***************************************************************************)
(* Proofs about a VM: first its life (VmLifecycle), then the disks plugged *)
(* into it (DiskPorts) and those the host serves to it (MediatedDisk),     *)
(* last when its watchdogs may fire (Watchdogs).                           *)
(***************************************************************************)
EXTENDS DiskPorts, WaitSink, MediatedDisk, TLAPS

(***************************************************************************)
(* The safety properties of a VM's life, for any number of watchdogs and   *)
(* of calls.  What makes them inductive is what a launch under way may     *)
(* rely on: nobody else installs an instance, the state can only have gone *)
(* from Created to Shutdown, and the Hold is still boot's own.             *)
(***************************************************************************)
\* What holds between the first and the second lock of boot and restore
LaunchIsOpen ==
    /\ pc \in {"reserve", "launch", "recheck"} => state \in {"Created", "Shutdown"} /\ ~instance
    /\ pc \in {"reserve", "launch"} => qemu # "up"
    /\ pc \in {"launch", "recheck"} /\ Pooled /\ origin = "boot" => reservation

\* A VM that was not launched has nothing
CreatedIsEmpty ==
    state = "Created" => /\ ~instance
                         /\ pc # "recheck" => qemu # "up"
                         /\ pc \notin {"launch", "recheck"} => ~reservation

\* The reservation is not yet taken while boot waits for it
WaitingHoldsNothing == pc = "reserve" => ~reservation

\* The three parts of TypeOK, which different provers discharge
LifeValues ==
    /\ state \in States /\ pc \in PCs /\ origin \in {"none"} \cup Launching
    /\ qemu \in {"none", "up", "gone", "unreaped"}
    /\ dog \in [Dogs -> {"armed", "shutdown", "done"}]
    /\ calls \in 0..MaxCalls

Flags ==
    /\ running \in BOOLEAN /\ instance \in BOOLEAN /\ reservation \in BOOLEAN
    /\ window \in BOOLEAN /\ lock \in BOOLEAN /\ poisoned \in BOOLEAN

Locking == (lock <=> pc = "op") /\ (poisoned <=> pc = "panicked")

IInv ==
    /\ TypeOK /\ LaunchIsOpen /\ CreatedIsEmpty /\ WaitingHoldsNothing
    /\ NoOrphan /\ ShutdownIsOff /\ BootIsCharged /\ HoldIsReturned

\* A new VM, in Created, satisfies the invariant.
LEMMA InitIInv == Init => IInv
<1> SUFFICES ASSUME Init PROVE IInv
  OBVIOUS
<1>1. LifeValues
  BY CallAssumption DEF Init, LifeValues, States, PCs, Launching
<1>2. Flags /\ Locking
  BY Zenon DEF Init, Flags, Locking
<1>3. LaunchIsOpen /\ CreatedIsEmpty /\ WaitingHoldsNothing
  BY DEF Init, LaunchIsOpen, CreatedIsEmpty, WaitingHoldsNothing
<1>4. NoOrphan /\ ShutdownIsOff /\ BootIsCharged /\ HoldIsReturned
  BY DEF Init, NoOrphan, ShutdownIsOff, BootIsCharged, HoldIsReturned
<1> QED
  BY <1>1, <1>2, <1>3, <1>4 DEF IInv, TypeOK, LifeValues, Flags, Locking

\* Every step keeps the invariant: one case per action, and per group of conjuncts
\* where the action disturbs several.
LEMMA NextIInv == IInv /\ [Next]_vars => IInv'
<1> SUFFICES ASSUME IInv, [Next]_vars PROVE IInv'
  OBVIOUS
<1> USE CallAssumption
    DEF IInv, TypeOK, LaunchIsOpen, CreatedIsEmpty, WaitingHoldsNothing, NoOrphan,
        ShutdownIsOff, BootIsCharged, HoldIsReturned, LifeValues, Flags, Locking,
        States, PCs, Launching
<1>1. CASE \E how \in Launching : Begin(how)
  BY <1>1 DEF Begin, Call, Lockable
<1>2. CASE Reserve
  BY <1>2 DEF Reserve
<1>3. CASE Launch
  BY <1>3 DEF Launch
<1>4. CASE Recheck
  BY <1>4 DEF Recheck, Lockable
<1>5. CASE OpBegin
  BY <1>5 DEF OpBegin, Call, Lockable, vmm
<1>6. CASE Agent
  <2>1. LifeValues'
    BY <1>6 DEF Agent, OpAnswered, OpSevered, vmm
  <2>2. Flags'
    BY <1>6, Zenon DEF Agent, OpAnswered, OpSevered, vmm
  <2>3. Locking'
    BY <1>6 DEF Agent, OpAnswered, OpSevered, vmm
  <2>4. (LaunchIsOpen /\ CreatedIsEmpty /\ WaitingHoldsNothing)'
    BY <1>6 DEF Agent, OpAnswered, OpSevered, vmm
  <2>5. (NoOrphan /\ ShutdownIsOff)'
    BY <1>6 DEF Agent, OpAnswered, OpSevered, vmm
  <2>6. (BootIsCharged /\ HoldIsReturned)'
    BY <1>6 DEF Agent, OpAnswered, OpSevered, vmm
  <2> QED
    BY <2>1, <2>2, <2>3, <2>4, <2>5, <2>6
<1>7. CASE MarkClient \/ MarkVmm
  BY <1>7 DEF MarkClient, MarkVmm, Lockable, vmm
<1>8. CASE PauseResume("Booted", "Paused") \/ PauseResume("Paused", "Booted")
  BY <1>8 DEF PauseResume, Call, Lockable, vmm
<1>9. CASE ExpectPanics \/ VmmCall
  <2>1. LifeValues'
    BY <1>9 DEF ExpectPanics, VmmCall, Call, Lockable, vmm
  <2>2. Flags'
    BY <1>9, Zenon DEF ExpectPanics, VmmCall, Call, Lockable, vmm
  <2>3. Locking'
    BY <1>9 DEF ExpectPanics, VmmCall, Call, Lockable, vmm
  <2>4. (LaunchIsOpen /\ CreatedIsEmpty /\ WaitingHoldsNothing)'
    BY <1>9 DEF ExpectPanics, VmmCall, Call, Lockable, vmm
  <2>5. (NoOrphan /\ ShutdownIsOff)'
    BY <1>9 DEF ExpectPanics, VmmCall, Call, Lockable, vmm
  <2>6. (BootIsCharged /\ HoldIsReturned)'
    BY <1>9 DEF ExpectPanics, VmmCall, Call, Lockable, vmm
  <2> QED
    BY <2>1, <2>2, <2>3, <2>4, <2>5, <2>6
<1>10. CASE Reset
  <2>1. LifeValues'
    BY <1>10 DEF Reset, Call, Lockable
  <2>2. Flags'
    BY <1>10, Zenon DEF Reset, Call, Lockable
  <2>3. Locking'
    BY <1>10 DEF Reset, Call, Lockable
  <2>4. (LaunchIsOpen /\ CreatedIsEmpty /\ WaitingHoldsNothing)'
    BY <1>10 DEF Reset, Call, Lockable
  <2>5. (NoOrphan /\ ShutdownIsOff)'
    BY <1>10 DEF Reset, Call, Lockable
  <2>6. (BootIsCharged /\ HoldIsReturned)'
    BY <1>10 DEF Reset, Call, Lockable
  <2> QED
    BY <2>1, <2>2, <2>3, <2>4, <2>5, <2>6
<1>11. CASE PollEnds \/ EndResetWindow
  BY <1>11 DEF PollEnds, EndResetWindow, Lockable, vmm
<1>12. CASE PowerButton
  <2>1. LifeValues'
    BY <1>12 DEF PowerButton, Call, Lockable
  <2>2. Flags'
    BY <1>12, Zenon DEF PowerButton, Call, Lockable
  <2>3. Locking'
    BY <1>12 DEF PowerButton, Call, Lockable
  <2>4. (LaunchIsOpen /\ CreatedIsEmpty /\ WaitingHoldsNothing)'
    BY <1>12 DEF PowerButton, Call, Lockable
  <2>5. (NoOrphan /\ ShutdownIsOff)'
    BY <1>12 DEF PowerButton, Call, Lockable
  <2>6. (BootIsCharged /\ HoldIsReturned)'
    BY <1>12 DEF PowerButton, Call, Lockable
  <2> QED
    BY <2>1, <2>2, <2>3, <2>4, <2>5, <2>6
<1>13. CASE Shutdown
  <2>1. LifeValues'
    BY <1>13 DEF Shutdown, Teardown, Reaped, Call, Lockable
  <2>2. Flags'
    BY <1>13, Zenon DEF Shutdown, Teardown, Reaped, Call, Lockable
  <2>3. Locking'
    BY <1>13 DEF Shutdown, Teardown, Reaped, Call, Lockable
  <2>4. (LaunchIsOpen /\ CreatedIsEmpty /\ WaitingHoldsNothing)'
    BY <1>13 DEF Shutdown, Teardown, Reaped, Call, Lockable
  <2>5. (NoOrphan /\ ShutdownIsOff)'
    BY <1>13 DEF Shutdown, Teardown, Reaped, Call, Lockable
  <2>6. (BootIsCharged /\ HoldIsReturned)'
    BY <1>13 DEF Shutdown, Teardown, Reaped, Call, Lockable
  <2> QED
    BY <2>1, <2>2, <2>3, <2>4, <2>5, <2>6
<1>14. CASE \E d \in Dogs : DogFires(d)
  BY <1>14 DEF DogFires, vmm
<1>15. CASE \E d \in Dogs : DogShutdown(d)
  <2>1. LifeValues'
    BY <1>15 DEF DogShutdown, Teardown, Reaped, Lockable
  <2>2. Flags'
    BY <1>15, Zenon DEF DogShutdown, Teardown, Reaped, Lockable
  <2>3. Locking'
    BY <1>15 DEF DogShutdown, Teardown, Reaped, Lockable
  <2>4. (LaunchIsOpen /\ CreatedIsEmpty /\ WaitingHoldsNothing)'
    BY <1>15 DEF DogShutdown, Teardown, Reaped, Lockable
  <2>5. (NoOrphan /\ ShutdownIsOff)'
    BY <1>15 DEF DogShutdown, Teardown, Reaped, Lockable
  <2>6. (BootIsCharged /\ HoldIsReturned)'
    BY <1>15 DEF DogShutdown, Teardown, Reaped, Lockable
  <2> QED
    BY <2>1, <2>2, <2>3, <2>4, <2>5, <2>6
<1>16. CASE QemuExits
  BY <1>16 DEF QemuExits
<1>17. CASE Drop
  BY <1>17 DEF Drop, Reaped
<1>18. CASE Ended \/ UNCHANGED vars
  BY <1>18 DEF Ended, vars, vmm
<1> QED
  BY <1>1, <1>2, <1>3, <1>4, <1>5, <1>6, <1>7, <1>8, <1>9,
     <1>10, <1>11, <1>12, <1>13, <1>14, <1>15, <1>16, <1>17, <1>18
  DEF Next, LuaCalls, LuaReturns

\* The invariant holds in every reachable state of a VM.
THEOREM Invariance == Spec => []IInv
  BY InitIInv, NextIInv, PTL DEF Spec

\* Every variable keeps its type, and the mutex is held across exactly the agent
\* calls (with_client).
THEOREM TypeCorrect == Spec => []TypeOK
<1>1. IInv => TypeOK
  BY DEF IInv
<1> QED
  BY Invariance, <1>1, PTL

\* No race of boot or restore with any number of watchdogs strands a QEMU process.
THEOREM NoOrphanHolds == Spec => []NoOrphan
<1>1. IInv => NoOrphan
  BY DEF IInv
<1> QED
  BY Invariance, <1>1, PTL

\* A VM in Shutdown runs no process, unless its launch has yet to find out.
THEOREM ShutdownIsOffHolds == Spec => []ShutdownIsOff
<1>1. IInv => ShutdownIsOff
  BY DEF IInv
<1> QED
  BY Invariance, <1>1, PTL

\* A booted VM's process never outlives the reservation that pays for it.
THEOREM BootIsChargedHolds == Spec => []BootIsCharged
<1>1. IInv => BootIsCharged
  BY DEF IInv
<1> QED
  BY Invariance, <1>1, PTL

\* A VM that was shut down, by whichever path, holds nothing of the pool.
THEOREM HoldIsReturnedHolds == Spec => []HoldIsReturned
<1>1. IInv => HoldIsReturned
  BY DEF IInv
<1> QED
  BY Invariance, <1>1, PTL

\* Shutdown is final, and Dead ends only in Shutdown: the late writes of boot,
\* restore, with_client and maybe_mark_dead_on_vmm_err look at the state again.
THEOREM NoResurrectionHolds == Spec => NoResurrection
<1> DEFINE Kept == /\ state = "Shutdown" => state' = "Shutdown"
                   /\ state = "Dead" => state' \in {"Dead", "Shutdown"}
<1>1. ASSUME IInv, [Next]_vars PROVE [Kept]_vars
  <2>1. CASE LuaReturns
    BY <2>1 DEF LuaReturns, Reserve, Launch, Recheck, MarkClient, MarkVmm, PollEnds, EndResetWindow
  <2>2. CASE Shutdown \/ Drop \/ \E d \in Dogs : DogFires(d) \/ DogShutdown(d)
    BY <2>2 DEF Shutdown, Drop, DogFires, DogShutdown, Teardown
  <2>3. CASE LuaCalls
    BY <2>2, <2>3 DEF LuaCalls, Begin, OpBegin, PauseResume, ExpectPanics, VmmCall, Reset, PowerButton
  <2>4. CASE Agent \/ QemuExits
    BY <2>4 DEF Agent, OpAnswered, OpSevered, QemuExits
  <2>5. CASE Ended \/ UNCHANGED vars
    BY <2>5 DEF Ended, vars
  <2> QED
    BY <1>1, <2>1, <2>2, <2>3, <2>4, <2>5 DEF Next
<1> QED
  BY <1>1, Invariance, PTL DEF Spec, NoResurrection

-----------------------------------------------------------------------------
(***************************************************************************)
(* The disk ports never lose a block node nor plug two disks into one      *)
(* port, for any number of ports, disks, calls and watchdogs; and a VM     *)
(* with disk ports is a VM of VmLifecycle, so what is shown of it above    *)
(* holds here too.                                                         *)
(*                                                                         *)
(* PortsOwnDisks says nothing of a VM that has lost its monitor.  It is    *)
(* inductive once it is known that such a VM never becomes callable again, *)
(* and that nothing is plugged before a VM is first booted.                *)
(***************************************************************************)
Booking == [Ports -> Disks \cup {NoDisk}]
Plugging == [Disks -> Ports \cup {NoPort}]

Callable == state \in {"Booted", "Paused"} /\ qemu = "up" /\ pc # "mark_vmm"

\* PortsOwnDisks, of any bookings s, nodes n and plugged devices b
Own(s, n, b) ==
    /\ n = {s[p] : p \in Ports} \ {NoDisk}
    /\ \A p, q \in Ports : s[p] = s[q] /\ s[p] # NoDisk => p = q
    /\ \A d \in Disks : b[d] # NoPort => b[d] \in Ports /\ s[b[d]] = d

DiskTypes == slots \in Booking /\ bus \in Plugging

\* A VM that was not launched has no disk plugged
FreshIsEmpty ==
    state = "Created" => /\ nodes = {}
                         /\ slots = [p \in Ports |-> NoDisk]
                         /\ bus = [d \in Disks |-> NoPort]

DInv == DiskTypes /\ FreshIsEmpty /\ PortsOwnDisks

-----------------------------------------------------------------------------
\* Every step of a VM with disk ports is a step of VmLifecycle, or none.
LEMMA StepSimulation == [DiskNext]_diskVars => [Next]_vars
<1> SUFFICES ASSUME [DiskNext]_diskVars PROVE [Next]_vars
  OBVIOUS
<1>1. CASE VmMoves
  BY <1>1 DEF VmMoves
<1>2. ASSUME NEW d \in Disks, DiskCall(d) PROVE [Next]_vars
  <2>1. CASE AttachRecords(d)
    BY <2>1 DEF AttachRecords
  <2>2. CASE VmmCall
    BY <2>2 DEF Next, LuaCalls
  <2>3. AttachBlind(d) \/ AttachSweepFails(d) \/ AttachNoPort(d) \/ AttachNodeFails(d)
          => VmmCall
    BY DEF AttachBlind, AttachSweepFails, AttachNoPort, AttachNodeFails, Returns
  <2>4. AttachRefused(d) \/ AttachPlugs(d) \/ Detach(d) => VmmCall
    BY DEF AttachRefused, Undone, AttachPlugs, Detach, Returns
  <2> QED
    BY <1>2, <2>1, <2>2, <2>3, <2>4 DEF DiskCall
<1>3. ASSUME NEW d \in Disks, GuestReleases(d) PROVE [Next]_vars
  BY <1>3 DEF GuestReleases
<1>4. CASE UNCHANGED diskVars
  BY <1>4 DEF diskVars
<1> QED
  BY <1>1, <1>2, <1>3, <1>4 DEF DiskNext

\* A VM with disk ports implements the VM of VmLifecycle: attaching and detaching
\* are, for everything else, calls to the VMM that end or meet a dead signal.
THEOREM Implements == DiskSpec => Spec
<1>1. DiskInit => Init
  BY DEF DiskInit
<1> QED
  BY <1>1, StepSimulation, PTL DEF DiskSpec, Spec

-----------------------------------------------------------------------------
\* The sweep of DiskPorts::attach, however far it gets, releases ports together
\* with their block nodes, and never the port of a device the guest has.
LEMMA SweepOwns ==
    ASSUME DiskTypes, Own(slots, nodes, bus), NEW done \in SUBSET Gone
    PROVE  Freed(done) \in Booking /\ Own(Freed(done), Left(done), bus)
<1>1. Freed(done) \in Booking
  BY DEF DiskTypes, Booking, Freed
<1>2. \A p \in Ports : Freed(done)[p] = IF p \in done THEN NoDisk ELSE slots[p]
  BY DEF Freed
<1>3. done \subseteq Ports /\ \A p \in done : slots[p] # NoDisk /\ bus[slots[p]] = NoPort
  BY DEF Gone
<1>4. Left(done) = {Freed(done)[p] : p \in Ports} \ {NoDisk}
  <2>1. ASSUME NEW x \in Left(done) PROVE x \in {Freed(done)[p] : p \in Ports} \ {NoDisk}
    BY <1>2, <2>1 DEF Left, Own
  <2>2. ASSUME NEW p \in Ports, Freed(done)[p] # NoDisk PROVE Freed(done)[p] \in Left(done)
    BY <1>2, <1>3, <2>2 DEF Left, Own
  <2> QED
    BY <2>1, <2>2
<1>5. \A p, q \in Ports : Freed(done)[p] = Freed(done)[q] /\ Freed(done)[p] # NoDisk => p = q
  BY <1>2 DEF Own
<1>6. ASSUME NEW d \in Disks, bus[d] # NoPort
      PROVE  bus[d] \in Ports /\ Freed(done)[bus[d]] = d
  BY <1>2, <1>3, <1>6 DEF Own
<1> QED
  BY <1>1, <1>4, <1>5, <1>6 DEF Own

\* Booking a disk on a free port together with making its node keeps the books,
\* whether the device is then plugged or not.
LEMMA BookOwns ==
    ASSUME NEW s \in Booking, NEW n, NEW b \in Plugging, Own(s, n, b),
           NEW p \in Ports, s[p] = NoDisk, NEW d \in Disks, d \notin n
    PROVE  /\ [s EXCEPT ![p] = d] \in Booking
           /\ Own([s EXCEPT ![p] = d], n \cup {d}, b)
           /\ Own([s EXCEPT ![p] = d], n \cup {d}, [b EXCEPT ![d] = p])
<1> DEFINE t == [s EXCEPT ![p] = d]
<1>1. t \in Booking
  BY DEF Booking
<1>2. \A q \in Ports : t[q] = IF q = p THEN d ELSE s[q]
  BY DEF Booking
<1>3. d # NoDisk /\ \A q \in Ports : s[q] # d
  BY DiskAssumption DEF Own
<1> HIDE DEF t
<1>4. n \cup {d} = {t[q] : q \in Ports} \ {NoDisk}
  <2>1. ASSUME NEW x \in n \cup {d} PROVE x \in {t[q] : q \in Ports} \ {NoDisk}
    BY <1>2, <1>3, <2>1 DEF Own
  <2>2. ASSUME NEW q \in Ports, t[q] # NoDisk PROVE t[q] \in n \cup {d}
    BY <1>2, <2>2 DEF Own
  <2> QED
    BY <2>1, <2>2
<1>5. \A q, r \in Ports : t[q] = t[r] /\ t[q] # NoDisk => q = r
  BY <1>2, <1>3 DEF Own
<1>6. ASSUME NEW e \in Disks, b[e] # NoPort PROVE b[e] \in Ports /\ t[b[e]] = e
  <2>1. b[e] \in Ports /\ s[b[e]] = e /\ e # NoDisk
    BY <1>6, DiskAssumption DEF Own
  <2> QED
    BY <1>2, <2>1
<1>7. ASSUME NEW e \in Disks, [b EXCEPT ![d] = p][e] # NoPort
      PROVE  [b EXCEPT ![d] = p][e] \in Ports /\ t[[b EXCEPT ![d] = p][e]] = e
  <2>1. CASE e = d
    BY <1>2, <2>1 DEF Plugging
  <2>2. CASE e # d
    BY <1>6, <1>7, <2>2 DEF Plugging
  <2> QED
    BY <2>1, <2>2
<1>8. Own(t, n \cup {d}, b)
  BY <1>4, <1>5, <1>6 DEF Own
<1>9. Own(t, n \cup {d}, [b EXCEPT ![d] = p])
  BY <1>4, <1>5, <1>7 DEF Own
<1> QED
  BY <1>1, <1>8, <1>9 DEF t

-----------------------------------------------------------------------------
\* A VM that cannot be called does not become callable again, except by its first
\* boot or restore; and Created is never entered.
LEMMA CallableIsOld ==
    ASSUME IInv, Next
    PROVE  /\ Callable' => Callable \/ state = "Created"
           /\ state' = "Created" => state = "Created"
<1> USE DEF Callable
<1>1. CASE LuaReturns
  BY <1>1 DEF LuaReturns, Reserve, Launch, Recheck, MarkClient, MarkVmm, PollEnds,
     EndResetWindow, IInv, LaunchIsOpen, vmm
<1>2. CASE Shutdown \/ Drop \/ \E d \in Dogs : DogFires(d) \/ DogShutdown(d)
  BY <1>2 DEF Shutdown, Drop, DogFires, DogShutdown, Teardown, Reaped, Call, vmm
<1>3. CASE LuaCalls
  BY <1>2, <1>3 DEF LuaCalls, Begin, OpBegin, PauseResume, ExpectPanics, VmmCall, Reset,
     PowerButton, Call, vmm
<1>4. CASE Agent \/ QemuExits
  BY <1>4 DEF Agent, OpAnswered, OpSevered, QemuExits, vmm
<1>5. CASE Ended
  BY <1>5 DEF Ended, vars, vmm
<1> QED
  BY <1>1, <1>2, <1>3, <1>4, <1>5 DEF Next

\* A new VM has nothing plugged.
LEMMA DiskInitInv == DiskInit => DInv
  BY DEF DiskInit, Init, DInv, DiskTypes, Booking, Plugging, FreshIsEmpty, PortsOwnDisks

\* The life of the VM around the disk calls keeps the books.
LEMMA VmKeeps == IInv /\ DInv /\ VmMoves => DInv'
<1> SUFFICES ASSUME IInv, DInv, VmMoves PROVE DInv'
  OBVIOUS
<1>1. /\ Callable' => Callable \/ state = "Created"
      /\ state' = "Created" => state = "Created"
  BY CallableIsOld DEF VmMoves
<1>2. slots' = slots /\ (qemu' = "up" => nodes' = nodes /\ bus' = bus)
  BY DEF VmMoves, machine
<1>3. qemu' # "up" => nodes' = {} /\ bus' = [d \in Disks |-> NoPort]
  BY DEF VmMoves
<1>4. DiskTypes'
  BY <1>2, <1>3 DEF DInv, DiskTypes, Plugging
<1>5. FreshIsEmpty'
  BY <1>1, <1>2, <1>3 DEF DInv, FreshIsEmpty
<1>6. PortsOwnDisks'
  <2> SUFFICES ASSUME Callable' PROVE Own(slots, nodes, bus)
    BY <1>2 DEF PortsOwnDisks, Callable, Own
  <2>1. CASE Callable
    BY <2>1 DEF DInv, PortsOwnDisks, Callable, Own
  <2>2. CASE state = "Created"
    BY <2>2 DEF DInv, FreshIsEmpty, Own
  <2> QED
    BY <1>1, <2>1, <2>2
<1> QED
  BY <1>4, <1>5, <1>6 DEF DInv

\* Every disk call, however it fails, keeps the books of a VM that stays callable.
LEMMA DiskCallKeeps ==
    ASSUME DInv, NEW d \in Disks, DiskCall(d)
    PROVE  DInv'
<1>1. CASE AttachRecords(d)
  BY <1>1 DEF AttachRecords, DInv, DiskTypes, FreshIsEmpty, PortsOwnDisks, machine, vars, vmm
<1>2. CASE VmmCall
  <2>1. state' = state /\ state \in {"Booted", "Paused"} /\ qemu' = qemu /\ pc = "idle"
    BY <1>2 DEF VmmCall, Call, vmm
  <2>2. FreshIsEmpty'
    BY <2>1 DEF FreshIsEmpty
  <2>3. qemu = "up" => Own(slots, nodes, bus)
    BY <2>1 DEF DInv, PortsOwnDisks, Own
  <2>4. DiskTypes
    BY DEF DInv
  <2>5. ASSUME slots' \in Booking, bus' \in Plugging,
               Callable' => Own(slots', nodes', bus')
        PROVE  DInv'
    BY <2>2, <2>5 DEF DInv, DiskTypes, PortsOwnDisks, Callable, Own
  <2>6. Gone \in SUBSET Gone /\ \A at \in Gone : {p \in Gone : p < at} \in SUBSET Gone
    OBVIOUS
  <2>7. CASE AttachBlind(d) \/ AttachNoPort(d)
    <3>1. slots' = slots /\ nodes' = nodes /\ bus' = bus
      BY <2>7 DEF AttachBlind, AttachNoPort, machine
    <3> QED
      BY <2>1, <2>3, <2>4, <2>5, <3>1 DEF Callable, DiskTypes
  <2>8. CASE AttachSweepFails(d)
    <3>1. PICK how \in Failures, at \in Gone :
              /\ Returns(how) /\ slots' = Freed({p \in Gone : p < at})
              /\ nodes' = Left(IF how = "lost_done" THEN {p \in Gone : p < at} \cup {at}
                                                    ELSE {p \in Gone : p < at})
              /\ bus' = bus
      BY <2>8 DEF AttachSweepFails
    <3>2. Callable' => nodes' = Left({p \in Gone : p < at})
      BY <3>1 DEF Callable, Returns
    <3>3. slots' \in Booking
      BY <2>4, <3>1 DEF DiskTypes, Booking, Freed
    <3> QED
      BY <2>1, <2>3, <2>4, <2>5, <2>6, <3>1, <3>2, <3>3, SweepOwns DEF Callable, DiskTypes
  <2>9. CASE AttachNodeFails(d)
    <3>1. PICK how \in Failures, p \in Ports :
              /\ Finds(d, p) /\ Returns(how) /\ slots' = Freed(Gone)
              /\ nodes' = IF how = "lost_done" THEN Left(Gone) \cup {d} ELSE Left(Gone)
              /\ bus' = bus
      BY <2>9 DEF AttachNodeFails
    <3>2. Callable' => nodes' = Left(Gone)
      BY <3>1 DEF Callable, Returns
    <3> QED
      BY <2>1, <2>3, <2>4, <2>5, <2>6, <3>1, <3>2, SweepOwns DEF Callable, DiskTypes, Finds
  <2>10. ASSUME NEW p \in Ports, Finds(d, p), d \notin Left(Gone)
         PROVE  /\ Freed(Gone) \in Booking /\ Own(Freed(Gone), Left(Gone), bus)
                /\ Freed(Gone)[p] = NoDisk
                /\ [Freed(Gone) EXCEPT ![p] = d] \in Booking
                /\ Own([Freed(Gone) EXCEPT ![p] = d], Left(Gone) \cup {d}, bus)
                /\ Own([Freed(Gone) EXCEPT ![p] = d], Left(Gone) \cup {d}, [bus EXCEPT ![d] = p])
    <3>1. Freed(Gone) \in Booking /\ Own(Freed(Gone), Left(Gone), bus)
      BY <2>3, <2>4, <2>6, <2>10, SweepOwns DEF Finds
    <3>2. Freed(Gone)[p] = NoDisk /\ bus \in Plugging
      BY <2>4, <2>10 DEF Finds, DiskTypes
    <3> QED
      BY <2>10, <3>1, <3>2, BookOwns
  <2>11. CASE AttachRefused(d)
    <3>1. PICK p \in Ports :
              /\ \/ /\ Finds(d, p) /\ d \notin Left(Gone)
                    /\ slots' = Freed(Gone) /\ nodes' = Left(Gone)
                 \/ Undone(d, p)
              /\ bus' = bus
      BY <2>11 DEF AttachRefused
    <3>2. CASE Undone(d, p)
      <4>1. Finds(d, p) /\ d \notin Left(Gone) /\ slots' = [Freed(Gone) EXCEPT ![p] = d]
        BY <3>2 DEF Undone, Books
      <4>2. Callable' => nodes' = Left(Gone) \cup {d}
        BY <3>2 DEF Undone, Returns, Callable
      <4> QED
        BY <2>4, <2>5, <2>10, <3>1, <4>1, <4>2 DEF DiskTypes
    <3>3. CASE ~Undone(d, p)
      BY <2>4, <2>5, <2>10, <3>1, <3>3 DEF DiskTypes
    <3> QED
      BY <3>2, <3>3
  <2>12. CASE AttachPlugs(d)
    <3>1. PICK p \in Ports, how \in {"done", "lost", "lost_done"} :
              /\ Books(d, p) /\ nodes' = Left(Gone) \cup {d}
              /\ bus' = IF how = "lost" THEN bus ELSE [bus EXCEPT ![d] = p]
      BY <2>12 DEF AttachPlugs
    <3>2. Finds(d, p) /\ d \notin Left(Gone) /\ slots' = [Freed(Gone) EXCEPT ![p] = d]
      BY <3>1 DEF Books
    <3>3. bus' \in Plugging
      BY <2>4, <3>1 DEF DiskTypes, Plugging
    <3> QED
      BY <2>5, <2>10, <3>1, <3>2, <3>3
  <2>13. CASE Detach(d)
    <3>1. slots' = slots /\ nodes' = nodes /\ bus' = bus
      BY <2>13 DEF Detach
    <3> QED
      BY <2>1, <2>3, <2>4, <2>5, <3>1 DEF Callable, DiskTypes
  <2>14. CASE AttachRecords(d)
    BY <1>1, <2>14
  <2> QED
    BY <2>7, <2>8, <2>9, <2>11, <2>12, <2>13, <2>14 DEF DiskCall
<1>3. AttachRecords(d) \/ VmmCall
  <2>1. AttachBlind(d) \/ AttachSweepFails(d) \/ AttachNoPort(d) \/ AttachNodeFails(d)
          => VmmCall
    BY DEF AttachBlind, AttachSweepFails, AttachNoPort, AttachNodeFails, Returns
  <2>2. AttachRefused(d) \/ AttachPlugs(d) \/ Detach(d) => VmmCall
    BY DEF AttachRefused, Undone, AttachPlugs, Detach, Returns
  <2> QED
    BY <2>1, <2>2 DEF DiskCall
<1> QED
  BY <1>1, <1>2, <1>3

\* A device the guest lets go frees nothing by itself.
LEMMA ReleaseKeeps ==
    ASSUME DInv, NEW d \in Disks, GuestReleases(d)
    PROVE  DInv'
<1>1. /\ slots' = slots /\ nodes' = nodes /\ bus' = [bus EXCEPT ![d] = NoPort]
      /\ state' = state /\ qemu' = qemu /\ pc' = pc
  BY DEF GuestReleases, vars, vmm
<1>2. DiskTypes'
  BY <1>1 DEF DInv, DiskTypes, Plugging
<1>3. FreshIsEmpty'
  BY <1>1 DEF DInv, DiskTypes, FreshIsEmpty
<1>4. PortsOwnDisks'
  BY <1>1 DEF DInv, DiskTypes, Plugging, PortsOwnDisks
<1> QED
  BY <1>2, <1>3, <1>4 DEF DInv

\* While a VM can be called its ports own every block node attach_disk made and the
\* port of every device the guest has: DiskPorts::attach never loses a node, whatever
\* monitor command fails, and never plugs a disk into a port that is still in use.
THEOREM PortsHold == DiskSpec => []PortsOwnDisks
<1>1. ASSUME IInv, DInv, [DiskNext]_diskVars PROVE DInv'
  <2>1. CASE UNCHANGED diskVars
    BY <1>1, <2>1 DEF diskVars, vars, vmm, machine, DInv, DiskTypes, FreshIsEmpty, PortsOwnDisks
  <2> QED
    BY <1>1, <2>1, VmKeeps, DiskCallKeeps, ReleaseKeeps DEF DiskNext
<1>2. DInv => PortsOwnDisks
  BY DEF DInv
<1> QED
  BY <1>1, <1>2, DiskInitInv, Implements, Invariance, PTL DEF DiskSpec

(***************************************************************************)
(* The mediated disk, for every disk, every set of commands and policies   *)
(* and every bound: its types, that fail_after is never late, and that the *)
(* server implements WriteCache.                                           *)
(***************************************************************************)
\* A unit is where its sector and its place in it say
LEMMA UnitOfParts ==
    ASSUME NEW a \in Addrs
    PROVE  /\ SectorOf(a) \in Sectors /\ SectorOf(a) \in Nat
           /\ a % SectorSize \in Units
           /\ Unit(SectorOf(a), a % SectorSize) = a
<1>1. a \in Nat /\ SectorSize \in Nat /\ SectorSize > 0
  BY SizeAssumption DEF Addrs
<1>2. a % SectorSize \in 0 .. SectorSize - 1
  BY <1>1
<1>3. a \div SectorSize \in Nat
  BY <1>1
<1>4. a = SectorSize * (a \div SectorSize) + (a % SectorSize)
  BY <1>1, Z3
<1>5. (a \div SectorSize) * SectorSize + (a % SectorSize) = a
  BY <1>1, <1>2, <1>3, <1>4, Z3
<1>6. SectorOf(a) \in Sectors
  BY DEF Sectors
<1>7. Unit(SectorOf(a), a % SectorSize) = a
  BY <1>5, Zenon DEF Unit, SectorOf
<1> QED
  BY <1>2, <1>3, <1>6, <1>7 DEF SectorOf, Units

-----------------------------------------------------------------------------
(* What the calls of DiskState leave.                                       *)

\* What the guest sees with this file and this overlay
View(f, o) == Written(f, o, DOMAIN o)

\* The disk once the units `at' hold v
Put(f, at, v) == [a \in Addrs |-> IF a \in at THEN v ELSE f[a]]

\* One image in the sectors W, the other elsewhere
Mixed(W, new, old) == [a \in Addrs |-> IF SectorOf(a) \in W THEN new[a] ELSE old[a]]

FileType(f) == f \in [Addrs -> Values]

OverlayType(o) ==
    /\ DOMAIN o \subseteq Whole
    /\ o \in [DOMAIN o -> [Units -> Values]]

\* The three ways a call that is to leave `new' may end
Held(d, f, new) == d.ok /\ d.file = f /\ View(d.file, d.overlay) = new
Committed(d, new) == d.ok /\ d.file = new /\ d.overlay = NoSectors
Broken(d, f, old, new) ==
    /\ ~d.ok
    /\ \E W \in SUBSET Sectors :
        \/ d.file = f /\ View(d.file, d.overlay) = Mixed(W, new, old)
        \/ d.file = Mixed(W, new, f) /\ d.overlay = NoSectors

\* An empty overlay hides nothing
LEMMA EmptyOverlay ==
    ASSUME NEW f, FileType(f)
    PROVE  View(f, NoSectors) = f /\ OverlayType(NoSectors)
BY DEF View, Written, NoSectors, FileType, OverlayType

\* What the guest sees is an image of the disk
LEMMA ViewType ==
    ASSUME NEW f, NEW o, FileType(f), OverlayType(o), NEW W \in SUBSET DOMAIN o
    PROVE  FileType(Written(f, o, W)) /\ FileType(View(f, o))
<1>1. \A a \in Addrs : SectorOf(a) \in DOMAIN o => o[SectorOf(a)][a % SectorSize] \in Values
  BY UnitOfParts DEF OverlayType
<1> QED
  BY <1>1 DEF FileType, Written, View

\* flush commits everything, or empties the overlay into part of the file
LEMMA FlushEnds ==
    ASSUME NEW f, NEW o, FileType(f), OverlayType(o), NEW old, NEW d \in flush(f, o)
    PROVE  /\ FileType(d.file) /\ d.overlay = NoSectors
           /\ Committed(d, View(f, o)) \/ Broken(d, f, old, View(f, o))
<1>1. CASE d = Outcome(Written(f, o, DOMAIN o), NoSectors, TRUE)
  BY <1>1, ViewType DEF Outcome, Committed, View
<1>2. ASSUME NEW k \in Sectors \cup {Size},
             d = Outcome(Written(f, o, {s \in DOMAIN o : s < k}), NoSectors, FALSE)
      PROVE  /\ FileType(d.file) /\ d.overlay = NoSectors
             /\ Broken(d, f, old, View(f, o))
  <2> DEFINE W == {s \in DOMAIN o : s < k}
  <2>1. W \in SUBSET DOMAIN o /\ W \in SUBSET Sectors
    BY DEF OverlayType, Whole
  <2>2. d.file = Written(f, o, W) /\ d.overlay = NoSectors /\ ~d.ok
    BY <1>2 DEF Outcome
  <2>3. Written(f, o, W) = Mixed(W, View(f, o), f)
    BY <2>1 DEF Written, Mixed, View
  <2> HIDE DEF W
  <2> QED
    BY <2>1, <2>2, <2>3, ViewType DEF Broken
<1> QED
  BY <1>1, <1>2 DEF flush

\* A write that has reached the sectors W shows in them, and nowhere else
LEMMA OverlaidEnds ==
    ASSUME NEW f, NEW o, FileType(f), OverlayType(o),
           NEW at \in SUBSET Addrs, NEW v \in Values, NEW W \in SUBSET Whole
    PROVE  /\ OverlayType(Overlaid(f, o, at, v, W))
           /\ View(f, Overlaid(f, o, at, v, W)) = Mixed(W, Put(View(f, o), at, v), View(f, o))
<1> DEFINE n == Overlaid(f, o, at, v, W)
<1>1. DOMAIN n = DOMAIN o \cup W /\ DOMAIN n \subseteq Whole
  BY DEF Overlaid, OverlayType
<1>2. \A s \in DOMAIN n : n[s] \in [Units -> Values]
  BY <1>1 DEF Overlaid, OverlayType, FileType, Whole
<1>3. OverlayType(n)
  BY <1>1, <1>2 DEF OverlayType, Overlaid
<1>4. ASSUME NEW a \in Addrs
      PROVE  View(f, n)[a] = Mixed(W, Put(View(f, o), at, v), View(f, o))[a]
  <2> DEFINE s == SectorOf(a)
             i == a % SectorSize
  <2>1. i \in Units /\ Unit(s, i) = a
    BY UnitOfParts
  <2>2. s \in DOMAIN n =>
            n[s][i] = IF s \in W /\ a \in at THEN v
                      ELSE IF s \in DOMAIN o THEN o[s][i] ELSE f[a]
    BY <1>1, <2>1 DEF Overlaid
  <2>3. View(f, n)[a] = IF s \in DOMAIN n THEN n[s][i] ELSE f[a]
    BY DEF View, Written
  <2>4. View(f, o)[a] = IF s \in DOMAIN o THEN o[s][i] ELSE f[a]
    BY DEF View, Written
  <2>5. Mixed(W, Put(View(f, o), at, v), View(f, o))[a] =
            IF s \in W /\ a \in at THEN v ELSE View(f, o)[a]
    BY DEF Mixed, Put
  <2> HIDE DEF n, s, i
  <2>6. CASE s \in DOMAIN n
    <3>1. View(f, n)[a] = n[s][i]
      BY <2>3, <2>6, Zenon
    <3>2. CASE s \in W /\ a \in at
      <4>1. n[s][i] = v
        BY <2>2, <2>6, <3>2, Zenon
      <4>2. Mixed(W, Put(View(f, o), at, v), View(f, o))[a] = v
        BY <2>5, <3>2, Zenon
      <4> QED
        BY <3>1, <4>1, <4>2, Zenon
    <3>3. CASE ~(s \in W /\ a \in at)
      <4>1. n[s][i] = IF s \in DOMAIN o THEN o[s][i] ELSE f[a]
        BY <2>2, <2>6, <3>3, Zenon
      <4>2. Mixed(W, Put(View(f, o), at, v), View(f, o))[a] = View(f, o)[a]
        BY <2>5, <3>3, Zenon
      <4>3. n[s][i] = View(f, o)[a]
        <5>1. CASE s \in DOMAIN o
          BY <2>4, <4>1, <5>1, Zenon
        <5>2. CASE s \notin DOMAIN o
          BY <2>4, <4>1, <5>2, Zenon
        <5> QED
          BY <5>1, <5>2, Zenon
      <4> QED
        BY <3>1, <4>2, <4>3, Zenon
    <3> QED
      BY <3>2, <3>3, Zenon
  <2>7. CASE s \notin DOMAIN n
    <3>1. s \notin DOMAIN o /\ s \notin W
      BY <1>1, <2>7, Zenon
    <3> QED
      BY <2>3, <2>4, <2>5, <2>7, <3>1, Zenon
  <2> QED
    BY <2>6, <2>7, Zenon
<1> QED
  <2>1. View(f, n) = [a \in Addrs |-> View(f, n)[a]]
    BY DEF View, Written
  <2>2. Mixed(W, Put(View(f, o), at, v), View(f, o)) =
            [a \in Addrs |-> Mixed(W, Put(View(f, o), at, v), View(f, o))[a]]
    BY DEF Mixed
  <2> HIDE DEF n
  <2>3. View(f, n) = Mixed(W, Put(View(f, o), at, v), View(f, o))
    BY <1>4, <2>1, <2>2, Zenon
  <2> QED
    BY <1>3, <2>3 DEF n

\* write holds the write, commits it, or goes through in part and says so
LEMMA WriteEnds ==
    ASSUME NEW f, NEW o, FileType(f), OverlayType(o),
           NEW at \in SUBSET Addrs, NEW v \in Values, NEW d \in write(f, o, at, v)
    PROVE  LET new == Put(View(f, o), at, v)
           IN  /\ FileType(d.file) /\ OverlayType(d.overlay)
               /\ Held(d, f, new) \/ Committed(d, new) \/ Broken(d, f, View(f, o), new)
<1> DEFINE new == Put(View(f, o), at, v)
           T == {SectorOf(a) : a \in at}
           all == Overlaid(f, o, at, v, T)
           Goal == /\ FileType(d.file) /\ OverlayType(d.overlay)
                   /\ Held(d, f, new) \/ Committed(d, new) \/ Broken(d, f, View(f, o), new)
<1>1. ASSUME NEW s \in T \ DOMAIN o, \A t \in T \ DOMAIN o : t < s => t \in Whole,
             d = Outcome(f, Overlaid(f, o, at, v, {t \in T : t < s}), FALSE)
      PROVE  Goal
  <2> DEFINE W == {t \in T : t < s}
  <2>1. W \in SUBSET Whole
    BY <1>1 DEF OverlayType
  <2>2. W \in SUBSET Sectors
    BY <2>1 DEF Whole
  <2>3. d.file = f /\ d.overlay = Overlaid(f, o, at, v, W) /\ ~d.ok
    BY <1>1 DEF Outcome
  <2> HIDE DEF W
  <2>4. OverlayType(d.overlay) /\ View(d.file, d.overlay) = Mixed(W, new, View(f, o))
    <3>1. /\ OverlayType(Overlaid(f, o, at, v, W))
          /\ View(f, Overlaid(f, o, at, v, W)) = Mixed(W, new, View(f, o))
      BY <2>1, OverlaidEnds, Zenon
    <3> HIDE DEF new
    <3> QED
      BY <2>3, <3>1, Zenon
  <2> HIDE DEF new
  <2> QED
    BY <2>2, <2>3, <2>4 DEF Broken
<1>2. ASSUME T \subseteq Whole
      PROVE  OverlayType(all) /\ View(f, all) = new
  <2>1. OverlayType(all) /\ View(f, all) = Mixed(T, new, View(f, o))
    BY <1>2, OverlaidEnds
  <2>2. Mixed(T, new, View(f, o)) = new
    BY ViewType DEF Mixed, Put, FileType
  <2> QED
    BY <2>1, <2>2
<1>3. ASSUME T \subseteq Whole, d \in flush(f, all)
      PROVE  Goal
  <2> HIDE DEF T, all, new
  <2>1. /\ FileType(d.file) /\ d.overlay = NoSectors
        /\ Committed(d, new) \/ Broken(d, f, View(f, o), new)
    BY <1>2, <1>3, FlushEnds
  <2> QED
    BY <2>1, EmptyOverlay
<1>4. ASSUME T \subseteq Whole, d = Outcome(f, all, TRUE)
      PROVE  Goal
  <2> HIDE DEF T, all, new
  <2> QED
    BY <1>2, <1>4 DEF Outcome, Held
<1> QED
  BY <1>1, <1>3, <1>4 DEF write

\* A write past the end changes nothing
LEMMA WritePastEnd ==
    ASSUME NEW c, ~(c.at \subseteq Addrs), NEW d \in WriteOutcomes(c)
    PROVE  d = Outcome(file, overlay, FALSE)
<1> DEFINE done == write(file, overlay, c.at, c.value)
           no == Outcome(file, overlay, FALSE)
<1>1. done = {no}
  BY DEF write
<1>2. ~no.ok
  BY DEF Outcome
<1>3. WriteOutcomes(c) =
        IF ~c.durable THEN done
        ELSE {e \in done : ~e.ok} \cup
             UNION {flush(e.file, e.overlay) : e \in {e \in done : e.ok}}
  BY DEF WriteOutcomes
<1> HIDE DEF done, no
<1>4. {e \in done : e.ok} = {} /\ {e \in done : ~e.ok} = {no}
  BY <1>1, <1>2
<1>5. UNION {flush(e.file, e.overlay) : e \in {e \in done : e.ok}} = {}
  BY <1>4
<1>6. WriteOutcomes(c) = {no}
  BY <1>1, <1>3, <1>4, <1>5
<1> QED
  BY <1>6 DEF no

\* A WRITE, durable or not: a durable one is never merely held
LEMMA WriteOutcomesEnd ==
    ASSUME FileType(file), OverlayType(overlay),
           NEW c \in Commands, c.at \subseteq Addrs, NEW d \in WriteOutcomes(c)
    PROVE  LET old == View(file, overlay)
               new == Put(old, c.at, c.value)
           IN  /\ FileType(d.file) /\ OverlayType(d.overlay)
               /\ \/ ~c.durable /\ Held(d, file, new)
                  \/ Committed(d, new)
                  \/ Broken(d, file, old, new)
<1> DEFINE old == View(file, overlay)
           new == Put(old, c.at, c.value)
           done == write(file, overlay, c.at, c.value)
<1>1. c.value \in Values /\ c.durable \in BOOLEAN
  BY CommandsAssumption
<1>2. ASSUME NEW e \in done
      PROVE  /\ FileType(e.file) /\ OverlayType(e.overlay)
             /\ Held(e, file, new) \/ Committed(e, new) \/ Broken(e, file, old, new)
  BY <1>1, <1>2, WriteEnds, Zenon
<1>3. FileType(new)
  BY <1>1, ViewType DEF Put, FileType
<1> HIDE DEF old, new, done
<1>4. CASE ~c.durable
  <2>1. d \in done
    BY <1>4 DEF WriteOutcomes, done
  <2> QED
    BY <1>2, <1>4, <2>1 DEF new, old
<1>5. CASE d \in done /\ ~d.ok
  BY <1>2, <1>5 DEF new, old, Held, Committed
<1>6. ASSUME NEW e \in done, e.ok, d \in flush(e.file, e.overlay)
      PROVE  /\ FileType(d.file) /\ OverlayType(d.overlay)
             /\ Committed(d, new) \/ Broken(d, file, old, new)
  <2>1. View(e.file, e.overlay) = new /\ (e.file = file \/ e.file = new)
    BY <1>2, <1>3, <1>6, EmptyOverlay DEF Held, Committed, Broken
  <2>2. /\ FileType(d.file) /\ d.overlay = NoSectors
        /\ Committed(d, new) \/ Broken(d, e.file, old, new)
    BY <1>2, <1>6, <2>1, FlushEnds
  <2>3. OverlayType(d.overlay) /\ View(d.file, d.overlay) = d.file
    BY <2>2, EmptyOverlay
  <2>4. CASE Broken(d, e.file, old, new) /\ e.file = new
    <3>1. PICK W \in SUBSET Sectors :
              \/ d.file = new /\ View(d.file, d.overlay) = Mixed(W, new, old)
              \/ d.file = Mixed(W, new, new)
      BY <2>4 DEF Broken
    <3>2. Mixed(W, new, new) = new /\ Mixed(Sectors, new, file) = new
      BY <1>3, UnitOfParts DEF Mixed, FileType
    <3>3. d.file = Mixed(Sectors, new, file)
      BY <3>1, <3>2
    <3> QED
      BY <2>2, <2>3, <2>4, <3>3 DEF Broken
  <2> QED
    BY <2>1, <2>2, <2>3, <2>4
<1> QED
  BY <1>4, <1>5, <1>6 DEF WriteOutcomes, done, new, old

-----------------------------------------------------------------------------
(* The inductive invariant.                                                 *)

\* A command is in the thread's hands from the read to the answer
InHand == (server \in {"consult", "count", "serve"}) <=> (command # Nothing)

Uncounted == IF server \in {"consult", "count"} THEN 1 ELSE 0

\* Every command is counted once at most
Counted == ioCount + Uncounted <= used.commands

\* The history is behind the counter, and is blank while a policy is stored
CloneArmed ==
    /\ since.count <= ioCount
    /\ handle = "arming" => since = [count |-> 0, fresh |-> FALSE]

ServerInv == ServerTypeOK /\ InHand /\ Counted /\ CloneArmed

\* The disk's part of ServerTypeOK
DiskType == FileType(file) /\ OverlayType(overlay)

\* The rest of ServerTypeOK
ControlType ==
    /\ policy \in Policies \cup {NoPolicy} /\ clone \in Policies \cup {NoPolicy}
    /\ ioCount \in 0 .. MaxCommands
    /\ shutdown \in BOOLEAN /\ current \in BOOLEAN
    /\ conn \in {"none", "waiting", "open", "broken"}
    /\ server \in {"accept", "accepted", "handshake", "loop", "read", "consult", "count",
                   "serve", "end", "exited"}
    /\ command \in Commands \cup {Nothing}
    /\ handle \in {"idle", "arming", "dropping", "join", "dropped"}
    /\ used \in [commands : 0 .. MaxCommands, arms : 0 .. MaxArms, sessions : 0 .. MaxSessions]
    /\ since \in [count : 0 .. MaxCommands, fresh : BOOLEAN]

\* The types of the disk and those of the threads make up ServerTypeOK.
LEMMA TypeParts == ServerTypeOK <=> DiskType /\ ControlType
BY DEF ServerTypeOK, DiskType, ControlType, FileType, OverlayType

\* No command of the guest's is the absence of one
LEMMA NothingIsNone == \A c \in Commands : c # Nothing /\ c.op # "none"
BY CommandsAssumption DEF Nothing

\* A server that has just started satisfies the invariant.
LEMMA InitInv == ServerInit => ServerInv
<1> SUFFICES ASSUME ServerInit PROVE ServerInv
  OBVIOUS
<1>1. file \in [Addrs -> Values]
  BY SizeAssumption DEF ServerInit, Addrs
<1>2. DiskType
  BY <1>1, EmptyOverlay DEF ServerInit, DiskType, FileType
<1>3. ControlType
  <2>1. /\ ioCount \in 0 .. MaxCommands
        /\ used \in [commands : 0 .. MaxCommands, arms : 0 .. MaxArms, sessions : 0 .. MaxSessions]
    BY SizeAssumption DEF ServerInit
  <2>2. since \in [count : 0 .. MaxCommands, fresh : BOOLEAN]
    BY SizeAssumption DEF ServerInit
  <2>3. shutdown \in BOOLEAN /\ current \in BOOLEAN
    BY Zenon DEF ServerInit
  <2> QED
    BY <2>1, <2>2, <2>3 DEF ServerInit, ControlType
<1>4. InHand /\ Counted /\ CloneArmed
  <2>1. InHand
    BY DEF ServerInit, InHand
  <2>2. Counted
    BY DEF ServerInit, Counted, Uncounted
  <2>3. CloneArmed
    BY DEF ServerInit, CloneArmed
  <2> QED
    BY <2>1, <2>2, <2>3
<1> QED
  BY <1>2, <1>3, <1>4, TypeParts DEF ServerInv

\* Every call on the disk leaves a disk
LEMMA DiskStep == ServerInv /\ [ServerNext]_serverVars => DiskType'
<1> SUFFICES ASSUME ServerInv, [ServerNext]_serverVars PROVE DiskType'
  OBVIOUS
<1>1. DiskType /\ command \in Commands \cup {Nothing}
  BY TypeParts DEF ServerInv, ControlType
<1>2. ASSUME UNCHANGED disk PROVE DiskType'
  BY <1>1, <1>2 DEF disk, DiskType, FileType, OverlayType
<1>3. CASE ServeWrite
  <2>1. command \in Commands /\ command.op = "write"
    BY <1>1, <1>3 DEF ServeWrite, Nothing
  <2>2. PICK d \in WriteOutcomes(command) : file' = d.file /\ overlay' = d.overlay
    BY <1>3 DEF ServeWrite, Apply
  <2>3. CASE command.at \subseteq Addrs
    BY <1>1, <2>1, <2>2, <2>3, WriteOutcomesEnd DEF DiskType, FileType, OverlayType
  <2>4. CASE ~(command.at \subseteq Addrs)
    <3>1. d = Outcome(file, overlay, FALSE)
      BY <2>2, <2>4, WritePastEnd
    <3> QED
      BY <1>2, <2>2, <3>1 DEF Outcome, disk
  <2> QED
    BY <2>3, <2>4
<1>4. CASE ServeFlush
  <2>1. PICK d \in flush(file, overlay) : file' = d.file /\ overlay' = d.overlay
    BY <1>4 DEF ServeFlush, Apply
  <2>2. FileType(d.file) /\ OverlayType(d.overlay)
    BY <1>1, FlushEnds, EmptyOverlay DEF DiskType
  <2> QED
    BY <2>1, <2>2 DEF DiskType, FileType, OverlayType
<1>5. CASE power_cut
  BY <1>1, <1>5, EmptyOverlay DEF power_cut, DiskType, FileType, OverlayType
<1>6. CASE UNCHANGED serverVars
  BY <1>2, <1>6 DEF serverVars, disk
<1>7. CASE \/ Accept \/ NoticeShutdown \/ Publish \/ CheckShutdown \/ ReadFails
           \/ Consult \/ Count \/ ServeRead \/ ServeUnknown \/ ServeDisconnect
           \/ EndSession \/ AcceptFails \/ Negotiate \/ (\E c \in Commands : ReadCommand(c))
  <2>1. UNCHANGED disk
    BY <1>7 DEF Accept, NoticeShutdown, StopAccepting, Publish, CheckShutdown, ReadFails,
       Consult, Count, ServeRead, ServeUnknown, ServeDisconnect, EndSession, AcceptFails,
       Negotiate, ReadCommand
  <2> QED
    BY <1>2, <2>1
<1>8. CASE \/ Connect \/ Leave \/ (\E p \in Policies \cup {NoPolicy} : StorePolicy(p))
           \/ ResetCount \/ RaiseFlag \/ DropDisk \/ Finished
  <2>1. UNCHANGED disk
    BY <1>8 DEF Connect, Leave, StorePolicy, ResetCount, RaiseFlag, DropDisk, BreakConnection,
       Join, Finished, serverVars, disk
  <2> QED
    BY <1>2, <2>1
<1> QED
  BY <1>3, <1>4, <1>5, <1>6, <1>7, <1>8 DEF ServerNext, ServerStep

\* The thread's place, its command and the counts move together
LEMMA ControlStep ==
    ASSUME ServerInv, [ServerNext]_serverVars
    PROVE  ControlType' /\ InHand' /\ Counted' /\ CloneArmed'
<1> USE DEF InHand, Counted, Uncounted, CloneArmed
<1>1. ControlType /\ InHand /\ Counted /\ CloneArmed
  BY TypeParts DEF ServerInv
<1>2. MaxCommands \in Nat /\ MaxArms \in Nat /\ MaxSessions \in Nat
  BY SizeAssumption
<1>3. CASE Consult
  <2>1. since' \in [count : 0 .. MaxCommands, fresh : BOOLEAN] /\ since'.count = since.count
    BY <1>1, <1>3 DEF Consult, ControlType
  <2>2. handle = "arming" => since' = since
    BY <1>1, <1>3 DEF Consult, ControlType
  <2>3. InHand' /\ Counted' /\ server' \in {"serve", "count"}
    BY <1>1, <1>2, <1>3 DEF Consult, ControlType
  <2>4. clone' = policy /\ UNCHANGED <<policy, ioCount, link, command, handle, used>>
    BY <1>3 DEF Consult
  <2> QED
    BY <1>1, <2>1, <2>2, <2>3, <2>4 DEF ControlType, link
<1>4. CASE Count
  <2>1. command \in Commands \cup {Nothing} /\ ioCount \in Nat /\ used.commands \in 0 .. MaxCommands
    BY <1>1, <1>2 DEF ControlType
  <2>2. ioCount' = ioCount + 1 /\ ioCount' <= used.commands /\ used' = used /\ handle' = handle
    BY <1>1, <1>4, <2>1 DEF Count
  <2>3. server' \in {"loop", "serve"} /\ InHand'
    BY <1>1, <1>4 DEF Count
  <2>4. since' \in [count : 0 .. MaxCommands, fresh : BOOLEAN] /\ CloneArmed'
    <3>1. since.count \in 0 .. MaxCommands /\ since.count <= ioCount
      BY <1>1 DEF ControlType
    <3>2. since' = [count |-> IF since.fresh THEN since.count + 1 ELSE since.count,
                    fresh |-> FALSE]
      BY <1>4 DEF Count
    <3>3. since'.count \in 0 .. MaxCommands /\ since'.count <= ioCount'
      BY <1>2, <2>1, <2>2, <3>1, <3>2
    <3>4. handle = "arming" => since' = since
      BY <1>1, <3>2
    <3>5. since' \in [count : 0 .. MaxCommands, fresh : BOOLEAN]
      BY <3>2, <3>3
    <3> QED
      BY <1>1, <2>2, <3>3, <3>4, <3>5
  <2>5. ControlType'
    BY <1>1, <1>2, <1>4, <2>1, <2>2, <2>3, <2>4 DEF Count, ControlType, link
  <2> QED
    BY <2>1, <2>2, <2>3, <2>4, <2>5
<1>5. CASE ServeRead \/ ServeWrite \/ ServeFlush \/ ServeUnknown
  <2>1. \E a : Reply(a)
    BY <1>5 DEF ServeRead, ServeWrite, ServeFlush, ServeUnknown, Apply
  <2>2. server = "serve"
    BY <1>5 DEF ServeRead, ServeWrite, ServeFlush, ServeUnknown
  <2> QED
    BY <1>1, <2>1, <2>2 DEF Reply, ControlType, faults, link
<1>6. CASE ServeDisconnect
  BY <1>1, <1>6 DEF ServeDisconnect, ControlType, faults, link
<1>7. CASE \E c \in Commands : ReadCommand(c)
  <2>1. PICK c \in Commands : ReadCommand(c)
    BY <1>7
  <2>2. used.commands \in 0 .. MaxCommands /\ ioCount \in 0 .. MaxCommands
    BY <1>1 DEF ControlType
  <2>3. used' \in [commands : 0 .. MaxCommands, arms : 0 .. MaxArms, sessions : 0 .. MaxSessions]
        /\ used'.commands = used.commands + 1
    BY <1>1, <1>2, <2>1 DEF ReadCommand, ControlType
  <2>4. InHand' /\ server' \in {"consult", "serve"}
    BY <2>1, NothingIsNone DEF ReadCommand
  <2>5. UNCHANGED <<faults, link, clone, handle>> /\ command' = c /\ server = "read"
    BY <2>1 DEF ReadCommand
  <2> QED
    BY <1>1, <1>2, <2>2, <2>3, <2>4, <2>5 DEF ControlType, faults, link
<1>8. CASE \/ Accept \/ NoticeShutdown \/ AcceptFails \/ Publish \/ Negotiate
           \/ CheckShutdown \/ ReadFails \/ EndSession
  <2> USE DEF Accept, NoticeShutdown, AcceptFails, StopAccepting, Publish, Negotiate,
      CheckShutdown, ReadFails, EndSession
  <2>1. UNCHANGED <<faults, shutdown, command, clone, handle, used>>
    BY <1>8 DEF link
  <2>2. /\ server \notin {"consult", "count", "serve"}
        /\ server' \in {"accept", "accepted", "handshake", "loop", "read", "end", "exited"}
    BY <1>8
  <2>3. conn' \in {"none", "waiting", "open", "broken"}
    BY <1>1, <1>8 DEF link, ControlType
  <2>4. current' = current \/ current' = FALSE \/ current' \in BOOLEAN
    BY <1>8 DEF link
  <2>5. current' \in BOOLEAN
    BY <1>1, <2>4, Zenon DEF ControlType
  <2> QED
    BY <1>1, <2>1, <2>2, <2>3, <2>5 DEF ControlType, faults
<1>9. CASE Connect
  BY <1>1, <1>2, <1>9 DEF Connect, ControlType, faults
<1>10. CASE Leave
  BY <1>1, <1>10 DEF Leave, ControlType, faults
<1>11. CASE power_cut
  BY <1>1, <1>11 DEF power_cut, ControlType, faults, link
<1>12. CASE \E p \in Policies \cup {NoPolicy} : StorePolicy(p)
  BY <1>1, <1>2, <1>12 DEF StorePolicy, ControlType, link
<1>13. CASE ResetCount
  BY <1>1, <1>2, <1>13 DEF ResetCount, ControlType, link
<1>14. CASE RaiseFlag \/ BreakConnection \/ Join
  <2> USE DEF RaiseFlag, BreakConnection, Join
  <2>1. UNCHANGED <<faults, current, server, command, clone, used>>
    BY <1>14 DEF link
  <2>2. handle' \in {"dropping", "join", "dropped"}
    BY <1>14
  <2>3. conn' \in {"none", "waiting", "open", "broken"}
    BY <1>1, <1>14 DEF link, ControlType
  <2>4. shutdown' = shutdown \/ shutdown' = TRUE
    BY <1>14 DEF link
  <2>5. shutdown' \in BOOLEAN
    BY <1>1, <2>4, Zenon DEF ControlType
  <2> QED
    BY <1>1, <2>1, <2>2, <2>3, <2>5 DEF ControlType, faults
<1>15. CASE Finished \/ UNCHANGED serverVars
  BY <1>1, <1>15 DEF Finished, serverVars, ControlType
<1> QED
  BY <1>3, <1>4, <1>5, <1>6, <1>7, <1>8, <1>9, <1>10, <1>11, <1>12, <1>13, <1>14, <1>15
     DEF ServerNext, ServerStep, DropDisk

\* The invariant is one
LEMMA InvHolds == ServerSpec => []ServerInv
<1>1. ServerInv /\ [ServerNext]_serverVars => ServerInv'
  <2>1. ASSUME ServerInv, [ServerNext]_serverVars PROVE ServerTypeOK'
    <3>1. ServerTypeOK' <=> DiskType' /\ ControlType'
      BY DEF ServerTypeOK, DiskType, ControlType, FileType, OverlayType
    <3> QED
      BY <2>1, <3>1, DiskStep, ControlStep
  <2> QED
    BY <2>1, ControlStep DEF ServerInv
<1> QED
  BY <1>1, InitInv, PTL DEF ServerSpec

\* Every variable keeps its type: the overlay holds whole sectors only, so a
\* write-back never runs past the image's end
THEOREM TypeHolds == ServerSpec => []ServerTypeOK
BY InvHolds, PTL DEF ServerInv

\* Shared::consult: once set_policy has returned, `fail_after = n' never lets
\* the nth command or a later one through, whatever was in hand at the time
THEOREM FailsInTimeHolds == ServerSpec => FailsInTime
<1>1. ASSUME ServerInv, Count, since.fresh, clone.after > 0, since.count + 1 >= clone.after
      PROVE  server' = "loop"
  <2>1. since.count \in Nat /\ ioCount \in Nat /\ since.count <= ioCount
    BY <1>1, SizeAssumption, TypeParts DEF ServerInv, ControlType, CloneArmed
  <2>2. clone.after \in Nat
    <3>1. clone \in Policies \cup {NoPolicy}
      BY <1>1, TypeParts, Zenon DEF ServerInv, ControlType
    <3> QED
      BY <3>1, PoliciesAssumption DEF NoPolicy
  <2>3. ioCount' = ioCount + 1 /\ ioCount' >= clone.after
    BY <1>1, <2>1, <2>2 DEF Count
  <2>4. Refused(command, clone, ioCount')
    BY <1>1, <2>3 DEF Refused
  <2> QED
    BY <1>1, <2>4 DEF Count
<1>2. ServerInv /\ [ServerNext]_serverVars =>
        [Count /\ since.fresh /\ clone.after > 0 /\ since.count + 1 >= clone.after
            => server' = "loop"]_serverVars
  BY <1>1
<1> QED
  BY <1>2, InvHolds, PTL DEF ServerSpec, FailsInTime

-----------------------------------------------------------------------------
(* The server implements WriteCache.                                        *)

\* The image the guest reads, as a state function
Image == [a \in Addrs |-> Seen(a)]

\* Reading every address through Overlay::read gives the overlaid file.
LEMMA ImageIsView ==
    /\ Image = View(file, overlay)
    /\ Image' = View(file', overlay')
BY DEF Image, Seen, View, Written

\* A step that leaves the disk, the command and the answer alone
LEMMA QuietStep ==
    ASSUME UNCHANGED <<file, overlay, command, answer>>
    PROVE  UNCHANGED Cache!vars
BY DEF Cache!vars, Seen

\* Answering a command with the disk as it is
LEMMA QuietError ==
    ASSUME command # Nothing, command' = Nothing, answer' = Error, UNCHANGED disk
    PROVE  Cache!Fail
<1>1. Image' = Image /\ file' = file
  BY ImageIsView DEF disk
<1> QED
  BY <1>1 DEF Cache!Fail, Cache!Answer, Cache!Nothing, Cache!Error, Nothing, Error, Image

\* A call that is to leave `new' ends as the cache may
LEMMA EndIsCacheStep ==
    ASSUME command \in Commands, command.op \in {"write", "flush"},
           command.at \subseteq Addrs, NEW new,
           new = [a \in Addrs |-> IF command.op = "write" /\ a \in command.at
                                  THEN command.value ELSE Image[a]],
           NEW d, FileType(d.file), file' = d.file, overlay' = d.overlay,
           command' = Nothing, answer' = IF d.ok THEN Ok(<<>>) ELSE Error,
           \/ command.op = "write" /\ ~command.durable /\ Held(d, file, new)
           \/ Committed(d, new)
           \/ Broken(d, file, Image, new)
    PROVE  Cache!Hold \/ Cache!Commit \/ Cache!Fail
<1>1. new = Cache!After(command)
  BY DEF Cache!After, Image
<1>2. command # Cache!Nothing /\ command' = Cache!Nothing
  BY NothingIsNone DEF Cache!Nothing, Nothing
<1>3. Image' = View(d.file, d.overlay)
  BY ImageIsView
<1>4. CASE command.op = "write" /\ ~command.durable /\ Held(d, file, new)
  <2>1. Image' = new /\ file' = file /\ answer' = Cache!Ok(<<>>)
    BY <1>3, <1>4 DEF Held, Ok, Cache!Ok
  <2> QED
    BY <1>1, <1>2, <1>4, <2>1 DEF Cache!Hold, Cache!Answer, Image
<1>5. CASE Committed(d, new)
  <2>1. Image' = new /\ file' = new /\ answer' = Cache!Ok(<<>>)
    BY <1>3, <1>5, EmptyOverlay DEF Committed, Ok, Cache!Ok
  <2> QED
    BY <1>1, <1>2, <2>1 DEF Cache!Commit, Cache!Answer, Image
<1>6. CASE Broken(d, file, Image, new)
  <2>1. answer' = Cache!Error
    BY <1>6 DEF Broken, Error, Cache!Error
  <2>2. PICK W \in SUBSET Sectors :
            \/ d.file = file /\ View(d.file, d.overlay) = Mixed(W, new, Image)
            \/ d.file = Mixed(W, new, file) /\ d.overlay = NoSectors
    BY <1>6 DEF Broken
  <2>3. W \in SUBSET {SectorOf(a) : a \in Addrs}
    BY DEF Sectors
  <2>4. CASE d.file = file /\ View(d.file, d.overlay) = Mixed(W, new, Image)
    <3>1. file' = file /\ Image' = Cache!Mix(W, new, Image)
      BY <1>3, <2>4 DEF Cache!Mix, Mixed
    <3> QED
      BY <1>1, <1>2, <2>1, <2>3, <3>1 DEF Cache!Fail, Cache!Answer, Image
  <2>5. CASE d.file = Mixed(W, new, file) /\ d.overlay = NoSectors
    <3>1. file' = Cache!Mix(W, new, file) /\ Image' = file'
      BY <1>3, <2>5, EmptyOverlay DEF Cache!Mix, Mixed
    <3> QED
      BY <1>1, <1>2, <2>1, <2>3, <3>1 DEF Cache!Fail, Cache!Answer, Image
  <2> QED
    BY <2>2, <2>4, <2>5
<1> QED
  BY <1>4, <1>5, <1>6

\* Every step of the server is a step of the cache, or none
LEMMA StepIsCacheStep == ServerInv /\ [ServerNext]_serverVars => [Cache!Next]_(Cache!vars)
<1> SUFFICES ASSUME ServerInv, [ServerNext]_serverVars PROVE Cache!Next \/ UNCHANGED Cache!vars
  OBVIOUS
<1>1. /\ FileType(file) /\ OverlayType(overlay)
      /\ command \in Commands \cup {Nothing} /\ InHand
  BY TypeParts DEF ServerInv, DiskType, ControlType
<1>2. CASE \E c \in Commands : ReadCommand(c)
  <2>1. PICK c \in Commands : ReadCommand(c)
    BY <1>2
  <2>2. command = Nothing /\ command' = c /\ answer' = Error /\ UNCHANGED disk
    BY <1>1, <2>1 DEF ReadCommand, InHand
  <2>3. Image' = Image /\ file' = file
    BY <2>2, ImageIsView DEF disk
  <2>4. Cache!Ask(c)
    BY <2>2, <2>3 DEF Cache!Ask, Cache!Nothing, Cache!Error, Nothing, Error, Image
  <2> QED
    BY <2>4 DEF Cache!Next
<1>3. CASE Count
  <2>1. CASE Refused(command, clone, ioCount')
    <3>1. Cache!Fail
      BY <1>1, <1>3, <2>1, QuietError DEF Count, InHand
    <3> QED
      BY <3>1 DEF Cache!Next
  <2>2. CASE ~Refused(command, clone, ioCount')
    BY <1>3, <2>2, QuietStep DEF Count, disk
  <2> QED
    BY <2>1, <2>2
<1>4. CASE ServeRead
  <2>1. command # Nothing /\ command.op = "read" /\ command' = Nothing /\ UNCHANGED disk
    BY <1>1, <1>4 DEF ServeRead, Reply, InHand
  <2>2. CASE answer' = Error
    BY <2>1, <2>2, QuietError DEF Cache!Next
  <2>3. CASE command.at \subseteq Addrs /\ answer' = Ok([a \in command.at |-> Seen(a)])
    <3>1. Image' = Image /\ file' = file
      BY <2>1, ImageIsView DEF disk
    <3>2. [a \in command.at |-> Seen(a)] = [a \in command.at |-> Image[a]]
      BY <2>3 DEF Image
    <3>3. Cache!Read
      BY <2>1, <2>3, <3>1, <3>2
         DEF Cache!Read, Cache!Answer, Cache!Nothing, Cache!Ok, Nothing, Ok, Image
    <3> QED
      BY <3>3 DEF Cache!Next
  <2> QED
    BY <1>4, <2>2, <2>3 DEF ServeRead, ReadOutcomes, Reply
<1>5. CASE ServeWrite
  <2>1. command \in Commands /\ command.op = "write" /\ command' = Nothing
    BY <1>1, <1>5 DEF ServeWrite, Apply, Reply, InHand
  <2>2. PICK d \in WriteOutcomes(command) :
            /\ file' = d.file /\ overlay' = d.overlay
            /\ answer' = IF d.ok THEN Ok(<<>>) ELSE Error
    BY <1>5 DEF ServeWrite, Apply, Reply
  <2>3. CASE command.at \subseteq Addrs
    <3> DEFINE new == Put(Image, command.at, command.value)
    <3>1. /\ FileType(d.file)
          /\ \/ ~command.durable /\ Held(d, file, new)
             \/ Committed(d, new)
             \/ Broken(d, file, Image, new)
      BY <1>1, <2>1, <2>3, WriteOutcomesEnd, ImageIsView
    <3>2. new = [a \in Addrs |-> IF command.op = "write" /\ a \in command.at
                                 THEN command.value ELSE Image[a]]
      BY <2>1 DEF Put
    <3> HIDE DEF new
    <3>3. Cache!Hold \/ Cache!Commit \/ Cache!Fail
      BY <2>1, <2>2, <2>3, <3>1, <3>2, EndIsCacheStep
    <3> QED
      BY <3>3 DEF Cache!Next
  <2>4. CASE ~(command.at \subseteq Addrs)
    <3>1. d = Outcome(file, overlay, FALSE)
      BY <2>2, <2>4, WritePastEnd
    <3>2. UNCHANGED disk /\ answer' = Error
      BY <2>2, <3>1 DEF Outcome, disk
    <3>3. Cache!Fail
      BY <2>1, <3>2, NothingIsNone, QuietError
    <3> QED
      BY <3>3 DEF Cache!Next
  <2> QED
    BY <2>3, <2>4
<1>6. CASE ServeFlush
  <2>1. command \in Commands /\ command.op = "flush" /\ command' = Nothing
    BY <1>1, <1>6 DEF ServeFlush, Apply, Reply, InHand
  <2>2. command.at \subseteq Addrs
    BY <2>1, CommandsAssumption
  <2>3. PICK d \in flush(file, overlay) :
            /\ file' = d.file /\ overlay' = d.overlay
            /\ answer' = IF d.ok THEN Ok(<<>>) ELSE Error
    BY <1>6 DEF ServeFlush, Apply, Reply
  <2>4. FileType(d.file) /\ (Committed(d, Image) \/ Broken(d, file, Image, Image))
    BY <1>1, FlushEnds, ImageIsView
  <2>5. Image = [a \in Addrs |-> IF command.op = "write" /\ a \in command.at
                                 THEN command.value ELSE Image[a]]
    BY <2>1 DEF Image
  <2>6. Cache!Hold \/ Cache!Commit \/ Cache!Fail
    BY <2>1, <2>2, <2>3, <2>4, <2>5, EndIsCacheStep
  <2> QED
    BY <2>6 DEF Cache!Next
<1>7. CASE ServeUnknown
  <2>1. Cache!Fail
    BY <1>1, <1>7, QuietError DEF ServeUnknown, Reply, InHand
  <2> QED
    BY <2>1 DEF Cache!Next
<1>8. CASE ServeDisconnect
  <2>1. command' = Nothing /\ answer' = answer /\ UNCHANGED disk
    BY <1>8 DEF ServeDisconnect
  <2>2. Image' = Image /\ file' = file
    BY <2>1, ImageIsView DEF disk
  <2>3. Cache!Abandon
    BY <2>1, <2>2 DEF Cache!Abandon, Cache!Nothing, Nothing, Image
  <2> QED
    BY <2>3 DEF Cache!Next
<1>9. CASE power_cut
  <2>1. Image' = file /\ UNCHANGED <<file, command, answer>>
    BY <1>1, <1>9, EmptyOverlay, ImageIsView DEF power_cut
  <2>2. Cache!PowerCut
    BY <2>1 DEF Cache!PowerCut, Image
  <2> QED
    BY <2>2 DEF Cache!Next
<1>10. CASE \/ Accept \/ NoticeShutdown \/ AcceptFails \/ Publish \/ Negotiate
            \/ CheckShutdown \/ ReadFails \/ Consult \/ EndSession
  BY <1>10, QuietStep DEF Accept, NoticeShutdown, AcceptFails, StopAccepting, Publish,
     Negotiate, CheckShutdown, ReadFails, Consult, EndSession, disk
<1>11. CASE \/ Connect \/ Leave \/ (\E p \in Policies \cup {NoPolicy} : StorePolicy(p))
            \/ ResetCount \/ RaiseFlag \/ DropDisk \/ Finished \/ UNCHANGED serverVars
  BY <1>11, QuietStep DEF Connect, Leave, StorePolicy, ResetCount, RaiseFlag, DropDisk,
     BreakConnection, Join, Finished, serverVars, disk
<1> QED
  BY <1>2, <1>3, <1>4, <1>5, <1>6, <1>7, <1>8, <1>9, <1>10, <1>11 DEF ServerNext, ServerStep

\* DiskState behind the server is a disk with a write cache: the guest reads its
\* own writes, what an acknowledged FLUSH or FUA write covers survives every
\* later power cut, and a partial write leaves the rest of its sector alone
THEOREM KeepsCacheHolds == ServerSpec => KeepsCache
<1>1. ServerInit => Cache!Init
  <2> SUFFICES ASSUME ServerInit PROVE Cache!Init
    OBVIOUS
  <2>1. FileType(file) /\ overlay = NoSectors
    BY SizeAssumption DEF ServerInit, FileType, Addrs
  <2>2. Image = file
    BY <2>1, EmptyOverlay, ImageIsView
  <2> QED
    BY <2>1, <2>2 DEF ServerInit, Cache!Init, Cache!Nothing, Cache!Error, Nothing, Error,
       Image, FileType
<1> QED
  BY <1>1, StepIsCacheStep, InvHolds, PTL DEF ServerSpec, KeepsCache, Cache!Spec

(***************************************************************************)
(* WaitSink never over-counts, for any timeouts, any clock bound and any   *)
(* placement of the parks around the two reads of `waited`.                *)
(***************************************************************************)
CONSTANTS FileTimeout, TestTimeout, Armed, MaxTime
VARIABLES phase, stop, at, started, elapsed, before, fired

W == INSTANCE Watchdogs

\* What the sink holds is exactly the time parked so far, and a watchdog
\* between the two reads has read no more than is settled now
Sink == parked = settled + (IF parkedSince >= 0 THEN now - parkedSince ELSE 0)

Reads ==
    /\ at["file"] \in {3, 4} => waited["file"] = 0
    /\ at["file"] = 5 => waited["file"] <= settled
    /\ at["test"] = 3 => waited["test"] = 0
    /\ at["test"] = 4 => waited["test"] <= settled

SinkTypes ==
    /\ now \in Nat /\ settled \in Nat /\ parked \in Nat
    /\ parkedSince \in Int /\ parkedSince <= now
    /\ at \in [W!Kinds -> 0..8]
    /\ waited \in [W!Kinds -> Nat]

SinkInv == SinkTypes /\ Sink /\ Reads /\ WaitedIsSound

\* Where each label of a watchdog's body is.
LEMMA Positions ==
    ASSUME SinkTypes, NEW k \in W!Kinds
    PROVE  /\ k = "file" \/ k = "test"
           /\ W!At(k) = "start" => at[k] = 1
           /\ W!At(k) = "check" => at[k] = 2
           /\ W!At("file") = "elapsed" => at["file"] = 3
           /\ W!At("test") = "elapsed" => at["test"] = 5
           /\ W!At("file") = "settled" => at["file"] = 4
           /\ W!At("test") = "settled" => at["test"] = 3
           /\ W!At("file") = "live" => at["file"] = 5
           /\ W!At("test") = "live" => at["test"] = 4
           /\ W!At(k) = "compare" => at[k] = 6
           /\ W!At(k) = "recheck" => at[k] = 7
           /\ W!At(k) = "shutdown" => at[k] = 8
<1>1. k = "file" \/ k = "test"
  BY DEF W!Kinds
<1>2. at["file"] \in 0..8 /\ at["test"] \in 0..8
  BY DEF SinkTypes, W!Kinds
<1>3. /\ W!At("file") = "start" => at["file"] = 1
      /\ W!At("file") = "check" => at["file"] = 2
      /\ W!At("file") = "elapsed" => at["file"] = 3
  BY <1>2 DEF W!At, W!Body
<1>4. /\ W!At("file") = "settled" => at["file"] = 4
      /\ W!At("file") = "live" => at["file"] = 5
      /\ W!At("file") = "compare" => at["file"] = 6
  BY <1>2 DEF W!At, W!Body
<1>5. /\ W!At("file") = "recheck" => at["file"] = 7
      /\ W!At("file") = "shutdown" => at["file"] = 8
  BY <1>2 DEF W!At, W!Body
<1>6. /\ W!At("test") = "start" => at["test"] = 1
      /\ W!At("test") = "check" => at["test"] = 2
      /\ W!At("test") = "elapsed" => at["test"] = 5
  BY <1>2 DEF W!At, W!Body
<1>7. /\ W!At("test") = "settled" => at["test"] = 3
      /\ W!At("test") = "live" => at["test"] = 4
      /\ W!At("test") = "compare" => at["test"] = 6
  BY <1>2 DEF W!At, W!Body
<1>8. /\ W!At("test") = "recheck" => at["test"] = 7
      /\ W!At("test") = "shutdown" => at["test"] = 8
  BY <1>2 DEF W!At, W!Body
<1> QED
  BY <1>1, <1>3, <1>4, <1>5, <1>6, <1>7, <1>8, Zenon

\* A file that has just started satisfies the invariant.
LEMMA SinkInit == W!Init => SinkInv
  BY DEF W!Init, SinkInv, SinkTypes, Sink, Reads, WaitedIsSound, W!Kinds, Kinds, W!NewSink

\* A step of the file's thread or of the clock keeps the invariant.
LEMMA ThreadStep ==
    ASSUME SinkInv,
           \/ W!Tick \/ W!Park \/ W!Unpark \/ W!BeginTest \/ W!StopTest \/ W!JoinTest
           \/ W!PanicTest \/ W!Complete \/ W!JoinFile \/ W!Done \/ UNCHANGED W!vars
    PROVE  SinkInv'
<1> USE DEF SinkInv, SinkTypes, Sink, Reads, WaitedIsSound, W!Kinds, Kinds, W!locals, W!sink
<1>1. CASE W!Tick
  BY <1>1 DEF W!Tick
<1>2. CASE W!Park
  BY <1>2 DEF W!Park, W!SinkPark, W!Runs
<1>3. CASE W!Unpark
  BY <1>3 DEF W!Unpark, W!SinkUnpark
<1>4. CASE W!BeginTest
  BY <1>4 DEF W!BeginTest
<1>5. CASE W!StopTest \/ W!JoinTest \/ W!PanicTest \/ W!Complete \/ W!JoinFile \/ W!Done \/ UNCHANGED W!vars
  BY <1>5 DEF W!StopTest, W!JoinTest, W!PanicTest, W!Complete, W!JoinFile, W!Done, W!vars
<1>. QED
  BY <1>1, <1>2, <1>3, <1>4, <1>5

\* A step of a watchdog thread keeps the invariant.
LEMMA WatchdogStep ==
    ASSUME SinkInv, NEW k \in W!Kinds, W!Watchdog(k)
    PROVE  SinkInv'
<1>0. SinkTypes /\ (k = "file" \/ k = "test")
  BY Positions DEF SinkInv
<1>1. CASE W!Start(k)
  <2>1. at[k] = 1
    BY <1>0, <1>1, Positions DEF W!Start
  <2>. QED
    BY <1>0, <1>1, <2>1 DEF W!Start, W!Advance, SinkInv, SinkTypes, Sink, Reads, WaitedIsSound,
          W!Kinds, Kinds, W!sink
<1>2. CASE W!Check(k)
  <2>1. at[k] = IF W!At(k) = "check" THEN 2 ELSE 7
    BY <1>0, <1>2, Positions DEF W!Check
  <2>. QED
    BY <1>0, <1>2, <2>1 DEF W!Check, W!Advance, SinkInv, SinkTypes, Sink, Reads, WaitedIsSound,
          W!Kinds, Kinds, W!sink
<1>3. CASE W!ReadElapsed(k)
  <2>1. at[k] = IF k = "file" THEN 3 ELSE 5
    BY <1>0, <1>3, Positions DEF W!ReadElapsed
  <2>. QED
    BY <1>0, <1>3, <2>1
       DEF W!ReadElapsed, W!Advance, SinkInv, SinkTypes, Sink, Reads, WaitedIsSound, W!Kinds, Kinds, W!sink
<1>4. CASE W!ReadSettled(k)
  <2>1. at[k] = IF k = "file" THEN 4 ELSE 3
    BY <1>0, <1>4, Positions DEF W!ReadSettled
  <2>. QED
    BY <1>0, <1>4, <2>1
       DEF W!ReadSettled, W!AddSettled, W!Advance, SinkInv, SinkTypes, Sink, Reads, WaitedIsSound, W!Kinds, Kinds, W!sink
<1>5. CASE W!ReadLive(k)
  <2>1. at[k] = IF k = "file" THEN 5 ELSE 4
    BY <1>0, <1>5, Positions DEF W!ReadLive
  <2>. QED
    BY <1>0, <1>5, <2>1
       DEF W!ReadLive, W!AddLive, W!Advance, SinkInv, SinkTypes, Sink, Reads, WaitedIsSound, W!Kinds, Kinds, W!sink
<1>6. CASE W!Compare(k)
  <2>1. at[k] = 6
    BY <1>0, <1>6, Positions DEF W!Compare
  <2>. QED
    BY <1>0, <1>6, <2>1 DEF W!Compare, SinkInv, SinkTypes, Sink, Reads, WaitedIsSound, W!Kinds, Kinds, W!sink
<1>7. CASE W!Shutdown(k)
  BY <1>7 DEF W!Shutdown, SinkInv, SinkTypes, Sink, Reads, WaitedIsSound, W!Kinds, Kinds, W!sink
<1>. QED
  BY <1>1, <1>2, <1>3, <1>4, <1>5, <1>6, <1>7 DEF W!Watchdog

\* `WaitSink::waited` is never more than the time really parked.
THEOREM WaitedSound == W!Spec => []WaitedIsSound
<1>1. SinkInv /\ [W!Next]_(W!vars) => SinkInv'
  BY ThreadStep, WatchdogStep DEF W!Next
<1>2. SinkInv => WaitedIsSound
  BY DEF SinkInv
<1>. QED
  BY <1>1, <1>2, SinkInit, PTL DEF W!Spec

=============================================================================
