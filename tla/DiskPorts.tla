----------------------------- MODULE DiskPorts -----------------------------
(***************************************************************************)
(* The runtime disk ports of a VM (vmm/disk_hotplug.rs) under its life     *)
(* cycle: vm:attach_disk and disk:detach are calls of the Lua thread       *)
(* between those of VmLifecycle, under the mutex of VmInner.               *)
(*                                                                         *)
(* A port is claimed by the disk id DiskPorts books on it.  QEMU has the   *)
(* block nodes that blockdev-add made and the devices that device_add      *)
(* plugged; device_del only asks the guest, which lets a device go when it *)
(* likes.  A monitor command is refused, or lost with QEMU having executed *)
(* it or not, or done.                                                     *)
(***************************************************************************)
EXTENDS VmLifecycle, Integers

CONSTANTS
    Disks,          \* the ids attach_disk is called with
    NoDisk,         \* an Option that is None
    PortCount       \* PORT_COUNT

ASSUME DiskAssumption == NoDisk \notin Disks /\ PortCount \in Nat

Ports == 1 .. PortCount
NoPort == 0

VARIABLES
    recorded,       \* VmInner.disks: the ids vm:disk resolves
    slots,          \* DiskPorts.slots: the disk booked on each port
    nodes,          \* QEMU: the disks whose block node exists
    bus,            \* QEMU: the port the device of a disk sits on
    asked           \* QEMU: the disks whose device was asked to go

machine == <<nodes, bus, asked>>
diskVars == <<vars, recorded, slots, machine>>

DiskInit ==
    /\ Init
    /\ recorded = {} /\ nodes = {} /\ asked = {}
    /\ slots = [p \in Ports |-> NoDisk]
    /\ bus = [d \in Disks |-> NoPort]

\* How a monitor command fails; a process that is gone only loses it
Failures == {"refused", "lost", "lost_done"}
FailsAs(how) == how \in Failures /\ (how # "lost" => qemu = "up")

\* The call returns; a dead signal goes through maybe_mark_dead_on_vmm_err
Returns(how) ==
    /\ VmmCall
    /\ pc' = IF how \in {"lost", "lost_done"} THEN "mark_vmm" ELSE "idle"

\* Without an image, or on a VM that is not live, attach_disk only records
AttachRecords(d) ==
    /\ pc = "idle" /\ Lockable /\ d \notin recorded
    /\ recorded' = recorded \cup {d}
    /\ UNCHANGED <<vars, slots, machine>>

-----------------------------------------------------------------------------
(***************************************************************************)
(* DiskPorts::attach: the inventory, the sweep, and the new disk.          *)
(***************************************************************************)
\* live_devices: the booked ports whose device is not in QEMU's PCI inventory
Gone == {p \in Ports : slots[p] # NoDisk /\ bus[slots[p]] = NoPort}

\* The ports and the block nodes once the ones of `done` are released
Freed(done) == [p \in Ports |-> IF p \in done THEN NoDisk ELSE slots[p]]
Left(done) == nodes \ {slots[p] : p \in done}

\* query-pci fails
AttachBlind(d) == \E how \in {"refused", "lost"} :
    /\ FailsAs(how) /\ Returns(how)
    /\ recorded' = recorded \cup {d}
    /\ UNCHANGED <<slots, machine>>

\* blockdev-del fails on a port of the sweep: the ones before it are released
AttachSweepFails(d) == \E how \in Failures, at \in Gone :
    /\ FailsAs(how) /\ Returns(how)
    /\ recorded' = recorded \cup {d}
    /\ LET done == {p \in Gone : p < at} IN
       /\ slots' = Freed(done)
       /\ nodes' = Left(IF how = "lost_done" THEN done \cup {at} ELSE done)
    /\ UNCHANGED <<bus, asked>>

\* Every port is booked by a disk the guest still has
AttachNoPort(d) ==
    /\ qemu = "up" /\ Returns("done")
    /\ \A p \in Ports : Freed(Gone)[p] # NoDisk
    /\ recorded' = recorded \cup {d}
    /\ UNCHANGED <<slots, machine>>

\* The sweep is done and p is the first free port
Finds(d, p) ==
    /\ qemu = "up"
    /\ Freed(Gone)[p] = NoDisk
    /\ \A q \in Ports : q < p => Freed(Gone)[q] # NoDisk
    /\ recorded' = recorded \cup {d}

\* blockdev-add fails: nothing is booked
AttachNodeFails(d) == \E how \in Failures, p \in Ports :
    /\ Finds(d, p) /\ FailsAs(how) /\ Returns(how)
    /\ slots' = Freed(Gone)
    /\ nodes' = IF how = "lost_done" THEN Left(Gone) \cup {d} ELSE Left(Gone)
    /\ UNCHANGED <<bus, asked>>

\* Booked as soon as the node exists, and plugged
Books(d, p) ==
    /\ Finds(d, p) /\ d \notin Left(Gone)
    /\ slots' = [Freed(Gone) EXCEPT ![p] = d]

\* device_add is refused and the node cannot be deleted either: the port stays
\* booked, for the next attach to retry
Undone(d, p) ==
    /\ Books(d, p)
    /\ \E how \in Failures :
       /\ Returns(how)
       /\ nodes' = IF how = "lost_done" THEN Left(Gone) ELSE Left(Gone) \cup {d}

\* device_add is refused
AttachRefused(d) == \E p \in Ports :
    /\ \/ /\ Finds(d, p) /\ d \notin Left(Gone) /\ Returns("refused")
          /\ slots' = Freed(Gone) /\ nodes' = Left(Gone)
       \/ Undone(d, p)
    /\ UNCHANGED <<bus, asked>>

\* device_add plugs the disk, or its answer is lost
AttachPlugs(d) == \E p \in Ports, how \in {"done", "lost", "lost_done"} :
    /\ Books(d, p) /\ Returns(how)
    /\ nodes' = Left(Gone) \cup {d}
    /\ bus' = IF how = "lost" THEN bus ELSE [bus EXCEPT ![d] = p]
    /\ UNCHANGED asked

-----------------------------------------------------------------------------
\* Mutation of Detach: the acknowledgement of device_del frees the port
DetachFrees(d) == \E how \in {"done", "lost_done"} :
    /\ qemu = "up" /\ bus[d] # NoPort /\ Returns(how)
    /\ asked' = asked \cup {d}
    /\ slots' = [p \in Ports |-> IF slots[p] = d THEN NoDisk ELSE slots[p]]
    /\ UNCHANGED <<recorded, nodes, bus>>

\* detach_disk: device_del asks the guest (a refusal changes nothing, and a loss
\* without effect is VmmCall's)
Detach(d) == \E how \in {"done", "lost_done"} :
    /\ qemu = "up" /\ bus[d] # NoPort /\ Returns(how)
    /\ asked' = asked \cup {d}
    /\ UNCHANGED <<recorded, slots, nodes, bus>>

\* The guest powers the slot off; a paused one does nothing
GuestReleases(d) ==
    /\ d \in asked /\ qemu = "up" /\ state # "Paused"
    /\ bus' = [bus EXCEPT ![d] = NoPort] /\ asked' = asked \ {d}
    /\ UNCHANGED <<vars, recorded, slots, nodes>>

\* Every other step of the VM; what QEMU has goes with the process
VmMoves ==
    /\ Next
    /\ IF qemu' = "up"
       THEN UNCHANGED machine
       ELSE nodes' = {} /\ asked' = {} /\ bus' = [d \in Disks |-> NoPort]
    /\ UNCHANGED <<recorded, slots>>

DiskCall(d) ==
    \/ AttachRecords(d) \/ AttachBlind(d) \/ AttachSweepFails(d) \/ AttachNoPort(d)
    \/ AttachNodeFails(d) \/ AttachRefused(d) \/ AttachPlugs(d) \/ Detach(d)

DiskNext == VmMoves \/ \E d \in Disks : DiskCall(d) \/ GuestReleases(d)

DiskSpec == DiskInit /\ [][DiskNext]_diskVars
DiskFairSpec == DiskSpec /\ ThreadFairness /\ WF_vars(Agent)

-----------------------------------------------------------------------------
\* While a VM can be called, its ports know what QEMU has: every block node that
\* attach_disk made is booked on exactly one port, no port is booked without one,
\* and a device the guest still has sits on the port booked for it, so that no
\* other disk is ever plugged there.  A refused device_add whose clean-up fails,
\* a device_del the guest has not followed and a sweep that stops half-way keep
\* it; an answer that is lost costs the VM (Dead).
PortsOwnDisks ==
    (state \in {"Booted", "Paused"} /\ qemu = "up" /\ pc # "mark_vmm") =>
        /\ nodes = {slots[p] : p \in Ports} \ {NoDisk}
        /\ \A p, q \in Ports : slots[p] = slots[q] /\ slots[p] # NoDisk => p = q
        /\ \A d \in Disks : bus[d] # NoPort => bus[d] \in Ports /\ slots[bus[d]] = d

=============================================================================
