------------------------------ MODULE LabHost ------------------------------
(***************************************************************************)
(* A lab's VMs on the host: `QemuVmm::launch_or_restore` for each of them  *)
(* (provium-host/src/vmm/qemu.rs, cid.rs), several at once when the lab    *)
(* boots or is restored, over the bridge they share (BridgeNet), and the   *)
(* lab's snapshot and restore (lab.rs).  The test's thread calls one       *)
(* operation at a time and waits in `boot` and `restore` for the threads   *)
(* that launch; beside it run other provium processes, which take vsock    *)
(* CIDs and scratch directories of the same host.                          *)
(***************************************************************************)
EXTENDS BridgeNet, Naturals

CONSTANTS
  MaxCid,      \* bound: CIDs this instance may count to
  CidRetries,  \* CID_RETRY_ATTEMPTS
  MaxEvents    \* bound: changes to the bridge, failures of the host and
               \* reservations by other processes, taken together

ASSUME HostAssumption ==
  /\ MaxCid \in Nat \ {0} /\ CidRetries \in Nat /\ MaxEvents \in Nat
  /\ IsFiniteSet(Vms) /\ Netems \cap {None, Tbf} = {}

VARIABLES
  net,     \* the lab's bridge, and the host's side of it
  nics,    \* VMs that remember being attached (`bridge_attachments`)
  state,   \* VmState of each VM; "absent" when the lab has no VM of the name
  job,     \* the launch of each VM
  qemu,    \* CID of each VM's live QEMU process, or 0
  next,    \* the CID allocator's counter
  dirs,    \* CIDs whose scratch directory exists
  rival,   \* CIDs of other provium processes' VMs; they have the directory
  phase,   \* what the test's thread is in
  saved,   \* the last lab snapshot: [vms, bridge], or no VMs
  stray,   \* history: a restore failed while others of it were launching
  events

vars == <<net, nics, state, job, qemu, next, dirs, rival, phase, saved, stray,
          events>>

Cids == 1..MaxCid
NoJob == [pc |-> "none"]
NoSave == [vms |-> {}, bridge |-> NewBridge]
Launching == {v \in Vms : job[v].pc \notin {"none", "failed"}}
Threads(how) == {v \in Launching : job[v].how = how}

Init ==
  /\ net = [NewBridge EXCEPT !.members = Vms] /\ nics = Vms /\ saved = NoSave
  /\ state = [v \in Vms |-> "created"]
  /\ job = [v \in Vms |-> NoJob] /\ qemu = [v \in Vms |-> 0]
  /\ next = 1 /\ rival = {} /\ dirs = {}
  /\ phase = "idle" /\ stray = FALSE /\ events = 0

launchVars == <<job, qemu, next, dirs, rival>>

(***************************************************************************)
(* The test's calls on the bridge.                                         *)
(***************************************************************************)
Event == events < MaxEvents /\ events' = events + 1

(* A call that changes nothing is a stuttering step. *)
OnBridge(n) ==
  /\ phase = "idle" /\ Event /\ net' = n /\ net' # net
  /\ UNCHANGED <<nics, state, launchVars, phase, saved, stray>>

Attach == \E v \in Vms :
  /\ phase = "idle" /\ Event /\ net' = attach(net, v) /\ nics' = nics \cup {v}
  /\ UNCHANGED <<state, launchVars, phase, saved, stray>>

Detach == \E v \in net.members : OnBridge(detach(net, v))

(* nic:disconnect and nic:reconnect *)
Disconnect == \E v \in net.members :
  OnBridge(IF v \in net.rtaps THEN unplug(net, v) ELSE detach(net, v))

Reconnect == \E v \in Vms :
  OnBridge(IF v \in net.rtaps THEN replug(net, v) ELSE attach(net, v))

Partition == \E p \in Pairs(Vms) :
  \/ OnBridge(partition(net, p[1], p[2]))
  \/ {p[1], p[2]} \subseteq net.members /\ OnBridge(partition_directional(net, p[1], p[2]))
  \/ OnBridge(partition_all(net))

Heal == \E p \in Pairs(Vms) :
  \/ OnBridge(unpartition(net, p[1], p[2]))
  \/ OnBridge(unpartition_directional(net, p[1], p[2]))
  \/ OnBridge(restore_all(net))

Isolate == \E v \in Vms : OnBridge(isolate(net, v)) \/ OnBridge(unisolate(net, v))

(* add_latency and its kind check membership; the bandwidth form does not. *)
Impair ==
  \/ \E x \in Netems \cup {None} : OnBridge(add_latency(net, x))
  \/ \E on \in BOOLEAN : OnBridge(bandwidth_limit(net, on))
  \/ \E p \in Pairs(Vms), on \in BOOLEAN : OnBridge(add_directional(net, p[1], p[2], on))

Uplink == \E on \in BOOLEAN : OnBridge(enable_uplink(net, on))
Reset == OnBridge(reset(net))
Close == OnBridge(unrealize(net))

(***************************************************************************)
(* launch_or_restore for one VM.                                           *)
(***************************************************************************)
At(v, pc) == job[v].pc = pc
Goes(v, pc) == job' = [job EXCEPT ![v].pc = pc]

(* A launch starts with the bridge when the VM has a NIC on it. *)
NewJob(v, how, wired) ==
  [pc |-> IF wired THEN "realise" ELSE "reserve", how |-> how, seen |-> None,
   cid |-> 0, tries |-> 0]

(* An error is returned: what the launch holds is let go of, or is not. *)
Fails(v) == job' = [job EXCEPT ![v] = [pc |-> "failed"]]

hostVars == <<qemu, next, dirs, rival>>
labVars == <<nics, state, phase, saved, stray>>

RealiseLook(v) ==
  /\ At(v, "realise")
  /\ job' = [job EXCEPT ![v].pc = "netem", ![v].seen = Seen(net, v)]
  /\ net' = MakeLink(net, Seen(net, v))
  /\ UNCHANGED <<hostVars, labVars, events>>

RealiseNetem(v) ==
  /\ At(v, "netem")
  /\ IF NetemFits(net, job[v].seen)
       THEN net' = PutNetem(net, job[v].seen) /\ Goes(v, "tap")
       ELSE Fails(v) /\ UNCHANGED net
  /\ UNCHANGED <<hostVars, labVars, events>>

RealiseTap(v) ==
  LET tapped == MakeTap(net, job[v].seen, v)
  IN  /\ At(v, "tap")
      /\ IF TapFits(net, job[v].seen) /\ ShapeFits(tapped, v)
           THEN /\ net' = Record(Shape(tapped, v), job[v].seen, v)
                /\ job' = [job EXCEPT ![v].pc = "reserve", ![v].seen = None]
           ELSE net' = tapped /\ Fails(v)
      /\ UNCHANGED <<hostVars, labVars, events>>

(* Mutant: create_dir_all, which takes a directory that is there. *)
FreeCidsShared == {c \in Cids : c >= next}
FreeCids == {c \in Cids : c >= next /\ c \notin dirs}

(* A CID and its scratch directory, then QEMU, which exits at once when the
   kernel refuses it the CID.  A failure before QEMU runs (the initrd, the
   mediated disks, the process) leaves the directory. *)
Reserve(v) ==
  LET c == Min(FreeCids)
  IN  /\ At(v, "reserve") /\ FreeCids # {}
      /\ next' = c + 1 /\ dirs' = dirs \cup {c}
      /\ \/ Fails(v) /\ Event /\ UNCHANGED qemu
         \/ /\ job' = [job EXCEPT ![v].pc = "await", ![v].cid = c]
            /\ \/ qemu' = [qemu EXCEPT ![v] = c] /\ UNCHANGED events
               \/ Event /\ UNCHANGED qemu
      /\ UNCHANGED <<net, rival, labVars>>

KillAndClean(v) ==
  /\ qemu' = [qemu EXCEPT ![v] = 0]
  /\ dirs' = dirs \ {job[v].cid}
  /\ UNCHANGED <<net, next, rival, labVars>>

(* The QMP socket never appears, or never answers. *)
ConnectFails(v) ==
  /\ At(v, "await") /\ Fails(v) /\ KillAndClean(v)
  /\ IF qemu[v] # 0 THEN Event ELSE UNCHANGED events

(* QEMU said "unable to set guest cid". *)
ConnectRetries(v) ==
  /\ At(v, "await") /\ qemu[v] = 0 /\ job[v].tries < CidRetries
  /\ job' = [job EXCEPT ![v].pc = "reserve", ![v].cid = 0, ![v].tries = @ + 1]
  /\ KillAndClean(v) /\ UNCHANGED events

(* The migration does not drain, or the guest cannot be told to `cont`. *)
IncomingFails(v) ==
  /\ At(v, "await") /\ qemu[v] # 0 /\ job[v].how = "restore"
  /\ Fails(v) /\ KillAndClean(v) /\ Event

AgentMissing(v) ==
  /\ At(v, "await") /\ qemu[v] # 0
  /\ Fails(v) /\ KillAndClean(v) /\ Event

AgentAnswers(v) ==
  /\ At(v, "await") /\ qemu[v] # 0
  /\ job' = [job EXCEPT ![v] = NoJob]
  /\ state' = [state EXCEPT ![v] = "booted"]
  /\ UNCHANGED <<net, hostVars, nics, phase, saved, stray, events>>

Launch == \E v \in Vms :
  \/ RealiseLook(v) \/ RealiseNetem(v) \/ RealiseTap(v)
  \/ Reserve(v) \/ ConnectFails(v) \/ ConnectRetries(v)
  \/ IncomingFails(v) \/ AgentMissing(v) \/ AgentAnswers(v)

(* Another provium process reserves a CID, and later ends its VM. *)
Rivals ==
  /\ \/ \E c \in {next, next + 1} \ dirs :
          Event /\ rival' = rival \cup {c} /\ dirs' = dirs \cup {c}
     \/ \E c \in rival :
          rival' = rival \ {c} /\ dirs' = dirs \ {c} /\ UNCHANGED events
  /\ UNCHANGED <<net, job, qemu, next, labVars>>

(***************************************************************************)
(* The test's calls on the VMs and the lab.                                *)
(***************************************************************************)
(* vm:boot, or lab:boot for every VM the lab has created. *)
Boot ==
  /\ phase = "idle"
  /\ \E vs \in SUBSET {v \in Vms : state[v] = "created"} :
       /\ vs # {} /\ phase' = "boot"
       /\ job' = [v \in Vms |-> CASE v \in vs -> NewJob(v, "boot", v \in nics)
                                  [] v \in Launching -> job[v]
                                  [] OTHER -> NoJob]
  /\ UNCHANGED <<net, nics, state, hostVars, saved, stray, events>>

(* The call returns once every thread is joined. *)
BootReturns ==
  /\ phase = "boot" /\ Threads("boot") = {}
  /\ phase' = "idle" /\ job' = [v \in Vms |-> IF v \in Launching THEN job[v] ELSE NoJob]
  /\ UNCHANGED <<net, nics, state, hostVars, saved, stray, events>>

(* vm:shutdown, and lab:remove of the VM *)
Shutdown == \E v \in Vms :
  /\ phase = "idle" /\ state[v] \in {"booted", "paused"}
  /\ state' = [state EXCEPT ![v] = "absent"] /\ nics' = nics \ {v}
  /\ dirs' = dirs \ {qemu[v]} /\ qemu' = [qemu EXCEPT ![v] = 0]
  /\ UNCHANGED <<net, job, next, rival, phase, saved, stray, events>>

(* What lab.json records of the bridge: pair cuts are left out when the
   whole bridge is cut, and kept only between members. *)
Captured(n) ==
  [NewBridge EXCEPT
     !.members = n.members, !.netem = n.netem, !.capped = n.capped,
     !.uplink = n.uplink, !.isolated = n.isolated \cap n.members,
     !.cuts = IF n.all THEN {} ELSE {c \in n.cuts : c \subseteq n.members},
     !.oneway = n.oneway, !.slow = n.slow, !.all = n.all]

(* Every VM is paused, saved and resumed on a thread of its own.  A save
   that fails, and a VM that is not up, fails the call; a VM whose save
   failed stays paused.  (The call returns at the first failure it joins;
   the threads it leaves behind are taken to have ended by then.) *)
LabSnapshot ==
  LET lab == {v \in Vms : state[v] # "absent"}
      live == {v \in lab : state[v] \in {"booted", "paused"}}
  IN  /\ phase = "idle" /\ lab # {} /\ saved = NoSave
      /\ \E broken \in SUBSET live :
           /\ IF broken = {} THEN UNCHANGED events ELSE Event
           /\ state' = [v \in Vms |-> IF v \in broken THEN "paused"
                                      ELSE IF v \in live THEN "booted" ELSE state[v]]
           /\ saved' = IF broken = {} /\ live = lab
                         THEN [vms |-> lab, bridge |-> Captured(net)] ELSE saved
      /\ UNCHANGED <<net, nics, launchVars, phase, stray>>

(* lab_restore: no VM of the snapshot may be in the lab.  The bridge gets
   its members, and each VM is launched with a NIC if it is one.  (Bound: no
   second restore while one that failed is still launching a VM of it.) *)
LabRestore ==
  /\ phase = "idle" /\ saved.vms # {}
  /\ \A v \in saved.vms : state[v] = "absent" /\ v \notin Launching
  /\ net' = [net EXCEPT !.members = @ \cup saved.bridge.members]
  /\ job' = [v \in Vms |-> IF v \in saved.vms
                             THEN NewJob(v, "restore", v \in saved.bridge.members) ELSE NoJob]
  /\ phase' = "restore"
  /\ UNCHANGED <<nics, state, hostVars, saved, stray, events>>

(* Realise every member, best effort. *)
RealiseMembers(n) == RealiseEach(n, saved.bridge.members, FALSE)

(* The recorded graph, re-applied operation by operation. *)
Shaped(n, b) ==
  LET slow == IF b.netem = None THEN n ELSE add_latency(n, b.netem)
  IN  IF b.capped THEN bandwidth_limit(slow, TRUE) ELSE slow

(* isolate, partition and partition_directional of each that is recorded.
   Each call rewrites all rules: what the last of them writes is left. *)
PairwiseCut(n, b) ==
  IF b.isolated = {} /\ b.cuts = {} /\ b.oneway = {} THEN n
  ELSE refresh_partitions([n EXCEPT !.isolated = @ \cup b.isolated,
                                    !.cuts = @ \cup b.cuts, !.oneway = @ \cup b.oneway])

SlowedDown(n, b) ==
  FoldSet(LAMBDA p, m : add_directional(m, p[1], p[2], TRUE), n, b.slow)

Uplinked(n, b) == IF b.uplink THEN enable_uplink(n, TRUE) ELSE n

(* Mutant: `partition_all` is not re-applied. *)
ImpairedPairwise(n, b) == Uplinked(SlowedDown(PairwiseCut(Shaped(n, b), b), b), b)
Impaired(n, b) ==
  LET m == SlowedDown(PairwiseCut(Shaped(n, b), b), b)
  IN  Uplinked(IF b.all THEN partition_all(m) ELSE m, b)

Reapply ==
  /\ phase = "restore" /\ Launching = {} /\ (\A v \in Vms : ~At(v, "failed"))
  /\ net' = Impaired(RealiseMembers(net), saved.bridge)
  /\ phase' = "resume"
  /\ UNCHANGED <<nics, state, launchVars, saved, stray, events>>

(* The first failed thread to be joined ends the call.  What came up stays
   up, and the threads not yet joined go on launching. *)
RestoreFails ==
  /\ phase = "restore" /\ (\E v \in Vms : At(v, "failed"))
  /\ phase' = "idle" /\ stray' = (stray \/ Launching # {})
  /\ job' = [v \in Vms |-> IF v \in Launching THEN job[v] ELSE NoJob]
  /\ UNCHANGED <<net, nics, state, hostVars, saved, events>>

(* Vm::resume of every restored VM: an error from any state but Paused. *)
Resume ==
  /\ phase = "resume"
  /\ phase' = IF \A v \in saved.vms : state[v] = "paused" THEN "idle" ELSE "refused"
  /\ UNCHANGED <<net, nics, state, launchVars, saved, stray, events>>

RestoreReturns ==
  /\ phase = "refused" /\ phase' = "idle"
  /\ UNCHANGED <<net, nics, state, launchVars, saved, stray, events>>

Next ==
  \/ Attach \/ Detach \/ Disconnect \/ Reconnect
  \/ Partition \/ Heal \/ Isolate \/ Impair \/ Uplink \/ Reset \/ Close
  \/ Boot \/ BootReturns \/ Shutdown
  \/ LabSnapshot \/ LabRestore \/ Reapply \/ RestoreFails \/ Resume \/ RestoreReturns
  \/ Launch \/ Rivals

Spec == Init /\ [][Next]_vars

(***************************************************************************)
(* Properties.                                                             *)
(***************************************************************************)
(* Between VMs whose TAPs were up at the last refresh, the host drops
   exactly what the graph cuts, whatever was partitioned, healed, isolated,
   detached, reset or restored in between; and it never drops what the graph
   does not cut (Bridge::refresh_partitions after every change).  A TAP that
   came up since is in `late`: realize_for_vm does not refresh the rules. *)
CutsAreExact ==
  /\ \A p \in Pairs(net.rtaps \ net.late) : Cut(net, p[1], p[2]) <=> p \in net.drops
  /\ \A p \in net.drops : Cut(net, p[1], p[2])

(* Once no launch is under way the host has exactly the interfaces the
   bridge remembers, so that Bridge::unrealize leaves nothing behind: also
   after launches that raced each other to realise it, or failed.  Only a
   failed restore, which leaves launches running behind the test's back, is
   excepted: `stray`. *)
HostIsAccounted ==
  Launching = {} /\ ~stray =>
    /\ net.taps = net.rtaps /\ net.link = net.up /\ net.nat = net.rnat
    /\ ~net.up => net.root = None /\ net.drops = {} /\ net.shaped = {}

(* A QEMU process belongs to a launch that is waiting for it or to a VM that
   is up; and the scratch directory of a VM, and so its CID, is nobody
   else's, in this process or another (the atomic create_dir). *)
Cid(v) == IF qemu[v] # 0 THEN qemu[v]
          ELSE IF job[v].pc = "await" THEN job[v].cid ELSE 0

LaunchIsOwned ==
  /\ \A v \in Vms : qemu[v] # 0 =>
       \/ job[v].pc = "await"
       \/ job[v].pc = "none" /\ state[v] \in {"booted", "paused"}
  /\ \A v \in Vms : Cid(v) # 0 =>
       /\ Cid(v) \in dirs \ rival
       /\ \A w \in Vms \ {v} : Cid(w) # Cid(v)

(* When lab_restore comes to resume the VMs, the host already keeps apart
   those the snapshot kept apart: the graph is re-applied after the TAPs are
   up (lab.rs step 2.5 before step 3). *)
RestoreSeals ==
  phase = "resume" =>
    \A p \in Pairs(saved.vms \cap saved.bridge.members) :
      Cut(saved.bridge, p[1], p[2]) => p \in net.drops

(* lab_restore fails only when a VM could not be restored: resuming VMs that
   were all launched succeeds.  Its step 4 expects them paused. *)
RestoreSucceeds == phase # "refused"

=============================================================================
