------------------------------ MODULE FileRun ------------------------------
(***************************************************************************)
(* What one test file holds of the pool, from its first boot to the end of *)
(* run_one_file: its Account (scheduler/pool.rs), the solo boots of its    *)
(* VMs (vm.rs), the joint holds of lab:boot() (lab.rs), a watchdog's       *)
(* lab.shutdown() and the dispatcher's wind-down (scheduler/dispatch.rs).  *)
(*                                                                         *)
(* The pool is seen from the file: a request is granted or refused, and a  *)
(* wait is a request not yet granted (ResourcePool has the other side).    *)
(* Amounts have one axis here.  The lab tree is the root with one sub-lab; *)
(* VmLifecycle has what happens inside one VM's boot and shutdown, which   *)
(* are single steps here except for the launch, during which a watchdog    *)
(* may shut the VM down.                                                   *)
(***************************************************************************)
EXTENDS Integers, FiniteSets

CONSTANTS
    Vms,            \* the VMs the file declares
    Home,           \* the lab each was created in: "root" or "sub"
    Cost,           \* what each runs with: BootOpts::sizing plus the overhead
    Claims,         \* the amounts provium:claim may ask for
    Watched         \* the file has a watchdog

Labs == {"root", "sub"}

ASSUME FileAssumption ==
    /\ IsFiniteSet(Vms) /\ Home \in [Vms -> Labs] /\ Cost \in [Vms -> Nat \ {0}]
    /\ Claims \subseteq Nat /\ Watched \in BOOLEAN

VARIABLES
    vm,             \* state of each VM: "Created", "Booted" or "Off"
    origin,         \* history: "none", "solo", "lab" or "restore"
    taken,          \* AccountClaim.taken
    budget,         \* AccountClaim.budget: held (is Some), total, used
    hold,           \* VmInner.boot_reservation: "none", "pool" or "claim"
    joint,          \* the boot_reservations of the labs
    pc,             \* the file's thread
    target,         \* the VM or the lab of the call under way
    pending,        \* the Hold in the local variable of a boot under way
    todo,           \* members whose boot thread has not returned
    failed,         \* a member's boot has failed
    dog,            \* the watchdog: "armed", "batch", "returned"
    dogTodo         \* VMs its lab.shutdown() has yet to shut down

account == <<taken, budget>>
batch == <<target, pending, todo, failed>>
fileVars == <<vm, origin, account, hold, joint, pc, batch, dog, dogTodo>>

\* A Hold: where it comes from, who keeps it (a lab's list, or the VM itself) and
\* the VMs it pays for
NoHold == [src |-> "none", lab |-> "vm", members |-> {}]

Subtree(l) == IF l = "root" THEN Vms ELSE {v \in Vms : Home[v] = "sub"}

\* The sum of what the VMs of S cost, counted unit by unit
Price(S) == Cardinality(UNION {{v} \X (1..Cost[v]) : v \in S})

FileInit ==
    /\ vm = [v \in Vms |-> "Created"] /\ origin = [v \in Vms |-> "none"]
    /\ taken = FALSE /\ budget = [held |-> FALSE, total |-> 0, used |-> 0]
    /\ hold = [v \in Vms |-> "none"] /\ joint = {}
    /\ pc = "run" /\ target = "root" /\ pending = NoHold /\ todo = {} /\ failed = FALSE
    /\ dog = (IF Watched THEN "armed" ELSE "returned") /\ dogTodo = {}

-----------------------------------------------------------------------------
(***************************************************************************)
(* The account.                                                            *)
(***************************************************************************)
\* Lab::claim and Account::set_claim, once the pool grants the amount
Claim(a) ==
    /\ pc = "run" /\ ~taken
    /\ taken' = TRUE /\ budget' = [held |-> TRUE, total |-> a, used |-> 0]
    /\ UNCHANGED <<vm, origin, hold, joint, pc, batch, dog, dogTodo>>

\* Account::slice: lend the amount if the claim covers it
Slice(amount) ==
    /\ budget.held /\ budget.used + amount <= budget.total
    /\ budget' = [budget EXCEPT !.used = @ + amount]

\* crate::scheduler::reserve: a slice of the claim if there is one, else the pool
ReserveFor(amount, src) ==
    \/ src = "claim" /\ Slice(amount)
    \/ src = "pool" /\ ~budget.held /\ UNCHANGED budget

\* ClaimSlice::drop, return_slice: back to the claim, if it is still there;
\* `returned` are the VMs the dropped slices covered
Dropped(returned) ==
    budget' = IF budget.held
              THEN [budget EXCEPT !.used = IF @ > Price(returned) THEN @ - Price(returned) ELSE 0]
              ELSE budget

\* Mutation of Lent: the pool's own holds are returned to the claim as well
LentOrPool(S) == {v \in S : hold[v] # "none"}

\* What the slices among the solo holds of S, and among the joint holds J, cover
Lent(S) == {v \in S : hold[v] = "claim"}
LentBy(J) == UNION {j.members : j \in {k \in J : k.src = "claim"}}

-----------------------------------------------------------------------------
(***************************************************************************)
(* Boots.  Only one of the file's calls is under way at a time.            *)
(***************************************************************************)
\* vm:boot() up to its launch.  A VM made in a sub-lab has no pool.
SoloReserve(v) ==
    /\ pc = "run" /\ vm[v] = "Created"
    /\ \E src \in {"none", "pool", "claim"} :
        /\ IF Home[v] = "root" THEN ReserveFor(Cost[v], src) ELSE src = "none" /\ UNCHANGED budget
        /\ pending' = [src |-> src, lab |-> "vm", members |-> {v}]
    /\ pc' = "solo" /\ target' = v
    /\ UNCHANGED <<vm, origin, taken, hold, joint, todo, failed, dog, dogTodo>>

\* The launch returns: install it, or lose it to an error or a shutdown
SoloInstall ==
    /\ pc = "solo" /\ pc' = "run" /\ pending' = NoHold
    /\ \/ /\ vm[target] = "Created"
          /\ vm' = [vm EXCEPT ![target] = "Booted"]
          /\ origin' = [origin EXCEPT ![target] = "solo"]
          /\ hold' = [hold EXCEPT ![target] = pending.src]
          /\ UNCHANGED budget
       \/ /\ Dropped(LentBy({pending}))
          /\ UNCHANGED <<vm, origin, hold>>
    /\ UNCHANGED <<taken, joint, target, todo, failed, dog, dogTodo>>

\* Lab::boot_with_pool up to its batch: one hold for the members still Created
LabBoot(l) ==
    LET fresh == {v \in Subtree(l) : vm[v] = "Created"} IN
    /\ pc = "run"
    /\ \/ fresh = {} /\ pending' = NoHold /\ UNCHANGED budget
       \/ /\ fresh # {}
          /\ \E src \in {"pool", "claim"} :
                /\ ReserveFor(Price(fresh), src)
                /\ pending' = [src |-> src, lab |-> l, members |-> fresh]
    /\ pc' = "batch" /\ target' = l /\ todo' = Subtree(l) /\ failed' = FALSE
    /\ UNCHANGED <<vm, origin, taken, hold, joint, dog, dogTodo>>

\* The thread of one member: Vm::boot without a pool.  It fails on a launch
\* error, and on any member that is not Created.
MemberBoot(v) ==
    /\ pc = "batch" /\ v \in todo /\ todo' = todo \ {v}
    /\ \/ /\ vm[v] = "Created"
          /\ vm' = [vm EXCEPT ![v] = "Booted"]
          /\ origin' = [origin EXCEPT ![v] = "lab"]
          /\ UNCHANGED failed
       \/ failed' = TRUE /\ UNCHANGED <<vm, origin>>
    /\ UNCHANGED <<account, hold, joint, pc, target, pending, dog, dogTodo>>

\* Every thread is joined: keep the hold if all booted, drop it otherwise
LabBooted ==
    /\ pc = "batch" /\ todo = {} /\ pc' = "run" /\ pending' = NoHold
    /\ IF failed
       THEN Dropped(LentBy({pending})) /\ UNCHANGED joint
       ELSE /\ joint' = IF pending = NoHold THEN joint ELSE joint \cup {pending}
            /\ UNCHANGED budget
    /\ UNCHANGED <<vm, origin, taken, hold, target, todo, failed, dog, dogTodo>>

\* vm:restore and fixtures: a running VM that reserved nothing
Restore(v) ==
    /\ pc = "run" /\ vm[v] = "Created"
    /\ vm' = [vm EXCEPT ![v] = "Booted"] /\ origin' = [origin EXCEPT ![v] = "restore"]
    /\ UNCHANGED <<account, hold, joint, pc, batch, dog, dogTodo>>

-----------------------------------------------------------------------------
(***************************************************************************)
(* Teardown.                                                               *)
(***************************************************************************)
\* Vm::shutdown on each of S, and the drop of their holds and of the joint ones J
TakeDown(S, J) ==
    /\ vm' = [v \in Vms |-> IF v \in S THEN "Off" ELSE vm[v]]
    /\ hold' = [v \in Vms |-> IF v \in S THEN "none" ELSE hold[v]]
    /\ joint' = joint \ J
    /\ Dropped(Lent(S) \cup LentBy(J))

\* The joint holds Lab::shutdown clears: those of the lab it is called on
Own(l) == {j \in joint : j.lab = l}

VmShutdown(v) ==
    /\ pc = "run" /\ vm[v] # "Off"
    /\ TakeDown({v}, {})
    /\ UNCHANGED <<origin, taken, pc, batch, dog, dogTodo>>

LabShutdown(l) ==
    /\ pc = "run"
    /\ TakeDown(Subtree(l), Own(l))
    /\ UNCHANGED <<origin, taken, pc, batch, dog, dogTodo>>

\* The watchdog fires: it collects the VMs, shuts each down on a thread of its
\* own, and clears the root's joint holds when all are joined
WatchdogFires ==
    /\ dog = "armed" /\ pc \in {"run", "solo", "batch", "join"}
    /\ dog' = "batch" /\ dogTodo' = Vms
    /\ UNCHANGED <<vm, origin, account, hold, joint, pc, batch>>

DogShuts(v) ==
    /\ dog = "batch" /\ v \in dogTodo /\ dogTodo' = dogTodo \ {v}
    /\ TakeDown({v}, {})
    /\ UNCHANGED <<origin, taken, pc, batch, dog>>

DogReturns ==
    /\ dog = "batch" /\ dogTodo = {} /\ dog' = "returned"
    /\ TakeDown({}, Own("root"))
    /\ UNCHANGED <<origin, taken, pc, batch, dogTodo>>

\* run_file has returned: `completed` is set and the watchdog joined
Complete ==
    /\ pc = "run" /\ pc' = "join"
    /\ UNCHANGED <<vm, origin, account, hold, joint, batch, dog, dogTodo>>

\* Mutation of ReleaseClaim: the watchdog is joined without being told to stop
ReleaseClaimUnflagged ==
    /\ pc = "join" /\ dog = "returned"
    /\ pc' = "shutdown"
    /\ budget' = [budget EXCEPT !.held = FALSE]
    /\ UNCHANGED <<vm, origin, taken, hold, joint, batch, dog, dogTodo>>

\* release_claim, once the watchdog is joined (an armed one sees the flag)
ReleaseClaim ==
    /\ pc = "join" /\ dog \in {"armed", "returned"}
    /\ dog' = "returned" /\ pc' = "shutdown"
    /\ budget' = [budget EXCEPT !.held = FALSE]
    /\ UNCHANGED <<vm, origin, taken, hold, joint, batch, dogTodo>>

\* Mutation of FinalShutdown: the lab is left to its drop
FinalShutdownSkipped ==
    /\ pc = "shutdown" /\ pc' = "done"
    /\ UNCHANGED <<vm, origin, account, hold, joint, batch, dog, dogTodo>>

\* root_lab.shutdown(), then the lab tree is dropped with the holds of its labs
FinalShutdown ==
    /\ pc = "shutdown" /\ pc' = "done"
    /\ TakeDown(Vms, joint)
    /\ UNCHANGED <<origin, taken, batch, dog, dogTodo>>

Ended == pc = "done" /\ UNCHANGED fileVars

-----------------------------------------------------------------------------
FileNext ==
    \/ \E a \in Claims : Claim(a)
    \/ \E v \in Vms : SoloReserve(v) \/ MemberBoot(v) \/ Restore(v) \/ VmShutdown(v) \/ DogShuts(v)
    \/ \E l \in Labs : LabBoot(l) \/ LabShutdown(l)
    \/ SoloInstall \/ LabBooted \/ WatchdogFires \/ DogReturns
    \/ Complete \/ ReleaseClaim \/ FinalShutdown \/ Ended

FileSpec == FileInit /\ [][FileNext]_fileVars

\* The launches and shutdowns of VMs return, and the dispatcher and the watchdog
\* are scheduled; the file's own script may run for ever
FairSpec ==
    /\ FileSpec
    /\ WF_fileVars(SoloInstall) /\ WF_fileVars(LabBooted)
    /\ \A v \in Vms : WF_fileVars(MemberBoot(v)) /\ WF_fileVars(DogShuts(v))
    /\ WF_fileVars(DogReturns) /\ WF_fileVars(ReleaseClaim) /\ WF_fileVars(FinalShutdown)

-----------------------------------------------------------------------------
Holds == [src : {"none", "pool", "claim"}, lab : Labs \cup {"vm"}, members : SUBSET Vms]

\* All the holds the file has, each with the VMs it pays for
AllHolds ==
    joint \cup {pending} \cup {[src |-> hold[v], lab |-> "vm", members |-> {v}] : v \in Vms}

\* The claim's books are true: `used` is what the slices alive add up to and
\* never passes the claim, whatever boots fail half-way, in whatever order the
\* watchdog and the file drop their slices, and whichever holds predate the claim.
UsedIsLent ==
    budget.held => /\ budget.used = Price(LentBy(AllHolds))
                   /\ budget.used <= budget.total

\* When run_one_file returns, the file runs nothing and holds nothing: no path
\* through failed boots, sub-labs, claims and watchdogs leaves a reservation.
AllIsReturned ==
    pc = "done" => /\ \A v \in Vms : vm[v] # "Booted"
                   /\ \A h \in AllHolds : h.src = "none"
                   /\ ~budget.held

\* A file whose script has ended, or whose watchdog has fired, gives everything
\* back: the wind-down cannot be stuck behind the watchdog, nor the reverse.
WindsDown == pc = "join" ~> pc = "done"

-----------------------------------------------------------------------------
=============================================================================
