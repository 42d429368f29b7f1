---------------------------- MODULE FixtureCache ----------------------------
(***************************************************************************)
(* The fixture cache (fixture.rs, lua/lab_ud.rs, lua/fixture_build.rs and  *)
(* the `provium fixture` commands).  A key has an entry, the file          *)
(* <key>.snap or the directory <key>.lab, and a lock file that builders    *)
(* take with flock.  flock locks the file that was opened, not its name:   *)
(* whoever opens the name again after it was removed locks another file,   *)
(* so lock files are inodes here and the name is a link to one.            *)
(*                                                                         *)
(* Each caller is a thread of a provium process.  A build runs a Lua chunk *)
(* that may ask for other fixtures, so a caller has a stack of calls.      *)
(***************************************************************************)
EXTENDS Integers, FiniteSets, Sequences

CONSTANTS
    Callers,
    Keys,
    LabKeys,    \* the keys whose chunk returns provium:snapshot()
    Deps        \* the fixtures that a chunk asks for

ASSUME CacheAssumption ==
    /\ LabKeys \subseteq Keys
    /\ Deps \in [Keys -> SUBSET Keys]

VARIABLES
    stack,      \* of each caller: its calls, the innermost first
    entry,      \* of each key: the entry and who is writing to it
    zst,        \* of each key: <key>.snap.zst
    link        \* of each lock file's name: the inode it names

cacheVars == <<stack, entry, zst, link>>

Absent == [st |-> "none", w |-> {}]
Whole == [st |-> "whole", w |-> {}]

Top(c) == Head(stack[c])
Doing(c, pc) == stack[c] # <<>> /\ Top(c).pc = pc
\* The innermost call of c goes on as f
Becomes(c, f) == stack' = [stack EXCEPT ![c] = <<f>> \o Tail(@)]
GoesOn(c, f) == Becomes(c, f) /\ UNCHANGED link
Step(c, pc) == GoesOn(c, [Top(c) EXCEPT !.pc = pc])
\* What the call has emitted last; a second Done, or one that answers neither
\* a Waiting nor a Started, is stray
Emit(f, e) ==
    [f EXCEPT !.ev = IF e = "done" /\ @ \notin {"waiting", "started"} THEN "stray" ELSE e]
Contended(f) == f.ev = "waiting"

\* Mutations of LockName: the commands lock a file of their own; one lock file
\* for the whole cache
LockNameOfCommand(k, op) ==
    IF op # "call" \/ k \in LabKeys THEN <<k, "lab.lock">> ELSE <<k, "lock">>

LockNameOfCache(k, op) == <<CHOOSE l \in Keys : TRUE, "lock">>

\* A lab has a lock file of its own, which the commands do not use
LockName(k, op) ==
    IF op = "call" /\ k \in LabKeys THEN <<k, "lab.lock">> ELSE <<k, "lock">>
Names == Keys \X {"lock", "lab.lock"}
Calls(s) == {s[i] : i \in 1 .. Len(s)}
Frames(c) == Calls(stack[c])
\* The inodes of a name: the one it links to and the ones that are still open
Opened(n) == {f.fd : f \in {f \in UNION {Frames(c) : c \in Callers} : LockName(f.key, f.op) = n}}
\* The file that was opened is locked from here on, until the call ends
Holds(f) == f.pc \notin {"lookup", "evict", "unlink", "open", "flock"}
SameFile(f, g) == f.fd = g.fd /\ LockName(f.key, f.op) = LockName(g.key, g.op)
Holding(c, g) == \E f \in Frames(c) : Holds(f) /\ SameFile(f, g)
Fresh(n) == CHOOSE i \in 1 .. Cardinality(Opened(n)) + 1 :
                i \notin Opened(n) /\ \A j \in 1 .. i - 1 : j \in Opened(n)

NewCall(k, op) ==
    [key |-> k, op |-> op, pc |-> IF op = "rebuild" THEN "evict" ELSE "lookup",
     fd |-> 0, corrupt |-> FALSE, todo |-> {}, ev |-> "none"]

CacheInit ==
    /\ stack = [c \in Callers |-> <<>>]
    /\ entry = [k \in Keys |-> Absent] /\ zst = [k \in Keys |-> Absent]
    /\ link = [n \in Names |-> 0]

-----------------------------------------------------------------------------
(* Calls                                                                    *)

\* provium:vm_fixture, provium:lab_fixture, `fixture build`, `fixture rebuild`
Call(c, k, op) ==
    /\ stack[c] = <<>>
    /\ stack' = [stack EXCEPT ![c] = <<NewCall(k, op)>>]
    /\ UNCHANGED <<entry, zst, link>>

\* Calls of c end, and their files are closed.  A lock file that nobody has open
\* is created again when it is missing: it counts as removed
Leaves(c, left) ==
    /\ stack' = [stack EXCEPT ![c] = left]
    /\ link' = [n \in Names |->
            IF \E f \in Calls(left) \cup UNION {Frames(d) : d \in Callers \ {c}} :
                LockName(f.key, f.op) = n /\ f.fd = link[n] THEN link[n] ELSE 0]

\* The call ends, with or without an error: its BuildLock drops
Return(c) == Leaves(c, Tail(stack[c]))

\* Restoring always fails on a truncated file, and may fail on any other: it
\* does on a lab with vms, whose lab.json names the snapshots in the directory
\* it was built in, which the install renamed
Restorable(k) == entry[k].st \in {"whole", "mixed"}

Hit(c) ==
    LET k == Top(c).key
    IN  /\ Doing(c, "lookup") /\ Top(c).op = "call" /\ Restorable(k)
        /\ Return(c)
        /\ UNCHANGED <<entry, zst>>

\* An entry that does not restore: a vm's is removed at once, a lab's is left
\* until the lock is held
HitFails(c) ==
    LET f == Top(c)
    IN  /\ Doing(c, "lookup") /\ f.op = "call" /\ entry[f.key].st # "none"
        /\ GoesOn(c, [f EXCEPT !.pc = IF f.key \in LabKeys THEN "open" ELSE "evict",
                             !.corrupt = f.key \in LabKeys])
        /\ UNCHANGED <<entry, zst>>

Miss(c) ==
    /\ Doing(c, "lookup") /\ (entry[Top(c).key].st = "none"
                           \/ (Top(c).op = "build" /\ Top(c).key \in LabKeys))
    /\ Step(c, "open")
    /\ UNCHANGED <<entry, zst>>

\* `fixture build`: already built
Built(c) ==
    /\ Doing(c, "lookup") /\ Top(c).op = "build"
    /\ entry[Top(c).key].st # "none" /\ Top(c).key \notin LabKeys
    /\ Return(c)
    /\ UNCHANGED <<entry, zst>>

-----------------------------------------------------------------------------
(* Removal: remove_file of the entry, then of the lock file                 *)

RemoveEntry(c) ==
    /\ Doing(c, "evict")
    /\ entry' = [entry EXCEPT ![Top(c).key] = Absent]
    /\ Step(c, "unlink")
    /\ UNCHANGED zst

\* `fixture rebuild` removes both lock files
RemoveLock(c) ==
    /\ Doing(c, "unlink")
    /\ LET k == Top(c).key
           gone == {<<k, "lock">>} \cup
                   (IF Top(c).op = "rebuild" THEN {<<k, "lab.lock">>} ELSE {})
       IN  link' = [n \in Names |-> IF n \in gone THEN 0 ELSE link[n]]
    /\ Becomes(c, [Top(c) EXCEPT !.pc = "open"])
    /\ UNCHANGED <<entry, zst>>

\* The cache is cleared by others: evict_to, when another provium starts with
\* the cache over its limit, removes an entry and then its lock file; `fixture
\* clean` removes every file, one by one and whoever uses it.  Any of these
\* removals can thus happen at any time
Evict(k) ==
    /\ entry[k].st # "none"
    /\ entry' = [entry EXCEPT ![k] = Absent]
    /\ UNCHANGED <<stack, zst, link>>

EvictLock(n) ==
    /\ link[n] # 0
    /\ link' = [link EXCEPT ![n] = 0]
    /\ UNCHANGED <<stack, entry, zst>>

Clean(k) ==
    /\ zst[k].st # "none"
    /\ zst' = [zst EXCEPT ![k] = Absent]
    /\ UNCHANGED <<stack, entry, link>>

-----------------------------------------------------------------------------
(* The lock                                                                 *)

OpenLock(c) ==
    LET n == LockName(Top(c).key, Top(c).op)
        i == IF link[n] = 0 THEN Fresh(n) ELSE link[n]
    IN  /\ Doing(c, "open")
        /\ link' = [link EXCEPT ![n] = i]
        /\ Becomes(c, [Top(c) EXCEPT !.pc = "flock", !.fd = i])
        /\ UNCHANGED <<entry, zst>>

Locked(f) == \E d \in Callers : Holding(d, f)

FlockFree(c) ==
    /\ Doing(c, "flock") /\ ~Locked(Top(c))
    /\ GoesOn(c, [Top(c) EXCEPT !.pc = IF Top(c).corrupt THEN "restored" ELSE "recheck",
                              !.corrupt = FALSE])
    /\ UNCHANGED <<entry, zst>>

\* Held by another: on_wait, then the flock that blocks
FlockWaits(c) ==
    /\ Doing(c, "flock") /\ Locked(Top(c)) /\ ~Contended(Top(c))
    /\ GoesOn(c, Emit(Top(c), "waiting"))
    /\ UNCHANGED <<entry, zst>>

Flock(c) == FlockFree(c) \/ FlockWaits(c)

\* A lab's entry that did not restore is tried again, now under the lock
Recovers(c) ==
    /\ Doing(c, "restored") /\ Restorable(Top(c).key)
    /\ Return(c)
    /\ UNCHANGED <<entry, zst>>

RemoveCorrupt(c) ==
    /\ Doing(c, "restored")
    /\ entry' = [entry EXCEPT ![Top(c).key] = Absent]
    /\ Step(c, "recheck")
    /\ UNCHANGED zst

\* Somebody built it in the meantime.  `fixture build` looks for a vm's entry
\* only, and `fixture rebuild` does not look
Present(f) ==
    CASE f.op = "call" -> entry[f.key].st # "none"
      [] f.op = "build" -> f.key \notin LabKeys /\ entry[f.key].st # "none"
      [] f.op = "rebuild" -> FALSE

\* Mutation of RecheckHit: the trailing Done that both paths once shared
RecheckHitDone(c) ==
    /\ Doing(c, "recheck") /\ Present(Top(c))
    /\ IF Top(c).op = "call"
       THEN GoesOn(c, [Emit(Top(c), "done") EXCEPT !.pc = "restore"])
       ELSE Return(c)
    /\ UNCHANGED <<entry, zst>>

RecheckHit(c) ==
    LET f == Top(c)
    IN  /\ Doing(c, "recheck") /\ Present(f)
        /\ IF f.op = "call"
           THEN GoesOn(c, [IF Contended(f) THEN Emit(f, "done") ELSE f EXCEPT !.pc = "restore"])
           ELSE Return(c)
        /\ UNCHANGED <<entry, zst>>

RecheckMiss(c) ==
    /\ Doing(c, "recheck") /\ ~Present(Top(c))
    /\ GoesOn(c, [Emit(Top(c), "started") EXCEPT !.pc = "build", !.todo = Deps[Top(c).key]])
    /\ UNCHANGED <<entry, zst>>

-----------------------------------------------------------------------------
(* Files that builders write                                                *)

\* A file somebody is writing to, and another opens it to write
Truncate(file, c) == [st |-> IF file.w = {} THEN "part" ELSE "mixed", w |-> file.w \cup {c}]
\* c has written all it has to write
Finish(file, c) ==
    [st |-> IF file.st = "part" /\ file.w = {c} THEN "whole" ELSE file.st, w |-> file.w \ {c}]
Abandon(file, c) == [file EXCEPT !.w = @ \ {c}]
\* A file left behind unfinished is truncated by the next that writes it
AbandonZst(file, c) == IF file.w \subseteq {c} THEN Absent ELSE Abandon(file, c)

-----------------------------------------------------------------------------
(* build_fixture: the chunk runs, and asks for its fixtures                 *)

BuildAsks(c, d) ==
    /\ Doing(c, "build") /\ d \in Top(c).todo
    /\ stack' = [stack EXCEPT ![c] =
            <<NewCall(d, "call"), [Top(c) EXCEPT !.todo = @ \ {d}]>> \o Tail(@)]
    /\ UNCHANGED <<entry, zst, link>>

\* It returns its snapshot; compress_zst opens <key>.snap.zst
BuildEnds(c) ==
    /\ Doing(c, "build") /\ Top(c).todo = {}
    /\ IF Top(c).key \in LabKeys THEN Step(c, "install") /\ UNCHANGED zst
       ELSE Step(c, "compressing") /\ zst' = [zst EXCEPT ![Top(c).key] = Truncate(@, c)]
    /\ UNCHANGED entry

\* The chunk raises, as it may when a fixture it asked for could not be had,
\* panics, or returns no snapshot of the right kind
BuildFails(c) ==
    /\ Doing(c, "build")
    /\ Return(c)
    /\ UNCHANGED <<entry, zst>>

-----------------------------------------------------------------------------
(* Putting a vm's snapshot into the cache                                   *)

\* After the entry is in place: a call emits Done and restores, a command ends
InPlace(c) ==
    IF Top(c).op = "call"
    THEN GoesOn(c, [Emit(Top(c), "done") EXCEPT !.pc = "restore"])
    ELSE Return(c)

\* compress_zst returns, and rename(zst, entry), whose failure is ignored: the
\* file that c wrote to may have been renamed to the entry by another builder
CompressEnds(c) ==
    LET k == Top(c).key
    IN  /\ Doing(c, "compressing")
        /\ entry' = [entry EXCEPT ![k] =
                CASE zst[k].st # "none" -> IF c \in zst[k].w THEN Finish(zst[k], c) ELSE zst[k]
                  [] zst[k].st = "none" /\ c \in @.w -> Finish(@, c)
                  [] OTHER -> @]
        /\ zst' = [zst EXCEPT ![k] = Absent]
        /\ InPlace(c)

\* Not compressed: the snapshot is renamed, or copied when it is on another
\* file system
CompressFails(c) ==
    LET k == Top(c).key
        left == Abandon(entry[k], c)
    IN  /\ Doing(c, "compressing")
        /\ zst' = [zst EXCEPT ![k] = AbandonZst(@, c)]
        /\ \/ entry' = [entry EXCEPT ![k] = Whole] /\ InPlace(c)
           \/ entry' = [entry EXCEPT ![k] = Truncate(left, c)] /\ Step(c, "copying")

CopyEnds(c) ==
    LET k == Top(c).key
    IN  /\ Doing(c, "copying")
        /\ \/ /\ entry' = [entry EXCEPT ![k] = IF c \in @.w THEN Finish(@, c) ELSE @]
              /\ InPlace(c)
           \/ /\ entry' = [entry EXCEPT ![k] = Abandon(@, c)]
              /\ Return(c)
        /\ UNCHANGED zst

-----------------------------------------------------------------------------
(* Putting a lab's directory into the cache                                 *)

\* atomic_install_lab_dir for a call, by rename or by exchange; `fixture
\* build` removes what is there first, and `fixture rebuild` cannot rename
\* over it
Install(c) ==
    LET k == Top(c).key
    IN  /\ Doing(c, "install")
        /\ \/ /\ Top(c).op = "rebuild" => entry[k].st = "none"
              /\ entry' = [entry EXCEPT ![k] = Whole]
              /\ InPlace(c)
           \/ /\ entry' = IF Top(c).op = "build" THEN [entry EXCEPT ![k] = Absent] ELSE entry
              /\ Return(c)
        /\ UNCHANGED zst

\* No exchange on this kernel: the old directory is moved aside first
InstallAside(c) ==
    LET k == Top(c).key
    IN  /\ Doing(c, "install") /\ Top(c).op = "call" /\ entry[k].st # "none"
        /\ entry' = [entry EXCEPT ![k] = Absent]
        /\ UNCHANGED <<stack, zst, link>>

-----------------------------------------------------------------------------
(* The restore of what is in the cache now, still under the lock            *)

\* The call ends with it whether it succeeds or not
Restore(c) ==
    /\ Doing(c, "restore")
    /\ Return(c)
    /\ UNCHANGED <<entry, zst>>

\* The process is killed: its files stay as they are, its locks are free
Crash(c) ==
    /\ stack[c] # <<>> /\ Leaves(c, <<>>)
    /\ entry' = [k \in Keys |-> Abandon(entry[k], c)]
    /\ zst' = [k \in Keys |-> AbandonZst(zst[k], c)]

-----------------------------------------------------------------------------

CallStep(c) ==
    \/ Hit(c) \/ HitFails(c) \/ Miss(c) \/ Built(c)
    \/ RemoveEntry(c) \/ RemoveLock(c) \/ OpenLock(c) \/ Flock(c)
    \/ Recovers(c) \/ RemoveCorrupt(c) \/ RecheckHit(c) \/ RecheckMiss(c)
    \/ \E d \in Keys : BuildAsks(c, d)
    \/ BuildEnds(c) \/ BuildFails(c)
    \/ CompressEnds(c) \/ CompressFails(c) \/ CopyEnds(c)
    \/ Install(c) \/ InstallAside(c) \/ Restore(c)

CacheNext ==
    \/ \E c \in Callers :
        \/ \E k \in Keys, op \in {"call", "build", "rebuild"} : Call(c, k, op)
        \/ CallStep(c) \/ Crash(c)
    \/ \E k \in Keys : Evict(k) \/ Clean(k)
    \/ \E n \in Names : EvictLock(n)

CacheSpec == CacheInit /\ [][CacheNext]_cacheVars

-----------------------------------------------------------------------------
(* Properties                                                               *)

\* Two callers write to a vm's entry at once only when each has a lock file of
\* its own to hold, since the file of the one was removed while it held it (the
\* lock in `fixture build` is there so that a runner could not "race the install
\* step and leave torn writes", provium.rs:1666).
NoTornEntry ==
    \A k \in Keys \ LabKeys : \A c, d \in entry[k].w \cup zst[k].w : c # d =>
        \E f \in Frames(c), g \in Frames(d) :
            /\ f.key = k /\ g.key = k /\ LockName(k, f.op) = LockName(k, g.op)
            /\ f.fd # g.fd

\* The two paths below the lock "each emit AT MOST ONE FixtureBuildDone (paired
\* with either the earlier Waiting or a fresh Started)" (lab_ud.rs:1385).
DoneIsPaired ==
    \A c \in Callers : \A f \in Frames(c) : f.ev # "stray"

\* c is blocked in flock, and by whom
Waits(c) == Doing(c, "flock") /\ Locked(Top(c))
HolderOf(c) == {d \in Callers : Holding(d, Top(c))}

\* A build holds its lock while its chunk asks for other fixtures.  As long as
\* fixtures do not depend on themselves nobody waits for ever: among the
\* callers that wait there is one whose lock is held by a caller that runs.
NoStuckWaiter ==
    LET waiting == {c \in Callers : Waits(c)}
    IN  waiting # {} => \E c \in waiting : HolderOf(c) \ waiting # {}

=============================================================================
