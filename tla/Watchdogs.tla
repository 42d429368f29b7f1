----------------------------- MODULE Watchdogs -----------------------------
(***************************************************************************)
(* The deadlines of a test file: its thread, which reports pool waits to   *)
(* the WaitSink, the file watchdog (scheduler/dispatch.rs, run_one_file)   *)
(* and the watchdog of the test it is running (lua/runner.rs,              *)
(* run_file_full).                                                         *)
(*                                                                         *)
(* A watchdog is a thread of its own.  It reads the clock, the settled     *)
(* nanoseconds and the live park in separate steps, in the order its code  *)
(* evaluates them, so the file's thread may park and unpark in between.    *)
(* Time is counted in ticks and stops at MaxTime.                          *)
(***************************************************************************)
EXTENDS WaitSink, Sequences

CONSTANTS
    FileTimeout,    \* FileTimeout::Wall
    TestTimeout,    \* meta.timeout of the test, or the file's default
    Armed,          \* the sets of watchdogs a file may run under: a disabled file
                    \* timeout and a test without a deadline spawn none
    MaxTime         \* bound on the clock

ASSUME DeadlineAssumption ==
    /\ FileTimeout \in Nat /\ TestTimeout \in Nat /\ MaxTime \in Nat
    /\ Armed \subseteq SUBSET Kinds

Timeout == [file |-> FileTimeout, test |-> TestTimeout]

\* Mutation of Body: `waited` adds the live park before it loads settled_ns
BodyLiveFirst ==
    [file |-> <<"start", "check", "elapsed", "live", "settled", "compare", "recheck", "shutdown">>,
     test |-> <<"start", "check", "live", "settled", "elapsed", "compare", "recheck", "shutdown">>]

\* The body of a watchdog thread.  The operands of `elapsed >= timeout + waited`
\* are read left to right in dispatch.rs; runner.rs binds `waited` first.
Body ==
    [file |-> <<"start", "check", "elapsed", "settled", "live", "compare", "recheck", "shutdown">>,
     test |-> <<"start", "check", "settled", "live", "elapsed", "compare", "recheck", "shutdown">>]

VARIABLES
    phase,          \* where the file's thread is
    stop,           \* `completed` of the file watchdog, `stop` of the test's
    at,             \* position of each watchdog in its Body; 0: not spawned
    started,        \* the watchdogs' locals, next to `waited`
    elapsed,
    before,         \* history: `parked` when the watchdog started
    fired           \* what each watchdog thread has returned: "none", "no", "yes"

locals == <<at, started, elapsed, waited, before, fired>>
vars == <<now, phase, sink, stop, locals>>

Phases == {"chunk", "test", "join_test", "close", "join_file", "done"}

Init ==
    /\ now = 0 /\ phase = "chunk"
    /\ NewSink
    /\ stop = [k \in Kinds |-> FALSE]
    /\ \E A \in Armed : at = [k \in Kinds |-> IF k = "file" /\ k \in A THEN 1 ELSE 0]
    /\ started = [k \in Kinds |-> 0]
    /\ elapsed = [k \in Kinds |-> 0]
    /\ waited = [k \in Kinds |-> 0]
    /\ before = [k \in Kinds |-> 0]
    /\ fired = [k \in Kinds |-> "none"]

Tick ==
    /\ now < MaxTime
    /\ now' = now + 1
    /\ parked' = IF parkedSince >= 0 THEN parked + 1 ELSE parked
    /\ UNCHANGED <<phase, parkedSince, settled, stop, locals>>

-----------------------------------------------------------------------------
\* The file's thread, running Lua in its chunk, a test or the closing walk
Runs == phase \in {"chunk", "test", "close"}

\* The watchdog was never spawned, or its thread has returned
Returned(k) == at[k] = 0 \/ fired[k] # "none"

\* sink_park, from acquire_inner taking its ticket
Park ==
    /\ Runs /\ parkedSince = -1
    /\ SinkPark
    /\ UNCHANGED <<now, phase, stop, locals>>

\* sink_unpark, from withdraw
Unpark ==
    /\ parkedSince >= 0
    /\ SinkUnpark
    /\ UNCHANGED <<now, phase, stop, locals>>

\* The test's watchdog is spawned, then the test runs
BeginTest ==
    /\ phase = "chunk" /\ parkedSince = -1
    /\ phase' = "test"
    /\ \E A \in Armed : /\ "file" \in A <=> at["file"] # 0
                        /\ at' = [at EXCEPT !.test = IF "test" \in A THEN 1 ELSE 0]
    /\ UNCHANGED <<now, sink, stop, started, elapsed, waited, before, fired>>

\* The test function returned or raised: stop the watchdog, then join it
StopTest ==
    /\ phase = "test" /\ parkedSince = -1
    /\ phase' = "join_test"
    /\ stop' = [stop EXCEPT !.test = TRUE]
    /\ UNCHANGED <<now, sink, locals>>

JoinTest ==
    /\ phase = "join_test" /\ Returned("test")
    /\ phase' = "close"
    /\ UNCHANGED <<now, sink, stop, locals>>

\* The test function panicked: the loop is left, the watchdog is not stopped
PanicTest ==
    /\ phase = "test" /\ parkedSince = -1
    /\ phase' = "close"
    /\ UNCHANGED <<now, sink, stop, locals>>

\* run_file_full returned (a chunk that raises runs no test)
Complete ==
    /\ phase \in {"chunk", "close"} /\ parkedSince = -1
    /\ phase' = "join_file"
    /\ stop' = [stop EXCEPT !.file = TRUE]
    /\ UNCHANGED <<now, sink, locals>>

JoinFile ==
    /\ phase = "join_file" /\ Returned("file")
    /\ phase' = "done"
    /\ UNCHANGED <<now, sink, stop, locals>>

-----------------------------------------------------------------------------
(***************************************************************************)
(* The watchdog threads.                                                   *)
(***************************************************************************)
At(k) == IF at[k] = 0 THEN "none" ELSE Body[k][at[k]]

Advance(k) == at' = [at EXCEPT ![k] = @ + 1]

\* `let started = Instant::now()` on the watchdog's own thread
Start(k) ==
    /\ At(k) = "start" /\ Advance(k)
    /\ started' = [started EXCEPT ![k] = now]
    /\ before' = [before EXCEPT ![k] = parked]
    /\ UNCHANGED <<now, phase, sink, stop, elapsed, waited, fired>>

\* The two loads of the stop flag: when it is set the thread returns false;
\* the first opens a round of the loop, with a new `waited`
Check(k) ==
    /\ At(k) \in {"check", "recheck"} /\ fired[k] = "none"
    /\ IF stop[k] THEN /\ fired' = [fired EXCEPT ![k] = "no"]
                       /\ UNCHANGED <<at, waited>>
                  ELSE /\ Advance(k)
                       /\ waited' = [waited EXCEPT ![k] = IF At(k) = "check" THEN 0 ELSE @]
                       /\ UNCHANGED fired
    /\ UNCHANGED <<now, phase, sink, stop, started, elapsed, before>>

ReadElapsed(k) ==
    /\ At(k) = "elapsed" /\ Advance(k)
    /\ elapsed' = [elapsed EXCEPT ![k] = now - started[k]]
    /\ UNCHANGED <<now, phase, sink, stop, started, waited, before, fired>>

\* WaitSink::waited
ReadSettled(k) ==
    /\ At(k) = "settled" /\ Advance(k)
    /\ AddSettled(k)
    /\ UNCHANGED <<now, phase, sink, stop, started, elapsed, before, fired>>

ReadLive(k) ==
    /\ At(k) = "live" /\ Advance(k)
    /\ AddLive(k)
    /\ UNCHANGED <<now, phase, sink, stop, started, elapsed, before, fired>>

\* Past the deadline the loop is left, before it the thread sleeps and checks again
Overdue(k) == elapsed[k] >= Timeout[k] + waited[k]

\* Mutation of Compare: `started` is taken afresh in every round
CompareRestarts(k) ==
    /\ At(k) = "compare"
    /\ at' = [at EXCEPT ![k] = IF Overdue(k) THEN @ + 1 ELSE 1]
    /\ UNCHANGED <<now, phase, sink, stop, started, elapsed, waited, before, fired>>

Compare(k) ==
    /\ At(k) = "compare"
    /\ at' = [at EXCEPT ![k] = IF Overdue(k) THEN @ + 1 ELSE 2]
    /\ UNCHANGED <<now, phase, sink, stop, started, elapsed, waited, before, fired>>

\* lab.shutdown(); true
Shutdown(k) ==
    /\ At(k) = "shutdown" /\ fired[k] = "none"
    /\ fired' = [fired EXCEPT ![k] = "yes"]
    /\ UNCHANGED <<now, phase, sink, stop, at, started, elapsed, waited, before>>

Watchdog(k) ==
    \/ Start(k) \/ Check(k) \/ ReadElapsed(k) \/ ReadSettled(k) \/ ReadLive(k)
    \/ Compare(k) \/ Shutdown(k)

Done == phase = "done" /\ (\A k \in Kinds : Returned(k)) /\ UNCHANGED vars

Next ==
    \/ Tick \/ Park \/ Unpark
    \/ BeginTest \/ StopTest \/ JoinTest \/ PanicTest \/ Complete \/ JoinFile
    \/ \E k \in Kinds : Watchdog(k)
    \/ Done

Spec == Init /\ [][Next]_vars

\* The clock advances and the watchdog threads are scheduled; nothing is
\* assumed of the file's thread, which may park or run for ever
FairSpec == Spec /\ WF_vars(Tick) /\ \A k \in Kinds : WF_vars(Watchdog(k))

-----------------------------------------------------------------------------
\* Every local is a time, every position one of the thread's body, and a thread
\* that returned TRUE is one that reached its `lab.shutdown()`.
TypeOK ==
    /\ now \in 0..MaxTime
    /\ phase \in Phases
    /\ parkedSince \in -1..now /\ settled \in 0..now /\ parked \in 0..now
    /\ stop \in [Kinds -> BOOLEAN]
    /\ at \in [Kinds -> 0..8]
    /\ started \in [Kinds -> 0..now]
    /\ elapsed \in [Kinds -> 0..now]
    /\ waited \in [Kinds -> Nat]
    /\ before \in [Kinds -> 0..parked]
    /\ fired \in [Kinds -> {"none", "no", "yes"}]
    /\ \A k \in Kinds : fired[k] = "yes" => at[k] = 8

\* The time a watchdog has seen the file's thread do its own work
OwnWork(k) == now - started[k] - (parked - before[k])

\* A file or a test that has spent its budget on its own work ends or is torn
\* down: its watchdog reaches lab.shutdown(), however the waits fall around its
\* reads.  (Waits before the watchdog started are not held against it here;
\* whether the lab's VMs let shutdown have their mutex is VmLifecycle's matter.)
OverlongIsStopped ==
    \A k \in Kinds :
        (At(k) \notin {"none", "start"} /\ now - started[k] - parked >= Timeout[k])
            ~> (At(k) = "shutdown" \/ fired[k] # "none")

=============================================================================
